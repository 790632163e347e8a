----------------------------- MODULE Sv2Admission -----------------------------
(***************************************************************************)
(* How src/src/sv2/transport.rs lets Stratum V2 connections in and out.    *)
(* The accept loop takes a permit of the total and one of the peer's       *)
(* address and spawns a task that owns both; the task waits for one of a   *)
(* few handshake permits, shakes hands, runs the connection and gives      *)
(* everything back as it ends.  A step is what one task does between two   *)
(* places where another may come in between.                               *)
(*                                                                         *)
(* What a connection does once it is served is Sv2Connection.  Its reader  *)
(* task keeps half of the socket, and may outlive it.                      *)
(***************************************************************************)
EXTENDS Naturals, Sequences, FiniteSets, Functions

CONSTANTS
  Conn,            \* the connections that peers make
  NoConn,          \* the accept loop has none in hand
  Addr,            \* the addresses of the peers
  AddrOf,          \* the address of each connection
  MaxConnections,  \* sv2_max_connections
  MaxPerIp,        \* sv2_max_connections_per_ip
  MaxHandshakes    \* sv2_max_handshakes

(* The configuration raises each limit to 1 at least. *)
ASSUME AdmissionAssumption ==
  /\ IsFiniteSet(Conn)
  /\ NoConn \notin Conn
  /\ AddrOf \in [Conn -> Addr]
  /\ {MaxConnections, MaxPerIp, MaxHandshakes} \subseteq Nat \ {0}

VARIABLES
  inHand,      \* the connection the accept loop has a permit for
  pc,          \* where each connection stands
  free,        \* connection_limiter: permits left
  counts,      \* ip_limiter: the addresses with connections
  handshakes,  \* handshake_limiter: permits left
  queue,       \* the tasks that wait for one of them, in order
  lingering,   \* connections that are over whose reader holds the socket
  opened, active, closed, succeeded, failed    \* counters

limitVars == <<free, counts, handshakes, queue>>
counterVars == <<opened, active, closed, succeeded, failed>>
vars == <<inHand, pc, limitVars, lingering, counterVars>>

-----------------------------------------------------------------------------
(* Types and small definitions                                             *)

Place ==
  {"away", "admitting", "spawned", "queued", "handshake", "serving", "ended",
   "counted", "ip_released", "gone", "refused"}

At(places) == {c \in Conn : pc[c] \in places}

(* Those that own a permit of the total, of their address, to shake hands. *)
Admitted == At({"spawned", "queued", "handshake", "serving", "ended", "counted"})
Holders == At({"admitting", "ip_released"}) \cup Admitted
From(a) == {c \in Admitted : AddrOf[c] = a}
Counted == At({"queued", "handshake", "serving", "ended"})

CountOf(a) == IF a \in DOMAIN counts THEN counts[a] ELSE 0

Put(f, x, y) == [z \in DOMAIN f \cup {x} |-> IF z = x THEN y ELSE f[z]]

TypeOK ==
  /\ inHand \in Conn \cup {NoConn}
  /\ pc \in [Conn -> Place]
  /\ free \in 0..MaxConnections
  /\ DOMAIN counts \subseteq Addr
  /\ \A a \in DOMAIN counts : counts[a] \in 1..MaxPerIp
  /\ handshakes \in 0..MaxHandshakes
  /\ queue \in Seq(Conn)
  /\ lingering \subseteq Conn
  /\ {opened, active, closed, succeeded, failed} \subseteq Nat

Init ==
  /\ inHand = NoConn
  /\ pc = [c \in Conn |-> "away"]
  /\ free = MaxConnections
  /\ counts = [a \in {} |-> 0]
  /\ handshakes = MaxHandshakes
  /\ queue = <<>>
  /\ lingering = {}
  /\ opened = 0
  /\ active = 0
  /\ closed = 0
  /\ succeeded = 0
  /\ failed = 0

Move(c, place) == pc' = [pc EXCEPT ![c] = place]

-----------------------------------------------------------------------------
(* Slips of the code that the runs must notice.  None is part of the model. *)

(* One connection too many from an address. *)
AddressIsOverFull(a) == CountOf(a) > MaxPerIp

(* The permit of the total is forgotten with a peer that is refused. *)
RefuseKeepingPermit == UNCHANGED free

(* The entry of an address stays when its last connection leaves. *)
ReleaseAddressKeepingEntry(a) == counts' = [counts EXCEPT ![a] = @ - 1]

(* release() takes the entry away though others share the address. *)
ReleaseWholeAddress(a) ==
  counts' = Restrict(counts, DOMAIN counts \ {a})

(* The permit is given back after a handshake that succeeded only. *)
EndHandshakeLeaking ==
  IF succeeded' > succeeded
  THEN handshakes' = handshakes + 1 ELSE UNCHANGED handshakes

(* A connection that is over is still counted as active. *)
CountClosedKeepingActive == active' = active /\ closed' = closed + 1

-----------------------------------------------------------------------------
(* The accept loop                                                         *)

AddressIsFull(a) == CountOf(a) >= MaxPerIp

(* Sv2Server::run after accept(): try_acquire_owned *)
AcceptTakes(c) ==
  /\ inHand = NoConn
  /\ pc[c] = "away"
  /\ free > 0
  /\ free' = free - 1
  /\ inHand' = c
  /\ Move(c, "admitting")
  /\ UNCHANGED <<counts, handshakes, queue, lingering, counterVars>>

AcceptRefuses(c) ==
  /\ inHand = NoConn
  /\ pc[c] = "away"
  /\ free = 0
  /\ Move(c, "refused")
  /\ UNCHANGED <<inHand, limitVars, lingering, counterVars>>

(* IpConnectionLimiter::try_acquire *)
AddressTakes(c) ==
  /\ inHand = c
  /\ ~AddressIsFull(AddrOf[c])
  /\ counts' = Put(counts, AddrOf[c], CountOf(AddrOf[c]) + 1)
  /\ inHand' = NoConn
  /\ Move(c, "spawned")
  /\ UNCHANGED <<free, handshakes, queue, lingering, counterVars>>

DropConnectionPermit == free' = free + 1

AddressRefuses(c) ==
  /\ inHand = c
  /\ AddressIsFull(AddrOf[c])
  /\ DropConnectionPermit
  /\ inHand' = NoConn
  /\ Move(c, "refused")
  /\ UNCHANGED <<counts, handshakes, queue, lingering, counterVars>>

-----------------------------------------------------------------------------
(* The task of a connection                                                *)

(* The semaphore serves its waiters in the order they came. *)
TaskStarts(c) ==
  /\ pc[c] = "spawned"
  /\ opened' = opened + 1
  /\ active' = active + 1
  /\ queue' = Append(queue, c)
  /\ Move(c, "queued")
  /\ UNCHANGED <<inHand, free, counts, handshakes, lingering, closed, succeeded,
                 failed>>

HandshakeStarts(c) ==
  /\ queue # <<>>
  /\ c = Head(queue)
  /\ handshakes > 0
  /\ handshakes' = handshakes - 1
  /\ queue' = Tail(queue)
  /\ Move(c, "handshake")
  /\ UNCHANGED <<inHand, free, counts, lingering, counterVars>>

DropHandshakePermit == handshakes' = handshakes + 1

HandshakeSucceeds(c) ==
  /\ pc[c] = "handshake"
  /\ succeeded' = succeeded + 1
  /\ DropHandshakePermit
  /\ Move(c, "serving")
  /\ UNCHANGED <<inHand, free, counts, queue, lingering, opened, active, closed,
                 failed>>

(* The first message does not come in time, or any error of the handshake. *)
HandshakeFails(c) ==
  /\ pc[c] = "handshake"
  /\ UNCHANGED succeeded
  /\ failed' = failed + 1
  /\ DropHandshakePermit
  /\ Move(c, "ended")
  /\ UNCHANGED <<inHand, free, counts, queue, lingering, opened, active, closed>>

(* Sv2Connection::run returns, always with an error.  Unless it was the    *)
(* reader's, or the setup's, the reader task is still waiting for a frame. *)
ConnectionEnds(c) ==
  /\ pc[c] = "serving"
  /\ Move(c, "ended")
  /\ lingering' \in {lingering, lingering \cup {c}}
  /\ UNCHANGED <<inHand, limitVars, counterVars>>

(* The reader gets a frame it cannot hand on, an error, or times out. *)
ReaderEnds(c) ==
  /\ c \in lingering
  /\ lingering' = lingering \ {c}
  /\ UNCHANGED <<inHand, pc, limitVars, counterVars>>

CountClosed ==
  /\ active' = IF active > 0 THEN active - 1 ELSE 0
  /\ closed' = closed + 1

TaskCounts(c) ==
  /\ pc[c] = "ended"
  /\ CountClosed
  /\ Move(c, "counted")
  /\ UNCHANGED <<inHand, limitVars, lingering, opened, succeeded, failed>>

(* The permits are dropped in the reverse of the order they are bound in. *)
ReleaseAddress(a) ==
  counts' = IF counts[a] = 1
            THEN Restrict(counts, DOMAIN counts \ {a})
            ELSE [counts EXCEPT ![a] = @ - 1]

TaskReleasesAddress(c) ==
  /\ pc[c] = "counted"
  /\ ReleaseAddress(AddrOf[c])
  /\ Move(c, "ip_released")
  /\ UNCHANGED <<inHand, free, handshakes, queue, lingering, counterVars>>

TaskEnds(c) ==
  /\ pc[c] = "ip_released"
  /\ free' = free + 1
  /\ Move(c, "gone")
  /\ UNCHANGED <<inHand, counts, handshakes, queue, lingering, counterVars>>

-----------------------------------------------------------------------------

Accept(c) ==
  AcceptTakes(c) \/ AcceptRefuses(c) \/ AddressTakes(c) \/ AddressRefuses(c)

Handshake(c) == HandshakeSucceeds(c) \/ HandshakeFails(c)

Leave(c) == TaskCounts(c) \/ TaskReleasesAddress(c) \/ TaskEnds(c)

Next ==
  \E c \in Conn :
    \/ Accept(c)
    \/ TaskStarts(c)
    \/ HandshakeStarts(c)
    \/ Handshake(c)
    \/ ConnectionEnds(c)
    \/ ReaderEnds(c)
    \/ Leave(c)

Spec == Init /\ [][Next]_vars

(* Tasks that can go on do; a handshake ends by its timeout and a reader   *)
(* by the idle timeout at the latest.  Peers need not connect, and a       *)
(* connection may be served for ever.                                      *)
Fairness ==
  \A c \in Conn :
    /\ WF_vars(AddressTakes(c) \/ AddressRefuses(c))
    /\ WF_vars(TaskStarts(c))
    /\ WF_vars(HandshakeStarts(c))
    /\ WF_vars(Handshake(c))
    /\ WF_vars(ReaderEnds(c))
    /\ WF_vars(Leave(c))

FairSpec == Spec /\ Fairness

-----------------------------------------------------------------------------
(* Properties                                                              *)

(* The limits hold at every moment, whichever connections come and go at   *)
(* once: "Maximum concurrent SV2 TCP sessions", in all and "from one IP"   *)
(* (README.md:188), and the handshakes that run at a time.                 *)
LimitsHold ==
  /\ Cardinality(Holders) <= MaxConnections
  /\ \A a \in Addr : Cardinality(From(a)) <= MaxPerIp
  /\ Cardinality(At({"handshake"})) <= MaxHandshakes

(* No permit is lost or given back twice, on any way out (a refusal after  *)
(* the first permit, a failed handshake, an error while serving), and an   *)
(* address without connections leaves no entry behind.                     *)
PermitsBalance ==
  /\ free + Cardinality(Holders) = MaxConnections
  /\ \A a \in Addr : CountOf(a) = Cardinality(From(a))
  /\ \A a \in DOMAIN counts : From(a) # {}
  /\ handshakes + Cardinality(At({"handshake"})) = MaxHandshakes

(* The counters the operator watches tell one story: what was opened is    *)
(* active or closed, and shook hands, failed to, or has yet to.            *)
CountersAgree ==
  /\ opened = active + closed
  /\ active = Cardinality(Counted)
  /\ opened = succeeded + failed + Cardinality(At({"queued", "handshake"}))

(* A connection that was let in gets its handshake, however many wait      *)
(* before it and however theirs end, while it holds permits others need.   *)
HandshakesHappen ==
  \A c \in Conn : pc[c] = "queued" ~> pc[c] \in {"serving", "gone"}

(* Once all connections have ended, every permit, every entry and every    *)
(* socket is given back.                                                   *)
Drains ==
  <>[](At({"serving"}) = {}) =>
    <>[](/\ free = MaxConnections
         /\ counts = [a \in {} |-> 0]
         /\ handshakes = MaxHandshakes
         /\ lingering = {})

=============================================================================
