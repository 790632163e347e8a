------------------------- MODULE Sv2AdmissionProofs -------------------------
(***************************************************************************)
(* The limits of the accept loop, for any number of connections, addresses *)
(* and permits.  A step moves one connection from one place to another,    *)
(* so everything rests on what a move does to the size of a set of places. *)
(***************************************************************************)
EXTENDS Sv2Admission, FiniteSetTheorems, TLAPS

-----------------------------------------------------------------------------
(* Counting                                                                *)

(* The connections at some places that come from some addresses. *)
AtFrom(places, addrs) ==
  {c \in Conn : pc[c] \in places /\ AddrOf[c] \in addrs}

AdmittedPlaces ==
  {"spawned", "queued", "handshake", "serving", "ended", "counted"}
HolderPlaces == {"admitting", "ip_released"} \cup AdmittedPlaces
CountedPlaces == {"queued", "handshake", "serving", "ended"}
WaitingPlaces == {"queued", "handshake"}

(* The sizes the limits and the counters are about. *)
Holding == Cardinality(AtFrom(HolderPlaces, Addr))
HoldingFrom(a) == Cardinality(AtFrom(AdmittedPlaces, {a}))
Shaking == Cardinality(AtFrom({"handshake"}, Addr))
Serving == Cardinality(AtFrom(CountedPlaces, Addr))
Waiting == Cardinality(AtFrom(WaitingPlaces, Addr))

(* By how much a set of places grows when one connection moves. *)
Growth(from, to, places) ==
  (IF to \in places THEN 1 ELSE 0) - (IF from \in places THEN 1 ELSE 0)

(* A set of connections is finite. *)
LEMMA AtFromIsFinite ==
  ASSUME NEW places, NEW addrs
  PROVE  /\ IsFiniteSet(AtFrom(places, addrs))
         /\ Cardinality(AtFrom(places, addrs)) \in Nat
<1>1. AtFrom(places, addrs) \subseteq Conn
  BY DEF AtFrom
<1>2. QED
  BY <1>1, AdmissionAssumption, FS_Subset, FS_CardinalityType
     DEF AdmissionAssumption

(* What a move does to a set that is counted. *)
LEMMA MoveCounts ==
  ASSUME NEW places, NEW addrs, NEW c \in Conn, NEW place \in Place,
         pc \in [Conn -> Place], Move(c, place)
  PROVE  LET before == Cardinality(AtFrom(places, addrs))
             after == Cardinality(AtFrom(places, addrs)')
             enters == AddrOf[c] \in addrs /\ pc[c] \notin places
                         /\ place \in places
             leaves == AddrOf[c] \in addrs /\ pc[c] \in places
                         /\ place \notin places
         IN  /\ enters => after = before + 1
             /\ leaves => after = before - 1
             /\ ~enters /\ ~leaves => after = before
<1> DEFINE S == AtFrom(places, addrs)
           T == AtFrom(places, addrs)'
<1>1. IsFiniteSet(S)
  BY AtFromIsFinite
<1>2. \A e \in Conn : pc'[e] = IF e = c THEN place ELSE pc[e]
  BY DEF Move
<1>3. CASE AddrOf[c] \in addrs /\ pc[c] \notin places /\ place \in places
  <2>1. T = S \cup {c} /\ c \notin S
    BY <1>2, <1>3 DEF AtFrom
  <2>2. QED
    BY <2>1, <1>1, <1>3, FS_AddElement
<1>4. CASE AddrOf[c] \in addrs /\ pc[c] \in places /\ place \notin places
  <2>1. T = S \ {c} /\ c \in S
    BY <1>2, <1>4 DEF AtFrom
  <2>2. QED
    BY <2>1, <1>1, <1>4, FS_RemoveElement
<1>5. CASE /\ ~(AddrOf[c] \in addrs /\ pc[c] \notin places /\ place \in places)
           /\ ~(AddrOf[c] \in addrs /\ pc[c] \in places /\ place \notin places)
  <2>1. T = S
    BY <1>2, <1>5 DEF AtFrom
  <2>2. QED
    BY <2>1, <1>5
<1>6. QED
  BY <1>3, <1>4, <1>5

(* The same for the sizes that matter. *)
LEMMA MoveSizes ==
  ASSUME NEW c \in Conn, NEW place \in Place, pc \in [Conn -> Place],
         Move(c, place)
  PROVE  /\ Holding' = Holding + Growth(pc[c], place, HolderPlaces)
         /\ \A a \in Addr :
              HoldingFrom(a)' = HoldingFrom(a) +
                IF a = AddrOf[c] THEN Growth(pc[c], place, AdmittedPlaces) ELSE 0
         /\ Shaking' = Shaking + Growth(pc[c], place, {"handshake"})
         /\ Serving' = Serving + Growth(pc[c], place, CountedPlaces)
         /\ Waiting' = Waiting + Growth(pc[c], place, WaitingPlaces)
<1>0. AddrOf[c] \in Addr
  BY AdmissionAssumption DEF AdmissionAssumption
<1>1. \A places :
        /\ Cardinality(AtFrom(places, Addr)) \in Nat
        /\ Cardinality(AtFrom(places, Addr)') =
             Cardinality(AtFrom(places, Addr)) + Growth(pc[c], place, places)
  <2> SUFFICES ASSUME NEW places
               PROVE  /\ Cardinality(AtFrom(places, Addr)) \in Nat
                      /\ Cardinality(AtFrom(places, Addr)') =
                           Cardinality(AtFrom(places, Addr))
                             + Growth(pc[c], place, places)
    OBVIOUS
  <2>1. Cardinality(AtFrom(places, Addr)) \in Nat
    BY AtFromIsFinite
  <2>2. QED
    BY <2>1, <1>0, MoveCounts DEF Growth
<1>2. ASSUME NEW a \in Addr
      PROVE  HoldingFrom(a)' = HoldingFrom(a) +
               IF a = AddrOf[c] THEN Growth(pc[c], place, AdmittedPlaces) ELSE 0
  <2>1. HoldingFrom(a) \in Nat
    BY AtFromIsFinite DEF HoldingFrom
  <2>2. LET before == Cardinality(AtFrom(AdmittedPlaces, {a}))
            after == Cardinality(AtFrom(AdmittedPlaces, {a})')
            enters == AddrOf[c] \in {a} /\ pc[c] \notin AdmittedPlaces
                        /\ place \in AdmittedPlaces
            leaves == AddrOf[c] \in {a} /\ pc[c] \in AdmittedPlaces
                        /\ place \notin AdmittedPlaces
        IN  /\ enters => after = before + 1
            /\ leaves => after = before - 1
            /\ ~enters /\ ~leaves => after = before
    BY MoveCounts
  <2>3. QED
    BY <2>1, <2>2 DEF Growth, HoldingFrom
<1>3. QED
  BY <1>1, <1>2 DEF Holding, Shaking, Serving, Waiting

(* The sizes are numbers. *)
LEMMA SizesAreNumbers ==
  /\ {Holding, Shaking, Serving, Waiting} \subseteq Nat
  /\ \A a \in Addr : HoldingFrom(a) \in Nat
BY AtFromIsFinite DEF Holding, Shaking, Serving, Waiting, HoldingFrom

-----------------------------------------------------------------------------
(* The inductive invariant                                                 *)

(* Types, but for the upper limits: those follow from the balance. *)
Basics ==
  /\ inHand \in Conn \cup {NoConn}
  /\ pc \in [Conn -> Place]
  /\ {free, handshakes} \subseteq Nat
  /\ DOMAIN counts \subseteq Addr
  /\ \A a \in DOMAIN counts : counts[a] \in Nat \ {0}
  /\ queue \in Seq(Conn)
  /\ lingering \subseteq Conn
  /\ {opened, active, closed, succeeded, failed} \subseteq Nat

(* Every permit is with the limiter or with a connection. *)
Balance ==
  /\ free + Holding = MaxConnections
  /\ \A a \in Addr : CountOf(a) = HoldingFrom(a) /\ CountOf(a) <= MaxPerIp
  /\ handshakes + Shaking = MaxHandshakes

Counters ==
  /\ opened = active + closed
  /\ active = Serving
  /\ opened = succeeded + failed + Waiting

(* The accept loop and the queue speak of connections where they belong. *)
InHandIsAdmitting == inHand # NoConn => pc[inHand] = "admitting"

QueueIsWaiting ==
  \A i \in 1..Len(queue) :
    /\ pc[queue[i]] = "queued"
    /\ \A j \in 1..Len(queue) : queue[i] = queue[j] => i = j

IInv == Basics /\ Balance /\ Counters /\ InHandIsAdmitting /\ QueueIsWaiting

(* The sizes of the model's own sets. *)
LEMMA SizesOfSets ==
  ASSUME Basics
  PROVE  /\ Cardinality(Holders) = Holding
         /\ \A a \in Addr : Cardinality(From(a)) = HoldingFrom(a)
         /\ Cardinality(At({"handshake"})) = Shaking
         /\ Cardinality(Counted) = Serving
         /\ Cardinality(At({"queued", "handshake"})) = Waiting
<1>0. \A c \in Conn : AddrOf[c] \in Addr
  BY AdmissionAssumption DEF AdmissionAssumption
<1>1. Holders = AtFrom(HolderPlaces, Addr)
  BY <1>0 DEF Holders, Admitted, At, AtFrom, HolderPlaces, AdmittedPlaces
<1>2. \A a \in Addr : From(a) = AtFrom(AdmittedPlaces, {a})
  BY <1>0 DEF From, Admitted, At, AtFrom, AdmittedPlaces
<1>3. At({"handshake"}) = AtFrom({"handshake"}, Addr)
  BY <1>0 DEF At, AtFrom
<1>4. Counted = AtFrom(CountedPlaces, Addr)
  BY <1>0 DEF Counted, At, AtFrom, CountedPlaces
<1>5. At({"queued", "handshake"}) = AtFrom(WaitingPlaces, Addr)
  BY <1>0 DEF At, AtFrom, WaitingPlaces
<1>6. QED
  BY <1>1, <1>2, <1>3, <1>4, <1>5
     DEF Holding, HoldingFrom, Shaking, Serving, Waiting

(* The invariant gives the type invariant and the safety properties. *)
LEMMA IInvImplies ==
  ASSUME IInv
  PROVE  TypeOK /\ LimitsHold /\ PermitsBalance /\ CountersAgree
<1> USE DEF IInv, Balance, Basics
<1>1. TypeOK
  <2>1. free \in 0..MaxConnections /\ handshakes \in 0..MaxHandshakes
    BY SizesAreNumbers, AdmissionAssumption DEF AdmissionAssumption
  <2>2. \A a \in DOMAIN counts : counts[a] \in 1..MaxPerIp
    BY AdmissionAssumption DEF CountOf, AdmissionAssumption
  <2>3. QED
    BY <2>1, <2>2 DEF TypeOK
<1>2. PermitsBalance
  <2>1. \A a \in DOMAIN counts : From(a) # {}
    <3>1. Cardinality({}) = 0
      BY FS_EmptySet
    <3>2. ASSUME NEW a \in DOMAIN counts
          PROVE  Cardinality(From(a)) # 0
      BY SizesOfSets DEF CountOf
    <3>3. QED
      BY <3>1, <3>2
  <2>2. QED
    BY <2>1, SizesOfSets DEF PermitsBalance
<1>3. LimitsHold
  <2>1. /\ Holding <= MaxConnections /\ Shaking <= MaxHandshakes
        /\ \A a \in Addr : HoldingFrom(a) <= MaxPerIp
    BY SizesAreNumbers, AdmissionAssumption DEF AdmissionAssumption
  <2>2. QED
    BY <2>1, SizesOfSets DEF LimitsHold
<1>4. CountersAgree
  BY SizesOfSets DEF Counters, CountersAgree
<1>5. QED
  BY <1>1, <1>2, <1>3, <1>4

(* At first no connection is anywhere. *)
LEMMA InitHolds == Init => IInv
<1> SUFFICES ASSUME Init PROVE IInv
  OBVIOUS
<1>1. Basics
  BY AdmissionAssumption DEF Init, Basics, Place, AdmissionAssumption
<1>2. \A places, addrs : "away" \notin places => AtFrom(places, addrs) = {}
  BY DEF Init, AtFrom
<1>3. /\ Holding = 0 /\ Shaking = 0 /\ Serving = 0 /\ Waiting = 0
      /\ \A a \in Addr : HoldingFrom(a) = 0
  BY <1>2, FS_EmptySet
     DEF Holding, Shaking, Serving, Waiting, HoldingFrom, HolderPlaces,
         AdmittedPlaces, CountedPlaces, WaitingPlaces
<1>4. Balance
  BY <1>3, AdmissionAssumption DEF Init, Balance, CountOf, AdmissionAssumption
<1>5. Counters
  BY <1>3 DEF Init, Counters
<1>6. InHandIsAdmitting /\ QueueIsWaiting
  BY DEF Init, InHandIsAdmitting, QueueIsWaiting
<1>7. QED
  BY <1>1, <1>4, <1>5, <1>6 DEF IInv

-----------------------------------------------------------------------------
(* Every step keeps the invariant                                          *)

(* What a move of a connection that is neither in hand nor in the queue    *)
(* leaves alone.                                                           *)
LEMMA OthersStay ==
  ASSUME IInv, NEW c \in Conn, NEW place \in Place, Move(c, place)
  PROVE  /\ pc' \in [Conn -> Place]
         /\ UNCHANGED inHand /\ pc[c] # "admitting" => InHandIsAdmitting'
         /\ UNCHANGED queue /\ pc[c] # "queued" => QueueIsWaiting'
<1>1. \A e \in Conn : pc'[e] = IF e = c THEN place ELSE pc[e]
  BY DEF IInv, Basics, Move
<1>2. pc' \in [Conn -> Place]
  BY DEF IInv, Basics, Move
<1>3. ASSUME UNCHANGED inHand, pc[c] # "admitting"
      PROVE  InHandIsAdmitting'
  BY <1>1, <1>3 DEF IInv, Basics, InHandIsAdmitting
<1>4. ASSUME UNCHANGED queue, pc[c] # "queued"
      PROVE  QueueIsWaiting'
  <2>1. \A i \in 1..Len(queue) : queue[i] \in Conn
    BY DEF IInv, Basics
  <2>2. QED
    BY <1>1, <1>4, <2>1 DEF IInv, QueueIsWaiting
<1>5. QED
  BY <1>2, <1>3, <1>4

(* The accept loop. *)
LEMMA AcceptKeeps ==
  ASSUME IInv, NEW c \in Conn, Accept(c)
  PROVE  IInv'
<1> USE DEF IInv, limitVars, counterVars
<1>0. /\ pc \in [Conn -> Place] /\ AddrOf[c] \in Addr /\ c # NoConn
      /\ {"admitting", "refused", "spawned"} \subseteq Place
  BY AdmissionAssumption DEF Basics, Place, AdmissionAssumption
<1>1. CASE AcceptTakes(c)
  <2>1. Move(c, "admitting") /\ pc[c] = "away"
    BY <1>1 DEF AcceptTakes
  <2>2. /\ Holding' = Holding + 1 /\ Shaking' = Shaking /\ Serving' = Serving
        /\ Waiting' = Waiting
        /\ \A a \in Addr : HoldingFrom(a)' = HoldingFrom(a)
    <3>1. /\ Growth("away", "admitting", HolderPlaces) = 1
          /\ Growth("away", "admitting", AdmittedPlaces) = 0
          /\ Growth("away", "admitting", {"handshake"}) = 0
          /\ Growth("away", "admitting", CountedPlaces) = 0
          /\ Growth("away", "admitting", WaitingPlaces) = 0
      BY DEF Growth, HolderPlaces, AdmittedPlaces, CountedPlaces, WaitingPlaces
    <3>2. QED
      BY <1>0, <2>1, <3>1, MoveSizes, SizesAreNumbers
  <2>3. pc' \in [Conn -> Place] /\ QueueIsWaiting'
    BY <1>0, <1>1, <2>1, OthersStay DEF AcceptTakes
  <2>4. InHandIsAdmitting'
    BY <1>0, <1>1 DEF AcceptTakes, Move, InHandIsAdmitting
  <2>5. Balance' /\ Counters'
    <3>1. (free + Holding = MaxConnections)'
      BY <1>1, <2>2, SizesAreNumbers DEF AcceptTakes, Balance, Basics
    <3>2. QED
      BY <1>1, <2>2, <3>1 DEF AcceptTakes, Balance, Counters, CountOf
  <2>6. Basics'
    BY <1>1, <2>3 DEF AcceptTakes, Basics
  <2>7. QED
    BY <2>3, <2>4, <2>5, <2>6
<1>2. CASE AcceptRefuses(c)
  <2>1. Move(c, "refused") /\ pc[c] = "away"
    BY <1>2 DEF AcceptRefuses
  <2>2. /\ Holding' = Holding /\ Shaking' = Shaking /\ Serving' = Serving
        /\ Waiting' = Waiting
        /\ \A a \in Addr : HoldingFrom(a)' = HoldingFrom(a)
    <3>1. /\ Growth("away", "refused", HolderPlaces) = 0
          /\ Growth("away", "refused", AdmittedPlaces) = 0
          /\ Growth("away", "refused", {"handshake"}) = 0
          /\ Growth("away", "refused", CountedPlaces) = 0
          /\ Growth("away", "refused", WaitingPlaces) = 0
      BY DEF Growth, HolderPlaces, AdmittedPlaces, CountedPlaces, WaitingPlaces
    <3>2. QED
      BY <1>0, <2>1, <3>1, MoveSizes, SizesAreNumbers
  <2>3. pc' \in [Conn -> Place] /\ InHandIsAdmitting' /\ QueueIsWaiting'
    BY <1>0, <1>2, <2>1, OthersStay DEF AcceptRefuses
  <2>4. Balance' /\ Counters' /\ Basics'
    BY <1>2, <2>2, <2>3
       DEF AcceptRefuses, Balance, Basics, Counters, CountOf
  <2>5. QED
    BY <2>3, <2>4
<1>3. CASE AddressTakes(c)
  <2>1. Move(c, "spawned") /\ pc[c] = "admitting"
    BY <1>0, <1>3 DEF AddressTakes, InHandIsAdmitting
  <2>2. /\ Holding' = Holding /\ Shaking' = Shaking /\ Serving' = Serving
        /\ Waiting' = Waiting
        /\ \A a \in Addr :
             HoldingFrom(a)' = HoldingFrom(a) + IF a = AddrOf[c] THEN 1 ELSE 0
    <3>1. /\ Growth("admitting", "spawned", HolderPlaces) = 0
          /\ Growth("admitting", "spawned", AdmittedPlaces) = 1
          /\ Growth("admitting", "spawned", {"handshake"}) = 0
          /\ Growth("admitting", "spawned", CountedPlaces) = 0
          /\ Growth("admitting", "spawned", WaitingPlaces) = 0
      BY DEF Growth, HolderPlaces, AdmittedPlaces, CountedPlaces, WaitingPlaces
    <3>2. QED
      BY <1>0, <2>1, <3>1, MoveSizes, SizesAreNumbers
  <2>3. pc' \in [Conn -> Place] /\ QueueIsWaiting'
    BY <1>0, <1>3, <2>1, OthersStay DEF AddressTakes
  <2>4. InHandIsAdmitting'
    BY <1>3 DEF AddressTakes, InHandIsAdmitting
  <2>5. /\ DOMAIN counts' = DOMAIN counts \cup {AddrOf[c]}
        /\ \A a \in DOMAIN counts' :
             counts'[a] = IF a = AddrOf[c] THEN CountOf(a) + 1 ELSE counts[a]
    BY <1>3 DEF AddressTakes, Put
  <2>6. \A a \in Addr :
          CountOf(a)' = IF a = AddrOf[c] THEN CountOf(a) + 1 ELSE CountOf(a)
    BY <2>5 DEF CountOf
  <2>7. CountOf(AddrOf[c]) \in Nat /\ CountOf(AddrOf[c]) < MaxPerIp
    BY <1>0, <1>3, SizesAreNumbers, AdmissionAssumption
       DEF AddressTakes, AddressIsFull, Balance, AdmissionAssumption
  <2>8. Balance'
    <3>1. \A a \in Addr : CountOf(a)' = HoldingFrom(a)'
                          /\ CountOf(a)' <= MaxPerIp
      BY <2>2, <2>6, <2>7, SizesAreNumbers, AdmissionAssumption
         DEF Balance, AdmissionAssumption
    <3>2. QED
      BY <1>3, <2>2, <3>1 DEF AddressTakes, Balance
  <2>9. Counters'
    BY <1>3, <2>2 DEF AddressTakes, Counters
  <2>10. Basics'
    BY <1>0, <1>3, <2>3, <2>5, <2>7 DEF AddressTakes, Basics
  <2>11. QED
    BY <2>3, <2>4, <2>8, <2>9, <2>10
<1>4. CASE AddressRefuses(c)
  <2>1. Move(c, "refused") /\ pc[c] = "admitting"
    BY <1>0, <1>4 DEF AddressRefuses, InHandIsAdmitting
  <2>2. /\ Holding' = Holding - 1 /\ Shaking' = Shaking /\ Serving' = Serving
        /\ Waiting' = Waiting
        /\ \A a \in Addr : HoldingFrom(a)' = HoldingFrom(a)
    <3>1. /\ Growth("admitting", "refused", HolderPlaces) = -1
          /\ Growth("admitting", "refused", AdmittedPlaces) = 0
          /\ Growth("admitting", "refused", {"handshake"}) = 0
          /\ Growth("admitting", "refused", CountedPlaces) = 0
          /\ Growth("admitting", "refused", WaitingPlaces) = 0
      BY DEF Growth, HolderPlaces, AdmittedPlaces, CountedPlaces, WaitingPlaces
    <3>2. QED
      BY <1>0, <2>1, <3>1, MoveSizes, SizesAreNumbers
  <2>3. pc' \in [Conn -> Place] /\ QueueIsWaiting'
    BY <1>0, <1>4, <2>1, OthersStay DEF AddressRefuses
  <2>4. InHandIsAdmitting'
    BY <1>4 DEF AddressRefuses, InHandIsAdmitting
  <2>5. Balance'
    <3>1. (free + Holding = MaxConnections)'
      BY <1>4, <2>2, SizesAreNumbers
         DEF AddressRefuses, DropConnectionPermit, Balance, Basics
    <3>2. QED
      BY <1>4, <2>2, <3>1 DEF AddressRefuses, Balance, CountOf
  <2>6. Counters'
    BY <1>4, <2>2 DEF AddressRefuses, DropConnectionPermit, Counters
  <2>7. Basics'
    BY <1>4, <2>2, <2>3, SizesAreNumbers
       DEF AddressRefuses, DropConnectionPermit, Balance, Basics
  <2>8. QED
    BY <2>3, <2>4, <2>5, <2>6, <2>7
<1>5. QED
  BY <1>1, <1>2, <1>3, <1>4 DEF Accept

(* The task up to its connection's being served, or the end of it. *)
LEMMA HandshakeKeeps ==
  ASSUME IInv, NEW c \in Conn,
         TaskStarts(c) \/ HandshakeStarts(c) \/ Handshake(c)
  PROVE  IInv'
<1> USE DEF IInv, limitVars, counterVars
<1>0. /\ pc \in [Conn -> Place] /\ queue \in Seq(Conn)
      /\ {"queued", "handshake", "serving", "ended"} \subseteq Place
  BY DEF Basics, Place
<1>1. CASE TaskStarts(c)
  <2>1. Move(c, "queued") /\ pc[c] = "spawned"
    BY <1>1 DEF TaskStarts
  <2>2. /\ Holding' = Holding /\ Shaking' = Shaking
        /\ Serving' = Serving + 1 /\ Waiting' = Waiting + 1
        /\ \A a \in Addr : HoldingFrom(a)' = HoldingFrom(a)
    <3>1. /\ Growth("spawned", "queued", HolderPlaces) = 0
          /\ Growth("spawned", "queued", AdmittedPlaces) = 0
          /\ Growth("spawned", "queued", {"handshake"}) = 0
          /\ Growth("spawned", "queued", CountedPlaces) = 1
          /\ Growth("spawned", "queued", WaitingPlaces) = 1
      BY DEF Growth, HolderPlaces, AdmittedPlaces, CountedPlaces, WaitingPlaces
    <3>2. QED
      BY <1>0, <2>1, <3>1, MoveSizes, SizesAreNumbers
  <2>3. pc' \in [Conn -> Place] /\ InHandIsAdmitting'
    BY <1>0, <1>1, <2>1, OthersStay DEF TaskStarts
  <2>4. QueueIsWaiting'
    <3>1. /\ queue' = Append(queue, c) /\ Len(queue') = Len(queue) + 1
          /\ queue'[Len(queue) + 1] = c
          /\ \A i \in 1..Len(queue) : queue'[i] = queue[i] /\ queue[i] \in Conn
      BY <1>0, <1>1 DEF TaskStarts
    <3>2. \A i \in 1..Len(queue) : queue[i] # c
      BY <2>1 DEF QueueIsWaiting
    <3>3. \A e \in Conn : pc'[e] = IF e = c THEN "queued" ELSE pc[e]
      BY <1>0, <2>1 DEF Move
    <3>4. \A i \in 1..Len(queue') : i \in 1..Len(queue) \/ i = Len(queue) + 1
      BY <1>0, <3>1
    <3>5. QED
      BY <3>1, <3>2, <3>3, <3>4 DEF QueueIsWaiting
  <2>5. Balance'
    BY <1>1, <2>2 DEF TaskStarts, Balance, CountOf
  <2>6. Counters'
    <3>1. /\ opened' = opened + 1 /\ active' = active + 1
          /\ UNCHANGED <<closed, succeeded, failed>>
          /\ {opened, active, closed, succeeded, failed} \subseteq Nat
      BY <1>1 DEF TaskStarts, Basics
    <3>2. QED
      BY <2>2, <3>1, SizesAreNumbers DEF Counters
  <2>7. Basics'
    BY <1>0, <1>1, <2>3 DEF TaskStarts, Basics
  <2>8. QED
    BY <2>3, <2>4, <2>5, <2>6, <2>7
<1>2. CASE HandshakeStarts(c)
  <2>1. Move(c, "handshake") /\ pc[c] = "queued" /\ Len(queue) > 0
    BY <1>0, <1>2 DEF HandshakeStarts, QueueIsWaiting
  <2>2. /\ Holding' = Holding /\ Shaking' = Shaking + 1
        /\ Serving' = Serving /\ Waiting' = Waiting
        /\ \A a \in Addr : HoldingFrom(a)' = HoldingFrom(a)
    <3>1. /\ Growth("queued", "handshake", HolderPlaces) = 0
          /\ Growth("queued", "handshake", AdmittedPlaces) = 0
          /\ Growth("queued", "handshake", {"handshake"}) = 1
          /\ Growth("queued", "handshake", CountedPlaces) = 0
          /\ Growth("queued", "handshake", WaitingPlaces) = 0
      BY DEF Growth, HolderPlaces, AdmittedPlaces, CountedPlaces, WaitingPlaces
    <3>2. QED
      BY <1>0, <2>1, <3>1, MoveSizes, SizesAreNumbers
  <2>3. pc' \in [Conn -> Place] /\ InHandIsAdmitting'
    BY <1>0, <1>2, <2>1, OthersStay DEF HandshakeStarts
  <2>4. queue' \in Seq(Conn) /\ QueueIsWaiting'
    <3>1. /\ queue' = Tail(queue) /\ queue' \in Seq(Conn)
          /\ Len(queue') = Len(queue) - 1 /\ queue[1] = c
          /\ \A i \in 1..Len(queue') :
               queue'[i] = queue[i + 1] /\ i + 1 \in 1..Len(queue)
      BY <1>0, <1>2, <2>1 DEF HandshakeStarts
    <3>2. \A i \in 1..Len(queue') : queue'[i] # c /\ queue'[i] \in Conn
      BY <1>0, <2>1, <3>1 DEF QueueIsWaiting
    <3>3. \A e \in Conn : e # c => pc'[e] = pc[e]
      BY <1>0, <2>1 DEF Move
    <3>4. \A i \in 1..Len(queue') : pc'[queue'[i]] = "queued"
      <4>1. ASSUME NEW i \in 1..Len(queue')
            PROVE  pc[queue'[i]] = "queued"
        BY <1>0, <3>1 DEF QueueIsWaiting
      <4>2. QED
        BY <3>2, <3>3, <4>1
    <3>5. \A i, j \in 1..Len(queue') : queue'[i] = queue'[j] => i = j
      <4>1. ASSUME NEW i \in 1..Len(queue'), NEW j \in 1..Len(queue'),
                   queue'[i] = queue'[j]
            PROVE  i + 1 = j + 1
        BY <1>0, <3>1, <4>1 DEF QueueIsWaiting
      <4>2. QED
        BY <4>1
    <3>6. QED
      BY <3>1, <3>4, <3>5 DEF QueueIsWaiting
  <2>5. Balance'
    <3>1. (handshakes + Shaking = MaxHandshakes)'
      BY <1>2, <2>2, SizesAreNumbers DEF HandshakeStarts, Balance, Basics
    <3>2. QED
      BY <1>2, <2>2, <3>1 DEF HandshakeStarts, Balance, CountOf
  <2>6. Counters' /\ Basics'
    BY <1>2, <2>2, <2>3, <2>4 DEF HandshakeStarts, Counters, Basics
  <2>7. QED
    BY <2>3, <2>4, <2>5, <2>6
<1>3. CASE HandshakeSucceeds(c)
  <2>1. Move(c, "serving") /\ pc[c] = "handshake"
    BY <1>3 DEF HandshakeSucceeds
  <2>2. /\ Holding' = Holding /\ Shaking' = Shaking - 1
        /\ Serving' = Serving /\ Waiting' = Waiting - 1
        /\ \A a \in Addr : HoldingFrom(a)' = HoldingFrom(a)
    <3>1. /\ Growth("handshake", "serving", HolderPlaces) = 0
          /\ Growth("handshake", "serving", AdmittedPlaces) = 0
          /\ Growth("handshake", "serving", {"handshake"}) = -1
          /\ Growth("handshake", "serving", CountedPlaces) = 0
          /\ Growth("handshake", "serving", WaitingPlaces) = -1
      BY DEF Growth, HolderPlaces, AdmittedPlaces, CountedPlaces, WaitingPlaces
    <3>2. QED
      BY <1>0, <2>1, <3>1, MoveSizes, SizesAreNumbers
  <2>3. pc' \in [Conn -> Place] /\ InHandIsAdmitting' /\ QueueIsWaiting'
    BY <1>0, <1>3, <2>1, OthersStay DEF HandshakeSucceeds
  <2>4. Balance'
    <3>1. (handshakes + Shaking = MaxHandshakes)'
      BY <1>3, <2>2, SizesAreNumbers
         DEF HandshakeSucceeds, DropHandshakePermit, Balance, Basics
    <3>2. QED
      BY <1>3, <2>2, <3>1 DEF HandshakeSucceeds, Balance, CountOf
  <2>5. Counters'
    BY <1>3, <2>2, SizesAreNumbers DEF HandshakeSucceeds, Counters, Basics
  <2>6. Basics'
    BY <1>3, <2>3 DEF HandshakeSucceeds, DropHandshakePermit, Basics
  <2>7. QED
    BY <2>3, <2>4, <2>5, <2>6
<1>4. CASE HandshakeFails(c)
  <2>1. Move(c, "ended") /\ pc[c] = "handshake"
    BY <1>4 DEF HandshakeFails
  <2>2. /\ Holding' = Holding /\ Shaking' = Shaking - 1
        /\ Serving' = Serving /\ Waiting' = Waiting - 1
        /\ \A a \in Addr : HoldingFrom(a)' = HoldingFrom(a)
    <3>1. /\ Growth("handshake", "ended", HolderPlaces) = 0
          /\ Growth("handshake", "ended", AdmittedPlaces) = 0
          /\ Growth("handshake", "ended", {"handshake"}) = -1
          /\ Growth("handshake", "ended", CountedPlaces) = 0
          /\ Growth("handshake", "ended", WaitingPlaces) = -1
      BY DEF Growth, HolderPlaces, AdmittedPlaces, CountedPlaces, WaitingPlaces
    <3>2. QED
      BY <1>0, <2>1, <3>1, MoveSizes, SizesAreNumbers
  <2>3. pc' \in [Conn -> Place] /\ InHandIsAdmitting' /\ QueueIsWaiting'
    BY <1>0, <1>4, <2>1, OthersStay DEF HandshakeFails
  <2>4. Balance'
    <3>1. (handshakes + Shaking = MaxHandshakes)'
      BY <1>4, <2>2, SizesAreNumbers
         DEF HandshakeFails, DropHandshakePermit, Balance, Basics
    <3>2. QED
      BY <1>4, <2>2, <3>1 DEF HandshakeFails, Balance, CountOf
  <2>5. Counters'
    BY <1>4, <2>2, SizesAreNumbers DEF HandshakeFails, Counters, Basics
  <2>6. Basics'
    BY <1>4, <2>3 DEF HandshakeFails, DropHandshakePermit, Basics
  <2>7. QED
    BY <2>3, <2>4, <2>5, <2>6
<1>5. QED
  BY <1>1, <1>2, <1>3, <1>4 DEF Handshake

(* The end of a connection: its counters, its address, its permit. *)
LEMMA LeavingKeeps ==
  ASSUME IInv, NEW c \in Conn,
         ConnectionEnds(c) \/ ReaderEnds(c) \/ Leave(c)
  PROVE  IInv'
<1> USE DEF IInv, limitVars, counterVars
<1>0. /\ pc \in [Conn -> Place] /\ AddrOf[c] \in Addr
      /\ {"ended", "counted", "ip_released", "gone"} \subseteq Place
  BY AdmissionAssumption DEF Basics, Place, AdmissionAssumption
<1>1. CASE ConnectionEnds(c)
  <2>1. Move(c, "ended") /\ pc[c] = "serving"
    BY <1>1 DEF ConnectionEnds
  <2>2. /\ Holding' = Holding /\ Shaking' = Shaking
        /\ Serving' = Serving /\ Waiting' = Waiting
        /\ \A a \in Addr : HoldingFrom(a)' = HoldingFrom(a)
    <3>1. /\ Growth("serving", "ended", HolderPlaces) = 0
          /\ Growth("serving", "ended", AdmittedPlaces) = 0
          /\ Growth("serving", "ended", {"handshake"}) = 0
          /\ Growth("serving", "ended", CountedPlaces) = 0
          /\ Growth("serving", "ended", WaitingPlaces) = 0
      BY DEF Growth, HolderPlaces, AdmittedPlaces, CountedPlaces, WaitingPlaces
    <3>2. QED
      BY <1>0, <2>1, <3>1, MoveSizes, SizesAreNumbers
  <2>3. pc' \in [Conn -> Place] /\ InHandIsAdmitting' /\ QueueIsWaiting'
    BY <1>0, <1>1, <2>1, OthersStay DEF ConnectionEnds
  <2>4. Balance' /\ Counters' /\ Basics'
    BY <1>1, <2>2, <2>3 DEF ConnectionEnds, Balance, Counters, Basics, CountOf
  <2>5. QED
    BY <2>3, <2>4
<1>2. CASE ReaderEnds(c)
  BY <1>2 DEF ReaderEnds, Basics, Balance, Counters, InHandIsAdmitting,
              QueueIsWaiting, CountOf, Holding, HoldingFrom, Shaking, Serving,
              Waiting, AtFrom
<1>3. CASE TaskCounts(c)
  <2>1. Move(c, "counted") /\ pc[c] = "ended"
    BY <1>3 DEF TaskCounts
  <2>2. /\ Holding' = Holding /\ Shaking' = Shaking
        /\ Serving' = Serving - 1 /\ Waiting' = Waiting
        /\ \A a \in Addr : HoldingFrom(a)' = HoldingFrom(a)
    <3>1. /\ Growth("ended", "counted", HolderPlaces) = 0
          /\ Growth("ended", "counted", AdmittedPlaces) = 0
          /\ Growth("ended", "counted", {"handshake"}) = 0
          /\ Growth("ended", "counted", CountedPlaces) = -1
          /\ Growth("ended", "counted", WaitingPlaces) = 0
      BY DEF Growth, HolderPlaces, AdmittedPlaces, CountedPlaces, WaitingPlaces
    <3>2. QED
      BY <1>0, <2>1, <3>1, MoveSizes, SizesAreNumbers
  <2>3. pc' \in [Conn -> Place] /\ InHandIsAdmitting' /\ QueueIsWaiting'
    BY <1>0, <1>3, <2>1, OthersStay DEF TaskCounts
  <2>4. active > 0 /\ active \in Nat /\ closed \in Nat
    <3>1. c \in AtFrom(CountedPlaces, Addr)
      BY <1>0, <2>1 DEF AtFrom, CountedPlaces
    <3>2. Serving # 0
      BY <3>1, AtFromIsFinite, FS_EmptySet DEF Serving
    <3>3. QED
      BY <3>2, SizesAreNumbers DEF Counters, Basics
  <2>5. Balance'
    BY <1>3, <2>2 DEF TaskCounts, Balance, CountOf
  <2>6. Counters' /\ Basics'
    BY <1>3, <2>2, <2>3, <2>4, SizesAreNumbers
       DEF TaskCounts, CountClosed, Counters, Basics
  <2>7. QED
    BY <2>3, <2>5, <2>6
<1>4. CASE TaskReleasesAddress(c)
  <2> DEFINE b == AddrOf[c]
  <2>1. Move(c, "ip_released") /\ pc[c] = "counted"
    BY <1>4 DEF TaskReleasesAddress
  <2>2. /\ Holding' = Holding /\ Shaking' = Shaking
        /\ Serving' = Serving /\ Waiting' = Waiting
        /\ \A a \in Addr :
             HoldingFrom(a)' = HoldingFrom(a) - IF a = b THEN 1 ELSE 0
    <3>1. /\ Growth("counted", "ip_released", HolderPlaces) = 0
          /\ Growth("counted", "ip_released", AdmittedPlaces) = -1
          /\ Growth("counted", "ip_released", {"handshake"}) = 0
          /\ Growth("counted", "ip_released", CountedPlaces) = 0
          /\ Growth("counted", "ip_released", WaitingPlaces) = 0
      BY DEF Growth, HolderPlaces, AdmittedPlaces, CountedPlaces, WaitingPlaces
    <3>2. QED
      BY <1>0, <2>1, <3>1, MoveSizes, SizesAreNumbers
  <2>3. pc' \in [Conn -> Place] /\ InHandIsAdmitting' /\ QueueIsWaiting'
    BY <1>0, <1>4, <2>1, OthersStay DEF TaskReleasesAddress
  <2>4. b \in DOMAIN counts /\ counts[b] \in Nat \ {0}
    <3>1. c \in AtFrom(AdmittedPlaces, {b})
      BY <2>1 DEF AtFrom, AdmittedPlaces
    <3>2. HoldingFrom(b) # 0
      BY <3>1, AtFromIsFinite, FS_EmptySet DEF HoldingFrom
    <3>3. QED
      BY <1>0, <3>2 DEF Balance, Basics, CountOf
  <2>5. /\ DOMAIN counts' \subseteq DOMAIN counts
        /\ \A a \in DOMAIN counts' :
             counts'[a] = IF a = b THEN counts[a] - 1 ELSE counts[a]
        /\ \A a \in DOMAIN counts : a \in DOMAIN counts' <=> a # b \/ counts[b] # 1
    BY <1>4, <2>4 DEF TaskReleasesAddress, ReleaseAddress, Restrict
  <2>6. \A a \in Addr :
          CountOf(a)' = IF a = b THEN CountOf(a) - 1 ELSE CountOf(a)
    BY <2>4, <2>5 DEF CountOf
  <2>7. Balance'
    <3>1. \A a \in Addr : CountOf(a)' = HoldingFrom(a)'
                          /\ CountOf(a)' <= MaxPerIp
      BY <2>2, <2>6, SizesAreNumbers, AdmissionAssumption
         DEF Balance, AdmissionAssumption
    <3>2. QED
      BY <1>4, <2>2, <3>1 DEF TaskReleasesAddress, Balance
  <2>8. Counters'
    BY <1>4, <2>2 DEF TaskReleasesAddress, Counters
  <2>9. Basics'
    BY <1>4, <2>3, <2>4, <2>5 DEF TaskReleasesAddress, Basics
  <2>10. QED
    BY <2>3, <2>7, <2>8, <2>9
<1>5. CASE TaskEnds(c)
  <2>1. Move(c, "gone") /\ pc[c] = "ip_released"
    BY <1>5 DEF TaskEnds
  <2>2. /\ Holding' = Holding - 1 /\ Shaking' = Shaking
        /\ Serving' = Serving /\ Waiting' = Waiting
        /\ \A a \in Addr : HoldingFrom(a)' = HoldingFrom(a)
    <3>1. /\ Growth("ip_released", "gone", HolderPlaces) = -1
          /\ Growth("ip_released", "gone", AdmittedPlaces) = 0
          /\ Growth("ip_released", "gone", {"handshake"}) = 0
          /\ Growth("ip_released", "gone", CountedPlaces) = 0
          /\ Growth("ip_released", "gone", WaitingPlaces) = 0
      BY DEF Growth, HolderPlaces, AdmittedPlaces, CountedPlaces, WaitingPlaces
    <3>2. QED
      BY <1>0, <2>1, <3>1, MoveSizes, SizesAreNumbers
  <2>3. pc' \in [Conn -> Place] /\ InHandIsAdmitting' /\ QueueIsWaiting'
    BY <1>0, <1>5, <2>1, OthersStay DEF TaskEnds
  <2>4. Balance'
    <3>1. (free + Holding = MaxConnections)'
      BY <1>5, <2>2, SizesAreNumbers DEF TaskEnds, Balance, Basics
    <3>2. QED
      BY <1>5, <2>2, <3>1 DEF TaskEnds, Balance, CountOf
  <2>5. Counters' /\ Basics'
    BY <1>5, <2>2, <2>3 DEF TaskEnds, Counters, Basics
  <2>6. QED
    BY <2>3, <2>4, <2>5
<1>6. QED
  BY <1>1, <1>2, <1>3, <1>4, <1>5 DEF Leave

(* A step of any kind, or none. *)
LEMMA NextHolds == IInv /\ [Next]_vars => IInv'
<1> SUFFICES ASSUME IInv, [Next]_vars PROVE IInv'
  OBVIOUS
<1>1. CASE UNCHANGED vars
  BY <1>1 DEF vars, limitVars, counterVars, IInv, Basics, Balance, Counters,
              InHandIsAdmitting, QueueIsWaiting, CountOf, Holding, HoldingFrom,
              Shaking, Serving, Waiting, AtFrom
<1>2. CASE Next
  BY <1>2, AcceptKeeps, HandshakeKeeps, LeavingKeeps DEF Next
<1>3. QED
  BY <1>1, <1>2

-----------------------------------------------------------------------------
(* The theorems                                                            *)

(* The invariant holds in every state of every run of the server. *)
LEMMA IInvHolds == Spec => []IInv
BY InitHolds, NextHolds, PTL DEF Spec

(* Every variable keeps its type: no count passes its limit, and no entry  *)
(* of an address is left at zero.                                          *)
THEOREM TypeCorrect == Spec => []TypeOK
BY IInvHolds, IInvImplies, PTL

(* No more connections, connections of an address or handshakes at a time  *)
(* than configured.                                                        *)
THEOREM LimitsAreKept == Spec => []LimitsHold
BY IInvHolds, IInvImplies, PTL

(* Every permit is with its limiter or with one connection, on every way   *)
(* into the server and out of it.                                          *)
THEOREM PermitsComeBack == Spec => []PermitsBalance
BY IInvHolds, IInvImplies, PTL

(* The counters add up at every moment. *)
THEOREM CountersTellOneStory == Spec => []CountersAgree
BY IInvHolds, IInvImplies, PTL

=============================================================================
