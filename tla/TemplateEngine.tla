--------------------------- MODULE TemplateEngine ---------------------------
(***************************************************************************)
(* The template engine of src/src/template.rs: the tasks that fetch block  *)
(* templates from the node (the longpoll loop, the refreshes it and ZMQ    *)
(* spawn), the P2P fast path that publishes a coinbase-only job as soon as *)
(* a peer announces a block, and the one-permit semaphore under which each *)
(* of them decides on a template and publishes it.                         *)
(*                                                                         *)
(* Between taking and releasing the permit only the holder writes          *)
(* chain_tip, last_template_key, last_longpollid, current and the watch    *)
(* channel, so the decision with its writes is one step and the watch send *)
(* another: "current" and the channel are what other tasks read without    *)
(* the permit.  Every await that another task can slip into (the RPC, the  *)
(* permit attempt, the decision, the send, the look at the pending slot)   *)
(* is a step of its own.                                                   *)
(***************************************************************************)
EXTENDS Naturals, FiniteSets

CONSTANTS
  Block, NoBlock, Height,
  Genesis,           \* the node's tip when the program starts
  Parent,            \* the block each block builds on
  NodeRejects,       \* blocks with a valid header that the node refuses
  WrongBits,         \* blocks whose nbits differ from their parent template's
  BadPow,            \* blocks whose hash misses the target they declare
  FastHeight,        \* next heights at which a fast job may be published
  UnsupportedRules,  \* blocks whose templates force a rule we do not know
  Unbuildable,       \* templates whose transactions cannot make a job
  RefreshTask,       \* slots for spawned refreshes
  Longpoll,          \* the task of longpoll_loop (and of start)
  P2P,               \* the task of the P2P client
  Nobody,            \* holder of a free permit
  MaxGen,            \* bound: mempool generations of the node
  MaxZmq,            \* bound: undelivered ZMQ messages; more are lost
  MaxFaults,         \* bound: failed direct RPC calls
  MaxAnnouncements   \* bound: announcements of the peer

ASSUME EngineAssumption ==
  /\ NoBlock \notin Block
  /\ Genesis \in Block
  /\ Height \in [Block -> Nat]
  /\ Parent \in [Block -> Block \cup {NoBlock}]
  /\ \A b \in Block : Parent[b] \in Block => Height[b] = Height[Parent[b]] + 1
  /\ Longpoll \notin RefreshTask
  /\ P2P \notin RefreshTask \cup {Longpoll}
  /\ Nobody \notin RefreshTask \cup {Longpoll, P2P}
  /\ {MaxGen, MaxZmq, MaxFaults, MaxAnnouncements} \subseteq Nat

VARIABLES
  node,          \* external: the node's tip and mempool generation
  zmq,           \* external: ZMQ messages not yet received
  debounced,     \* a ZMQ trigger fired less than 10 ms ago
  pc,            \* where each fetching task stands
  lpMode,        \* why the longpoll task fetches: startup, poll or refresh
  lpAsked,       \* the longpollid of the outstanding longpoll
  gbt,           \* the getblocktemplate response each task works on
  fast,          \* the announcement the P2P task works on
  permit,        \* holder of refresh_sem's permit
  pending,       \* refresh_pending_source is not NO_PENDING_REFRESH_SOURCE
  tip,           \* chain_tip
  lastKey,       \* last_template_key
  longpollid,    \* last_longpollid
  jobCounter,    \* job_counter
  current,       \* the RwLock behind current_job()
  watch,         \* the value in the watch channel
  faults,        \* failed direct RPC calls so far
  announcements  \* announcements of the peer so far

nodeVars == <<node, zmq>>
taskVars == <<pc, lpMode, lpAsked, gbt>>
jobVars == <<tip, lastKey, longpollid, jobCounter, current>>
vars == <<node, zmq, debounced, pc, lpMode, lpAsked, gbt, fast, permit,
          pending, tip, lastKey, longpollid, jobCounter, current, watch,
          faults, announcements>>

(* What the sessions may rely on; its operators on jobs are used here.     *)
(* Whether a template forbids old work makes no difference to the engine.  *)
Feed ==
  INSTANCE TemplateFeed WITH store <- current, stream <- watch,
                             ForbidsOld <- {}

Fetcher == RefreshTask \cup {Longpoll}

-----------------------------------------------------------------------------
(* Slips of the code that the runs must notice.  None is part of the model. *)

(* A task goes on with the response although the permit is taken. *)
AcquireUnguarded(t) ==
  /\ pc[t] = "apply"
  /\ permit' = t
  /\ pc' = [pc EXCEPT ![t] = "hold"]
  /\ UNCHANGED <<nodeVars, debounced, lpMode, lpAsked, gbt, fast, pending,
                 jobVars, watch, faults, announcements>>

(* The pending slot is read but not swapped for the empty value. *)
PeekPending(t) ==
  /\ pc[t] = "take"
  /\ pc' = [pc EXCEPT ![t] = IF pending THEN "rpc" ELSE "off"]
  /\ lpMode' = IF t = Longpoll /\ ~pending THEN "poll" ELSE lpMode
  /\ UNCHANGED <<nodeVars, debounced, lpAsked, gbt, fast, permit, pending,
                 jobVars, watch, faults, announcements>>

(* Templates behind a fast job are published all the same. *)
NeverOlder(template) == FALSE

(* A template at the height of the current one counts as old. *)
OlderOrSame(template) ==
  Feed!Ready(current) /\ Height[template.prev] + 1 <= current.height

(* The estimated height alone decides whether a block extends the tip. *)
ExtendsTipByHeight ==
  /\ tip.hash # NoBlock
  /\ fast.height = tip.height + 1

(* A fast job gets the key of the node's first template on that block. *)
FastKeyOfGbt(b) == <<"gbt", b, 0>>

(* A refused longpoll answer leaves the task in a state nobody continues. *)
AfterApplyStuck(t) == IF t = Longpoll /\ lpMode = "poll" THEN "busy" ELSE "take"

-----------------------------------------------------------------------------
(* Types and small definitions                                             *)

(* A getblocktemplate response.  Bitcoin Core's longpollid names the tip   *)
(* and its mempool counter, so the same pair serves as the longpollid.     *)
Template == [prev: Block \cup {NoBlock}, gen: Nat]
NoTemplate == [prev |-> NoBlock, gen |-> 0]
NodeTemplate == [prev |-> node.tip, gen |-> node.gen]

TipState == [hash: Block \cup {NoBlock}, height: Nat]
NoTip == [hash |-> NoBlock, height |-> 0]

Announcement ==
  [pc: {"idle", "announced", "hold", "send", "fallback", "more"},
   block: Block \cup {NoBlock}, height: Nat]
NoAnnouncement == [pc |-> "idle", block |-> NoBlock, height |-> 0]

FetchState == {"off", "poll", "rpc", "apply", "hold", "send", "take", "exited"}

(* The longpoll, ZMQ and P2P tasks are spawned once start() has returned. *)
Started == lpMode # "startup"

OlderThanCurrent(template) ==
  Feed!Ready(current) /\ Height[template.prev] + 1 < current.height

GbtJob(template) ==
  Feed!JobOf("gbt", template.prev, template.gen, jobCounter)
FastJob(b) == Feed!JobOf("fast", b, 0, jobCounter)
GbtKey(template) == <<"gbt", template.prev, template.gen>>
FastKey(b) == <<"fast", b, 0>>

(* Where a fetching task goes after apply_gbt_response returns Ok or Err. *)
AfterApply(t) == IF t = Longpoll /\ lpMode = "poll" THEN "off" ELSE "take"
AfterError(t) == IF t = Longpoll /\ ~Started THEN "exited" ELSE "off"

TypeOK ==
  /\ node \in [tip: Block, gen: Nat]
  /\ zmq \in Nat
  /\ debounced \in BOOLEAN
  /\ pc \in [Fetcher -> FetchState]
  /\ lpMode \in {"startup", "poll", "refresh"}
  /\ lpAsked \in Template
  /\ gbt \in [Fetcher -> Template]
  /\ fast \in Announcement
  /\ permit \in Fetcher \cup {P2P, Nobody}
  /\ pending \in BOOLEAN
  /\ tip \in TipState
  /\ lastKey \in {"empty", "gbt", "fast"} \X (Block \cup {NoBlock}) \X Nat
  /\ longpollid \in Template
  /\ jobCounter \in Nat
  /\ current \in Feed!Job
  /\ watch \in Feed!Job
  /\ faults \in Nat
  /\ announcements \in Nat

Init ==
  /\ node = [tip |-> Genesis, gen |-> 0]
  /\ zmq = 0
  /\ debounced = FALSE
  /\ pc = [t \in Fetcher |-> IF t = Longpoll THEN "rpc" ELSE "off"]
  /\ lpMode = "startup"
  /\ lpAsked = NoTemplate
  /\ gbt = [t \in Fetcher |-> NoTemplate]
  /\ fast = NoAnnouncement
  /\ permit = Nobody
  /\ pending = FALSE
  /\ tip = NoTip
  /\ lastKey = Feed!Key(Feed!EmptyJob)
  /\ longpollid = NoTemplate
  /\ jobCounter = 1
  /\ current = Feed!EmptyJob
  /\ watch = Feed!EmptyJob
  /\ faults = 0
  /\ announcements = 0

-----------------------------------------------------------------------------
(* The node (external)                                                     *)

(* The node adopts a longer branch and publishes hashblock and rawblock. *)
NodeAdvance(b) ==
  /\ b \notin NodeRejects
  /\ Height[b] > Height[node.tip]
  /\ node' = [node EXCEPT !.tip = b]
  /\ zmq' = IF zmq + 2 > MaxZmq THEN MaxZmq ELSE zmq + 2
  /\ UNCHANGED <<debounced, taskVars, fast, permit, pending, jobVars, watch,
                 faults, announcements>>

NodeMempool ==
  /\ node.gen < MaxGen
  /\ node' = [node EXCEPT !.gen = @ + 1]
  /\ UNCHANGED <<zmq, debounced, taskVars, fast, permit, pending, jobVars,
                 watch, faults, announcements>>

-----------------------------------------------------------------------------
(* refresh_template: fetch directly, apply, look at the pending slot       *)

RpcReply(t) ==
  /\ pc[t] = "rpc"
  /\ pc' = [pc EXCEPT ![t] = "apply"]
  /\ gbt' = [gbt EXCEPT ![t] = NodeTemplate]
  /\ UNCHANGED <<nodeVars, debounced, lpMode, lpAsked, fast, permit, pending,
                 jobVars, watch, faults, announcements>>

(* A pending request this refresh took over is forgotten with it. *)
RpcFail(t) ==
  /\ pc[t] = "rpc"
  /\ faults < MaxFaults
  /\ faults' = faults + 1
  /\ pc' = [pc EXCEPT ![t] = AfterError(t)]
  /\ UNCHANGED <<nodeVars, debounced, lpMode, lpAsked, gbt, fast, permit,
                 pending, jobVars, watch, announcements>>

TakePending(t) ==
  /\ pc[t] = "take"
  /\ pending' = FALSE
  /\ pc' = [pc EXCEPT ![t] = IF pending THEN "rpc" ELSE "off"]
  /\ lpMode' = IF t = Longpoll /\ ~pending THEN "poll" ELSE lpMode
  /\ UNCHANGED <<nodeVars, debounced, lpAsked, gbt, fast, permit, jobVars,
                 watch, faults, announcements>>

(* After a failed start() the process has exited. *)
Exited ==
  /\ pc[Longpoll] = "exited"
  /\ UNCHANGED vars

-----------------------------------------------------------------------------
(* apply_gbt_response                                                      *)

(* try_acquire_owned succeeds, or the source is left in the pending slot   *)
(* and the response is dropped with Ok.                                    *)
Acquire(t) ==
  /\ pc[t] = "apply"
  /\ permit = Nobody
  /\ permit' = t
  /\ pc' = [pc EXCEPT ![t] = "hold"]
  /\ UNCHANGED <<nodeVars, debounced, lpMode, lpAsked, gbt, fast, pending,
                 jobVars, watch, faults, announcements>>

Refused(t) ==
  /\ pc[t] = "apply"
  /\ permit # Nobody
  /\ pending' = TRUE
  /\ pc' = [pc EXCEPT ![t] = AfterApply(t)]
  /\ gbt' = [gbt EXCEPT ![t] = NoTemplate]
  /\ UNCHANGED <<nodeVars, debounced, lpMode, lpAsked, fast, permit, jobVars,
                 watch, faults, announcements>>

(* The holder leaves apply_gbt_response: permit and response are dropped. *)
Release(t, next) ==
  /\ permit' = Nobody
  /\ pc' = [pc EXCEPT ![t] = next]
  /\ gbt' = [gbt EXCEPT ![t] = NoTemplate]
  /\ UNCHANGED <<nodeVars, debounced, lpMode, lpAsked, fast, pending, faults,
                 announcements>>

SkipStale(t) ==
  /\ pc[t] = "hold"
  /\ OlderThanCurrent(gbt[t])
  /\ Release(t, AfterApply(t))
  /\ UNCHANGED <<jobVars, watch>>

RefuseRules(t) ==
  /\ pc[t] = "hold"
  /\ ~OlderThanCurrent(gbt[t])
  /\ gbt[t].prev \in UnsupportedRules
  /\ Release(t, AfterError(t))
  /\ UNCHANGED <<jobVars, watch>>

(* Past the rules the response's longpollid is stored, whatever follows. *)
Accept(t) ==
  /\ pc[t] = "hold"
  /\ ~OlderThanCurrent(gbt[t])
  /\ gbt[t].prev \notin UnsupportedRules
  /\ longpollid' = gbt[t]

SkipDuplicate(t) ==
  /\ Accept(t)
  /\ GbtKey(gbt[t]) = lastKey
  /\ Release(t, AfterApply(t))
  /\ UNCHANGED <<tip, lastKey, jobCounter, current, watch>>

BuildFails(t) ==
  /\ Accept(t)
  /\ GbtKey(gbt[t]) # lastKey
  /\ gbt[t] \in Unbuildable
  /\ Release(t, AfterError(t))
  /\ UNCHANGED <<tip, lastKey, jobCounter, current, watch>>

(* build_job, update_chain_tip_from_job and publish_job up to the send. *)
PublishGbt(t) ==
  /\ Accept(t)
  /\ GbtKey(gbt[t]) # lastKey
  /\ gbt[t] \notin Unbuildable
  /\ current' = GbtJob(gbt[t])
  /\ tip' = [hash |-> gbt[t].prev, height |-> current'.height - 1]
  /\ lastKey' = GbtKey(gbt[t])
  /\ jobCounter' = jobCounter + 1
  /\ pc' = [pc EXCEPT ![t] = "send"]
  /\ gbt' = [gbt EXCEPT ![t] = NoTemplate]
  /\ UNCHANGED <<nodeVars, debounced, lpMode, lpAsked, fast, permit, pending,
                 watch, faults, announcements>>

SendGbt(t) ==
  /\ pc[t] = "send"
  /\ watch' = current
  /\ Release(t, AfterApply(t))
  /\ UNCHANGED jobVars

-----------------------------------------------------------------------------
(* longpoll_loop                                                           *)

LongpollSend ==
  /\ Started
  /\ pc[Longpoll] = "off"
  /\ lpMode' = "poll"
  /\ lpAsked' = longpollid
  /\ pc' = [pc EXCEPT ![Longpoll] = "poll"]
  /\ UNCHANGED <<nodeVars, debounced, gbt, fast, permit, pending, jobVars,
                 watch, faults, announcements>>

(* The node answers once its template is not the one the id names. *)
LongpollReply ==
  /\ pc[Longpoll] = "poll"
  /\ NodeTemplate # lpAsked
  /\ gbt' = [gbt EXCEPT ![Longpoll] = NodeTemplate]
  /\ lpAsked' = NoTemplate
  /\ pc' = [pc EXCEPT ![Longpoll] = "apply"]
  /\ UNCHANGED <<nodeVars, debounced, lpMode, fast, permit, pending, jobVars,
                 watch, faults, announcements>>

(* The call fails or 120 s pass: one direct refresh instead. *)
LongpollFallback ==
  /\ pc[Longpoll] = "poll"
  /\ lpMode' = "refresh"
  /\ lpAsked' = NoTemplate
  /\ pc' = [pc EXCEPT ![Longpoll] = "rpc"]
  /\ UNCHANGED <<nodeVars, debounced, gbt, fast, permit, pending, jobVars,
                 watch, faults, announcements>>

-----------------------------------------------------------------------------
(* zmq_block_loop and the refreshes it spawns                              *)

ZmqTrigger(t) ==
  /\ Started
  /\ zmq > 0
  /\ ~debounced
  /\ pc[t] = "off"
  /\ zmq' = zmq - 1
  /\ debounced' = TRUE
  /\ pc' = [pc EXCEPT ![t] = "rpc"]
  /\ UNCHANGED <<node, lpMode, lpAsked, gbt, fast, permit, pending, jobVars,
                 watch, faults, announcements>>

ZmqDebounced ==
  /\ Started
  /\ zmq > 0
  /\ debounced
  /\ zmq' = zmq - 1
  /\ UNCHANGED <<node, debounced, taskVars, fast, permit, pending, jobVars,
                 watch, faults, announcements>>

DebounceElapses ==
  /\ debounced
  /\ debounced' = FALSE
  /\ UNCHANGED <<nodeVars, taskVars, fast, permit, pending, jobVars, watch,
                 faults, announcements>>

-----------------------------------------------------------------------------
(* The P2P fast path                                                       *)

(* run_session estimates the height from the current job before the call;  *)
(* the further headers of one message count on from that estimate.         *)
Announce(b) ==
  /\ Started
  /\ fast.pc = "idle"
  /\ current.height # 0
  /\ announcements < MaxAnnouncements
  /\ announcements' = announcements + 1
  /\ fast' = [pc |-> "announced", block |-> b, height |-> current.height]
  /\ UNCHANGED <<nodeVars, debounced, taskVars, permit, pending, jobVars,
                 watch, faults>>

AnnounceNext(b) ==
  /\ fast.pc = "more"
  /\ announcements < MaxAnnouncements
  /\ announcements' = announcements + 1
  /\ fast' = [pc |-> "announced", block |-> b, height |-> fast.height + 1]
  /\ UNCHANGED <<nodeVars, debounced, taskVars, permit, pending, jobVars,
                 watch, faults>>

AnnounceEnd ==
  /\ fast.pc = "more"
  /\ fast' = NoAnnouncement
  /\ UNCHANGED <<nodeVars, debounced, taskVars, permit, pending, jobVars,
                 watch, faults, announcements>>

(* handle_fast_block_announcement has returned. *)
Handled == [fast EXCEPT !.pc = "more", !.block = NoBlock]

FastBusy ==
  /\ fast.pc = "announced"
  /\ permit # Nobody
  /\ fast' = Handled
  /\ UNCHANGED <<nodeVars, debounced, taskVars, permit, pending, jobVars,
                 watch, faults, announcements>>

FastAcquire ==
  /\ fast.pc = "announced"
  /\ permit = Nobody
  /\ permit' = P2P
  /\ fast' = [fast EXCEPT !.pc = "hold"]
  /\ UNCHANGED <<nodeVars, debounced, taskVars, pending, jobVars, watch,
                 faults, announcements>>

(* The announced block extends the block the current template builds on. *)
ExtendsTip ==
  /\ tip.hash # NoBlock
  /\ Parent[fast.block] = tip.hash
  /\ fast.height = tip.height + 1

(* A doubtful block is left to the node: refresh instead of a fast job. *)
NeedsFallback ==
  /\ ExtendsTip
  /\ \/ fast.block \in WrongBits
     \/ /\ fast.block \notin BadPow
        /\ fast.height + 1 \notin FastHeight

CanPublishFast ==
  /\ ExtendsTip
  /\ fast.block \notin WrongBits \cup BadPow
  /\ fast.height + 1 \in FastHeight
  /\ Feed!Ready(current) =>
       /\ ~(current.height = fast.height + 1 /\ current.prev = fast.block)
       /\ current.height <= fast.height + 1
  /\ FastKey(fast.block) # lastKey

FastFallback ==
  /\ fast.pc = "hold"
  /\ NeedsFallback
  /\ permit' = Nobody
  /\ fast' = [fast EXCEPT !.pc = "fallback", !.block = NoBlock]
  /\ UNCHANGED <<nodeVars, debounced, taskVars, pending, jobVars, watch,
                 faults, announcements>>

FastSpawn(t) ==
  /\ fast.pc = "fallback"
  /\ pc[t] = "off"
  /\ pc' = [pc EXCEPT ![t] = "rpc"]
  /\ fast' = Handled
  /\ UNCHANGED <<nodeVars, debounced, lpMode, lpAsked, gbt, permit, pending,
                 jobVars, watch, faults, announcements>>

FastIgnore ==
  /\ fast.pc = "hold"
  /\ ~NeedsFallback
  /\ ~CanPublishFast
  /\ permit' = Nobody
  /\ fast' = Handled
  /\ UNCHANGED <<nodeVars, debounced, taskVars, pending, jobVars, watch,
                 faults, announcements>>

FastPublish ==
  /\ fast.pc = "hold"
  /\ CanPublishFast
  /\ tip' = [hash |-> fast.block, height |-> fast.height]
  /\ current' = [FastJob(fast.block) EXCEPT !.height = fast.height + 1]
  /\ lastKey' = FastKey(fast.block)
  /\ jobCounter' = jobCounter + 1
  /\ fast' = [fast EXCEPT !.pc = "send", !.block = NoBlock]
  /\ UNCHANGED <<nodeVars, debounced, taskVars, permit, pending, longpollid,
                 watch, faults, announcements>>

FastSend ==
  /\ fast.pc = "send"
  /\ watch' = current
  /\ permit' = Nobody
  /\ fast' = Handled
  /\ UNCHANGED <<nodeVars, debounced, taskVars, pending, jobVars, faults,
                 announcements>>

-----------------------------------------------------------------------------

Apply(t) ==
  \/ Acquire(t)   \/ Refused(t)
  \/ SkipStale(t) \/ RefuseRules(t) \/ SkipDuplicate(t)
  \/ BuildFails(t) \/ PublishGbt(t) \/ SendGbt(t)

LongpollLoop == LongpollSend \/ LongpollReply \/ LongpollFallback

ZmqLoop ==
  \/ \E t \in RefreshTask : ZmqTrigger(t)
  \/ ZmqDebounced
  \/ DebounceElapses

FastPath ==
  \/ FastBusy \/ FastAcquire \/ FastFallback \/ FastIgnore
  \/ FastPublish \/ FastSend
  \/ \E t \in RefreshTask : FastSpawn(t)

Next ==
  \/ \E b \in Block : NodeAdvance(b)
  \/ NodeMempool
  \/ \E t \in Fetcher : RpcReply(t)
  \/ \E t \in Fetcher : RpcFail(t)
  \/ \E t \in Fetcher : TakePending(t)
  \/ \E t \in Fetcher : Apply(t)
  \/ LongpollLoop
  \/ ZmqLoop
  \/ \E b \in Block : Announce(b)
  \/ \E b \in Block : AnnounceNext(b)
  \/ AnnounceEnd
  \/ FastPath
  \/ Exited

Spec == Init /\ [][Next]_vars

(* The runtime keeps running every task, the node answers calls, and a     *)
(* block announced to us reaches the node too, or another of its height.   *)
NodeCatchesUp ==
  /\ Height[node.tip] + 1 < current.height
  /\ \E b \in Block : NodeAdvance(b)

Fairness ==
  /\ \A t \in Fetcher : WF_vars(RpcReply(t) \/ TakePending(t) \/ Apply(t))
  /\ WF_vars(LongpollSend)
  /\ WF_vars(LongpollReply \/ LongpollFallback)
  /\ WF_vars(FastPath)
  /\ WF_vars(NodeCatchesUp)

FairSpec == Spec /\ Fairness

-----------------------------------------------------------------------------
(* Properties                                                              *)

(* The semaphore guards the whole of a publication: a task that decides or *)
(* sends is the one holder of the permit, on every path through            *)
(* apply_gbt_response and handle_fast_block_announcement (src lines        *)
(* 280-396, 644-732), and a free permit has no such task.                  *)
OneHolder ==
  /\ \A t \in Fetcher : pc[t] \in {"hold", "send"} <=> permit = t
  /\ fast.pc \in {"hold", "send"} <=> permit = P2P

(* The copies of the published template agree whenever nobody publishes:   *)
(* chain_tip names the block the current job builds on, at the height below *)
(* it, last_template_key is its key, and the watch channel holds the same  *)
(* job; only the holder of the permit, about to send, leaves them apart.   *)
CopiesAgree ==
  /\ lastKey = Feed!Key(current)
  /\ Feed!Ready(current) =>
       /\ tip = [hash |-> current.prev, height |-> current.height - 1]
       /\ current.height = Height[current.prev] + 1
  /\ watch # current =>
       \/ \E t \in Fetcher : permit = t /\ pc[t] = "send"
       \/ permit = P2P /\ fast.pc = "send"

(* A fast job is for a child of the very block the miners work on at the   *)
(* moment it is published: however many templates came between the         *)
(* announcement, its height estimate and the permit, and whatever headers  *)
(* the same message held before, no fast job skips a block or changes the  *)
(* branch (the comparison in line 305 is with the tip of this moment).      *)
FastExtendsCurrent ==
  [][current'.kind = "fast" /\ current' # current =>
       Feed!Ready(current) /\ Parent[current'.prev] = current.prev]_vars

(* The engine implements the feed that the sessions are written against:   *)
(* the current job only moves to a fresh id, a height that is not lower    *)
(* and another template key, and watchers trail it by at most one job.     *)
ImplementsFeed == Feed!FeedSpec

(* A template the code can turn into a job. *)
Usable(template) ==
  /\ template.prev \notin UnsupportedRules
  /\ template \notin Unbuildable

(* Once the node and its peer are quiet, the sessions end up with the      *)
(* node's own template, through whatever busy permits, debounced ZMQ       *)
(* messages, failed calls and out-of-order responses came before: the      *)
(* longpoll timeout's direct refresh (line 531) repairs what was dropped.  *)
FollowsNode ==
  <>[](\/ pc[Longpoll] = "exited"
       \/ Usable(NodeTemplate) =>
            /\ current.kind = "gbt"
            /\ current.prev = node.tip
            /\ current.gen = node.gen
            /\ watch = current)

(* A refresh refused because the permit was taken is made up for by a      *)
(* later one: the pending slot (lines 734-749) does not stay occupied, as  *)
(* long as the node comes to offer a template the code can use: an error   *)
(* returns (line 636) before the look at the slot.                         *)
PendingIsTaken ==
  <>[]Usable(NodeTemplate) => (pending ~> ~pending)

(* README.md:45 says that the final transactions, fees and commitment      *)
(* "still come from the next real GBT or longpoll template": a fast job is *)
(* eventually replaced by one of the node's templates.                     *)
FastJobIsReplaced == current.kind = "fast" ~> current.kind # "fast"

=============================================================================
