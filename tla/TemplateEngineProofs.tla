------------------------ MODULE TemplateEngineProofs ------------------------
(***************************************************************************)
(* Machine-checked proofs about TemplateEngine, for every chain of blocks, *)
(* every number of refresh tasks and every bound.  The argument:           *)
(*   - IInv adds to the checked invariants where the data a task holds     *)
(*     comes from (Provenance) and that all of the node's answers still in *)
(*     hand name one block per height; it is inductive, one step per       *)
(*     action;                                                             *)
(*   - under IInv every step of the engine is a step of TemplateFeed, or   *)
(*     leaves the job store and the watch channel alone.                   *)
(***************************************************************************)
EXTENDS TemplateEngine, TLAPS

(* A response or announcement in hand names a block of the chain, job ids  *)
(* are drawn from the counter, and before the first publication the engine *)
(* holds the empty template and no chain tip.                              *)
Provenance ==
  /\ \A t \in Fetcher : pc[t] \in {"apply", "hold"} => gbt[t].prev \in Block
  /\ fast.pc \in {"announced", "hold"} => fast.block \in Block
  /\ current.id < jobCounter
  /\ Feed!Ready(current) => current.prev \in Block
  /\ ~Feed!Ready(current) => current = Feed!EmptyJob /\ tip = NoTip

(* Blocks the node has named as its tip in what the engine still holds.    *)
Named(b) ==
  \/ b = node.tip
  \/ \E t \in Fetcher : pc[t] \in {"apply", "hold"} /\ gbt[t].prev = b
  \/ current.kind = "gbt" /\ current.prev = b

(* The node moves to longer branches only, so however late and out of      *)
(* order its answers are applied, they name one block per height.          *)
OneBlockPerHeight ==
  \A x, y \in Block : Named(x) /\ Named(y) =>
    /\ Height[x] <= Height[node.tip]
    /\ Height[x] = Height[y] => x = y

IInv ==
  TypeOK /\ OneHolder /\ CopiesAgree /\ Provenance /\ OneBlockPerHeight

-----------------------------------------------------------------------------
(* Type correctness                                                        *)

LEMMA InitTypeOK == Init => TypeOK
<1> SUFFICES ASSUME Init PROVE TypeOK
  OBVIOUS
<1> USE EngineAssumption DEF Init
<1>1. /\ pc \in [Fetcher -> FetchState]
      /\ gbt \in [Fetcher -> Template]
      /\ lpAsked \in Template
      /\ longpollid \in Template
  BY DEF FetchState, Template, NoTemplate
<1>2. /\ tip \in TipState
      /\ fast \in Announcement
      /\ current \in Feed!Job
      /\ watch \in Feed!Job
  BY DEF TipState, NoTip, Announcement, NoAnnouncement, Feed!Job, Feed!EmptyJob
<1>3. lastKey \in {"empty", "gbt", "fast"} \X (Block \cup {NoBlock}) \X Nat
  BY DEF Feed!Key, Feed!EmptyJob
<1> QED
  BY <1>1, <1>2, <1>3 DEF TypeOK

(* The steps of the node keep the types. *)
LEMMA NodeTypes ==
  ASSUME TypeOK,
         (\E b \in Block : NodeAdvance(b)) \/ NodeMempool
  PROVE  TypeOK'
<1> USE EngineAssumption DEF TypeOK, taskVars, jobVars
<1>1. CASE \E b \in Block : NodeAdvance(b)
  BY <1>1 DEF NodeAdvance
<1>2. CASE NodeMempool
  BY <1>2 DEF NodeMempool
<1> QED  BY <1>1, <1>2

(* The steps of refresh_template and longpoll_loop outside                 *)
(* apply_gbt_response keep the types.                                      *)
LEMMA FetchTypes ==
  ASSUME TypeOK,
         \/ \E t \in Fetcher : RpcReply(t) \/ RpcFail(t) \/ TakePending(t)
         \/ LongpollLoop
  PROVE  TypeOK'
<1> USE EngineAssumption
    DEF TypeOK, nodeVars, jobVars, FetchState, Template, NodeTemplate,
        NoTemplate, Fetcher
<1>1. ASSUME NEW t \in Fetcher, RpcReply(t) PROVE TypeOK'
  BY <1>1 DEF RpcReply
<1>2. ASSUME NEW t \in Fetcher, RpcFail(t) PROVE TypeOK'
  BY <1>2 DEF RpcFail, AfterError
<1>3. ASSUME NEW t \in Fetcher, TakePending(t) PROVE TypeOK'
  BY <1>3 DEF TakePending
<1>4. CASE LongpollSend
  BY <1>4 DEF LongpollSend
<1>5. CASE LongpollReply
  BY <1>5 DEF LongpollReply
<1>6. CASE LongpollFallback
  BY <1>6 DEF LongpollFallback
<1> QED  BY <1>1, <1>2, <1>3, <1>4, <1>5, <1>6 DEF LongpollLoop

(* A permit given back on any path out of apply_gbt_response. *)
LEMMA ReleaseTypes ==
  ASSUME TypeOK, NEW t \in Fetcher, NEW next \in FetchState, Release(t, next),
         tip' \in TipState,
         lastKey' \in {"empty", "gbt", "fast"} \X (Block \cup {NoBlock}) \X Nat,
         longpollid' \in Template, jobCounter' \in Nat,
         current' \in Feed!Job, watch' \in Feed!Job
  PROVE  TypeOK'
  BY DEF TypeOK, Release, nodeVars, Template, NoTemplate

LEMMA ApplyTypes ==
  ASSUME TypeOK, Provenance, NEW t \in Fetcher, Apply(t)
  PROVE  TypeOK'
<1> USE EngineAssumption DEF TypeOK, nodeVars, jobVars
<1>0. /\ AfterApply(t) \in FetchState
      /\ AfterError(t) \in FetchState
      /\ NoTemplate \in Template
  BY DEF AfterApply, AfterError, FetchState, NoTemplate, Template
<1>1. CASE Acquire(t)
  BY <1>1 DEF Acquire, FetchState
<1>2. CASE Refused(t)
  BY <1>0, <1>2 DEF Refused
<1>3. CASE SkipStale(t)
  BY <1>0, <1>3, ReleaseTypes DEF SkipStale
<1>4. CASE RefuseRules(t)
  BY <1>0, <1>4, ReleaseTypes DEF RefuseRules
<1>5. CASE SkipDuplicate(t)
  BY <1>0, <1>5, ReleaseTypes DEF SkipDuplicate, Accept
<1>6. CASE BuildFails(t)
  BY <1>0, <1>6, ReleaseTypes DEF BuildFails, Accept
<1>7. CASE PublishGbt(t)
  <2>1. gbt[t].prev \in Block /\ gbt[t].gen \in Nat
    BY <1>7 DEF PublishGbt, Accept, Provenance, Template
  <2>2. GbtJob(gbt[t]) \in Feed!Job
    BY <2>1 DEF GbtJob, Feed!JobOf, Feed!Job
  <2>3. GbtJob(gbt[t]).height - 1 \in Nat
    BY <2>1 DEF GbtJob, Feed!JobOf
  <2> QED
    BY <1>0, <1>7, <2>1, <2>2, <2>3
    DEF PublishGbt, Accept, FetchState, GbtKey, TipState
<1>8. CASE SendGbt(t)
  BY <1>0, <1>8, ReleaseTypes DEF SendGbt
<1> QED
  BY <1>1, <1>2, <1>3, <1>4, <1>5, <1>6, <1>7, <1>8 DEF Apply

LEMMA ZmqTypes ==
  ASSUME TypeOK, ZmqLoop
  PROVE  TypeOK'
<1> USE EngineAssumption DEF TypeOK, nodeVars, jobVars, taskVars, Fetcher,
        FetchState
<1>1. ASSUME NEW t \in RefreshTask, ZmqTrigger(t) PROVE TypeOK'
  BY <1>1 DEF ZmqTrigger
<1>2. CASE ZmqDebounced
  BY <1>2 DEF ZmqDebounced
<1>3. CASE DebounceElapses
  BY <1>3 DEF DebounceElapses
<1> QED  BY <1>1, <1>2, <1>3 DEF ZmqLoop

LEMMA AnnounceTypes ==
  ASSUME TypeOK,
         \/ \E b \in Block : Announce(b) \/ AnnounceNext(b)
         \/ AnnounceEnd
  PROVE  TypeOK'
<1> USE DEF TypeOK, nodeVars, jobVars, taskVars, Announcement, Feed!Job
<1>1. ASSUME NEW b \in Block, Announce(b) PROVE TypeOK'
  BY <1>1 DEF Announce
<1>2. ASSUME NEW b \in Block, AnnounceNext(b) PROVE TypeOK'
  BY <1>2 DEF AnnounceNext
<1>3. CASE AnnounceEnd
  BY <1>3 DEF AnnounceEnd, NoAnnouncement
<1> QED  BY <1>1, <1>2, <1>3

LEMMA FastTypes ==
  ASSUME TypeOK, Provenance, FastPath
  PROVE  TypeOK'
<1> USE EngineAssumption
    DEF TypeOK, nodeVars, jobVars, taskVars, Announcement, Handled
<1>1. CASE FastBusy
  BY <1>1 DEF FastBusy
<1>2. CASE FastAcquire
  BY <1>2 DEF FastAcquire
<1>3. CASE FastFallback
  BY <1>3 DEF FastFallback
<1>4. CASE FastIgnore
  BY <1>4 DEF FastIgnore
<1>5. CASE FastPublish
  <2>1. fast.block \in Block /\ fast.height \in Nat
    BY <1>5 DEF FastPublish, Provenance
  <2>2. current' \in Feed!Job
    BY <1>5, <2>1 DEF FastPublish, FastJob, Feed!JobOf, Feed!Job
  <2>3. tip' \in TipState
    BY <1>5, <2>1 DEF FastPublish, TipState
  <2>4. lastKey' \in {"empty", "gbt", "fast"} \X (Block \cup {NoBlock}) \X Nat
    BY <1>5, <2>1 DEF FastPublish, FastKey
  <2>5. fast' \in Announcement
    BY <1>5 DEF FastPublish
  <2> QED
    BY <1>5, <2>2, <2>3, <2>4, <2>5 DEF FastPublish
<1>6. CASE FastSend
  BY <1>6 DEF FastSend
<1>7. ASSUME NEW t \in RefreshTask, FastSpawn(t) PROVE TypeOK'
  BY <1>7 DEF FastSpawn, Fetcher, FetchState
<1> QED
  BY <1>1, <1>2, <1>3, <1>4, <1>5, <1>6, <1>7 DEF FastPath

LEMMA TypeStep ==
  ASSUME TypeOK, Provenance, [Next]_vars
  PROVE  TypeOK'
<1>1. CASE UNCHANGED vars
  BY <1>1 DEF vars, TypeOK
<1>2. CASE Exited
  BY <1>1, <1>2 DEF Exited
<1> QED
  BY <1>1, <1>2, NodeTypes, FetchTypes, ApplyTypes, ZmqTypes, AnnounceTypes,
     FastTypes
  DEF Next

-----------------------------------------------------------------------------
(* The permit                                                              *)

(* Steps outside the critical sections do not touch the permit, and no     *)
(* task enters or leaves "hold" and "send" by them.                        *)
LEMMA OutsidePermit ==
  ASSUME TypeOK, OneHolder, permit' = permit,
         \A t \in Fetcher :
           pc'[t] \in {"hold", "send"} <=> pc[t] \in {"hold", "send"},
         fast'.pc \in {"hold", "send"} <=> fast.pc \in {"hold", "send"}
  PROVE  OneHolder'
  BY DEF OneHolder

LEMMA ReleaseHolder ==
  ASSUME TypeOK, OneHolder, NEW t \in Fetcher, pc[t] \in {"hold", "send"},
         NEW next \in FetchState \ {"hold", "send"}, Release(t, next)
  PROVE  OneHolder'
<1>1. permit = t
  BY DEF OneHolder
<1>2. permit' = Nobody /\ fast' = fast /\ pc' = [pc EXCEPT ![t] = next]
  BY DEF Release
<1>3. ASSUME NEW u \in Fetcher PROVE (pc[u] \in {"hold", "send"})' <=> permit' = u
  BY <1>1, <1>2, EngineAssumption DEF OneHolder, TypeOK, Fetcher
<1>4. (fast.pc \in {"hold", "send"})' <=> permit' = P2P
  BY <1>1, <1>2, EngineAssumption DEF OneHolder, Fetcher
<1> QED  BY <1>3, <1>4 DEF OneHolder

LEMMA ApplyHolder ==
  ASSUME TypeOK, OneHolder, NEW t \in Fetcher, Apply(t)
  PROVE  OneHolder'
<1>0. /\ AfterApply(t) \in FetchState \ {"hold", "send"}
      /\ AfterError(t) \in FetchState \ {"hold", "send"}
  BY DEF AfterApply, AfterError, FetchState
<1>1. CASE Acquire(t)
  BY <1>1, EngineAssumption DEF Acquire, OneHolder, TypeOK, Fetcher
<1>2. CASE Refused(t)
  BY <1>0, <1>2, OutsidePermit DEF Refused, TypeOK
<1>3. CASE SkipStale(t)
  BY <1>0, <1>3, ReleaseHolder DEF SkipStale
<1>4. CASE RefuseRules(t)
  BY <1>0, <1>4, ReleaseHolder DEF RefuseRules
<1>5. CASE SkipDuplicate(t)
  BY <1>0, <1>5, ReleaseHolder DEF SkipDuplicate, Accept
<1>6. CASE BuildFails(t)
  BY <1>0, <1>6, ReleaseHolder DEF BuildFails, Accept
<1>7. CASE PublishGbt(t)
  BY <1>7, OutsidePermit DEF PublishGbt, Accept, TypeOK
<1>8. CASE SendGbt(t)
  BY <1>0, <1>8, ReleaseHolder DEF SendGbt
<1> QED
  BY <1>1, <1>2, <1>3, <1>4, <1>5, <1>6, <1>7, <1>8 DEF Apply

LEMMA FastHolder ==
  ASSUME TypeOK, OneHolder, FastPath
  PROVE  OneHolder'
<1> USE DEF TypeOK, taskVars, Announcement, Handled
<1>1. CASE FastBusy
  BY <1>1, OutsidePermit DEF FastBusy
<1>2. CASE FastAcquire
  BY <1>2, EngineAssumption DEF FastAcquire, OneHolder, Fetcher
<1>3. CASE FastFallback
  BY <1>3, EngineAssumption DEF FastFallback, OneHolder, Fetcher
<1>4. CASE FastIgnore
  BY <1>4, EngineAssumption DEF FastIgnore, OneHolder, Fetcher
<1>5. CASE FastPublish
  BY <1>5, OutsidePermit DEF FastPublish
<1>6. CASE FastSend
  BY <1>6, EngineAssumption DEF FastSend, OneHolder, Fetcher
<1>7. ASSUME NEW t \in RefreshTask, FastSpawn(t) PROVE OneHolder'
  BY <1>7, OutsidePermit DEF FastSpawn, Fetcher
<1> QED
  BY <1>1, <1>2, <1>3, <1>4, <1>5, <1>6, <1>7 DEF FastPath

LEMMA HolderStep ==
  ASSUME TypeOK, OneHolder, [Next]_vars
  PROVE  OneHolder'
<1> USE DEF TypeOK, nodeVars, taskVars, Fetcher
<1>1. CASE UNCHANGED vars
  BY <1>1, OutsidePermit DEF vars
<1>2. CASE Exited
  BY <1>1, <1>2 DEF Exited
<1>3. CASE (\E b \in Block : NodeAdvance(b)) \/ NodeMempool
  BY <1>3, OutsidePermit DEF NodeAdvance, NodeMempool
<1>4. ASSUME NEW t \in Fetcher, RpcReply(t) \/ RpcFail(t) \/ TakePending(t)
      PROVE  OneHolder'
  BY <1>4, OutsidePermit DEF RpcReply, RpcFail, TakePending, AfterError
<1>5. CASE LongpollLoop
  BY <1>5, OutsidePermit
  DEF LongpollLoop, LongpollSend, LongpollReply, LongpollFallback
<1>6. CASE ZmqLoop
  BY <1>6, OutsidePermit
  DEF ZmqLoop, ZmqTrigger, ZmqDebounced, DebounceElapses
<1>7. ASSUME NEW b \in Block, Announce(b) \/ AnnounceNext(b)
      PROVE  OneHolder'
  BY <1>7, OutsidePermit DEF Announce, AnnounceNext
<1>8. CASE AnnounceEnd
  BY <1>8, OutsidePermit DEF AnnounceEnd, NoAnnouncement
<1> QED
  BY <1>1, <1>2, <1>3, <1>4, <1>5, <1>6, <1>7, <1>8, ApplyHolder, FastHolder
  DEF Next

-----------------------------------------------------------------------------
(* The copies of the published template                                    *)

(* Whoever is about to decide, and anyone while the permit is free, finds  *)
(* the watch channel up to date.                                           *)
LEMMA WatchUpToDate ==
  ASSUME TypeOK, OneHolder, CopiesAgree,
         \/ permit = Nobody
         \/ fast.pc = "hold"
         \/ \E t \in Fetcher : pc[t] = "hold"
  PROVE  watch = current
  BY EngineAssumption DEF TypeOK, OneHolder, CopiesAgree, Fetcher

LEMMA CopiesKept ==
  ASSUME CopiesAgree, UNCHANGED <<tip, lastKey, current, watch>>,
         \/ watch = current
         \/ /\ permit' = permit
            /\ \A t \in Fetcher : pc[t] = "send" => pc'[t] = "send"
            /\ fast.pc = "send" => fast'.pc = "send"
  PROVE  CopiesAgree'
  BY DEF CopiesAgree

(* A publication up to the send by a task that keeps the permit. *)
LEMMA CopiesPublished ==
  ASSUME NEW prev \in Block, NEW gen \in Nat, NEW kind \in {"gbt", "fast"},
         current' = Feed!JobOf(kind, prev, gen, jobCounter),
         tip' = [hash |-> prev, height |-> Height[prev]],
         lastKey' = <<kind, prev, gen>>,
         \/ \E t \in Fetcher : permit' = t /\ pc'[t] = "send"
         \/ permit' = P2P /\ fast'.pc = "send"
  PROVE  CopiesAgree'
<1>1. lastKey' = Feed!Key(current')
  BY DEF Feed!Key, Feed!JobOf
<1>2. /\ current'.height = Height[current'.prev] + 1
      /\ tip' = [hash |-> current'.prev, height |-> current'.height - 1]
  BY EngineAssumption DEF Feed!JobOf
<1> QED  BY <1>1, <1>2 DEF CopiesAgree

LEMMA ApplyCopies ==
  ASSUME TypeOK, OneHolder, CopiesAgree, Provenance,
         NEW t \in Fetcher, Apply(t)
  PROVE  CopiesAgree'
<1> USE DEF jobVars
<1>1. CASE Acquire(t)
  BY <1>1, WatchUpToDate, CopiesKept DEF Acquire
<1>2. CASE Refused(t)
  BY <1>2, CopiesKept DEF Refused, TypeOK
<1>3. CASE SkipStale(t)
  BY <1>3, WatchUpToDate, CopiesKept DEF SkipStale
<1>4. CASE RefuseRules(t)
  BY <1>4, WatchUpToDate, CopiesKept DEF RefuseRules
<1>5. CASE SkipDuplicate(t)
  BY <1>5, WatchUpToDate, CopiesKept DEF SkipDuplicate, Accept
<1>6. CASE BuildFails(t)
  BY <1>6, WatchUpToDate, CopiesKept DEF BuildFails, Accept
<1>7. CASE PublishGbt(t)
  <2>1. pc[t] = "hold" /\ gbt[t].prev \in Block /\ gbt[t].gen \in Nat
    BY <1>7 DEF PublishGbt, Accept, Provenance, TypeOK, Template
  <2>2. permit' = t /\ pc'[t] = "send"
    BY <1>7, <2>1 DEF PublishGbt, OneHolder, TypeOK
  <2>3. current' = Feed!JobOf("gbt", gbt[t].prev, gbt[t].gen, jobCounter)
    BY <1>7 DEF PublishGbt, GbtJob
  <2>4. tip' = [hash |-> gbt[t].prev, height |-> Height[gbt[t].prev]]
    BY <1>7, <2>1, <2>3, EngineAssumption DEF PublishGbt, Feed!JobOf
  <2>5. lastKey' = <<"gbt", gbt[t].prev, gbt[t].gen>>
    BY <1>7 DEF PublishGbt, GbtKey
  <2> QED
    BY <2>1, <2>2, <2>3, <2>4, <2>5, CopiesPublished
<1>8. CASE SendGbt(t)
  BY <1>8 DEF SendGbt, CopiesAgree
<1> QED
  BY <1>1, <1>2, <1>3, <1>4, <1>5, <1>6, <1>7, <1>8 DEF Apply

(* A fast job is built on the announced block, one above the height the    *)
(* announcement was given, and chain_tip vouches for that height.          *)
LEMMA FastJobHeight ==
  ASSUME TypeOK, CopiesAgree, Provenance, FastPublish
  PROVE  /\ fast.block \in Block
         /\ fast.height = Height[fast.block]
         /\ Feed!Ready(current)
         /\ current.height = fast.height
         /\ current' = Feed!JobOf("fast", fast.block, 0, jobCounter)
<1>1. fast.block \in Block /\ fast.height \in Nat
  BY DEF FastPublish, Provenance, TypeOK, Announcement
<1>2. Feed!Ready(current)
  BY DEF FastPublish, CanPublishFast, ExtendsTip, Provenance, NoTip
<1>3. /\ Parent[fast.block] = current.prev
      /\ fast.height = (current.height - 1) + 1
      /\ current.height = Height[current.prev] + 1
      /\ current.prev \in Block
  BY <1>2 DEF FastPublish, CanPublishFast, ExtendsTip, CopiesAgree, Provenance
<1>4. Height[fast.block] = current.height
  BY <1>1, <1>3, EngineAssumption
<1>5. current.height \in Nat
  BY DEF TypeOK, Feed!Job
<1>6. fast.height = Height[fast.block]
  BY <1>3, <1>4, <1>5
<1>7. current' = Feed!JobOf("fast", fast.block, 0, jobCounter)
  BY <1>6 DEF FastPublish, FastJob, Feed!JobOf
<1> QED  BY <1>1, <1>2, <1>4, <1>6, <1>7

LEMMA FastCopies ==
  ASSUME TypeOK, OneHolder, CopiesAgree, Provenance, FastPath
  PROVE  CopiesAgree'
<1> USE DEF jobVars, taskVars, TypeOK, Announcement, Handled
<1>1. CASE FastBusy
  BY <1>1, CopiesKept DEF FastBusy
<1>2. CASE FastAcquire
  BY <1>2, WatchUpToDate, CopiesKept DEF FastAcquire
<1>3. CASE FastFallback
  BY <1>3, WatchUpToDate, CopiesKept DEF FastFallback
<1>4. CASE FastIgnore
  BY <1>4, WatchUpToDate, CopiesKept DEF FastIgnore
<1>5. CASE FastPublish
  <2>1. permit' = P2P /\ fast'.pc = "send"
    BY <1>5 DEF FastPublish, OneHolder
  <2>2. /\ tip' = [hash |-> fast.block, height |-> Height[fast.block]]
        /\ lastKey' = <<"fast", fast.block, 0>>
    BY <1>5, FastJobHeight DEF FastPublish, FastKey
  <2> QED
    BY <1>5, <2>1, <2>2, FastJobHeight, CopiesPublished
<1>6. CASE FastSend
  BY <1>6 DEF FastSend, CopiesAgree
<1>7. ASSUME NEW t \in RefreshTask, FastSpawn(t) PROVE CopiesAgree'
  BY <1>7, CopiesKept DEF FastSpawn, Fetcher
<1> QED
  BY <1>1, <1>2, <1>3, <1>4, <1>5, <1>6, <1>7 DEF FastPath

LEMMA CopiesStep ==
  ASSUME TypeOK, OneHolder, CopiesAgree, Provenance, [Next]_vars
  PROVE  CopiesAgree'
<1> USE DEF TypeOK, nodeVars, taskVars, jobVars, Fetcher
<1>1. CASE UNCHANGED vars
  BY <1>1, CopiesKept DEF vars
<1>2. CASE Exited
  BY <1>1, <1>2 DEF Exited
<1>3. CASE (\E b \in Block : NodeAdvance(b)) \/ NodeMempool
  BY <1>3, CopiesKept DEF NodeAdvance, NodeMempool
<1>4. ASSUME NEW t \in Fetcher, RpcReply(t) \/ RpcFail(t) \/ TakePending(t)
      PROVE  CopiesAgree'
  BY <1>4, CopiesKept DEF RpcReply, RpcFail, TakePending
<1>5. CASE LongpollLoop
  BY <1>5, CopiesKept
  DEF LongpollLoop, LongpollSend, LongpollReply, LongpollFallback
<1>6. CASE ZmqLoop
  BY <1>6, CopiesKept DEF ZmqLoop, ZmqTrigger, ZmqDebounced, DebounceElapses
<1>7. ASSUME NEW b \in Block, Announce(b) \/ AnnounceNext(b)
      PROVE  CopiesAgree'
  BY <1>7, CopiesKept DEF Announce, AnnounceNext
<1>8. CASE AnnounceEnd
  BY <1>8, CopiesKept DEF AnnounceEnd
<1> QED
  BY <1>1, <1>2, <1>3, <1>4, <1>5, <1>6, <1>7, <1>8, ApplyCopies, FastCopies
  DEF Next

-----------------------------------------------------------------------------
(* Where the data in hand comes from                                       *)

LEMMA ProvenanceKept ==
  ASSUME Provenance, UNCHANGED <<current, tip, jobCounter>>,
         \A t \in Fetcher : pc'[t] \in {"apply", "hold"} =>
           \/ gbt'[t].prev \in Block
           \/ pc[t] \in {"apply", "hold"} /\ gbt'[t] = gbt[t],
         fast'.pc \in {"announced", "hold"} =>
           \/ fast'.block \in Block
           \/ fast.pc \in {"announced", "hold"} /\ fast'.block = fast.block
  PROVE  Provenance'
  BY DEF Provenance

LEMMA ReleaseProvenance ==
  ASSUME TypeOK, Provenance, NEW t \in Fetcher,
         NEW next \in FetchState \ {"apply", "hold"}, Release(t, next),
         UNCHANGED <<current, tip, jobCounter>>
  PROVE  Provenance'
  BY ProvenanceKept DEF Release, TypeOK

LEMMA ApplyProvenance ==
  ASSUME TypeOK, Provenance, NEW t \in Fetcher, Apply(t)
  PROVE  Provenance'
<1> USE DEF jobVars
<1>0. /\ AfterApply(t) \in FetchState \ {"apply", "hold"}
      /\ AfterError(t) \in FetchState \ {"apply", "hold"}
  BY DEF AfterApply, AfterError, FetchState
<1>1. CASE Acquire(t)
  BY <1>1, ProvenanceKept DEF Acquire, TypeOK
<1>2. CASE Refused(t)
  BY <1>0, <1>2, ProvenanceKept DEF Refused, TypeOK
<1>3. CASE SkipStale(t)
  BY <1>0, <1>3, ReleaseProvenance DEF SkipStale
<1>4. CASE RefuseRules(t)
  BY <1>0, <1>4, ReleaseProvenance DEF RefuseRules
<1>5. CASE SkipDuplicate(t)
  BY <1>0, <1>5, ReleaseProvenance DEF SkipDuplicate, Accept
<1>6. CASE BuildFails(t)
  BY <1>0, <1>6, ReleaseProvenance DEF BuildFails, Accept
<1>7. CASE PublishGbt(t)
  <2>1. gbt[t].prev \in Block
    BY <1>7 DEF PublishGbt, Accept, Provenance
  <2>2. /\ current'.id = jobCounter
        /\ current'.prev = gbt[t].prev
        /\ Feed!Ready(current')
    BY <1>7 DEF PublishGbt, GbtJob, Feed!JobOf, Feed!Ready
  <2>3. current'.id < jobCounter'
    BY <1>7, <2>2 DEF PublishGbt, TypeOK
  <2>4. ASSUME NEW u \in Fetcher, pc'[u] \in {"apply", "hold"}
        PROVE  gbt'[u].prev \in Block
    BY <1>7, <2>4 DEF PublishGbt, TypeOK, Provenance
  <2>5. fast' = fast
    BY <1>7 DEF PublishGbt
  <2> QED
    BY <2>1, <2>2, <2>3, <2>4, <2>5 DEF Provenance
<1>8. CASE SendGbt(t)
  BY <1>0, <1>8, ReleaseProvenance DEF SendGbt
<1> QED
  BY <1>1, <1>2, <1>3, <1>4, <1>5, <1>6, <1>7, <1>8 DEF Apply

LEMMA FastProvenance ==
  ASSUME TypeOK, CopiesAgree, Provenance, FastPath
  PROVE  Provenance'
<1> USE DEF jobVars, taskVars, TypeOK, Announcement, Handled
<1>1. CASE FastBusy
  BY <1>1, ProvenanceKept DEF FastBusy
<1>2. CASE FastAcquire
  BY <1>2, ProvenanceKept DEF FastAcquire
<1>3. CASE FastFallback
  BY <1>3, ProvenanceKept DEF FastFallback
<1>4. CASE FastIgnore
  BY <1>4, ProvenanceKept DEF FastIgnore
<1>5. CASE FastPublish
  <2>1. /\ current'.id = jobCounter
        /\ current'.prev \in Block
        /\ Feed!Ready(current')
    BY <1>5, FastJobHeight DEF Feed!JobOf, Feed!Ready
  <2>2. current'.id < jobCounter'
    BY <1>5, <2>1 DEF FastPublish
  <2>3. pc' = pc /\ gbt' = gbt /\ fast'.pc = "send"
    BY <1>5 DEF FastPublish
  <2> QED
    BY <2>1, <2>2, <2>3 DEF Provenance
<1>6. CASE FastSend
  BY <1>6, ProvenanceKept DEF FastSend
<1>7. ASSUME NEW t \in RefreshTask, FastSpawn(t) PROVE Provenance'
  BY <1>7, ProvenanceKept DEF FastSpawn, Fetcher
<1> QED
  BY <1>1, <1>2, <1>3, <1>4, <1>5, <1>6, <1>7 DEF FastPath

LEMMA ProvenanceStep ==
  ASSUME TypeOK, CopiesAgree, Provenance, [Next]_vars
  PROVE  Provenance'
<1> USE DEF TypeOK, nodeVars, taskVars, jobVars, Fetcher
<1>1. CASE UNCHANGED vars
  BY <1>1, ProvenanceKept DEF vars
<1>2. CASE Exited
  BY <1>1, <1>2 DEF Exited
<1>3. CASE (\E b \in Block : NodeAdvance(b)) \/ NodeMempool
  BY <1>3, ProvenanceKept DEF NodeAdvance, NodeMempool
<1>4. ASSUME NEW t \in Fetcher, RpcReply(t) \/ RpcFail(t) \/ TakePending(t)
      PROVE  Provenance'
  BY <1>4, ProvenanceKept
  DEF RpcReply, RpcFail, TakePending, AfterError, NodeTemplate
<1>5. CASE LongpollLoop
  BY <1>5, ProvenanceKept
  DEF LongpollLoop, LongpollSend, LongpollReply, LongpollFallback, NodeTemplate
<1>6. CASE ZmqLoop
  BY <1>6, ProvenanceKept
  DEF ZmqLoop, ZmqTrigger, ZmqDebounced, DebounceElapses
<1>7. ASSUME NEW b \in Block, Announce(b) \/ AnnounceNext(b)
      PROVE  Provenance'
  BY <1>7, ProvenanceKept DEF Announce, AnnounceNext
<1>8. CASE AnnounceEnd
  BY <1>8, ProvenanceKept DEF AnnounceEnd, NoAnnouncement
<1> QED
  BY <1>1, <1>2, <1>3, <1>4, <1>5, <1>6, <1>7, <1>8, ApplyProvenance,
     FastProvenance
  DEF Next

-----------------------------------------------------------------------------
(* The blocks that the node's answers name                                 *)

LEMMA NamesKept ==
  ASSUME OneBlockPerHeight, node'.tip = node.tip,
         \A b \in Block : Named(b)' => Named(b)
  PROVE  OneBlockPerHeight'
  BY DEF OneBlockPerHeight

LEMMA NodeNames ==
  ASSUME TypeOK, OneBlockPerHeight, NEW b \in Block, NodeAdvance(b)
  PROVE  OneBlockPerHeight'
<1>1. /\ node'.tip = b
      /\ Height[b] > Height[node.tip]
  BY DEF NodeAdvance, TypeOK
<1>2. ASSUME NEW x \in Block, Named(x)'
      PROVE  x = b \/ Named(x)
  BY <1>1, <1>2 DEF NodeAdvance, Named, taskVars, jobVars
<1>3. ASSUME NEW x \in Block, Named(x)
      PROVE  Height[x] <= Height[node.tip]
  BY <1>3 DEF OneBlockPerHeight
<1>4. node.tip \in Block /\ \A x \in Block : Height[x] \in Nat
  BY EngineAssumption DEF TypeOK
<1>5. SUFFICES ASSUME NEW x \in Block, NEW y \in Block, Named(x)', Named(y)'
               PROVE  /\ Height[x] <= Height[node'.tip]
                      /\ Height[x] = Height[y] => x = y
  BY DEF OneBlockPerHeight
<1>6. Height[x] <= Height[node'.tip]
  BY <1>1, <1>2, <1>3, <1>4, <1>5
<1>7. ASSUME Height[x] = Height[y] PROVE x = y
  <2>1. CASE Named(x) /\ Named(y)
    BY <1>7, <2>1 DEF OneBlockPerHeight
  <2>2. CASE x = b \/ y = b
    BY <1>1, <1>2, <1>3, <1>4, <1>5, <1>7, <2>2
  <2> QED  BY <1>2, <1>5, <2>1, <2>2
<1> QED  BY <1>6, <1>7

LEMMA ReleaseNames ==
  ASSUME TypeOK, OneBlockPerHeight, NEW t \in Fetcher,
         NEW next \in FetchState \ {"apply", "hold"}, Release(t, next),
         UNCHANGED current
  PROVE  OneBlockPerHeight'
  BY NamesKept DEF Release, nodeVars, TypeOK, Named

LEMMA ApplyNames ==
  ASSUME TypeOK, Provenance, OneBlockPerHeight, NEW t \in Fetcher, Apply(t)
  PROVE  OneBlockPerHeight'
<1> USE DEF jobVars
<1>0. /\ AfterApply(t) \in FetchState \ {"apply", "hold"}
      /\ AfterError(t) \in FetchState \ {"apply", "hold"}
  BY DEF AfterApply, AfterError, FetchState
<1>1. CASE Acquire(t)
  BY <1>1, NamesKept DEF Acquire, nodeVars, TypeOK, Named
<1>2. CASE Refused(t)
  BY <1>0, <1>2, NamesKept DEF Refused, nodeVars, TypeOK, Named
<1>3. CASE SkipStale(t)
  BY <1>0, <1>3, ReleaseNames DEF SkipStale
<1>4. CASE RefuseRules(t)
  BY <1>0, <1>4, ReleaseNames DEF RefuseRules
<1>5. CASE SkipDuplicate(t)
  BY <1>0, <1>5, ReleaseNames DEF SkipDuplicate
<1>6. CASE BuildFails(t)
  BY <1>0, <1>6, ReleaseNames DEF BuildFails
<1>7. CASE PublishGbt(t)
  <2>1. pc[t] = "hold" /\ current'.prev = gbt[t].prev
    BY <1>7 DEF PublishGbt, Accept, GbtJob, Feed!JobOf
  <2>2. /\ pc' = [pc EXCEPT ![t] = "send"]
        /\ gbt' = [gbt EXCEPT ![t] = NoTemplate]
        /\ node' = node
    BY <1>7 DEF PublishGbt, nodeVars
  <2>3. \A b \in Block : Named(b)' => Named(b)
    BY <2>1, <2>2 DEF Named, TypeOK
  <2> QED  BY <2>2, <2>3, NamesKept
<1>8. CASE SendGbt(t)
  BY <1>0, <1>8, ReleaseNames DEF SendGbt
<1> QED
  BY <1>1, <1>2, <1>3, <1>4, <1>5, <1>6, <1>7, <1>8 DEF Apply

LEMMA FastNames ==
  ASSUME TypeOK, CopiesAgree, Provenance, OneBlockPerHeight, FastPath
  PROVE  OneBlockPerHeight'
<1> USE NamesKept DEF nodeVars, jobVars, taskVars, TypeOK, Named
<1>1. CASE FastBusy
  BY <1>1 DEF FastBusy
<1>2. CASE FastAcquire
  BY <1>2 DEF FastAcquire
<1>3. CASE FastFallback
  BY <1>3 DEF FastFallback
<1>4. CASE FastIgnore
  BY <1>4 DEF FastIgnore
<1>5. CASE FastPublish
  <2>1. current'.kind = "fast"
    BY <1>5, FastJobHeight DEF Feed!JobOf
  <2> QED  BY <1>5, <2>1 DEF FastPublish
<1>6. CASE FastSend
  BY <1>6 DEF FastSend
<1>7. ASSUME NEW t \in RefreshTask, FastSpawn(t) PROVE OneBlockPerHeight'
  BY <1>7 DEF FastSpawn, Fetcher
<1> QED
  BY <1>1, <1>2, <1>3, <1>4, <1>5, <1>6, <1>7 DEF FastPath

LEMMA NamesStep ==
  ASSUME TypeOK, CopiesAgree, Provenance, OneBlockPerHeight, [Next]_vars
  PROVE  OneBlockPerHeight'
<1> USE DEF TypeOK, nodeVars, taskVars, jobVars, Fetcher, Named
<1>1. CASE UNCHANGED vars
  BY <1>1, NamesKept DEF vars
<1>2. CASE Exited
  BY <1>1, <1>2 DEF Exited
<1>3. CASE NodeMempool
  BY <1>3, NamesKept DEF NodeMempool
<1>4. ASSUME NEW t \in Fetcher, RpcReply(t) \/ RpcFail(t) \/ TakePending(t)
      PROVE  OneBlockPerHeight'
  BY <1>4, NamesKept
  DEF RpcReply, RpcFail, TakePending, AfterError, NodeTemplate
<1>5. CASE LongpollLoop
  BY <1>5, NamesKept
  DEF LongpollLoop, LongpollSend, LongpollReply, LongpollFallback, NodeTemplate
<1>6. CASE ZmqLoop
  BY <1>6, NamesKept DEF ZmqLoop, ZmqTrigger, ZmqDebounced, DebounceElapses
<1>7. ASSUME NEW b \in Block, Announce(b) \/ AnnounceNext(b)
      PROVE  OneBlockPerHeight'
  BY <1>7, NamesKept DEF Announce, AnnounceNext
<1>8. CASE AnnounceEnd
  BY <1>8, NamesKept DEF AnnounceEnd
<1> QED
  BY <1>1, <1>2, <1>3, <1>4, <1>5, <1>6, <1>7, <1>8, NodeNames, ApplyNames,
     FastNames
  DEF Next

-----------------------------------------------------------------------------
(* The inductive invariant                                                 *)

LEMMA InitIInv == Init => IInv
<1> SUFFICES ASSUME Init PROVE IInv
  OBVIOUS
<1>1. TypeOK
  BY InitTypeOK
<1>2. OneHolder
  BY EngineAssumption DEF Init, OneHolder, Fetcher, NoAnnouncement
<1>3. CopiesAgree
  BY DEF Init, CopiesAgree, Feed!Ready, Feed!EmptyJob
<1>4. Provenance
  BY DEF Init, Provenance, NoAnnouncement, Feed!Ready, Feed!EmptyJob
<1>5. OneBlockPerHeight
  <2>1. \A b \in Block : Named(b) => b = Genesis
    BY DEF Init, Named, Feed!EmptyJob
  <2>2. node.tip = Genesis /\ Height[Genesis] \in Nat
    BY EngineAssumption DEF Init
  <2> QED  BY <2>1, <2>2 DEF OneBlockPerHeight
<1> QED  BY <1>1, <1>2, <1>3, <1>4, <1>5 DEF IInv

LEMMA NextIInv == IInv /\ [Next]_vars => IInv'
  BY TypeStep, HolderStep, CopiesStep, ProvenanceStep, NamesStep DEF IInv

THEOREM InductiveInvariant == Spec => []IInv
  BY InitIInv, NextIInv, PTL DEF Spec

(* Every variable keeps its type in every reachable state. *)
THEOREM TypeCorrect == Spec => []TypeOK
<1>1. IInv => TypeOK
  BY DEF IInv
<1> QED  BY <1>1, InductiveInvariant, PTL

(* One task at a time decides on a template, and it holds the permit of    *)
(* refresh_sem from the attempt to the end of publish_job.                 *)
THEOREM PermitIsExclusive == Spec => []OneHolder
<1>1. IInv => OneHolder
  BY DEF IInv
<1> QED  BY <1>1, InductiveInvariant, PTL

(* chain_tip, last_template_key, current and the watch channel always      *)
(* describe the same template, save the channel during a publication.      *)
THEOREM CopiesStayTogether == Spec => []CopiesAgree
<1>1. IInv => CopiesAgree
  BY DEF IInv
<1> QED  BY <1>1, InductiveInvariant, PTL

-----------------------------------------------------------------------------
(* The engine implements the feed                                          *)

LEMMA PublishGbtIsPublish ==
  ASSUME IInv, IInv', NEW t \in Fetcher, PublishGbt(t)
  PROVE  Feed!Publish
<1> USE DEF IInv
<1>1. pc[t] = "hold" /\ ~OlderThanCurrent(gbt[t])
  BY DEF PublishGbt, Accept
<1>2. gbt[t].prev \in Block /\ gbt[t].gen \in Nat
  BY <1>1 DEF Provenance, TypeOK, Template
<1>3. current' = Feed!JobOf("gbt", gbt[t].prev, gbt[t].gen, jobCounter)
  BY DEF PublishGbt, GbtJob
<1>4. watch = current
  BY <1>1, WatchUpToDate
<1>5. current' \in Feed!Job
  BY DEF TypeOK
<1>6. /\ Feed!Ready(current')
      /\ current'.prev \in Block
      /\ current'.height = Height[current'.prev] + 1
      /\ current'.id = jobCounter
  BY <1>2, <1>3 DEF Feed!Ready, Feed!JobOf
<1>7. jobCounter > current.id
  BY DEF Provenance, TypeOK, Feed!Job
<1>8. current'.height >= current.height
  <2>1. current'.height \in Nat /\ current.height \in Nat
    BY <1>5 DEF TypeOK, Feed!Job
  <2>2. CASE Feed!Ready(current)
    BY <1>1, <1>2, <1>3, <2>1, <2>2, EngineAssumption
    DEF OlderThanCurrent, Feed!JobOf
  <2>3. CASE ~Feed!Ready(current)
    BY <2>1, <2>3 DEF Provenance, Feed!EmptyJob
  <2> QED  BY <2>2, <2>3
<1>9. Feed!Key(current') # Feed!Key(current)
  BY <1>3 DEF PublishGbt, CopiesAgree, GbtKey, Feed!Key, Feed!JobOf
<1>10. ASSUME current'.height = current.height, current.kind # "fast"
       PROVE  current'.prev = current.prev
  <2>1. Height[gbt[t].prev] \in Nat /\ current'.height > 0
    BY <1>2, <1>3, EngineAssumption DEF Feed!JobOf
  <2>2. current.kind = "gbt"
    BY <1>10, <2>1 DEF Provenance, Feed!Ready, Feed!EmptyJob, TypeOK, Feed!Job
  <2>3. current.prev \in Block /\ current.height = Height[current.prev] + 1
    BY <2>2 DEF CopiesAgree, Provenance, Feed!Ready
  <2>4. Height[gbt[t].prev] = Height[current.prev]
    BY <1>2, <1>3, <1>10, <2>3, EngineAssumption DEF Feed!JobOf
  <2>5. Named(gbt[t].prev) /\ Named(current.prev)
    BY <1>1, <2>2 DEF Named
  <2>6. gbt[t].prev = current.prev
    BY <1>2, <2>3, <2>4, <2>5 DEF OneBlockPerHeight
  <2> QED  BY <1>3, <2>6 DEF Feed!JobOf
<1>11. current'.kind = "gbt"
  BY <1>3 DEF Feed!JobOf
<1> QED
  BY <1>4, <1>5, <1>6, <1>7, <1>8, <1>9, <1>10, <1>11
  DEF Feed!Publish, PublishGbt

LEMMA FastPublishIsPublish ==
  ASSUME IInv, IInv', FastPublish
  PROVE  Feed!Publish
<1> USE DEF IInv
<1>1. /\ fast.block \in Block
      /\ fast.height = Height[fast.block]
      /\ current.height = fast.height
      /\ current' = Feed!JobOf("fast", fast.block, 0, jobCounter)
  BY FastJobHeight
<1>2. watch = current
  BY WatchUpToDate DEF FastPublish
<1>3. current' \in Feed!Job /\ current \in Feed!Job
  BY DEF TypeOK
<1>4. /\ Feed!Ready(current')
      /\ current'.prev \in Block
      /\ current'.height = Height[current'.prev] + 1
      /\ current'.id = jobCounter
  BY <1>1 DEF Feed!Ready, Feed!JobOf
<1>5. jobCounter > current.id
  BY DEF Provenance, TypeOK, Feed!Job
<1>6. current'.height > current.height
  BY <1>1, <1>3, <1>4, EngineAssumption DEF Feed!JobOf, Feed!Job
<1>7. Feed!Key(current') # Feed!Key(current)
  BY <1>1 DEF FastPublish, CanPublishFast, CopiesAgree, FastKey, Feed!Key,
              Feed!JobOf
<1>8. /\ current'.height >= current.height
      /\ current'.height # current.height
  BY <1>3, <1>6 DEF Feed!Job
<1> QED
  BY <1>2, <1>3, <1>4, <1>5, <1>6, <1>7, <1>8 DEF Feed!Publish, FastPublish

(* The send of publish_job delivers the job, if the channel lags. *)
LEMMA SendIsDeliver ==
  ASSUME watch' = current, current' = current
  PROVE  [Feed!FeedNext]_(Feed!feedVars)
  BY DEF Feed!FeedNext, Feed!Deliver, Feed!feedVars

LEMMA ApplyFeed ==
  ASSUME IInv, IInv', NEW t \in Fetcher, Apply(t)
  PROVE  [Feed!FeedNext]_(Feed!feedVars)
<1>1. CASE PublishGbt(t)
  BY <1>1, PublishGbtIsPublish DEF Feed!FeedNext
<1>2. CASE SendGbt(t)
  BY <1>2, SendIsDeliver DEF SendGbt, jobVars
<1>3. CASE Acquire(t) \/ Refused(t) \/ SkipStale(t) \/ RefuseRules(t)
             \/ SkipDuplicate(t) \/ BuildFails(t)
  BY <1>3
  DEF Acquire, Refused, SkipStale, RefuseRules, SkipDuplicate, BuildFails,
      jobVars, Feed!feedVars
<1> QED  BY <1>1, <1>2, <1>3 DEF Apply

LEMMA FastFeed ==
  ASSUME IInv, IInv', FastPath
  PROVE  [Feed!FeedNext]_(Feed!feedVars)
<1>1. CASE FastPublish
  BY <1>1, FastPublishIsPublish DEF Feed!FeedNext
<1>2. CASE FastSend
  BY <1>2, SendIsDeliver DEF FastSend, jobVars
<1>3. CASE FastBusy \/ FastAcquire \/ FastFallback \/ FastIgnore
             \/ \E t \in RefreshTask : FastSpawn(t)
  BY <1>3
  DEF FastBusy, FastAcquire, FastFallback, FastIgnore, FastSpawn, jobVars,
      Feed!feedVars
<1> QED  BY <1>1, <1>2, <1>3 DEF FastPath

LEMMA FeedStep ==
  ASSUME IInv, IInv', [Next]_vars
  PROVE  [Feed!FeedNext]_(Feed!feedVars)
<1> USE DEF nodeVars, taskVars, jobVars, Feed!feedVars
<1>1. CASE UNCHANGED vars
  BY <1>1 DEF vars
<1>2. CASE Exited
  BY <1>1, <1>2 DEF Exited
<1>3. CASE (\E b \in Block : NodeAdvance(b)) \/ NodeMempool
  BY <1>3 DEF NodeAdvance, NodeMempool
<1>4. ASSUME NEW t \in Fetcher, RpcReply(t) \/ RpcFail(t) \/ TakePending(t)
      PROVE  UNCHANGED Feed!feedVars
  BY <1>4 DEF RpcReply, RpcFail, TakePending
<1>5. CASE LongpollLoop
  BY <1>5 DEF LongpollLoop, LongpollSend, LongpollReply, LongpollFallback
<1>6. CASE ZmqLoop
  BY <1>6 DEF ZmqLoop, ZmqTrigger, ZmqDebounced, DebounceElapses
<1>7. ASSUME NEW b \in Block, Announce(b) \/ AnnounceNext(b)
      PROVE  UNCHANGED Feed!feedVars
  BY <1>7 DEF Announce, AnnounceNext
<1>8. CASE AnnounceEnd
  BY <1>8 DEF AnnounceEnd
<1> QED
  BY <1>1, <1>2, <1>3, <1>4, <1>5, <1>6, <1>7, <1>8, ApplyFeed, FastFeed
  DEF Next

(* What the sessions rely on: the job store moves to fresh ids, to heights *)
(* that do not fall and to other template keys, changes the parent at one  *)
(* height only from a fast job, and the watch channel passes on every job  *)
(* of the store, one at a time and in order.                               *)
THEOREM EngineImplementsFeed == Spec => ImplementsFeed
<1>1. Init => Feed!FeedInit
  BY DEF Init, Feed!FeedInit
<1>2. IInv /\ IInv' /\ [Next]_vars => [Feed!FeedNext]_(Feed!feedVars)
  BY FeedStep
<1> QED
  BY <1>1, <1>2, InductiveInvariant, PTL
  DEF Spec, ImplementsFeed, Feed!FeedSpec

-----------------------------------------------------------------------------
(* Fast jobs                                                               *)

(* A step that puts a fast job in place is FastPublish. *)
LEMMA OnlyFastPublish ==
  ASSUME [Next]_vars, current' # current, current'.kind = "fast"
  PROVE  FastPublish
<1> USE DEF jobVars
<1>1. ASSUME NEW t \in Fetcher, Apply(t) PROVE FALSE
  <2>1. CASE PublishGbt(t)
    BY <2>1 DEF PublishGbt, GbtJob, Feed!JobOf
  <2>2. CASE SendGbt(t) \/ Acquire(t) \/ Refused(t) \/ SkipStale(t)
               \/ RefuseRules(t) \/ SkipDuplicate(t) \/ BuildFails(t)
    BY <2>2 DEF SendGbt, Acquire, Refused, SkipStale, RefuseRules,
                SkipDuplicate, BuildFails
  <2> QED  BY <1>1, <2>1, <2>2 DEF Apply
<1>2. CASE FastPath
  BY <1>2 DEF FastPath, FastBusy, FastAcquire, FastFallback, FastIgnore,
              FastSend, FastSpawn
<1>3. CASE \/ \E b \in Block : NodeAdvance(b) \/ Announce(b) \/ AnnounceNext(b)
           \/ \E t \in Fetcher : RpcReply(t) \/ RpcFail(t) \/ TakePending(t)
           \/ NodeMempool \/ LongpollLoop \/ ZmqLoop \/ AnnounceEnd \/ Exited
           \/ UNCHANGED vars
  BY <1>3 DEF NodeAdvance, Announce, AnnounceNext, RpcReply, RpcFail,
              TakePending, NodeMempool, LongpollLoop, LongpollSend,
              LongpollReply, LongpollFallback, ZmqLoop, ZmqTrigger,
              ZmqDebounced, DebounceElapses, AnnounceEnd, Exited, vars
<1> QED  BY <1>1, <1>2, <1>3 DEF Next

(* A fast job is for a child of the block the current job builds on, with  *)
(* a height estimated at any earlier time and any number of headers in one *)
(* message: chain_tip, which the code compares with, names that block.     *)
THEOREM FastJobsExtendCurrent == Spec => FastExtendsCurrent
<1> DEFINE A == current'.kind = "fast" /\ current' # current =>
                  Feed!Ready(current) /\ Parent[current'.prev] = current.prev
<1>1. IInv /\ [Next]_vars => [A]_vars
  <2> SUFFICES ASSUME IInv, [Next]_vars,
                      current'.kind = "fast", current' # current
               PROVE  Feed!Ready(current) /\ Parent[current'.prev] = current.prev
    OBVIOUS
  <2>1. FastPublish
    BY OnlyFastPublish
  <2>2. Feed!Ready(current) /\ current'.prev = fast.block
    BY <2>1, FastJobHeight DEF IInv, Feed!JobOf
  <2>3. Parent[fast.block] = tip.hash
    BY <2>1 DEF FastPublish, CanPublishFast, ExtendsTip
  <2>4. tip.hash = current.prev
    BY <2>2 DEF IInv, CopiesAgree
  <2> QED  BY <2>2, <2>3, <2>4
<1> HIDE DEF A
<1>2. Spec => [][A]_vars
  BY <1>1, InductiveInvariant, PTL DEF Spec
<1> QED  BY <1>2 DEF FastExtendsCurrent, A

=============================================================================
