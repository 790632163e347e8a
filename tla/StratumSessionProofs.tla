------------------------ MODULE StratumSessionProofs ------------------------
(***************************************************************************)
(* Machine-checked proofs about StratumSession, for every number of        *)
(* remembered jobs, job ids, solutions and difficulties and every bound.   *)
(* The argument: the remembered jobs carry the ids last drawn, in order    *)
(* and without a gap (RecentIds), which a push at the end, a cut at the    *)
(* front and a reset to none all keep; as no more jobs are remembered than *)
(* there are ids, such ids are distinct although they wrap.                *)
(***************************************************************************)
EXTENDS StratumSession, SequenceTheorems, TLAPS

(* The id that was drawn k draws ago: ids run from 1 to MaxId and again.   *)
Drawn(k) == IF nextId > k THEN nextId - k ELSE nextId - k + MaxId

RecentIds ==
  \A i \in 1..Len(jobs) : jobs[i].id = Drawn(Len(jobs) + 1 - i)

(* A share under examination has a solution of the miner's, and one on its *)
(* way to the node a solution of a block.                                  *)
ShareInHand ==
  /\ reader.pc \in {"lookup", "validate"} => reader.pow \in Pow
  /\ reader.pc = "hand_over" => reader.pow \in BlockPow

IInv == TypeOK /\ RecentIds /\ ShareInHand

-----------------------------------------------------------------------------
(* Values of the right type                                                *)

LEMMA NoRequestType == /\ EmptyJob \in Job
                       /\ NoJob \in SessionJob
                       /\ NoRequest \in ReaderState
                       /\ NoRequest.pc = "idle"
<1>1. EmptyJob \in Job
  BY DEF EmptyJob, Job
<1>2. NoJob \in SessionJob
  BY <1>1, SessionAssumption DEF NoJob, SessionJob, Id
<1> QED
  BY <1>1, <1>2, SessionAssumption DEF NoRequest, ReaderState

LEMMA NewJobType ==
  ASSUME TypeOK, NEW template \in Job, NEW d \in Difficulty
  PROVE  /\ NewJob(template, d) \in SessionJob
         /\ NewJob(template, d).id = nextId
  BY SessionAssumption DEF NewJob, SessionJob, TypeOK

LEMMA EffectTypes ==
  /\ \A d \in Difficulty : SetDifficultyMsg(d) \in Effect
  /\ \A job \in SessionJob, b \in BOOLEAN : Dispatch(job, b) \in Seq(Effect)
<1>1. \A d \in Difficulty : SetDifficultyMsg(d) \in Effect
  BY DEF SetDifficultyMsg, Effect
<1>2. ASSUME NEW job \in SessionJob, NEW b \in BOOLEAN
      PROVE  Dispatch(job, b) \in Seq(Effect)
  <2>1. job.template.prev \in Block \cup {NoBlock}
    BY DEF SessionJob, Job
  <2>2. [op |-> "notify", job |-> job] \in Effect
    BY DEF Effect
  <2>3. [op |-> "note", prev |-> job.template.prev, complete |-> b] \in Effect
    BY <2>1 DEF Effect
  <2> QED  BY <2>2, <2>3 DEF Dispatch
<1> QED  BY <1>1, <1>2

LEMMA ConfirmationType ==
  ASSUME TypeOK
  PROVE  <<SetDifficultyMsg(difficulty)>> \in Seq(Effect)
<1>1. SetDifficultyMsg(difficulty) \in Effect
  BY EffectTypes DEF TypeOK
<1> QED  BY <1>1

(* What a task still has to send, once it has sent the first of it. *)
LEMMA SentTypes ==
  ASSUME TypeOK, NEW t \in Task, out[t] # <<>>, Sent(t)
  PROVE  /\ out' \in [Task -> Seq(Effect)]
         /\ Head(out[t]) \in Effect
<1>1. out[t] \in Seq(Effect)
  BY DEF TypeOK
<1>2. Tail(out[t]) \in Seq(Effect) /\ Head(out[t]) \in Effect
  BY <1>1, HeadTailProperties
<1> QED  BY <1>2 DEF Sent, TypeOK

-----------------------------------------------------------------------------
(* push_job                                                                *)

(* A push onto all the jobs, or onto none, keeps the ids in order: the new *)
(* job takes the id next to be drawn and the others are one draw older.    *)
LEMMA PushKeepsIds ==
  ASSUME TypeOK, RecentIds, NEW job \in SessionJob, job.id = nextId,
         NEW kept, kept = jobs \/ kept = <<>>, PushJob(job, kept)
  PROVE  /\ jobs' \in Seq(SessionJob)
         /\ Len(jobs') <= JobLimit
         /\ nextId' \in Id
         /\ difficulty' \in Difficulty
         /\ RecentIds'
<1> DEFINE longer == Append(kept, job)
<1>0. /\ JobLimit \in Nat \ {0} /\ MaxId \in Nat \ {0} /\ JobLimit <= MaxId
      /\ nextId \in 1..MaxId
  BY SessionAssumption DEF TypeOK, Id
<1>1. kept \in Seq(SessionJob) /\ Len(kept) <= JobLimit
  <2>1. CASE kept = jobs
    BY <2>1 DEF TypeOK
  <2>2. CASE kept = <<>>
    BY <1>0, <2>2
  <2> QED  BY <2>1, <2>2
<1>2. /\ longer \in Seq(SessionJob)
      /\ Len(longer) = Len(kept) + 1
      /\ \A i \in 1..Len(kept) : longer[i] = kept[i]
      /\ longer[Len(kept) + 1] = job
  BY <1>1
<1>3. \A i \in 1..Len(kept) : kept[i].id = Drawn(Len(kept) + 1 - i)
  BY DEF RecentIds
<1>4. nextId' = (IF nextId = MaxId THEN 1 ELSE nextId + 1)
  BY DEF PushJob
<1>5. nextId' \in Id
  BY <1>0, <1>4 DEF Id
<1>6. difficulty' \in Difficulty
  BY DEF PushJob, SessionJob
(* The draws seen from the next id. *)
<1>7. ASSUME NEW k \in 0..(MaxId - 1)
      PROVE  Drawn(k + 1)' = IF k = 0 THEN nextId ELSE Drawn(k)
  BY <1>0, <1>4 DEF Drawn
<1>8. \A i \in 1..Len(longer) :
        Len(longer) - i < MaxId
          => longer[i].id = Drawn(Len(longer) + 1 - i)'
  <2> SUFFICES ASSUME NEW i \in 1..Len(longer), Len(longer) - i < MaxId
               PROVE  longer[i].id = Drawn(Len(longer) + 1 - i)'
    OBVIOUS
  <2> DEFINE k == Len(longer) - i
  <2>1. k \in 0..(MaxId - 1)
    BY <1>0, <1>1, <1>2
  <2>2. Drawn(k + 1)' = IF k = 0 THEN nextId ELSE Drawn(k)
    BY <2>1, <1>7
  <2>3. Len(longer) + 1 - i = k + 1
    BY <1>1, <1>2
  <2>4. CASE i = Len(kept) + 1
    <3>1. k = 0
      BY <1>1, <1>2, <2>4
    <3> QED  BY <1>2, <2>2, <2>3, <2>4, <3>1
  <2>5. CASE i \in 1..Len(kept)
    <3>1. k # 0 /\ k = Len(kept) + 1 - i
      BY <1>1, <1>2, <2>5
    <3> QED  BY <1>2, <1>3, <2>2, <2>3, <2>5, <3>1
  <2> QED  BY <1>1, <1>2, <2>4, <2>5
<1>9. CASE Len(longer) <= JobLimit
  <2>1. jobs' = longer
    BY <1>0, <1>1, <1>2, <1>9 DEF PushJob
  <2>2. RecentIds'
    BY <1>0, <1>1, <1>2, <1>8, <1>9, <2>1 DEF RecentIds
  <2> QED  BY <1>2, <1>5, <1>6, <1>9, <2>1, <2>2
<1>10. CASE Len(longer) > JobLimit
  <2>1. jobs' = Tail(longer)
    BY <1>10 DEF PushJob
  <2>2. Len(longer) = JobLimit + 1
    BY <1>0, <1>1, <1>2, <1>10
  <2>3. /\ jobs' \in Seq(SessionJob)
        /\ Len(jobs') = JobLimit
        /\ \A i \in 1..JobLimit : jobs'[i] = longer[i + 1]
    BY <1>0, <1>2, <2>1, <2>2
  <2>4. ASSUME NEW i \in 1..JobLimit
        PROVE  jobs'[i].id = Drawn(JobLimit + 1 - i)'
    <3>1. /\ i + 1 \in 1..Len(longer)
          /\ Len(longer) - (i + 1) < MaxId
          /\ Len(longer) + 1 - (i + 1) = JobLimit + 1 - i
      BY <1>0, <2>2
    <3> QED  BY <1>8, <2>3, <3>1
  <2>5. RecentIds'
    BY <2>3, <2>4 DEF RecentIds
  <2> QED  BY <1>0, <1>5, <1>6, <2>3, <2>5
<1> QED  BY <1>0, <1>1, <1>2, <1>9, <1>10

(* A change of difficulty, with the newest job pushed again under it. *)
LEMMA RepushKeeps ==
  ASSUME IInv, NEW t \in Task, NEW d \in Difficulty, Repush(t, d)
  PROVE  /\ out' \in [Task -> Seq(Effect)]
         /\ jobs' \in Seq(SessionJob)
         /\ Len(jobs') <= JobLimit
         /\ nextId' \in Id
         /\ difficulty' \in Difficulty
         /\ retargets' \in Nat
         /\ RecentIds'
<1>1. retargets' \in Nat
  BY DEF Repush, IInv, TypeOK
<1>2. <<SetDifficultyMsg(d)>> \in Seq(Effect)
  BY EffectTypes
<1>3. CASE bootstrapComplete /\ jobs # <<>>
  <2> DEFINE job == NewJob(Newest.template, d)
  <2>1. Newest.template \in Job
    <3>1. jobs \in Seq(SessionJob)
      BY DEF IInv, TypeOK
    <3>2. Len(jobs) \in 1..Len(jobs)
      BY <1>3, <3>1
    <3>3. Newest \in SessionJob
      BY <3>1, <3>2 DEF Newest
    <3> QED  BY <3>3 DEF SessionJob
  <2>2. job \in SessionJob /\ job.id = nextId
    BY <2>1, NewJobType DEF IInv
  <2>3. /\ PushJob(job, jobs)
        /\ out' = [out EXCEPT ![t] =
             <<SetDifficultyMsg(d)>> \o Dispatch(job, FALSE)]
    BY <1>3 DEF Repush
  <2>4. <<SetDifficultyMsg(d)>> \o Dispatch(job, FALSE) \in Seq(Effect)
    <3>1. Dispatch(job, FALSE) \in Seq(Effect)
      BY <2>2, EffectTypes
    <3> QED  BY <1>2, <3>1, ConcatProperties
  <2>5. out' \in [Task -> Seq(Effect)]
    BY <2>3, <2>4 DEF IInv, TypeOK
  <2> HIDE DEF job
  <2> QED  BY <1>1, <2>2, <2>3, <2>5, PushKeepsIds DEF IInv
<1>4. CASE ~(bootstrapComplete /\ jobs # <<>>)
  <2>1. /\ difficulty' = d
        /\ out' = [out EXCEPT ![t] = <<SetDifficultyMsg(d)>>]
        /\ UNCHANGED <<jobs, nextId>>
    BY <1>4 DEF Repush
  <2> QED
    BY <1>1, <1>2, <2>1 DEF IInv, TypeOK, RecentIds, Drawn
<1> QED  BY <1>3, <1>4

-----------------------------------------------------------------------------
(* Every step keeps IInv                                                   *)

LEMMA InitIInv == Init => IInv
<1> SUFFICES ASSUME Init PROVE IInv
  OBVIOUS
<1> USE SessionAssumption, FeedAssumption DEF Init
<1>1. store \in Job
  BY DEF JobOf, Job
<1>2. notify \in [pc: {"idle", "borrow", "decide"}, template: Job]
  BY NoRequestType
<1>3. reader \in ReaderState
  BY NoRequestType
<1>4. miner \in [job: SessionJob, diff: Difficulty]
  BY NoRequestType
<1>5. /\ out \in [Task -> Seq(Effect)]
      /\ submittedHashes \in Seq(Id \X Pow)
      /\ Len(submittedHashes) <= DupLimit
      /\ recorded \in Seq(Id \X Pow)
      /\ jobs \in Seq(SessionJob)
      /\ Len(jobs) <= JobLimit
  OBVIOUS
<1>6. /\ nextId \in Id
      /\ tokens \in 0..BucketCapacity
  BY DEF Id
<1>7. RecentIds
  BY <1>5 DEF RecentIds
<1>8. ShareInHand
  BY NoRequestType DEF ShareInHand
<1> QED
  BY <1>1, <1>2, <1>3, <1>4, <1>5, <1>6, <1>7, <1>8 DEF IInv, TypeOK

LEMMA EngineKeeps ==
  ASSUME IInv, Engine
  PROVE  IInv'
<1> USE DEF IInv, TypeOK, ShareInHand, RecentIds, Drawn, flagVars, jobVars, shareVars,
            boundVars
<1>1. CASE EnginePublish
  BY <1>1 DEF EnginePublish, Publish
<1>2. CASE EngineDeliver
  BY <1>2 DEF EngineDeliver, Deliver
<1> QED  BY <1>1, <1>2 DEF Engine

LEMMA SendKeeps ==
  ASSUME IInv, NEW t \in Task, Send(t)
  PROVE  IInv'
<1> USE DEF RecentIds, Drawn, flagVars, jobVars, shareVars, boundVars
<1>0. TypeOK
  BY DEF IInv
<1>1. CASE SendDifficulty(t)
  <2>1. out' \in [Task -> Seq(Effect)] /\ Head(out[t]) \in Effect
    BY <1>0, <1>1, SentTypes DEF SendDifficulty
  <2>2. Head(out[t]).diff \in Difficulty
    BY <1>1, <2>1 DEF SendDifficulty, Effect
  <2> QED  BY <1>1, <2>1, <2>2 DEF SendDifficulty, IInv, TypeOK, ShareInHand
<1>2. CASE SendNotify(t)
  <2>1. out' \in [Task -> Seq(Effect)] /\ Head(out[t]) \in Effect
    BY <1>0, <1>2, SentTypes DEF SendNotify
  <2>2. Head(out[t]).job \in SessionJob
    BY <1>2, <2>1 DEF SendNotify, Effect
  <2> QED  BY <1>2, <2>1, <2>2 DEF SendNotify, IInv, TypeOK, ShareInHand
<1>3. CASE NoteNotifySent(t)
  <2>1. out' \in [Task -> Seq(Effect)] /\ Head(out[t]) \in Effect
    BY <1>0, <1>3, SentTypes DEF NoteNotifySent
  <2>2. /\ Head(out[t]).prev \in Block \cup {NoBlock}
        /\ Head(out[t]).complete \in BOOLEAN
    BY <1>3, <2>1 DEF NoteNotifySent, Effect
  <2> QED  BY <1>3, <2>1, <2>2 DEF NoteNotifySent, IInv, TypeOK, ShareInHand
<1> QED  BY <1>1, <1>2, <1>3 DEF Send

LEMMA NotifyKeeps ==
  ASSUME IInv, NotifyTask \/ RefillBucket
  PROVE  IInv'
<1> USE SessionAssumption
    DEF flagVars, jobVars, shareVars, boundVars
<1>0. TypeOK /\ RecentIds /\ ShareInHand /\ EmptyJob \in Job
  BY NoRequestType DEF IInv
<1>1. CASE NotifyChanged
  BY <1>0, <1>1 DEF NotifyChanged, IInv, TypeOK, ShareInHand, RecentIds, Drawn
<1>2. CASE NotifyBorrow
  BY <1>0, <1>2 DEF NotifyBorrow, IInv, TypeOK, ShareInHand, RecentIds, Drawn
<1>3. CASE NotifySkipOrWait
  BY <1>0, <1>3
     DEF NotifySkipOrWait, NotifyDone, IInv, TypeOK, ShareInHand, RecentIds, Drawn
<1>4. CASE RefillBucket
  BY <1>0, <1>4 DEF RefillBucket, IInv, TypeOK, ShareInHand, RecentIds, Drawn
<1> DEFINE job == NewJob(notify.template, difficulty)
<1>5. job \in SessionJob /\ job.id = nextId
  BY <1>0, NewJobType DEF TypeOK
<1>6. [out EXCEPT !["notify"] = Dispatch(job, FALSE)] \in [Task -> Seq(Effect)]
  BY <1>0, <1>5, EffectTypes DEF TypeOK
<1> HIDE DEF job
<1>7. CASE NotifyClean
  <2>1. /\ PushJob(job, <<>>)
        /\ out' = [out EXCEPT !["notify"] = Dispatch(job, FALSE)]
    BY <1>7 DEF NotifyClean, job
  <2>2. reader' \in ReaderState /\ ShareInHand'
    BY <1>0, <1>7
       DEF NotifyClean, MarkJobsStaleBlock, TypeOK, ReaderState, ShareInHand
  <2>3. /\ jobs' \in Seq(SessionJob)
        /\ Len(jobs') <= JobLimit
        /\ nextId' \in Id
        /\ difficulty' \in Difficulty
        /\ RecentIds'
    BY <1>0, <1>5, <2>1, PushKeepsIds
  <2> QED
    BY <1>0, <1>6, <1>7, <2>1, <2>2, <2>3
       DEF NotifyClean, NotifyDone, IInv, TypeOK
<1>8. CASE NotifyUpdate
  <2>1. CASE tokens > 0
    <3>1. /\ PushJob(job, jobs)
          /\ out' = [out EXCEPT !["notify"] = Dispatch(job, FALSE)]
          /\ tokens' = tokens - 1
      BY <1>8, <2>1 DEF NotifyUpdate, job
    <3>2. /\ jobs' \in Seq(SessionJob)
          /\ Len(jobs') <= JobLimit
          /\ nextId' \in Id
          /\ difficulty' \in Difficulty
          /\ RecentIds'
      BY <1>0, <1>5, <3>1, PushKeepsIds
    <3>3. tokens' \in 0..BucketCapacity
      BY <1>0, <2>1, <3>1 DEF TypeOK
    <3> QED
      BY <1>0, <1>6, <1>8, <3>1, <3>2, <3>3
         DEF NotifyUpdate, NotifyDone, IInv, TypeOK, ShareInHand
  <2>2. CASE ~(tokens > 0)
    BY <1>0, <1>8, <2>2
       DEF NotifyUpdate, NotifyDone, IInv, TypeOK, ShareInHand, RecentIds, Drawn
  <2> QED  BY <2>1, <2>2
<1> QED
  BY <1>1, <1>2, <1>3, <1>4, <1>7, <1>8 DEF NotifyTask

LEMMA RetargetKeeps ==
  ASSUME IInv,
         \/ \E d \in Difficulty : VardiffRetarget(d) \/ SubmitRetarget(d)
         \/ \E d \in Difficulty : SuggestDifficulty(d)
  PROVE  IInv'
<1> USE DEF flagVars, shareVars, boundVars, Task
<1>1. ASSUME NEW d \in Difficulty, VardiffRetarget(d) PROVE IInv'
  <2>1. Repush("vardiff", d)
    BY <1>1 DEF VardiffRetarget
  <2> QED
    BY <1>1, <2>1, RepushKeeps DEF VardiffRetarget, IInv, TypeOK, ShareInHand
<1>2. ASSUME NEW d \in Difficulty, SubmitRetarget(d) PROVE IInv'
  <2>1. Repush("reader", d)
    BY <1>2 DEF SubmitRetarget
  <2> QED
    BY <1>2, <2>1, RepushKeeps, NoRequestType
       DEF SubmitRetarget, IInv, TypeOK, ShareInHand
<1>3. ASSUME NEW d \in Difficulty, SuggestDifficulty(d) PROVE IInv'
  <2>1. Repush("reader", d)
    BY <1>3 DEF SuggestDifficulty
  <2> QED
    BY <1>3, <2>1, RepushKeeps DEF SuggestDifficulty, IInv, TypeOK, ShareInHand
<1> QED  BY <1>1, <1>2, <1>3

LEMMA AuthorizeKeeps ==
  ASSUME IInv, AuthorizeBegin \/ AuthorizeRead \/ AuthorizePush
  PROVE  IInv'
<1> USE SessionAssumption DEF flagVars, shareVars, boundVars, Task
<1>0. TypeOK /\ RecentIds /\ ShareInHand
  BY DEF IInv
<1>1. CASE AuthorizeBegin
  <2>1. [out EXCEPT !["reader"] = <<SetDifficultyMsg(difficulty)>>]
          \in [Task -> Seq(Effect)]
    BY <1>0, ConfirmationType DEF TypeOK
  <2>0. reader \in ReaderState /\ difficulty \in Difficulty /\ authorizes \in Nat
    BY <1>0 DEF TypeOK
  <2>r. /\ reader' = [reader EXCEPT !.pc = "auth_read", !.diff = difficulty]
        /\ authorizes' = authorizes + 1
    BY <1>1 DEF AuthorizeBegin
  <2>2. reader' \in ReaderState /\ ShareInHand'
    BY <2>0, <2>r DEF ReaderState, ShareInHand
  <2>3. jobs' = <<>> /\ submittedHashes' = <<>> /\ RecentIds'
    BY <1>1 DEF AuthorizeBegin, BeginAuthorizedSession, RecentIds
  <2>4. /\ jobs' \in Seq(SessionJob) /\ Len(jobs') <= JobLimit
        /\ submittedHashes' \in Seq(Id \X Pow)
        /\ Len(submittedHashes') <= DupLimit
    BY <2>3
  <2>5. authorizes' \in Nat
    BY <2>0, <2>r
  <2>6. lastPrevhash' \in Block \cup {NoBlock}
    BY <1>1 DEF AuthorizeBegin, BeginAuthorizedSession
  <2> QED
    BY <1>0, <1>1, <2>1, <2>2, <2>3, <2>4, <2>5, <2>6
       DEF AuthorizeBegin, BeginAuthorizedSession, IInv, TypeOK
<1>2. CASE AuthorizeRead
  <2>0. /\ reader \in ReaderState /\ store \in Job
        /\ reader' = [reader EXCEPT !.pc = "auth_push", !.template = store]
    BY <1>0, <1>2 DEF AuthorizeRead, TypeOK
  <2>1. reader' \in ReaderState /\ ShareInHand'
    BY <2>0 DEF ReaderState, ShareInHand
  <2>2. RecentIds'
    BY <1>0, <1>2 DEF AuthorizeRead, RecentIds, Drawn, jobVars
  <2>3. TypeOK'
    BY <1>0, <1>2, <2>1 DEF AuthorizeRead, TypeOK, jobVars
  <2> QED  BY <2>1, <2>2, <2>3 DEF IInv
<1>3. CASE AuthorizePush
  <2> DEFINE job == NewJob(reader.template, reader.diff)
  <2>1. job \in SessionJob /\ job.id = nextId
    BY <1>0, NewJobType DEF TypeOK, ReaderState
  <2>2. [out EXCEPT !["reader"] = Dispatch(job, TRUE)] \in [Task -> Seq(Effect)]
    BY <1>0, <2>1, EffectTypes DEF TypeOK
  <2>3. /\ PushJob(job, jobs)
        /\ out' = [out EXCEPT !["reader"] = Dispatch(job, TRUE)]
    BY <1>3 DEF AuthorizePush
  <2> HIDE DEF job
  <2>4. /\ jobs' \in Seq(SessionJob)
        /\ Len(jobs') <= JobLimit
        /\ nextId' \in Id
        /\ difficulty' \in Difficulty
        /\ RecentIds'
    BY <1>0, <2>1, <2>3, PushKeepsIds
  <2> QED
    BY <1>0, <1>3, <2>2, <2>3, <2>4, NoRequestType
       DEF AuthorizePush, IInv, TypeOK, ShareInHand
<1> QED  BY <1>1, <1>2, <1>3

LEMMA RequestKeeps ==
  ASSUME IInv,
         \/ SuggestSame
         \/ \E mask \in MaskChoice : Configure(mask)
         \/ \E job \in Live, pow \in Pow : SubmitLookup(job, pow)
  PROVE  IInv'
<1> USE SessionAssumption
    DEF flagVars, jobVars, shareVars, boundVars, Task, RecentIds, Drawn
<1>0. TypeOK /\ RecentIds /\ ShareInHand
  BY DEF IInv
<1>1. CASE SuggestSame
  <2>1. [out EXCEPT !["reader"] = <<SetDifficultyMsg(difficulty)>>]
          \in [Task -> Seq(Effect)]
    BY <1>0, ConfirmationType DEF TypeOK
  <2> QED  BY <1>0, <1>1, <2>1 DEF SuggestSame, IInv, TypeOK, ShareInHand
<1>2. ASSUME NEW mask \in MaskChoice, Configure(mask) PROVE IInv'
  BY <1>0, <1>2 DEF Configure, IInv, TypeOK, ShareInHand
<1>3. ASSUME NEW job \in Live, NEW pow \in Pow, SubmitLookup(job, pow)
      PROVE  IInv'
  <2>1. job \in SessionJob
    <3>1. jobs \in Seq(SessionJob)
      BY <1>0 DEF TypeOK
    <3>2. PICK i \in DOMAIN jobs : job = jobs[i]
      BY <1>3 DEF Live
    <3> QED  BY <3>1, <3>2
  <2>2. reader' \in ReaderState /\ ShareInHand'
    BY <1>0, <1>3, <2>1, NoRequestType
       DEF SubmitLookup, NoRequest, TypeOK, ReaderState, ShareInHand
  <2>3. /\ UNCHANGED <<store, stream, unseen, notify, out, flagVars, jobVars>>
        /\ UNCHANGED <<versionMask, lastPrevhash, tokens, miner, shareVars, boundVars>>
    BY <1>3 DEF SubmitLookup
  <2> QED  BY <1>0, <2>2, <2>3 DEF IInv, TypeOK
<1> QED  BY <1>1, <1>2, <1>3

(* A share in the reader's hand is for a job and a solution. *)
LEMMA SubmitKeeps ==
  ASSUME IInv,
         \/ SubmitDuplicate \/ SubmitRecord \/ SubmitValidate
         \/ SubmitHandOver \/ SubmitAccount
  PROVE  IInv'
<1> USE DEF flagVars, jobVars, boundVars, RecentIds, Drawn
<1>0. TypeOK /\ RecentIds /\ ShareInHand
  BY DEF IInv
<1>1. CASE SubmitDuplicate
  BY <1>0, <1>1, NoRequestType
     DEF SubmitDuplicate, shareVars, IInv, TypeOK, ShareInHand
<1>4. CASE SubmitAccount
  BY <1>0, <1>4, NoRequestType
     DEF SubmitAccount, shareVars, IInv, TypeOK, ShareInHand
<1>2. CASE SubmitRecord
  <2>1. DupKey \in Id \X Pow
    BY <1>0, <1>2
       DEF SubmitRecord, ShareInHand, DupKey, TypeOK, ReaderState, SessionJob
  <2>2. recorded' \in Seq(Id \X Pow)
    BY <1>0, <1>2, <2>1 DEF SubmitRecord, TypeOK
  <2>3. submittedHashes' \in Seq(Id \X Pow) /\ Len(submittedHashes') <= DupLimit
    <3>1. DupLimit \in Nat \ {0}
      BY SessionAssumption
    <3>2. /\ submittedHashes \in Seq(Id \X Pow)
          /\ Len(submittedHashes) <= DupLimit
      BY <1>0 DEF TypeOK
    <3>3. CASE Len(submittedHashes) >= DupLimit
      <4>1. submittedHashes # <<>>
        BY <3>1, <3>2, <3>3
      <4>2. /\ Tail(submittedHashes) \in Seq(Id \X Pow)
            /\ Len(Tail(submittedHashes)) = Len(submittedHashes) - 1
        BY <3>2, <4>1, HeadTailProperties
      <4>3. submittedHashes' = Append(Tail(submittedHashes), DupKey)
        BY <1>2, <3>3 DEF SubmitRecord
      <4> QED  BY <2>1, <3>1, <3>2, <4>2, <4>3, AppendProperties
    <3>4. CASE ~(Len(submittedHashes) >= DupLimit)
      <4>1. submittedHashes' = Append(submittedHashes, DupKey)
        BY <1>2, <3>4 DEF SubmitRecord
      <4> QED  BY <2>1, <3>1, <3>2, <3>4, <4>1, AppendProperties
    <3> QED  BY <3>3, <3>4
  <2>4. reader' \in ReaderState /\ ShareInHand'
    BY <1>0, <1>2 DEF SubmitRecord, ShareInHand, TypeOK, ReaderState
  <2> QED
    BY <1>0, <1>2, <2>2, <2>3, <2>4 DEF SubmitRecord, IInv, TypeOK
<1>3. CASE SubmitValidate
  <2>1. reader' \in ReaderState /\ ShareInHand'
    <3>1. reader \in ReaderState /\ NoRequest \in ReaderState
      BY <1>0, NoRequestType DEF TypeOK
    <3>2. CASE reader.pow \in BlockPow /\ ~reader.stale
      <4>1. reader' = [reader EXCEPT !.pc = "hand_over"]
        BY <1>3, <3>2 DEF SubmitValidate
      <4> QED  BY <3>1, <3>2, <4>1 DEF ReaderState, ShareInHand
    <3>3. CASE ~(reader.pow \in BlockPow /\ ~reader.stale)
      <4>1. reader' = [NoRequest EXCEPT !.pc = "account"]
        BY <1>3, <3>3 DEF SubmitValidate
      <4> QED  BY <3>1, <4>1 DEF ReaderState, ShareInHand
    <3> QED  BY <3>2, <3>3
  <2> QED
    BY <1>0, <1>3, <2>1 DEF SubmitValidate, shareVars, IInv, TypeOK
<1>5. CASE SubmitHandOver
  <2>1. reader' \in ReaderState /\ reader'.pc = "account"
    BY <1>5, NoRequestType DEF SubmitHandOver, NoRequest, ReaderState
  <2>2. submitted' \subseteq [job: SessionJob, pow: BlockPow]
    <3>1. reader.job \in SessionJob /\ reader.pow \in BlockPow
      BY <1>0, <1>5 DEF SubmitHandOver, TypeOK, ReaderState, ShareInHand
    <3> QED  BY <1>0, <1>5, <3>1 DEF SubmitHandOver, TypeOK
  <2> QED
    BY <1>0, <1>5, <2>1, <2>2 DEF SubmitHandOver, IInv, TypeOK, ShareInHand
<1> QED  BY <1>1, <1>2, <1>3, <1>4, <1>5

-----------------------------------------------------------------------------
(* The theorems                                                            *)

(* IInv holds in every reachable state. *)
THEOREM InductiveInvariant == Spec => []IInv
<1>1. IInv /\ [Next]_vars => IInv'
  <2> SUFFICES ASSUME IInv, [Next]_vars PROVE IInv'
    OBVIOUS
  <2>1. CASE Engine
    BY <2>1, EngineKeeps
  <2>2. CASE \E t \in Task : Send(t)
    BY <2>2, SendKeeps
  <2>3. CASE NotifyTask \/ RefillBucket
    BY <2>3, NotifyKeeps
  <2>4. CASE \E d \in Difficulty : VardiffRetarget(d)
    BY <2>4, RetargetKeeps
  <2>5. CASE Request
    <3>1. CASE AuthorizeBegin
      BY <3>1, AuthorizeKeeps
    <3>2. CASE \E d \in Difficulty : SuggestDifficulty(d)
      BY <3>2, RetargetKeeps
    <3>3. CASE \/ SuggestSame
               \/ \E mask \in MaskChoice : Configure(mask)
               \/ \E job \in Live, pow \in Pow : SubmitLookup(job, pow)
      BY <3>3, RequestKeeps
    <3> QED  BY <2>5, <3>1, <3>2, <3>3 DEF Request
  <2>6. CASE ReaderTask
    BY <2>6, AuthorizeKeeps, SubmitKeeps DEF ReaderTask
  <2>7. CASE \E d \in Difficulty : SubmitRetarget(d)
    BY <2>7, RetargetKeeps
  <2>8. CASE UNCHANGED vars
    BY <2>8 DEF vars, flagVars, jobVars, shareVars, boundVars, IInv, TypeOK,
                RecentIds, Drawn, ShareInHand
  <2> QED
    BY <2>1, <2>2, <2>3, <2>4, <2>5, <2>6, <2>7, <2>8 DEF Next
<1> QED  BY <1>1, InitIInv, PTL DEF Spec

(* The variables stay within their types; in particular the session never  *)
(* remembers more than 32 jobs or MAX_DUP_HASHES hashes (push_job line     *)
(* 1546, handle_submit line 1023).                                         *)
THEOREM TypeCorrect == Spec => []TypeOK
<1>1. IInv => TypeOK
  BY DEF IInv
<1> QED  BY <1>1, InductiveInvariant, PTL

(* However often the ids of push_job wrap, no two remembered jobs share    *)
(* one: the ids of the at most JobLimit jobs are the last ones drawn, and  *)
(* JobLimit is at most MaxId.                                              *)
THEOREM JobIdsAreDistinct == Spec => []JobIdsDistinct
<1>1. IInv => JobIdsDistinct
  <2> SUFFICES ASSUME IInv, NEW i \in DOMAIN jobs, NEW j \in DOMAIN jobs,
                      jobs[i].id = jobs[j].id
               PROVE  i = j
    BY DEF JobIdsDistinct
  <2>1. /\ i \in 1..Len(jobs) /\ j \in 1..Len(jobs)
        /\ Len(jobs) \in Nat /\ Len(jobs) <= JobLimit
    BY DEF IInv, TypeOK
  <2>2. /\ JobLimit \in Nat /\ MaxId \in Nat /\ JobLimit <= MaxId
        /\ nextId \in 1..MaxId
    BY SessionAssumption DEF IInv, TypeOK, Id
  <2> DEFINE k == Len(jobs) + 1 - i
             l == Len(jobs) + 1 - j
  <2>3. k \in 1..MaxId /\ l \in 1..MaxId
    BY <2>1, <2>2
  <2>4. Drawn(k) = Drawn(l)
    BY <2>1 DEF IInv, RecentIds
  <2>5. \A m, n \in 1..MaxId : Drawn(m) = Drawn(n) => m = n
    BY <2>2 DEF Drawn
  <2>6. k = l
    <3> HIDE DEF k, l
    <3> QED  BY <2>3, <2>4, <2>5
  <2> QED  BY <2>1, <2>6
<1> QED  BY <1>1, InductiveInvariant, PTL

=============================================================================
