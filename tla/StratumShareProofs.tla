------------------------- MODULE StratumShareProofs -------------------------
(***************************************************************************)
(* What a session does with shares, proved on top of StratumSessionProofs. *)
(*                                                                         *)
(* NoReplay and StaleCheckIsRight speak of job ids, which push_job takes   *)
(* from a counter that wraps after 2^32 - 1: they are proved of behaviours *)
(* in which the counter has not come to its end (NoIdComesRound), and are  *)
(* false of the others, where a new job may carry the id of an old one.    *)
(* JobsOnOneTip and MinerHasNewest are proved of behaviours with one       *)
(* authorization and no change of difficulty (OneAuthorization); a second  *)
(* authorization breaks both for a moment, and so does a retarget, whose   *)
(* job may be sent and noted after a newer one (session_oldwork).          *)
(***************************************************************************)
EXTENDS StratumSessionProofs

NoIdComesRound == nextId < MaxId

(* A share is between the lookup of its job and its validation. *)
InHand == reader.pc \in {"lookup", "validate"}

(* As no id has come round, the remembered jobs carry the last ones.       *)
IdsAscend ==
  \A i \in 1..Len(jobs) : jobs[i].id = nextId - (Len(jobs) + 1 - i)

(* The job in hand is remembered, or pushed out, or known to be stale; a   *)
(* stale one is older than all that are remembered.                        *)
OlderThanLive == \A i \in 1..Len(jobs) : reader.job.id < jobs[i].id

JobInHand ==
  InHand => /\ reader.job.id < nextId
            /\ reader.stale => OlderThanLive
            /\ \/ reader.stale
               \/ reader.job \in Live
               \/ nextId > reader.job.id + JobLimit

LiveInv == IdsAscend /\ JobInHand

(* The remembered hashes are the last ones recorded ...                    *)
HashesAreLast ==
  /\ Len(submittedHashes) <= Len(recorded)
  /\ \A k \in 1..Len(submittedHashes) :
       submittedHashes[k] =
         recorded[Len(recorded) - Len(submittedHashes) + k]

(* ... and any other of the last MAX_DUP_HASHES is for a job with an id    *)
(* below every id that a share can still name.                             *)
Outlived(id) ==
  /\ \A i \in 1..Len(jobs) : id < jobs[i].id
  /\ reader.pc = "lookup" => id < reader.job.id

ForgottenAreDead ==
  \A i \in 1..(Len(recorded) - Len(submittedHashes)) :
    Len(recorded) - i < DupLimit => Outlived(recorded[i][1])

RecordedIdsDrawn == \A i \in 1..Len(recorded) : recorded[i][1] < nextId

ReplayInv ==
  /\ LiveInv
  /\ HashesAreLast
  /\ ForgottenAreDead
  /\ RecordedIdsDrawn
  /\ NoReplay

-----------------------------------------------------------------------------
(* What a step does to the jobs, the hashes and the share in hand          *)

(* A solved block is handed over unless its job is known to be stale. *)
LEMMA ValidateOutcome ==
  ASSUME TypeOK, SubmitValidate
  PROVE  /\ reader'.pc \in {"hand_over", "account"}
         /\ reader'.pc = "hand_over" => ~reader.stale
         /\ reader'.pc = "account" => reader.stale \/ reader.pow \notin BlockPow
<1>1. CASE reader.pow \in BlockPow /\ ~reader.stale
  <2>1. reader'.pc = "hand_over"
    BY <1>1 DEF SubmitValidate, TypeOK, ReaderState
  <2> QED  BY <1>1, <2>1
<1>2. CASE ~(reader.pow \in BlockPow /\ ~reader.stale)
  <2>1. reader'.pc = "account"
    BY <1>2 DEF SubmitValidate, NoRequest
  <2> QED  BY <1>2, <2>1
<1> QED  BY <1>1, <1>2

UnlessDropped == reader' = reader \/ (~InHand' /\ reader.pc # "validate")

Quiet ==
  /\ UNCHANGED <<jobs, nextId, submittedHashes, recorded>>
  /\ UnlessDropped

Pushing(job, kept) ==
  /\ job.id = nextId
  /\ PushJob(job, kept)
  /\ UNCHANGED <<submittedHashes, recorded>>
  /\ \/ kept = jobs /\ UnlessDropped
     \/ kept = <<>> /\ MarkJobsStaleBlock

StepKind ==
  \/ Quiet
  \/ \E job \in SessionJob, kept \in {jobs, <<>>} : Pushing(job, kept)
  \/ AuthorizeBegin
  \/ \E job \in Live, pow \in Pow : SubmitLookup(job, pow)
  \/ SubmitRecord
  \/ SubmitValidate

LEMMA RepushKind ==
  ASSUME IInv, NEW t \in Task, NEW d \in Difficulty, Repush(t, d),
         UNCHANGED shareVars, UnlessDropped
  PROVE  StepKind
<1>1. CASE bootstrapComplete /\ jobs # <<>>
  <2> DEFINE job == NewJob(Newest.template, d)
  <2>1. Newest.template \in Job
    <3>1. jobs \in Seq(SessionJob)
      BY DEF IInv, TypeOK
    <3>2. Len(jobs) \in 1..Len(jobs)
      BY <1>1, <3>1
    <3>3. Newest \in SessionJob
      BY <3>1, <3>2 DEF Newest
    <3> QED  BY <3>3 DEF SessionJob
  <2>2. job \in SessionJob /\ job.id = nextId
    BY <2>1, NewJobType DEF IInv
  <2>3. PushJob(job, jobs)
    BY <1>1 DEF Repush
  <2> HIDE DEF job
  <2> QED  BY <2>2, <2>3 DEF StepKind, Pushing, shareVars
<1>2. CASE ~(bootstrapComplete /\ jobs # <<>>)
  BY <1>2 DEF Repush, StepKind, Quiet, shareVars
<1> QED  BY <1>1, <1>2

LEMMA NotifyKind ==
  ASSUME IInv, NotifyClean \/ NotifyUpdate
  PROVE  StepKind
<1> DEFINE job == NewJob(notify.template, difficulty)
<1>1. job \in SessionJob /\ job.id = nextId
  BY NewJobType DEF IInv, TypeOK
<1>2. CASE NotifyClean
  <2>1. PushJob(job, <<>>) /\ MarkJobsStaleBlock /\ UNCHANGED shareVars
    BY <1>2 DEF NotifyClean
  <2> HIDE DEF job
  <2> QED  BY <1>1, <2>1 DEF StepKind, Pushing, shareVars
<1>3. CASE NotifyUpdate /\ tokens > 0
  <2>1. PushJob(job, jobs) /\ UNCHANGED <<reader, shareVars>>
    BY <1>3 DEF NotifyUpdate
  <2> HIDE DEF job
  <2> QED  BY <1>1, <2>1 DEF StepKind, Pushing, UnlessDropped, shareVars
<1>4. CASE NotifyUpdate /\ ~(tokens > 0)
  BY <1>4 DEF NotifyUpdate, jobVars, shareVars, StepKind, Quiet, UnlessDropped
<1> QED  BY <1>2, <1>3, <1>4

LEMMA StepKinds ==
  ASSUME IInv, [Next]_vars
  PROVE  StepKind
<1> USE DEF jobVars, shareVars
<1>n. NoRequest.pc = "idle"
  BY NoRequestType
<1>1. CASE Engine
  BY <1>1 DEF Engine, EnginePublish, EngineDeliver, StepKind, Quiet, UnlessDropped
<1>2. CASE \E t \in Task : Send(t)
  BY <1>2 DEF Send, SendDifficulty, SendNotify, NoteNotifySent, StepKind, Quiet,
              UnlessDropped
<1>3. CASE NotifyTask \/ RefillBucket
  <2>1. CASE NotifyClean \/ NotifyUpdate
    BY <2>1, NotifyKind
  <2>2. CASE NotifyChanged \/ NotifyBorrow \/ NotifySkipOrWait \/ RefillBucket
    BY <2>2 DEF NotifyChanged, NotifyBorrow, NotifySkipOrWait, RefillBucket,
                StepKind, Quiet, UnlessDropped
  <2> QED  BY <1>3, <2>1, <2>2 DEF NotifyTask
<1>4. CASE \E d \in Difficulty : VardiffRetarget(d)
  <2>1. PICK d \in Difficulty : VardiffRetarget(d)
    BY <1>4
  <2>2. Repush("vardiff", d) /\ UNCHANGED shareVars /\ UnlessDropped
    BY <2>1 DEF VardiffRetarget, UnlessDropped
  <2> QED  BY <2>2, RepushKind DEF Task
<1>5. CASE Request
  <2>1. CASE \E d \in Difficulty : SuggestDifficulty(d)
    <3>1. PICK d \in Difficulty : SuggestDifficulty(d)
      BY <2>1
    <3>2. Repush("reader", d) /\ UNCHANGED shareVars /\ UnlessDropped
      BY <3>1 DEF SuggestDifficulty, UnlessDropped
    <3> QED  BY <3>2, RepushKind DEF Task
  <2>2. CASE SuggestSame \/ \E mask \in MaskChoice : Configure(mask)
    BY <2>2 DEF SuggestSame, Configure, StepKind, Quiet, UnlessDropped
  <2>3. CASE \/ AuthorizeBegin
             \/ \E job \in Live, pow \in Pow : SubmitLookup(job, pow)
    BY <2>3 DEF StepKind
  <2> QED  BY <1>5, <2>1, <2>2, <2>3 DEF Request
<1>6. CASE ReaderTask
  <2>1. CASE AuthorizeRead
    <3>1. reader'.pc = "auth_push"
      BY <2>1 DEF AuthorizeRead, IInv, TypeOK, ReaderState
    <3> QED  BY <2>1, <3>1 DEF AuthorizeRead, StepKind, Quiet, UnlessDropped, InHand
  <2>2. CASE AuthorizePush
    <3> DEFINE job == NewJob(reader.template, reader.diff)
    <3>1. job \in SessionJob /\ job.id = nextId
      BY NewJobType DEF IInv, TypeOK, ReaderState
    <3>2. PushJob(job, jobs) /\ UNCHANGED shareVars
      BY <2>2 DEF AuthorizePush
    <3>3. UnlessDropped
      BY <1>n, <2>2 DEF AuthorizePush, UnlessDropped, InHand
    <3> HIDE DEF job
    <3> QED  BY <3>1, <3>2, <3>3 DEF StepKind, Pushing
  <2>3. CASE SubmitDuplicate \/ SubmitAccount
    BY <1>n, <2>3 DEF SubmitDuplicate, SubmitAccount, StepKind, Quiet,
                      UnlessDropped, InHand
  <2>5. CASE SubmitHandOver
    <3>1. reader'.pc = "account"
      BY <2>5 DEF SubmitHandOver, NoRequest
    <3> QED  BY <2>5, <3>1 DEF SubmitHandOver, StepKind, Quiet, UnlessDropped, InHand
  <2>4. CASE SubmitRecord \/ SubmitValidate
    BY <2>4 DEF StepKind
  <2> QED  BY <1>6, <2>1, <2>2, <2>3, <2>4, <2>5 DEF ReaderTask
<1>7. CASE \E d \in Difficulty : SubmitRetarget(d)
  <2>1. PICK d \in Difficulty : SubmitRetarget(d)
    BY <1>7
  <2>2. Repush("reader", d) /\ UNCHANGED shareVars /\ UnlessDropped
    BY <1>n, <2>1 DEF SubmitRetarget, UnlessDropped, InHand
  <2> QED  BY <2>2, RepushKind DEF Task
<1>8. CASE UNCHANGED vars
  BY <1>8 DEF vars, StepKind, Quiet, UnlessDropped
<1> QED  BY <1>1, <1>2, <1>3, <1>4, <1>5, <1>6, <1>7, <1>8 DEF Next

-----------------------------------------------------------------------------
(* push_job, while no id has come round                                    *)

(* A push draws the next id for the new job; a job it does not keep is     *)
(* JobLimit draws old, unless all of them were dropped.                    *)
LEMMA PushAscends ==
  ASSUME TypeOK, IdsAscend, NoIdComesRound,
         NEW job \in SessionJob, job.id = nextId,
         NEW kept, kept = jobs \/ kept = <<>>, PushJob(job, kept)
  PROVE  /\ nextId' = nextId + 1
         /\ jobs' \in Seq(SessionJob)
         /\ IdsAscend'
         /\ \A i \in 1..Len(jobs') :
              jobs'[i] = job \/ \E j \in 1..Len(kept) : jobs'[i] = kept[j]
         /\ \A j \in 1..Len(kept) :
              \/ \E i \in 1..Len(jobs') : jobs'[i] = kept[j]
              \/ nextId' > kept[j].id + JobLimit
<1> DEFINE longer == Append(kept, job)
<1>0. /\ JobLimit \in Nat \ {0} /\ MaxId \in Nat
      /\ nextId \in Nat /\ nextId < MaxId
  BY SessionAssumption DEF TypeOK, Id, NoIdComesRound
<1>1. kept \in Seq(SessionJob) /\ Len(kept) \in Nat /\ Len(kept) <= JobLimit
  <2>1. CASE kept = jobs
    BY <2>1 DEF TypeOK
  <2>2. CASE kept = <<>>
    BY <1>0, <2>2
  <2> QED  BY <2>1, <2>2
<1>2. \A i \in 1..Len(kept) : kept[i].id = nextId - (Len(kept) + 1 - i)
  BY DEF IdsAscend
<1>3. nextId' = nextId + 1
  BY <1>0 DEF PushJob
<1>4. /\ longer \in Seq(SessionJob)
      /\ Len(longer) = Len(kept) + 1
      /\ \A i \in 1..Len(kept) : longer[i] = kept[i]
      /\ longer[Len(kept) + 1] = job
  BY <1>1
<1>5. jobs' = IF Len(longer) > JobLimit THEN Tail(longer) ELSE longer
  BY DEF PushJob
<1> HIDE DEF longer
<1>6. ASSUME NEW i \in 1..Len(longer)
      PROVE  longer[i].id = nextId' - (Len(longer) + 1 - i)
  <2>1. CASE i = Len(kept) + 1
    BY <1>0, <1>1, <1>3, <1>4, <2>1
  <2>2. CASE i \in 1..Len(kept)
    <3>1. longer[i].id = nextId - (Len(kept) + 1 - i)
      BY <1>2, <1>4, <2>2
    <3> QED  BY <1>0, <1>1, <1>3, <1>4, <2>2, <3>1
  <2> QED  BY <1>1, <1>4, <2>1, <2>2
<1>7. CASE Len(longer) <= JobLimit
  <2>1. jobs' = longer
    BY <1>0, <1>1, <1>4, <1>5, <1>7
  <2>2. IdsAscend'
    BY <1>6, <2>1 DEF IdsAscend
  <2>3. \A i \in 1..Len(longer) : i = Len(kept) + 1 \/ i \in 1..Len(kept)
    BY <1>1, <1>4
  <2>4. \A j \in 1..Len(kept) : j \in 1..Len(longer)
    BY <1>1, <1>4
  <2> QED  BY <1>3, <1>4, <2>1, <2>2, <2>3, <2>4
<1>8. CASE Len(longer) > JobLimit
  <2>1. jobs' = Tail(longer)
    BY <1>5, <1>8
  <2>2. Len(longer) = JobLimit + 1 /\ Len(kept) = JobLimit
    BY <1>0, <1>1, <1>4, <1>8
  <2>3. /\ jobs' \in Seq(SessionJob)
        /\ Len(jobs') = JobLimit
        /\ \A i \in 1..JobLimit : jobs'[i] = longer[i + 1]
    BY <1>0, <1>4, <2>1, <2>2
  <2>4. ASSUME NEW i \in 1..JobLimit
        PROVE  jobs'[i].id = nextId' - (JobLimit + 1 - i)
    <3>1. i + 1 \in 1..Len(longer)
      BY <1>0, <2>2
    <3>2. longer[i + 1].id = nextId' - (Len(longer) + 1 - (i + 1))
      BY <1>6, <3>1
    <3> QED  BY <1>0, <1>3, <2>2, <2>3, <3>2
  <2>5. IdsAscend'
    BY <2>3, <2>4 DEF IdsAscend
  <2>6. ASSUME NEW i \in 1..Len(jobs')
        PROVE  jobs'[i] = job \/ \E j \in 1..Len(kept) : jobs'[i] = kept[j]
    <3>1. CASE i = JobLimit
      BY <1>4, <2>2, <2>3, <3>1
    <3>2. CASE i # JobLimit
      <4>1. i + 1 \in 1..Len(kept)
        BY <1>0, <2>2, <2>3, <3>2
      <4> QED  BY <1>4, <2>3, <4>1
    <3> QED  BY <3>1, <3>2
  <2>7. ASSUME NEW j \in 1..Len(kept)
        PROVE  \/ \E i \in 1..Len(jobs') : jobs'[i] = kept[j]
               \/ nextId' > kept[j].id + JobLimit
    <3>1. CASE j = 1
      <4>1. kept[1].id = nextId - (Len(kept) + 1 - 1)
        BY <1>2, <3>1
      <4> QED  BY <1>0, <1>3, <2>2, <3>1, <4>1
    <3>2. CASE j # 1
      <4>1. j - 1 \in 1..JobLimit /\ (j - 1) + 1 = j
        BY <1>0, <2>2, <3>2
      <4>2. jobs'[j - 1] = kept[j]
        BY <1>4, <2>3, <4>1
      <4> QED  BY <2>3, <4>1, <4>2
    <3> QED  BY <3>1, <3>2
  <2> QED  BY <1>3, <2>3, <2>5, <2>6, <2>7
<1>9. Len(longer) <= JobLimit \/ Len(longer) > JobLimit
  BY <1>0, <1>1, <1>4
<1> QED  BY <1>7, <1>8, <1>9

LEMMA LiveByIndex ==
  ASSUME TypeOK
  PROVE  /\ jobs \in Seq(SessionJob)
         /\ \A job : job \in Live <=> \E i \in 1..Len(jobs) : jobs[i] = job
  BY DEF TypeOK, Live

(* A remembered job's id has been drawn. *)
LEMMA LiveIdsDrawn ==
  ASSUME TypeOK, IdsAscend
  PROVE  \A job \in Live : job.id < nextId
<1> SUFFICES ASSUME NEW i \in 1..Len(jobs) PROVE jobs[i].id < nextId
  BY LiveByIndex
<1>1. jobs[i].id = nextId - (Len(jobs) + 1 - i)
  BY DEF IdsAscend
<1>2. Len(jobs) \in Nat /\ nextId \in Nat
  BY DEF TypeOK, Id
<1> QED  BY <1>1, <1>2

-----------------------------------------------------------------------------
(* Every step keeps LiveInv                                                *)

LEMMA InitLive == Init => LiveInv
<1> SUFFICES ASSUME Init PROVE LiveInv
  OBVIOUS
<1>1. jobs = <<>> /\ reader.pc = "idle"
  BY NoRequestType DEF Init
<1> QED  BY <1>1 DEF LiveInv, IdsAscend, JobInHand, InHand

LEMMA PushKeepsLive ==
  ASSUME TypeOK, TypeOK', LiveInv, NoIdComesRound,
         NEW job \in SessionJob, NEW kept \in {jobs, <<>>}, Pushing(job, kept)
  PROVE  LiveInv'
<1>1. /\ nextId' = nextId + 1
      /\ jobs' \in Seq(SessionJob)
      /\ IdsAscend'
      /\ \A i \in 1..Len(jobs') :
           jobs'[i] = job \/ \E j \in 1..Len(kept) : jobs'[i] = kept[j]
      /\ \A j \in 1..Len(kept) :
           \/ \E i \in 1..Len(jobs') : jobs'[i] = kept[j]
           \/ nextId' > kept[j].id + JobLimit
  BY PushAscends DEF Pushing, LiveInv
<1>2. /\ reader.job \in SessionJob /\ reader.job.id \in Nat /\ nextId \in Nat
      /\ JobLimit \in Nat
  <2>1. reader.job \in SessionJob /\ nextId \in Nat
    BY DEF TypeOK, ReaderState, Id
  <2>2. reader.job.id \in Nat
    BY <2>1 DEF SessionJob, Id
  <2> QED  BY <2>1, <2>2, SessionAssumption
<1>3. ASSUME InHand'
      PROVE  /\ reader'.job = reader.job
             /\ InHand
             /\ \/ kept = jobs /\ reader'.stale = reader.stale
                \/ reader'.stale = (reader.stale \/ reader.job \in Live)
  <2>1. CASE kept = jobs /\ UnlessDropped
    BY <1>3, <2>1 DEF UnlessDropped, InHand
  <2>2. CASE kept = <<>> /\ MarkJobsStaleBlock
    BY <1>3, <2>2 DEF MarkJobsStaleBlock, InHand, TypeOK, ReaderState
  <2> QED  BY <2>1, <2>2 DEF Pushing
<1>4. ASSUME InHand'
      PROVE  /\ reader'.job.id < nextId'
             /\ reader'.stale \/ reader'.job \in Live' \/ nextId' > reader'.job.id + JobLimit
  <2>1. reader'.job = reader.job /\ reader.job.id < nextId
    BY <1>3, <1>4 DEF LiveInv, JobInHand
  <2>2. reader'.job.id < nextId'
    BY <1>1, <1>2, <2>1
  <2>3. reader.stale \/ reader.job \in Live \/ nextId > reader.job.id + JobLimit
    BY <1>3, <1>4 DEF LiveInv, JobInHand
  <2>4. CASE nextId > reader.job.id + JobLimit
    BY <1>1, <1>2, <2>1, <2>2, <2>4
  <2>5. CASE reader.stale
    BY <1>3, <1>4, <2>2, <2>5
  <2>6. CASE reader.job \in Live
    <3>1. CASE reader'.stale = (reader.stale \/ reader.job \in Live)
      BY <2>2, <2>6, <3>1
    <3>2. CASE kept = jobs
      <4>1. PICK j \in 1..Len(jobs) : jobs[j] = reader.job
        BY <2>6, LiveByIndex
      <4>2. \/ \E i \in 1..Len(jobs') : jobs'[i] = reader.job
            \/ nextId' > reader.job.id + JobLimit
        BY <1>1, <3>2, <4>1
      <4>3. (\E i \in 1..Len(jobs') : jobs'[i] = reader.job) => reader.job \in Live'
        BY <1>1 DEF Live
      <4> QED  BY <2>1, <2>2, <4>2, <4>3
    <3> QED  BY <1>3, <1>4, <3>1, <3>2
  <2> QED  BY <2>3, <2>4, <2>5, <2>6
<1>5. ASSUME InHand', reader'.stale
      PROVE  OlderThanLive'
  <2>1. reader'.job = reader.job /\ reader.job.id < nextId
    BY <1>3, <1>5 DEF LiveInv, JobInHand
  <2> SUFFICES ASSUME NEW i \in 1..Len(jobs') PROVE reader.job.id < jobs'[i].id
    BY <2>1 DEF OlderThanLive
  <2>2. CASE jobs'[i] = job
    BY <2>1, <2>2 DEF Pushing
  <2>3. CASE \E j \in 1..Len(kept) : jobs'[i] = kept[j]
    <3>1. PICK j \in 1..Len(kept) : jobs'[i] = kept[j]
      BY <2>3
    <3>2. kept = jobs /\ kept # <<>>
      BY <3>1
    <3>3. reader.stale /\ InHand
      BY <1>3, <1>5, <3>2 DEF Pushing, UnlessDropped, MarkJobsStaleBlock
    <3>4. OlderThanLive
      BY <3>3 DEF LiveInv, JobInHand
    <3> QED  BY <3>1, <3>2, <3>4 DEF OlderThanLive
  <2> QED  BY <1>1, <2>2, <2>3
<1> QED  BY <1>1, <1>4, <1>5 DEF LiveInv, JobInHand

LEMMA StepKeepsLive ==
  ASSUME IInv, IInv', LiveInv, NoIdComesRound, [Next]_vars
  PROVE  LiveInv'
<1> USE DEF LiveInv
<1>0. TypeOK /\ TypeOK'
  BY DEF IInv
<1>1. CASE Quiet
  <2>1. IdsAscend'
    BY <1>1 DEF Quiet, IdsAscend
  <2>2. JobInHand'
    BY <1>1 DEF Quiet, UnlessDropped, JobInHand, InHand, Live, OlderThanLive
  <2> QED  BY <2>1, <2>2
<1>2. CASE \E job \in SessionJob, kept \in {jobs, <<>>} : Pushing(job, kept)
  BY <1>0, <1>2, PushKeepsLive
<1>3. CASE AuthorizeBegin
  <2>1. jobs' = <<>>
    BY <1>3 DEF AuthorizeBegin, BeginAuthorizedSession
  <2>2. reader'.pc = "auth_read"
    BY <1>0, <1>3 DEF AuthorizeBegin, TypeOK, ReaderState
  <2> QED  BY <2>1, <2>2 DEF IdsAscend, JobInHand, InHand
<1>4. CASE \E job \in Live, pow \in Pow : SubmitLookup(job, pow)
  <2>1. PICK job \in Live, pow \in Pow : SubmitLookup(job, pow)
    BY <1>4
  <2>2. /\ reader'.job = job /\ ~reader'.stale
        /\ UNCHANGED <<jobs, nextId>>
    BY <2>1 DEF SubmitLookup, jobVars, NoRequest
  <2>3. IdsAscend'
    BY <2>2 DEF IdsAscend
  <2>4. job.id < nextId
    BY <1>0, LiveIdsDrawn
  <2>5. job \in Live'
    BY <2>2 DEF Live
  <2> QED  BY <2>2, <2>3, <2>4, <2>5 DEF JobInHand
<1>5. CASE SubmitRecord \/ SubmitValidate
  <2>1. UNCHANGED <<jobs, nextId>>
    BY <1>5 DEF SubmitRecord, SubmitValidate, jobVars
  <2>2. IdsAscend'
    BY <2>1 DEF IdsAscend
  <2>3. CASE SubmitRecord
    <3>1. /\ InHand
          /\ reader'.job = reader.job /\ reader'.stale = reader.stale
      BY <1>0, <2>3 DEF SubmitRecord, InHand, TypeOK, ReaderState
    <3> QED  BY <2>1, <2>2, <3>1 DEF JobInHand, Live, OlderThanLive
  <2>4. CASE SubmitValidate
    <3>1. reader'.pc \in {"hand_over", "account"}
      BY <1>0, <2>4, ValidateOutcome
    <3> QED  BY <2>2, <3>1 DEF JobInHand, InHand
  <2> QED  BY <1>5, <2>3, <2>4
<1> QED  BY <1>1, <1>2, <1>3, <1>4, <1>5, StepKinds DEF StepKind

(* The reader decides on a share only in the step that validates it. *)
LEMMA DecidesByValidating ==
  ASSUME IInv, [Next]_vars, reader.pc = "validate", reader'.pc # "validate"
  PROVE  SubmitValidate
<1>0. TypeOK
  BY DEF IInv
<1>1. ~UnlessDropped /\ ~MarkJobsStaleBlock
  BY <1>0 DEF UnlessDropped, MarkJobsStaleBlock, TypeOK, ReaderState
<1>2. ~Quiet /\ ~\E job \in SessionJob, kept \in {jobs, <<>>} : Pushing(job, kept)
  BY <1>1 DEF Quiet, Pushing
<1>3. ~AuthorizeBegin /\ ~\E job \in Live, pow \in Pow : SubmitLookup(job, pow)
  BY DEF AuthorizeBegin, SubmitLookup, ReaderIdle
<1>4. ~SubmitRecord
  BY DEF SubmitRecord
<1> QED  BY <1>2, <1>3, <1>4, StepKinds DEF StepKind

(* While no job id has come round, the flag that the reader checks several *)
(* awaits after it looked up a share's job tells the truth, whatever the   *)
(* notify and vardiff tasks pushed in between: a solved block is kept only *)
(* if its job is still remembered or more than JobLimit newer ones have    *)
(* pushed it out, and turned away only if a clean job has dropped it.      *)
THEOREM StaleCheckTellsTheTruth ==
  Spec /\ []NoIdComesRound => StaleCheckIsRight
<1> DEFINE A ==
      reader.pc = "validate" /\ reader.pow \in BlockPow =>
        /\ reader'.pc = "hand_over" =>
             reader.job \in Live \/ nextId > reader.job.id + JobLimit
        /\ reader'.pc = "account" => reader.job \notin Live
<1>1. IInv /\ IInv' /\ LiveInv /\ NoIdComesRound /\ [Next]_vars => LiveInv'
  BY StepKeepsLive
<1>2. IInv /\ LiveInv /\ [Next]_vars => [A]_vars
  <2> SUFFICES ASSUME IInv, LiveInv, [Next]_vars,
                      reader.pc = "validate", reader.pow \in BlockPow,
                      reader'.pc \in {"hand_over", "account"}
               PROVE  /\ reader'.pc = "hand_over" =>
                           reader.job \in Live \/ nextId > reader.job.id + JobLimit
                      /\ reader'.pc = "account" => reader.job \notin Live
    OBVIOUS
  <2>0. TypeOK /\ SubmitValidate
    BY DecidesByValidating DEF IInv
  <2>1. /\ reader'.pc = "hand_over" => ~reader.stale
        /\ reader'.pc = "account" => reader.stale
    BY <2>0, ValidateOutcome
  <2>2. /\ reader.stale => OlderThanLive
        /\ \/ reader.stale
           \/ reader.job \in Live
           \/ nextId > reader.job.id + JobLimit
    BY DEF LiveInv, JobInHand, InHand
  <2>3. ASSUME OlderThanLive PROVE reader.job \notin Live
    <3> SUFFICES ASSUME NEW i \in 1..Len(jobs), jobs[i] = reader.job PROVE FALSE
      BY <2>0, LiveByIndex
    <3>1. reader.job.id < reader.job.id /\ reader.job.id \in Nat
      BY <2>0, <2>3 DEF OlderThanLive, TypeOK, ReaderState, SessionJob, Id
    <3> QED  BY <3>1
  <2> QED  BY <2>1, <2>2, <2>3
<1> HIDE DEF A
<1>3. Spec /\ []NoIdComesRound => [][A]_vars
  BY <1>1, <1>2, InitLive, InductiveInvariant, PTL DEF Spec
<1> QED  BY <1>3 DEF StaleCheckIsRight, A

-----------------------------------------------------------------------------
(* Every step keeps ReplayInv                                              *)

LEMMA InitReplay == Init => ReplayInv
<1> SUFFICES ASSUME Init PROVE ReplayInv
  OBVIOUS
<1>1. recorded = <<>> /\ submittedHashes = <<>>
  BY DEF Init
<1> QED
  BY <1>1, InitLive DEF ReplayInv, HashesAreLast, ForgottenAreDead,
                        RecordedIdsDrawn, NoReplay

(* A step that records nothing and forgets nothing keeps what the hashes   *)
(* promise, if it keeps the forgotten ids below those of jobs and shares.  *)
LEMMA SameRecord ==
  ASSUME TypeOK, TypeOK', ReplayInv, LiveInv',
         UNCHANGED <<recorded, submittedHashes>>, nextId' >= nextId,
         \A i \in 1..Len(recorded) :
           Outlived(recorded[i][1]) => Outlived(recorded[i][1])'
  PROVE  ReplayInv'
<1>1. HashesAreLast'
  BY DEF ReplayInv, HashesAreLast
<1>2. Len(recorded) \in Nat /\ Len(submittedHashes) \in Nat
  BY DEF TypeOK
<1>3. ForgottenAreDead'
  <2> SUFFICES ASSUME NEW i \in 1..(Len(recorded) - Len(submittedHashes)),
                      Len(recorded) - i < DupLimit
               PROVE  Outlived(recorded[i][1])'
    BY DEF ForgottenAreDead
  <2>1. Outlived(recorded[i][1])
    BY DEF ReplayInv, ForgottenAreDead
  <2>2. i \in 1..Len(recorded)
    BY <1>2
  <2> QED  BY <2>1, <2>2
<1>4. RecordedIdsDrawn'
  <2> SUFFICES ASSUME NEW i \in 1..Len(recorded)
               PROVE  recorded[i][1] < nextId'
    BY DEF RecordedIdsDrawn
  <2>1. recorded[i][1] < nextId
    BY DEF ReplayInv, RecordedIdsDrawn
  <2>2. recorded[i][1] \in Nat /\ nextId \in Nat /\ nextId' \in Nat
    BY DEF TypeOK, Id
  <2> QED  BY <2>1, <2>2
<1>5. NoReplay'
  BY DEF ReplayInv, NoReplay
<1> QED  BY <1>1, <1>3, <1>4, <1>5 DEF ReplayInv

LEMMA PushKeepsReplay ==
  ASSUME TypeOK, TypeOK', ReplayInv, LiveInv', NoIdComesRound,
         NEW job \in SessionJob, NEW kept \in {jobs, <<>>}, Pushing(job, kept)
  PROVE  ReplayInv'
<1>1. /\ nextId' = nextId + 1
      /\ \A i \in 1..Len(jobs') :
           jobs'[i] = job \/ \E j \in 1..Len(kept) : jobs'[i] = kept[j]
  BY PushAscends DEF Pushing, ReplayInv, LiveInv
<1>2. UNCHANGED <<recorded, submittedHashes>> /\ job.id = nextId
  BY DEF Pushing, shareVars
<1>3. nextId \in Nat
  BY DEF TypeOK, Id
<1>4. ASSUME NEW i \in 1..Len(recorded), Outlived(recorded[i][1])
      PROVE  Outlived(recorded[i][1])'
  <2> DEFINE id == recorded[i][1]
  <2>1. id < nextId
    BY DEF ReplayInv, RecordedIdsDrawn
  <2>2. id < recorded'[i][1] \/ id = recorded'[i][1]
    BY <1>2
  <2>3. ASSUME NEW k \in 1..Len(jobs') PROVE id < jobs'[k].id
    <3>1. CASE jobs'[k] = job
      BY <1>2, <2>1, <3>1
    <3>2. CASE \E j \in 1..Len(kept) : jobs'[k] = kept[j]
      <4>1. PICK j \in 1..Len(kept) : jobs'[k] = kept[j]
        BY <3>2
      <4>2. kept = jobs
        BY <4>1
      <4> QED  BY <1>4, <4>1, <4>2 DEF Outlived
    <3> QED  BY <1>1, <3>1, <3>2
  <2>4. reader'.pc = "lookup" => id < reader'.job.id
    <3> SUFFICES ASSUME reader'.pc = "lookup" PROVE id < reader'.job.id
      OBVIOUS
    <3>1. reader'.job = reader.job /\ reader.pc = "lookup"
      BY DEF Pushing, UnlessDropped, InHand, MarkJobsStaleBlock, TypeOK, ReaderState
    <3> QED  BY <1>4, <3>1 DEF Outlived
  <2> QED  BY <1>2, <2>3, <2>4 DEF Outlived
<1>5. nextId' >= nextId
  BY <1>1, <1>3
<1> QED  BY <1>2, <1>4, <1>5, SameRecord

(* The share that is recorded is none of the last MAX_DUP_HASHES: not one  *)
(* whose hash is remembered, by the check, and not one whose hash was      *)
(* forgotten, as that one's job has a smaller id.                          *)
LEMMA RecordKeepsReplay ==
  ASSUME IInv, IInv', ReplayInv, LiveInv', SubmitRecord
  PROVE  ReplayInv'
<1> DEFINE r == Len(recorded)
           h == Len(submittedHashes)
           key == DupKey
<1>0. /\ DupLimit \in Nat \ {0}
      /\ r \in Nat /\ h \in Nat /\ h <= DupLimit
      /\ recorded \in Seq(Id \X Pow) /\ submittedHashes \in Seq(Id \X Pow)
  <2>1. /\ recorded \in Seq(Id \X Pow) /\ submittedHashes \in Seq(Id \X Pow)
        /\ h <= DupLimit
    BY DEF IInv, TypeOK
  <2> QED  BY <2>1, SessionAssumption
<1>1. /\ h <= r
      /\ \A k \in 1..h : submittedHashes[k] = recorded[r - h + k]
  BY DEF ReplayInv, HashesAreLast
<1>2. /\ reader.pc = "lookup" /\ reader'.pc = "validate"
      /\ \A k \in 1..h : submittedHashes[k] # key
      /\ UNCHANGED <<jobs, nextId>>
      /\ recorded' = Append(recorded, key)
      /\ submittedHashes' =
           Append(IF h >= DupLimit THEN Tail(submittedHashes)
                  ELSE submittedHashes, key)
  BY DEF SubmitRecord, DupKeys, jobVars, IInv, TypeOK, ReaderState
<1>3. key \in Id \X Pow /\ key[1] = reader.job.id /\ key[1] < nextId
  <2>1. key[1] = reader.job.id
    BY DEF DupKey
  <2>2. reader.job.id < nextId
    BY <1>2 DEF ReplayInv, LiveInv, JobInHand, InHand
  <2>3. key \in Id \X Pow
    BY <1>2 DEF DupKey, IInv, TypeOK, ShareInHand, ReaderState, SessionJob
  <2> QED  BY <2>1, <2>2, <2>3
<1> HIDE DEF key
<1>4. /\ Len(recorded') = r + 1
      /\ \A i \in 1..r : recorded'[i] = recorded[i]
      /\ recorded'[r + 1] = key
  BY <1>0, <1>2, <1>3
<1>5. /\ Len(submittedHashes') = IF h >= DupLimit THEN DupLimit ELSE h + 1
      /\ HashesAreLast'
  <2>1. CASE h >= DupLimit
    <3>1. h = DupLimit /\ submittedHashes # <<>>
      BY <1>0, <2>1
    <3>2. /\ Tail(submittedHashes) \in Seq(Id \X Pow)
          /\ Len(Tail(submittedHashes)) = h - 1
          /\ \A k \in 1..(h - 1) : Tail(submittedHashes)[k] = submittedHashes[k + 1]
      BY <1>0, <3>1
    <3>3. submittedHashes' = Append(Tail(submittedHashes), key)
      BY <1>2, <2>1
    <3>4. /\ Len(submittedHashes') = h
          /\ \A k \in 1..(h - 1) : submittedHashes'[k] = Tail(submittedHashes)[k]
          /\ submittedHashes'[h] = key
      BY <1>0, <1>3, <3>1, <3>2, <3>3
    <3>5. ASSUME NEW k \in 1..h
          PROVE  submittedHashes'[k] = recorded'[(r + 1) - h + k]
      <4>1. CASE k = h
        <5>1. (r + 1) - h + k = r + 1
          BY <1>0, <4>1
        <5> QED  BY <1>4, <3>4, <4>1, <5>1
      <4>2. CASE k # h
        <5>1. /\ k \in 1..(h - 1) /\ k + 1 \in 1..h
              /\ r - h + (k + 1) = (r + 1) - h + k
              /\ (r + 1) - h + k \in 1..r
          BY <1>0, <1>1, <4>2
        <5>2. submittedHashes'[k] = submittedHashes[k + 1]
          BY <3>2, <3>4, <5>1
        <5>3. submittedHashes[k + 1] = recorded[r - h + (k + 1)]
          BY <1>1, <5>1
        <5> QED  BY <1>4, <5>1, <5>2, <5>3
      <4> QED  BY <4>1, <4>2
    <3>6. h <= r + 1
      BY <1>0, <1>1
    <3> QED  BY <1>4, <2>1, <3>1, <3>4, <3>5, <3>6 DEF HashesAreLast
  <2>2. CASE ~(h >= DupLimit)
    <3>1. submittedHashes' = Append(submittedHashes, key)
      BY <1>2, <2>2
    <3>2. /\ Len(submittedHashes') = h + 1
          /\ \A k \in 1..h : submittedHashes'[k] = submittedHashes[k]
          /\ submittedHashes'[h + 1] = key
      BY <1>0, <1>3, <3>1
    <3>3. ASSUME NEW k \in 1..(h + 1)
          PROVE  submittedHashes'[k] = recorded'[(r + 1) - (h + 1) + k]
      <4>1. CASE k = h + 1
        <5>1. (r + 1) - (h + 1) + k = r + 1
          BY <1>0, <4>1
        <5> QED  BY <1>4, <3>2, <4>1, <5>1
      <4>2. CASE k # h + 1
        <5>1. /\ k \in 1..h
              /\ r - h + k = (r + 1) - (h + 1) + k
              /\ (r + 1) - (h + 1) + k \in 1..r
          BY <1>0, <1>1, <4>2
        <5>2. submittedHashes[k] = recorded[r - h + k]
          BY <1>1, <5>1
        <5> QED  BY <1>4, <3>2, <5>1, <5>2
      <4> QED  BY <4>1, <4>2
    <3>4. h + 1 <= r + 1
      BY <1>0, <1>1
    <3> QED  BY <1>4, <2>2, <3>2, <3>3, <3>4 DEF HashesAreLast
  <2> QED  BY <2>1, <2>2
<1>6. ForgottenAreDead'
  <2> SUFFICES ASSUME NEW i \in 1..(Len(recorded') - Len(submittedHashes')),
                      Len(recorded') - i < DupLimit
               PROVE  Outlived(recorded[i][1])'
    BY DEF ForgottenAreDead
  <2>1. i \in 1..(r - h) /\ r - i < DupLimit /\ i \in 1..r
    BY <1>0, <1>4, <1>5
  <2>2. Outlived(recorded[i][1])
    BY <2>1 DEF ReplayInv, ForgottenAreDead
  <2>3. recorded'[i] = recorded[i]
    BY <1>4, <2>1
  <2> QED  BY <1>2, <2>2, <2>3 DEF Outlived
<1>7. RecordedIdsDrawn'
  <2> SUFFICES ASSUME NEW i \in 1..(r + 1) PROVE recorded'[i][1] < nextId'
    BY <1>4 DEF RecordedIdsDrawn
  <2>1. CASE i = r + 1
    BY <1>2, <1>3, <1>4, <2>1
  <2>2. CASE i # r + 1
    <3>1. i \in 1..r
      BY <1>0, <2>2
    <3> QED  BY <1>2, <1>4, <3>1 DEF ReplayInv, RecordedIdsDrawn
  <2> QED  BY <2>1, <2>2
<1>8. ASSUME NEW i \in 1..r, recorded[i] = key
      PROVE  (r + 1) - i > DupLimit
  <2>1. CASE i <= r - h
    <3>1. CASE r - i < DupLimit
      <4>1. i \in 1..(r - h)
        BY <1>0, <1>1, <2>1
      <4>2. Outlived(recorded[i][1])
        BY <3>1, <4>1 DEF ReplayInv, ForgottenAreDead
      <4>3. key[1] < reader.job.id
        BY <1>2, <1>8, <4>2 DEF Outlived
      <4>4. key[1] \in Nat
        BY <1>3 DEF Id
      <4> QED  BY <1>3, <4>3, <4>4
    <3>2. CASE ~(r - i < DupLimit)
      BY <1>0, <3>2
    <3> QED  BY <3>1, <3>2
  <2>2. CASE ~(i <= r - h)
    <3>1. i - (r - h) \in 1..h /\ r - h + (i - (r - h)) = i
      BY <1>0, <1>1, <2>2
    <3>2. submittedHashes[i - (r - h)] = recorded[i]
      BY <1>1, <3>1
    <3> QED  BY <1>2, <1>8, <3>1, <3>2
  <2> QED  BY <2>1, <2>2
<1>9. NoReplay'
  <2> SUFFICES ASSUME NEW i \in 1..(r + 1), NEW j \in 1..(r + 1),
                      i < j, recorded'[i] = recorded'[j]
               PROVE  j - i > DupLimit
    BY <1>4 DEF NoReplay, IInv, TypeOK
  <2>1. i \in 1..r
    BY <1>0
  <2>2. CASE j = r + 1
    BY <1>4, <1>8, <2>1, <2>2
  <2>3. CASE j # r + 1
    <3>1. j \in 1..r
      BY <1>0, <2>3
    <3>2. recorded[i] = recorded[j]
      BY <1>4, <2>1, <3>1
    <3>3. DOMAIN recorded = 1..r
      BY <1>0
    <3> QED  BY <2>1, <3>1, <3>2, <3>3 DEF ReplayInv, NoReplay
  <2> QED  BY <2>2, <2>3
<1> QED  BY <1>5, <1>6, <1>7, <1>9 DEF ReplayInv

LEMMA StepKeepsReplay ==
  ASSUME IInv, IInv', ReplayInv, NoIdComesRound, [Next]_vars
  PROVE  ReplayInv'
<1>0. TypeOK /\ TypeOK' /\ nextId \in Nat
  BY DEF IInv, TypeOK, Id
<1>l. LiveInv'
  BY StepKeepsLive DEF ReplayInv
<1>1. CASE Quiet
  <2>1. UNCHANGED <<jobs, nextId, recorded, submittedHashes>>
    BY <1>1 DEF Quiet, shareVars
  <2>2. \A id : Outlived(id) => Outlived(id)'
    BY <1>1, <2>1 DEF Quiet, UnlessDropped, InHand, Outlived
  <2> QED  BY <1>0, <1>l, <2>1, <2>2, SameRecord
<1>2. CASE \E job \in SessionJob, kept \in {jobs, <<>>} : Pushing(job, kept)
  BY <1>0, <1>l, <1>2, PushKeepsReplay
<1>3. CASE AuthorizeBegin
  <2>1. /\ jobs' = <<>> /\ submittedHashes' = <<>>
        /\ UNCHANGED <<recorded, nextId>>
    BY <1>3 DEF AuthorizeBegin, BeginAuthorizedSession
  <2>2. reader'.pc = "auth_read"
    BY <1>0, <1>3 DEF AuthorizeBegin, TypeOK, ReaderState
  <2>3. HashesAreLast'
    BY <1>0, <2>1 DEF HashesAreLast, TypeOK
  <2>4. ForgottenAreDead'
    BY <2>1, <2>2 DEF ForgottenAreDead, Outlived
  <2> QED
    BY <1>l, <2>1, <2>3, <2>4 DEF ReplayInv, RecordedIdsDrawn, NoReplay
<1>4. CASE \E job \in Live, pow \in Pow : SubmitLookup(job, pow)
  <2>1. PICK job \in Live, pow \in Pow : SubmitLookup(job, pow)
    BY <1>4
  <2>2. /\ reader'.job = job
        /\ UNCHANGED <<jobs, nextId, recorded, submittedHashes>>
    BY <2>1 DEF SubmitLookup, jobVars, shareVars, NoRequest
  <2>3. PICK k \in 1..Len(jobs) : jobs[k] = job
    BY <1>0, LiveByIndex
  <2>4. \A id : Outlived(id) => Outlived(id)'
    BY <2>2, <2>3 DEF Outlived
  <2> QED  BY <1>0, <1>l, <2>2, <2>4, SameRecord
<1>5. CASE SubmitRecord
  BY <1>l, <1>5, RecordKeepsReplay
<1>6. CASE SubmitValidate
  <2>1. UNCHANGED <<jobs, nextId, recorded, submittedHashes>>
    BY <1>6 DEF SubmitValidate, jobVars, shareVars
  <2>2. reader'.pc \in {"hand_over", "account"}
    BY <1>0, <1>6, ValidateOutcome
  <2>3. \A id : Outlived(id) => Outlived(id)'
    BY <2>1, <2>2 DEF Outlived
  <2> QED  BY <1>0, <1>l, <2>1, <2>3, SameRecord
<1> QED
  BY <1>1, <1>2, <1>3, <1>4, <1>5, <1>6, StepKinds DEF StepKind

(* While no job id has come round, a share is taken a second time only     *)
(* after MAX_DUP_HASHES others, whichever hashes the session has forgotten *)
(* and however often the miner has authorized: handle_submit lines         *)
(* 1010-1031 and begin_authorized_session.                                 *)
THEOREM NoShareIsTakenTwice == Spec /\ []NoIdComesRound => []NoReplay
<1>1. IInv /\ IInv' /\ ReplayInv /\ NoIdComesRound /\ [Next]_vars => ReplayInv'
  BY StepKeepsReplay
<1>2. ReplayInv => NoReplay
  BY DEF ReplayInv
<1> QED  BY <1>1, <1>2, InitReplay, InductiveInvariant, PTL DEF Spec

-----------------------------------------------------------------------------
(* The tip of the jobs                                                     *)

OneAuthorization == authorizes <= 1 /\ retargets = 0

Authorizing == reader.pc \in {"auth_read", "auth_push"}

(* The reader has at most a set_difficulty to send. *)
ReaderSendsDifficulty ==
  out["reader"] # <<>> =>
    \E d \in Difficulty : out["reader"] = <<SetDifficultyMsg(d)>>

(* A task has all of a job's messages to send, or still has to note it. *)
Sending(t, job, bootstrap) ==
  out[t] \in {Dispatch(job, bootstrap), Tail(Dispatch(job, bootstrap))}

(* No job before mining.authorize, nor until it has pushed the first, ...  *)
BeforeFirstJob ==
  /\ ~bootstrapComplete
  /\ jobs = <<>>
  /\ out["notify"] = <<>>
  /\ ReaderSendsDifficulty
  /\ IF authorized
     THEN /\ authorizes = 1 /\ bootstrapInflight /\ Authorizing
          /\ reader.pc = "auth_push" => out["reader"] = <<>>
     ELSE authorizes = 0 /\ ~bootstrapInflight /\ ~Authorizing

(* ... then that job alone, until it is sent and noted, ...                *)
SendingFirstJob ==
  /\ authorized /\ authorizes = 1
  /\ ~bootstrapComplete /\ bootstrapInflight
  /\ out["notify"] = <<>>
  /\ reader.pc = "idle"
  /\ \E job \in SessionJob : jobs = <<job>> /\ Sending("reader", job, TRUE)

(* ... and from then on only the notify task pushes jobs: all build on the *)
(* block of the last note, or of the one the notify task has yet to make.  *)
AllOn(prev) == \A i \in 1..Len(jobs) : jobs[i].template.prev = prev

Following ==
  /\ authorized /\ authorizes = 1
  /\ bootstrapComplete /\ ~bootstrapInflight
  /\ ~Authorizing
  /\ ReaderSendsDifficulty
  /\ \/ out["notify"] = <<>> /\ AllOn(lastPrevhash)
     \/ \E job \in SessionJob :
          Sending("notify", job, FALSE) /\ AllOn(job.template.prev)

TipInv ==
  /\ out["vardiff"] = <<>>
  /\ notify.pc # "idle" => out["notify"] = <<>>
  /\ BeforeFirstJob \/ SendingFirstJob \/ Following

(* A push keeps no job but those it is given. *)
LEMMA PushAppends ==
  ASSUME TypeOK, NEW job \in SessionJob, PushJob(job, jobs)
  PROVE  /\ jobs' \in Seq(SessionJob)
         /\ \A i \in 1..Len(jobs') :
              jobs'[i] = job \/ \E j \in 1..Len(jobs) : jobs'[i] = jobs[j]
<1> DEFINE longer == Append(jobs, job)
<1>1. /\ longer \in Seq(SessionJob)
      /\ Len(longer) = Len(jobs) + 1
      /\ \A i \in 1..Len(longer) :
           longer[i] = job \/ \E j \in 1..Len(jobs) : longer[i] = jobs[j]
  BY DEF TypeOK
<1>2. jobs' = IF Len(longer) > JobLimit THEN Tail(longer) ELSE longer
  BY DEF PushJob
<1> HIDE DEF longer
<1>3. /\ Tail(longer) \in Seq(SessionJob)
      /\ \A i \in 1..Len(Tail(longer)) :
           i + 1 \in 1..Len(longer) /\ Tail(longer)[i] = longer[i + 1]
  <2>1. longer # <<>>
    BY <1>1 DEF TypeOK
  <2> QED  BY <1>1, <2>1
<1>4. CASE Len(longer) > JobLimit
  BY <1>1, <1>2, <1>3, <1>4
<1>5. CASE ~(Len(longer) > JobLimit)
  BY <1>1, <1>2, <1>5
<1> QED  BY <1>4, <1>5

(* Whatever the phase, all the jobs build on one block. *)
LEMMA TipInvImplies ==
  ASSUME TypeOK, TipInv
  PROVE  JobsOnOneTip
<1>1. ASSUME NEW p, AllOn(p) PROVE JobsOnOneTip
  <2> SUFFICES ASSUME NEW job \in Live
               PROVE  job.template.prev = Newest.template.prev
    BY DEF JobsOnOneTip
  <2>1. PICK i \in 1..Len(jobs) : jobs[i] = job
    BY LiveByIndex
  <2>2. Len(jobs) \in 1..Len(jobs)
    BY <2>1 DEF TypeOK
  <2> QED  BY <1>1, <2>1, <2>2 DEF AllOn, Newest
<1>2. CASE BeforeFirstJob
  <2>1. AllOn(NoBlock)
    BY <1>2 DEF BeforeFirstJob, AllOn
  <2> QED  BY <1>1, <2>1
<1>3. CASE SendingFirstJob
  <2>1. PICK job \in SessionJob : jobs = <<job>>
    BY <1>3 DEF SendingFirstJob
  <2>2. AllOn(job.template.prev)
    BY <2>1 DEF AllOn
  <2> QED  BY <1>1, <2>2
<1>4. CASE Following
  BY <1>1, <1>4 DEF Following
<1> QED  BY <1>2, <1>3, <1>4 DEF TipInv

(* What is left to send of a job's messages after each of them. *)
LEMMA DispatchParts ==
  ASSUME NEW job
  PROVE  /\ Dispatch(job, TRUE) # <<>> /\ Tail(Dispatch(job, TRUE)) # <<>>
         /\ Tail(Tail(Dispatch(job, TRUE))) = <<>>
         /\ Head(Dispatch(job, TRUE)).op = "notify"
         /\ Head(Tail(Dispatch(job, TRUE))).op = "note"
         /\ Head(Tail(Dispatch(job, TRUE))).prev = job.template.prev
         /\ Head(Tail(Dispatch(job, TRUE))).complete = TRUE
         /\ Dispatch(job, FALSE) # <<>> /\ Tail(Dispatch(job, FALSE)) # <<>>
         /\ Tail(Tail(Dispatch(job, FALSE))) = <<>>
         /\ Head(Dispatch(job, FALSE)).op = "notify"
         /\ Head(Tail(Dispatch(job, FALSE))).op = "note"
         /\ Head(Tail(Dispatch(job, FALSE))).prev = job.template.prev
         /\ Head(Tail(Dispatch(job, FALSE))).complete = FALSE
  BY DEF Dispatch

LEMMA DifficultyParts ==
  ASSUME NEW d
  PROVE  /\ <<SetDifficultyMsg(d)>> # <<>>
         /\ Tail(<<SetDifficultyMsg(d)>>) = <<>>
         /\ Head(<<SetDifficultyMsg(d)>>).op = "set_difficulty"
  BY DEF SetDifficultyMsg

(* A step that leaves the jobs, the messages and the flags alone, and the  *)
(* reader in a request, out of one, or at the start of one.                *)
LEMMA TipFrame ==
  ASSUME TipInv,
         UNCHANGED <<flagVars, authorizes, jobs, lastPrevhash, out>>,
         notify'.pc # "idle" => notify.pc # "idle" \/ out["notify"] = <<>>,
         \/ reader'.pc = reader.pc
         \/ /\ ~Authorizing /\ ~Authorizing'
            /\ reader.pc # "idle" \/ ReaderIdle
  PROVE  TipInv'
<1> USE DEF flagVars
<1>1. out'["vardiff"] = <<>> /\ (notify'.pc # "idle" => out'["notify"] = <<>>)
  BY DEF TipInv
<1>2. CASE BeforeFirstJob
  <2>1. BeforeFirstJob'
    BY <1>2 DEF BeforeFirstJob, ReaderSendsDifficulty, Authorizing
  <2> QED  BY <1>1, <2>1 DEF TipInv
<1>3. CASE SendingFirstJob
  <2>1. ~ReaderIdle
    <3>1. PICK job \in SessionJob : Sending("reader", job, TRUE)
      BY <1>3 DEF SendingFirstJob
    <3>2. out["reader"] # <<>>
      BY <3>1, DispatchParts DEF Sending
    <3> QED  BY <3>2 DEF ReaderIdle, Free
  <2>2. reader'.pc = reader.pc
    BY <1>3, <2>1 DEF SendingFirstJob
  <2>3. SendingFirstJob'
    BY <1>3, <2>2 DEF SendingFirstJob, Sending
  <2> QED  BY <1>1, <2>3 DEF TipInv
<1>4. CASE Following
  <2>1. Following'
    BY <1>4 DEF Following, Authorizing, ReaderSendsDifficulty, AllOn, Sending
  <2> QED  BY <1>1, <2>1 DEF TipInv
<1> QED  BY <1>2, <1>3, <1>4 DEF TipInv

LEMMA SendKeepsTip ==
  ASSUME IInv, TipInv, NEW t \in Task, Send(t)
  PROVE  TipInv'
<1> USE DEF flagVars, jobVars, boundVars
<1>0. /\ out \in [Task -> Seq(Effect)]
      /\ out[t] # <<>>
      /\ out' = [out EXCEPT ![t] = Tail(@)]
      /\ UNCHANGED <<notify, reader, authorized, jobs, authorizes>>
  BY DEF Send, SendDifficulty, SendNotify, NoteNotifySent, Sent, IInv, TypeOK
<1>1. t # "vardiff"
  BY <1>0 DEF TipInv
<1>2. \A s \in Task : s # t => out'[s] = out[s]
  BY <1>0
<1>3. out'[t] = Tail(out[t])
  BY <1>0
<1>4. out'["vardiff"] = <<>>
  BY <1>1, <1>2 DEF TipInv, Task
<1>5. CASE t = "notify"
  <2>1. Following /\ notify.pc = "idle" /\ out'["reader"] = out["reader"]
    BY <1>0, <1>2, <1>5
       DEF TipInv, BeforeFirstJob, SendingFirstJob, Task
  <2>2. PICK job \in SessionJob :
          Sending("notify", job, FALSE) /\ AllOn(job.template.prev)
    BY <1>0, <1>5, <2>1 DEF Following
  <2>3. CASE out["notify"] = Dispatch(job, FALSE)
    <3>1. SendNotify(t) /\ out'["notify"] = Tail(Dispatch(job, FALSE))
      BY <1>3, <1>5, <2>3, DispatchParts
         DEF Send, SendDifficulty, NoteNotifySent
    <3>s. Sending("notify", job, FALSE)' /\ AllOn(job.template.prev)'
      BY <1>0, <2>2, <3>1 DEF Sending, AllOn
    <3>r. ReaderSendsDifficulty' /\ ~Authorizing'
      BY <1>0, <2>1 DEF Following, ReaderSendsDifficulty, Authorizing
    <3>f. UNCHANGED <<authorized, authorizes, bootstrapComplete, bootstrapInflight>>
      BY <1>0, <3>1 DEF SendNotify
    <3>2. Following'
      BY <2>1, <3>s, <3>r, <3>f DEF Following
    <3> QED  BY <1>0, <1>4, <2>1, <3>2 DEF TipInv
  <2>4. CASE out["notify"] = Tail(Dispatch(job, FALSE))
    <3>1. NoteNotifySent(t) /\ out'["notify"] = <<>>
      BY <1>3, <1>5, <2>4, DispatchParts DEF Send, SendDifficulty, SendNotify
    <3>2. /\ lastPrevhash' = job.template.prev
          /\ bootstrapComplete' /\ ~bootstrapInflight'
      BY <1>5, <2>1, <2>4, <3>1, DispatchParts DEF NoteNotifySent, Following
    <3>3. Following'
      BY <1>0, <2>1, <2>2, <3>1, <3>2
         DEF Following, Authorizing, ReaderSendsDifficulty, AllOn
    <3> QED  BY <1>0, <1>4, <2>1, <3>3 DEF TipInv
  <2> QED  BY <2>2, <2>3, <2>4 DEF Sending
<1>6. CASE t = "reader"
  <2>1. out'["notify"] = out["notify"]
    BY <1>2, <1>6 DEF Task
  <2>2. CASE (BeforeFirstJob \/ Following) /\ ReaderSendsDifficulty
    <3>1. PICK d \in Difficulty : out["reader"] = <<SetDifficultyMsg(d)>>
      BY <1>0, <1>6, <2>2 DEF ReaderSendsDifficulty
    <3>2. SendDifficulty(t) /\ out'["reader"] = <<>>
      BY <1>3, <1>6, <3>1, DifficultyParts DEF Send, SendNotify, NoteNotifySent
    <3>3. UNCHANGED <<flagVars, lastPrevhash>>
      BY <3>2 DEF SendDifficulty
    <3>4. CASE BeforeFirstJob
      <4>1. BeforeFirstJob'
        BY <1>0, <2>1, <3>2, <3>3, <3>4
           DEF BeforeFirstJob, ReaderSendsDifficulty, Authorizing
      <4> QED  BY <1>0, <1>4, <2>1, <4>1 DEF TipInv
    <3>5. CASE Following
      <4>r. ReaderSendsDifficulty' /\ ~Authorizing'
        BY <1>0, <3>2, <3>5 DEF Following, ReaderSendsDifficulty, Authorizing
      <4>f. UNCHANGED <<authorized, authorizes, bootstrapComplete, bootstrapInflight>>
        BY <1>0, <3>3
      <4>1. Following'
        <5>1. CASE out["notify"] = <<>> /\ AllOn(lastPrevhash)
          <6>1. out'["notify"] = <<>> /\ AllOn(lastPrevhash)'
            BY <1>0, <2>1, <3>3, <5>1 DEF AllOn
          <6> QED  BY <3>5, <4>r, <4>f, <6>1 DEF Following
        <5>2. CASE \E job \in SessionJob :
                     Sending("notify", job, FALSE) /\ AllOn(job.template.prev)
          <6>1. PICK job \in SessionJob :
                  Sending("notify", job, FALSE) /\ AllOn(job.template.prev)
            BY <5>2
          <6>2. Sending("notify", job, FALSE)' /\ AllOn(job.template.prev)'
            BY <1>0, <2>1, <6>1 DEF Sending, AllOn
          <6> QED  BY <3>5, <4>r, <4>f, <6>2 DEF Following
        <5> QED  BY <3>5, <5>1, <5>2 DEF Following
      <4> QED  BY <1>0, <1>4, <2>1, <4>1 DEF TipInv
    <3> QED  BY <2>2, <3>4, <3>5
  <2>3. CASE SendingFirstJob
    <3>1. PICK job \in SessionJob : jobs = <<job>> /\ Sending("reader", job, TRUE)
      BY <2>3 DEF SendingFirstJob
    <3>2. CASE out["reader"] = Dispatch(job, TRUE)
      <4>1. SendNotify(t) /\ out'["reader"] = Tail(Dispatch(job, TRUE))
        BY <1>3, <1>6, <3>2, DispatchParts
           DEF Send, SendDifficulty, NoteNotifySent
      <4>s. Sending("reader", job, TRUE)' /\ jobs' = <<job>>
        BY <1>0, <3>1, <4>1 DEF Sending
      <4>f. UNCHANGED <<authorized, authorizes, bootstrapComplete, bootstrapInflight>>
        BY <1>0, <4>1 DEF SendNotify
      <4>p. out'["notify"] = <<>> /\ reader'.pc = "idle"
        BY <1>0, <2>1, <2>3 DEF SendingFirstJob
      <4>2. SendingFirstJob'
        BY <2>3, <4>s, <4>f, <4>p DEF SendingFirstJob
      <4> QED  BY <1>0, <1>4, <2>1, <4>2 DEF TipInv
    <3>3. CASE out["reader"] = Tail(Dispatch(job, TRUE))
      <4>1. NoteNotifySent(t) /\ out'["reader"] = <<>>
        BY <1>3, <1>6, <3>3, DispatchParts DEF Send, SendDifficulty, SendNotify
      <4>2. /\ lastPrevhash' = job.template.prev
            /\ bootstrapComplete' /\ ~bootstrapInflight'
        BY <1>6, <3>3, <4>1, DispatchParts DEF NoteNotifySent
      <4>3. AllOn(lastPrevhash)'
        BY <1>0, <3>1, <4>2 DEF AllOn
      <4>4. Following'
        BY <1>0, <2>1, <2>3, <4>1, <4>2, <4>3
           DEF SendingFirstJob, Following, Authorizing, ReaderSendsDifficulty
      <4> QED  BY <1>0, <1>4, <2>1, <4>4 DEF TipInv
    <3> QED  BY <3>1, <3>2, <3>3 DEF Sending
  <2> QED  BY <2>2, <2>3 DEF TipInv, BeforeFirstJob, Following
<1> QED  BY <1>1, <1>5, <1>6 DEF Task

(* Only the notify task pushes jobs once the first is noted: a clean job   *)
(* alone, or one more on the block of the last note.                       *)
LEMMA NotifyKeepsTip ==
  ASSUME IInv, TipInv, NotifyClean \/ (NotifyUpdate /\ tokens > 0)
  PROVE  TipInv'
<1>0. TypeOK
  BY DEF IInv
<1>1. PICK job \in SessionJob :
        /\ job = NewJob(notify.template, difficulty)
        /\ job.template = notify.template
        /\ job.id = nextId
  BY <1>0, NewJobType DEF TypeOK, NewJob
<1>2. Following /\ out["notify"] = <<>> /\ AllOn(lastPrevhash)
  <2>1. authorized /\ ~Bootstrapping /\ notify.pc = "decide"
    BY DEF NotifyClean, NotifyUpdate
  <2>2. out["notify"] = <<>>
    BY <2>1 DEF TipInv
  <2>3. Following
    BY <2>1 DEF TipInv, BeforeFirstJob, SendingFirstJob, Bootstrapping
  <2>4. \A j \in SessionJob : ~Sending("notify", j, FALSE)
    BY <2>2, DispatchParts DEF Sending
  <2> QED  BY <2>2, <2>3, <2>4 DEF Following
<1>3. /\ out' = [out EXCEPT !["notify"] = Dispatch(job, FALSE)]
      /\ UNCHANGED <<flagVars, authorizes>>
      /\ notify'.pc = "idle"
      /\ reader'.pc = reader.pc
  <2>1. CASE NotifyClean
    BY <1>0, <1>1, <2>1 DEF NotifyClean, NotifyDone, boundVars, MarkJobsStaleBlock,
                            TypeOK, ReaderState
  <2>2. CASE NotifyUpdate /\ tokens > 0
    BY <1>1, <2>2 DEF NotifyUpdate, NotifyDone, boundVars
  <2> QED  BY <2>1, <2>2
<1>4. AllOn(job.template.prev)'
  <2>1. CASE NotifyClean
    <3>1. PushJob(job, <<>>)
      BY <1>1, <2>1 DEF NotifyClean
    <3>2. Append(<<>>, job) = <<job>> /\ Len(<<job>>) = 1
      OBVIOUS
    <3>3. ~(1 > JobLimit)
      BY SessionAssumption
    <3>4. jobs' = <<job>>
      BY <3>1, <3>2, <3>3 DEF PushJob
    <3> QED  BY <3>4 DEF AllOn
  <2>2. CASE NotifyUpdate /\ tokens > 0
    <3>1. PushJob(job, jobs) /\ lastPrevhash = job.template.prev
      BY <1>1, <2>2 DEF NotifyUpdate, ShouldCleanJobs
    <3>2. /\ jobs' \in Seq(SessionJob)
          /\ \A i \in 1..Len(jobs') :
               jobs'[i] = job \/ \E j \in 1..Len(jobs) : jobs'[i] = jobs[j]
      BY <1>0, <1>1, <3>1, PushAppends
    <3> QED  BY <1>2, <3>1, <3>2 DEF AllOn
  <2> QED  BY <2>1, <2>2
<1>5. /\ out'["notify"] = Dispatch(job, FALSE)
      /\ out'["reader"] = out["reader"]
      /\ out'["vardiff"] = out["vardiff"]
  BY <1>0, <1>3 DEF TypeOK, Task
<1>6. Following'
  <2>1. Sending("notify", job, FALSE)'
    BY <1>5 DEF Sending
  <2>2. /\ authorized' = authorized /\ authorizes' = authorizes
        /\ bootstrapComplete' = bootstrapComplete
        /\ bootstrapInflight' = bootstrapInflight
    BY <1>3 DEF flagVars
  <2>3. ReaderSendsDifficulty' /\ ~Authorizing'
    BY <1>2, <1>3, <1>5 DEF Following, ReaderSendsDifficulty, Authorizing
  <2> QED  BY <1>2, <1>4, <2>1, <2>2, <2>3 DEF Following
<1> QED  BY <1>3, <1>5, <1>6 DEF TipInv

LEMMA AuthorizeKeepsTip ==
  ASSUME IInv, TipInv, OneAuthorization',
         AuthorizeBegin \/ AuthorizeRead \/ AuthorizePush
  PROVE  TipInv'
<1>0. TypeOK /\ authorizes \in Nat
  BY DEF IInv, TypeOK
<1>1. CASE AuthorizeBegin
  <2>1. /\ authorizes' = authorizes + 1
        /\ reader' = [reader EXCEPT !.pc = "auth_read", !.diff = difficulty]
        /\ out' = [out EXCEPT !["reader"] = <<SetDifficultyMsg(difficulty)>>]
        /\ UNCHANGED notify
    BY <1>1 DEF AuthorizeBegin
  <2>2. authorizes = 0
    BY <1>0, <2>1 DEF OneAuthorization
  <2>3. BeforeFirstJob /\ ~authorized
    BY <2>2 DEF TipInv, BeforeFirstJob, SendingFirstJob, Following
  <2>4. PICK d \in Difficulty : out' = [out EXCEPT !["reader"] = <<SetDifficultyMsg(d)>>]
    BY <1>0, <2>1 DEF TypeOK
  <2>5. /\ out'["reader"] = <<SetDifficultyMsg(d)>>
        /\ out'["notify"] = out["notify"]
        /\ out'["vardiff"] = out["vardiff"]
    BY <1>0, <2>4 DEF TypeOK, Task
  <2>6. reader'.pc = "auth_read"
    BY <1>0, <2>1 DEF TypeOK, ReaderState
  <2>7. BeforeFirstJob'
    BY <1>1, <2>1, <2>2, <2>3, <2>5, <2>6
       DEF AuthorizeBegin, BeginAuthorizedSession, BeforeFirstJob,
           ReaderSendsDifficulty, Authorizing
  <2> QED  BY <2>1, <2>5, <2>7 DEF TipInv
<1>2. CASE AuthorizeRead
  <2>1. BeforeFirstJob /\ authorized
    BY <1>2 DEF AuthorizeRead, TipInv, BeforeFirstJob, SendingFirstJob, Following,
                Authorizing
  <2>2. reader'.pc = "auth_push"
    BY <1>0, <1>2 DEF AuthorizeRead, TypeOK, ReaderState
  <2>3. BeforeFirstJob'
    BY <1>2, <2>1, <2>2
       DEF AuthorizeRead, Free, flagVars, jobVars, boundVars, BeforeFirstJob,
           ReaderSendsDifficulty, Authorizing
  <2> QED  BY <1>2, <2>3 DEF AuthorizeRead, TipInv
<1>3. CASE AuthorizePush
  <2>1. BeforeFirstJob /\ authorized
    BY <1>3 DEF AuthorizePush, TipInv, BeforeFirstJob, SendingFirstJob, Following,
                Authorizing
  <2>2. PICK job \in SessionJob : job = NewJob(reader.template, reader.diff)
    BY <1>0, NewJobType DEF TypeOK, ReaderState
  <2>3. /\ PushJob(job, jobs)
        /\ out' = [out EXCEPT !["reader"] = Dispatch(job, TRUE)]
        /\ reader' = NoRequest
        /\ UNCHANGED <<notify, flagVars, authorizes>>
    BY <1>3, <2>2 DEF AuthorizePush, boundVars
  <2>4. jobs' = <<job>>
    <3>1. jobs = <<>>
      BY <2>1 DEF BeforeFirstJob
    <3>2. Append(<<>>, job) = <<job>> /\ Len(<<job>>) = 1
      OBVIOUS
    <3>3. ~(1 > JobLimit)
      BY SessionAssumption
    <3> QED  BY <2>3, <3>1, <3>2, <3>3 DEF PushJob
  <2>5. /\ out'["reader"] = Dispatch(job, TRUE)
        /\ out'["notify"] = out["notify"]
        /\ out'["vardiff"] = out["vardiff"]
    BY <1>0, <2>3 DEF TypeOK, Task
  <2>6. Sending("reader", job, TRUE)'
    BY <2>5 DEF Sending
  <2>7. SendingFirstJob'
    BY <2>1, <2>3, <2>4, <2>5, <2>6, NoRequestType
       DEF flagVars, BeforeFirstJob, SendingFirstJob
  <2> QED  BY <2>3, <2>5, <2>7 DEF TipInv
<1> QED  BY <1>1, <1>2, <1>3

LEMMA SuggestKeepsTip ==
  ASSUME IInv, TipInv, SuggestSame
  PROVE  TipInv'
<1>0. /\ out \in [Task -> Seq(Effect)]
      /\ ReaderIdle
      /\ UNCHANGED <<flagVars, authorizes, jobs, lastPrevhash, notify, reader>>
  BY DEF SuggestSame, jobVars, boundVars, IInv, TypeOK
<1>1. PICK d \in Difficulty : out' = [out EXCEPT !["reader"] = <<SetDifficultyMsg(d)>>]
  BY DEF SuggestSame, IInv, TypeOK
<1>2. /\ out'["reader"] = <<SetDifficultyMsg(d)>>
      /\ out'["notify"] = out["notify"]
      /\ out'["vardiff"] = out["vardiff"]
  BY <1>0, <1>1 DEF Task
<1>3. ReaderSendsDifficulty'
  BY <1>2 DEF ReaderSendsDifficulty
<1>4. CASE BeforeFirstJob
  <2>1. BeforeFirstJob'
    BY <1>0, <1>2, <1>3, <1>4
       DEF BeforeFirstJob, Authorizing, ReaderIdle, flagVars
  <2> QED  BY <1>0, <1>2, <2>1 DEF TipInv
<1>5. CASE SendingFirstJob
  <2>1. PICK job \in SessionJob : Sending("reader", job, TRUE)
    BY <1>5 DEF SendingFirstJob
  <2> QED  BY <1>0, <2>1, DispatchParts DEF Sending, ReaderIdle, Free
<1>6. CASE Following
  <2>1. Following'
    BY <1>0, <1>2, <1>3, <1>6
       DEF Following, Authorizing, flagVars, AllOn, Sending
  <2> QED  BY <1>0, <1>2, <2>1 DEF TipInv
<1> QED  BY <1>4, <1>5, <1>6 DEF TipInv

LEMMA StepKeepsTip ==
  ASSUME IInv, TipInv, OneAuthorization, OneAuthorization', [Next]_vars
  PROVE  TipInv'
<1> USE DEF boundVars, jobVars
<1>0. TypeOK /\ NoRequest.pc = "idle"
  BY NoRequestType DEF IInv
<1>1. CASE Engine
  BY <1>1, TipFrame DEF Engine, EnginePublish, EngineDeliver
<1>2. CASE \E t \in Task : Send(t)
  BY <1>2, SendKeepsTip
<1>3. CASE NotifyTask \/ RefillBucket
  <2>1. CASE NotifyClean \/ (NotifyUpdate /\ tokens > 0)
    BY <2>1, NotifyKeepsTip
  <2>2. CASE NotifyUpdate /\ ~(tokens > 0)
    BY <2>2, TipFrame DEF NotifyUpdate, NotifyDone
  <2>3. CASE NotifyChanged
    BY <2>3, TipFrame DEF NotifyChanged, Free
  <2>4. CASE NotifyBorrow \/ NotifySkipOrWait
    BY <2>4, TipFrame DEF NotifyBorrow, NotifySkipOrWait, NotifyDone
  <2>5. CASE RefillBucket
    BY <2>5, TipFrame DEF RefillBucket
  <2> QED  BY <1>3, <2>1, <2>2, <2>3, <2>4, <2>5 DEF NotifyTask
<1>4. ASSUME NEW t \in Task, NEW d \in Difficulty, Repush(t, d) PROVE FALSE
  BY <1>4 DEF Repush, OneAuthorization
<1>5. CASE Request
  <2>1. CASE AuthorizeBegin
    BY <2>1, AuthorizeKeepsTip
  <2>2. CASE SuggestSame
    BY <2>2, SuggestKeepsTip
  <2>3. CASE \E d \in Difficulty : SuggestDifficulty(d)
    BY <1>4, <2>3 DEF SuggestDifficulty, Task
  <2>4. CASE \E mask \in MaskChoice : Configure(mask)
    BY <2>4, TipFrame DEF Configure
  <2>5. CASE \E job \in Live, pow \in Pow : SubmitLookup(job, pow)
    <3>1. /\ reader.pc = "idle" /\ reader'.pc = "lookup" /\ ReaderIdle
          /\ UNCHANGED <<flagVars, authorizes, jobs, lastPrevhash, out, notify>>
      BY <2>5 DEF SubmitLookup, NoRequest, ReaderIdle
    <3> QED  BY <3>1, TipFrame DEF Authorizing
  <2> QED  BY <1>5, <2>1, <2>2, <2>3, <2>4, <2>5 DEF Request
<1>6. CASE ReaderTask
  <2>1. CASE AuthorizeRead \/ AuthorizePush
    BY <2>1, AuthorizeKeepsTip
  <2>2. CASE \/ SubmitDuplicate \/ SubmitRecord \/ SubmitValidate
             \/ SubmitHandOver \/ SubmitAccount
    <3>1. /\ reader.pc \in {"lookup", "validate", "hand_over", "account"}
          /\ reader'.pc \in {"idle", "validate", "hand_over", "account"}
          /\ UNCHANGED <<flagVars, authorizes, jobs, lastPrevhash, out, notify>>
      <4>1. CASE SubmitDuplicate \/ SubmitAccount
        BY <1>0, <4>1 DEF SubmitDuplicate, SubmitAccount
      <4>2. CASE SubmitRecord
        BY <1>0, <4>2 DEF SubmitRecord, TypeOK, ReaderState
      <4>3. CASE SubmitValidate
        <5>1. reader'.pc \in {"hand_over", "account"}
          BY <1>0, <4>3, ValidateOutcome
        <5> QED  BY <4>3, <5>1 DEF SubmitValidate
      <4>4. CASE SubmitHandOver
        BY <4>4 DEF SubmitHandOver, NoRequest
      <4> QED  BY <2>2, <4>1, <4>2, <4>3, <4>4
    <3> QED  BY <3>1, TipFrame DEF Authorizing
  <2> QED  BY <1>6, <2>1, <2>2 DEF ReaderTask
<1>7. CASE \E d \in Difficulty : VardiffRetarget(d) \/ SubmitRetarget(d)
  BY <1>4, <1>7 DEF VardiffRetarget, SubmitRetarget, Task
<1>8. CASE UNCHANGED vars
  BY <1>8, TipFrame DEF vars
<1> QED
  BY <1>1, <1>2, <1>3, <1>5, <1>6, <1>7, <1>8 DEF Next

LEMMA InitTip == Init => TipInv
<1> SUFFICES ASSUME Init PROVE TipInv
  OBVIOUS
<1>1. /\ out["vardiff"] = <<>> /\ out["notify"] = <<>> /\ out["reader"] = <<>>
      /\ reader.pc = "idle"
  BY NoRequestType DEF Init, Task
<1>2. BeforeFirstJob
  BY <1>1 DEF Init, BeforeFirstJob, ReaderSendsDifficulty, Authorizing
<1> QED  BY <1>1, <1>2 DEF TipInv

(* In a session authorized once, at one difficulty, the jobs a miner may   *)
(* still submit for build on one block, although the notify task decides   *)
(* whether to drop them by last_prevhash, which it writes only after the   *)
(* job is pushed and sent (should_clean_jobs, note_notify_sent).           *)
THEOREM JobsBuildOnOneBlock == Spec /\ []OneAuthorization => []JobsOnOneTip
<1>1. /\ IInv /\ TipInv /\ OneAuthorization /\ OneAuthorization' /\ [Next]_vars
      => TipInv'
  BY StepKeepsTip
<1>2. IInv /\ TipInv => JobsOnOneTip
  BY TipInvImplies DEF IInv
<1> QED  BY <1>1, <1>2, InitTip, InductiveInvariant, PTL DEF Spec

-----------------------------------------------------------------------------
(* The job the miner works on                                              *)

(* A task's next message is a job. *)
Due(t) == out[t] # <<>> /\ Head(out[t]).op = "notify"

(* What is still to be sent is the newest job, and nothing but that stands *)
(* between the miner and it.                                               *)
MinerInv ==
  /\ \A t \in Task : Due(t) => jobs # <<>> /\ Head(out[t]).job = Newest
  /\ jobs # <<>> => miner.job = Newest \/ \E t \in Task : Due(t)
  /\ bootstrapComplete => jobs # <<>>

LEMMA InitMiner == Init => MinerInv
  BY DEF Init, MinerInv, Due

(* A push puts its job at the end, whatever it drops at the front. *)
LEMMA PushIsNewest ==
  ASSUME NEW kept \in Seq(SessionJob), NEW job \in SessionJob,
         PushJob(job, kept)
  PROVE  jobs' # <<>> /\ Newest' = job
<1> DEFINE longer == Append(kept, job)
<1>0. JobLimit \in Nat \ {0}
  BY SessionAssumption
<1>1. /\ longer \in Seq(SessionJob) /\ Len(longer) = Len(kept) + 1
      /\ longer[Len(longer)] = job /\ Len(kept) \in Nat
  OBVIOUS
<1>2. jobs' = IF Len(longer) > JobLimit THEN Tail(longer) ELSE longer
  BY DEF PushJob
<1> HIDE DEF longer
<1>3. CASE Len(longer) > JobLimit
  <2>1. /\ Len(longer) \in Nat /\ Len(longer) > 1 /\ longer # <<>>
    BY <1>0, <1>1, <1>3
  <2> DEFINE rest == Tail(longer)
  <2>2. /\ rest \in Seq(SessionJob) /\ Len(rest) = Len(longer) - 1
        /\ \A i \in 1..(Len(longer) - 1) : rest[i] = longer[i + 1]
    BY <1>1, <2>1
  <2>3. jobs' = rest
    BY <1>2, <1>3
  <2> HIDE DEF rest
  <2>4. rest[Len(rest)] = longer[Len(longer)] /\ Len(rest) > 0
    BY <2>1, <2>2
  <2>5. rest # <<>>
    BY <2>2, <2>4
  <2>6. Newest' = jobs'[Len(jobs')]
    BY DEF Newest
  <2> QED  BY <1>1, <2>3, <2>4, <2>5, <2>6
<1>4. CASE ~(Len(longer) > JobLimit)
  <2>1. longer # <<>>
    BY <1>1
  <2> QED  BY <1>1, <1>2, <1>4, <2>1 DEF Newest
<1> QED  BY <1>3, <1>4

(* A step that leaves the jobs and the miner alone, and sends no job. *)
LEMMA MinerFrame ==
  ASSUME MinerInv, UNCHANGED <<jobs, miner, bootstrapComplete>>,
         \A t \in Task : Due(t)' <=> Due(t),
         \A t \in Task : Due(t) => Head(out'[t]) = Head(out[t])
  PROVE  MinerInv'
  BY DEF MinerInv, Newest

(* The last message of a task is not a job. *)
LEMMA NoJobBehindFirst ==
  ASSUME TipInv, NEW t \in Task, out[t] # <<>>
  PROVE  \/ Tail(out[t]) = <<>>
         \/ Head(Tail(out[t])).op = "note"
<1>1. CASE t = "reader"
  <2>1. CASE ReaderSendsDifficulty
    BY <1>1, <2>1, DifficultyParts DEF ReaderSendsDifficulty
  <2>2. CASE SendingFirstJob
    BY <1>1, <2>2, DispatchParts DEF SendingFirstJob, Sending
  <2> QED  BY <2>1, <2>2 DEF TipInv, BeforeFirstJob, Following
<1>2. CASE t = "notify"
  <2>1. \E job \in SessionJob : Sending("notify", job, FALSE)
    BY <1>2 DEF TipInv, BeforeFirstJob, SendingFirstJob, Following
  <2> QED  BY <1>2, <2>1, DispatchParts DEF Sending
<1>3. CASE t = "vardiff"
  BY <1>3 DEF TipInv
<1> QED  BY <1>1, <1>2, <1>3 DEF Task

LEMMA SendKeepsMiner ==
  ASSUME IInv, TipInv, MinerInv, NEW t \in Task, Send(t)
  PROVE  MinerInv'
<1>1. /\ out \in [Task -> Seq(Effect)] /\ miner \in [job: SessionJob, diff: Difficulty]
      /\ out[t] # <<>> /\ out' = [out EXCEPT ![t] = Tail(@)]
      /\ UNCHANGED jobs
  BY DEF Send, SendDifficulty, SendNotify, NoteNotifySent, Sent, IInv, TypeOK,
         jobVars
<1>2. ~Due(t)'
  <2>1. out'[t] = Tail(out[t])
    BY <1>1
  <2>2. "note" # "notify"
    OBVIOUS
  <2> QED  BY <1>1, <2>1, <2>2, NoJobBehindFirst DEF Due
<1>3. \A s \in Task : s # t => (Due(s)' <=> Due(s)) /\ out'[s] = out[s]
  BY <1>1 DEF Due
<1>4. Newest' = Newest
  BY <1>1 DEF Newest
<1>5. CASE SendNotify(t)
  <2>1. Due(t) /\ miner'.job = Head(out[t]).job /\ UNCHANGED bootstrapComplete
    BY <1>1, <1>5 DEF SendNotify, Due, flagVars
  <2>2. miner'.job = Newest
    BY <2>1 DEF MinerInv
  <2> QED  BY <1>1, <1>2, <1>3, <1>4, <2>1, <2>2 DEF MinerInv
<1>6. CASE SendDifficulty(t) \/ NoteNotifySent(t)
  <2>1. ~Due(t) /\ miner'.job = miner.job
    BY <1>1, <1>6 DEF SendDifficulty, NoteNotifySent, Due
  <2>2. bootstrapComplete' => jobs # <<>>
    <3>1. CASE UNCHANGED bootstrapComplete
      BY <3>1 DEF MinerInv
    <3>2. CASE NoteNotifySent(t) /\ Head(out[t]).complete
      <4>1. CASE SendingFirstJob
        <5>1. PICK job \in SessionJob : jobs = <<job>>
          BY <4>1 DEF SendingFirstJob
        <5> QED  BY <5>1
      <4>2. CASE BeforeFirstJob
        <5>1. t = "reader" /\ Head(out[t]).op = "set_difficulty"
          BY <1>1, <4>2, DifficultyParts
             DEF TipInv, BeforeFirstJob, ReaderSendsDifficulty, Task
        <5> QED  BY <3>2, <5>1 DEF NoteNotifySent
      <4>3. CASE Following
        BY <4>3 DEF Following, MinerInv
      <4> QED  BY <4>1, <4>2, <4>3 DEF TipInv
    <3> QED  BY <1>6, <3>1, <3>2 DEF SendDifficulty, NoteNotifySent, flagVars
  <2> QED  BY <1>1, <1>2, <1>3, <1>4, <2>1, <2>2 DEF MinerInv
<1> QED  BY <1>5, <1>6 DEF Send

(* A push by a task whose first message then is that job, while no other   *)
(* task has a job to send.                                                 *)
LEMMA PushKeepsMiner ==
  ASSUME TypeOK, NEW t \in Task, NEW job \in SessionJob, NEW messages,
         jobs' # <<>>, Newest' = job,
         out' = [out EXCEPT ![t] = messages],
         messages # <<>>, Head(messages).op = "notify", Head(messages).job = job,
         \A s \in Task \ {t} : ~Due(s)
  PROVE  MinerInv'
<1>1. Due(t)' /\ Head(out'[t]) = Head(messages)
  BY DEF Due, TypeOK
<1>2. \A s \in Task \ {t} : ~Due(s)'
  BY DEF Due, TypeOK
<1> QED  BY <1>1, <1>2 DEF MinerInv

LEMMA StepKeepsMiner ==
  ASSUME IInv, TipInv, MinerInv, OneAuthorization', [Next]_vars
  PROVE  MinerInv'
<1> USE DEF boundVars, jobVars, flagVars
<1>0. /\ TypeOK /\ out \in [Task -> Seq(Effect)]
      /\ jobs \in Seq(SessionJob) /\ <<>> \in Seq(SessionJob)
  BY DEF IInv, TypeOK
<1>1. ASSUME UNCHANGED <<jobs, miner, bootstrapComplete, out>> PROVE MinerInv'
  BY <1>1, MinerFrame DEF Due
<1>2. CASE Engine
  BY <1>1, <1>2 DEF Engine, EnginePublish, EngineDeliver
<1>3. CASE \E t \in Task : Send(t)
  BY <1>3, SendKeepsMiner
<1>4. ~Due("vardiff")
  BY DEF TipInv, Due
<1>5. ReaderSendsDifficulty => ~Due("reader")
  <2>1. "set_difficulty" # "notify"
    OBVIOUS
  <2> QED  BY <2>1, DifficultyParts DEF ReaderSendsDifficulty, Due
<1>6. CASE NotifyTask \/ RefillBucket
  <2>1. CASE NotifyClean \/ (NotifyUpdate /\ tokens > 0)
    <3>1. PICK job \in SessionJob : job = NewJob(notify.template, difficulty)
      BY <1>0, NewJobType DEF TypeOK
    <3>2. PICK kept \in Seq(SessionJob) :
            /\ PushJob(job, kept)
            /\ out' = [out EXCEPT !["notify"] = Dispatch(job, FALSE)]
      BY <1>0, <2>1, <3>1 DEF NotifyClean, NotifyUpdate
    <3>3. authorized /\ ~Bootstrapping
      BY <2>1 DEF NotifyClean, NotifyUpdate
    <3>4. ReaderSendsDifficulty
      BY <3>3 DEF TipInv, BeforeFirstJob, SendingFirstJob, Following, Bootstrapping
    <3>5. \A s \in Task \ {"notify"} : ~Due(s)
      BY <1>4, <1>5, <3>4 DEF Task
    <3>6. jobs' # <<>> /\ Newest' = job
      BY <3>2, PushIsNewest
    <3>7. Head(Dispatch(job, FALSE)).job = job
      BY DEF Dispatch
    <3>8. "notify" \in Task
      BY DEF Task
    <3> QED  BY <1>0, <3>2, <3>5, <3>6, <3>7, <3>8, DispatchParts, PushKeepsMiner
  <2>2. CASE NotifyUpdate /\ ~(tokens > 0)
    BY <1>1, <2>2 DEF NotifyUpdate
  <2>3. CASE NotifyChanged \/ NotifyBorrow \/ NotifySkipOrWait \/ RefillBucket
    BY <1>1, <2>3
       DEF NotifyChanged, NotifyBorrow, NotifySkipOrWait, RefillBucket
  <2> QED  BY <1>6, <2>1, <2>2, <2>3 DEF NotifyTask
<1>7. ASSUME NEW t \in Task, NEW d \in Difficulty, Repush(t, d) PROVE FALSE
  BY <1>0, <1>7 DEF Repush, OneAuthorization, TypeOK
<1>8. CASE Request
  <2>1. CASE AuthorizeBegin
    <3>1. /\ jobs' = <<>> /\ ~bootstrapComplete'
          /\ out' = [out EXCEPT !["reader"] = <<SetDifficultyMsg(difficulty)>>]
          /\ authorizes = 0
      BY <1>0, <2>1 DEF AuthorizeBegin, BeginAuthorizedSession, OneAuthorization, TypeOK
    <3>2. out["notify"] = <<>>
      BY <3>1 DEF TipInv, BeforeFirstJob, SendingFirstJob, Following
    <3>3. \A t \in Task : ~Due(t)'
      <4>1. /\ out'["reader"] = <<SetDifficultyMsg(difficulty)>>
            /\ out'["notify"] = <<>> /\ out'["vardiff"] = <<>>
        BY <1>0, <3>1, <3>2 DEF TipInv, Task
      <4> QED  BY <4>1, DifficultyParts DEF Due, Task
    <3> QED  BY <3>1, <3>3 DEF MinerInv
  <2>2. CASE SuggestSame
    <3>1. /\ out["reader"] = <<>>
          /\ out' = [out EXCEPT !["reader"] = <<SetDifficultyMsg(difficulty)>>]
          /\ UNCHANGED <<jobs, miner, bootstrapComplete>>
      BY <2>2 DEF SuggestSame, ReaderIdle, Free
    <3>2. ~Due("reader") /\ ~Due("reader")'
      BY <1>0, <3>1, DifficultyParts DEF Due, Task
    <3>3. \A t \in Task : t # "reader" => out'[t] = out[t]
      BY <1>0, <3>1
    <3> QED  BY <3>1, <3>2, <3>3, MinerFrame DEF Due
  <2>3. CASE \E d \in Difficulty : SuggestDifficulty(d)
    BY <1>7, <2>3 DEF SuggestDifficulty, Task
  <2>4. CASE \E mask \in MaskChoice : Configure(mask)
    BY <1>1, <2>4 DEF Configure
  <2>5. CASE \E job \in Live, pow \in Pow : SubmitLookup(job, pow)
    BY <1>1, <2>5 DEF SubmitLookup
  <2> QED  BY <1>8, <2>1, <2>2, <2>3, <2>4, <2>5 DEF Request
<1>9. CASE ReaderTask
  <2>1. CASE AuthorizePush
    <3>1. PICK job \in SessionJob : job = NewJob(reader.template, reader.diff)
      BY <1>0, NewJobType DEF TypeOK, ReaderState
    <3>2. /\ PushJob(job, jobs)
          /\ out' = [out EXCEPT !["reader"] = Dispatch(job, TRUE)]
          /\ reader.pc = "auth_push"
      BY <2>1, <3>1 DEF AuthorizePush
    <3>3. out["notify"] = <<>>
      BY <3>2 DEF TipInv, BeforeFirstJob, SendingFirstJob, Following, Authorizing
    <3>4. \A s \in Task \ {"reader"} : ~Due(s)
      BY <1>4, <3>3 DEF Due, Task
    <3>5. jobs' # <<>> /\ Newest' = job
      BY <1>0, <3>2, PushIsNewest
    <3>6. Head(Dispatch(job, TRUE)).job = job
      BY DEF Dispatch
    <3>7. "reader" \in Task
      BY DEF Task
    <3> QED  BY <1>0, <3>2, <3>4, <3>5, <3>6, <3>7, DispatchParts, PushKeepsMiner
  <2>2. CASE AuthorizeRead \/ SubmitDuplicate \/ SubmitRecord
             \/ SubmitValidate \/ SubmitHandOver \/ SubmitAccount
    BY <1>1, <2>2 DEF AuthorizeRead, SubmitDuplicate, SubmitRecord,
                      SubmitValidate, SubmitHandOver, SubmitAccount
  <2> QED  BY <1>9, <2>1, <2>2 DEF ReaderTask
<1>10. CASE \E d \in Difficulty : VardiffRetarget(d) \/ SubmitRetarget(d)
  BY <1>7, <1>10 DEF VardiffRetarget, SubmitRetarget, Task
<1>11. CASE UNCHANGED vars
  BY <1>1, <1>11 DEF vars
<1> QED
  BY <1>2, <1>3, <1>6, <1>8, <1>9, <1>10, <1>11 DEF Next

(* In a session authorized once, at one difficulty, the miner works on the *)
(* newest job whenever no message is on its way, although a job is sent    *)
(* outside the hold of the mutex that pushed it (push_job, send_notify):   *)
(* no other task pushes one in between.                                    *)
THEOREM MinerGetsTheNewest == Spec /\ []OneAuthorization => []MinerHasNewest
<1>1. /\ IInv /\ TipInv /\ OneAuthorization /\ OneAuthorization' /\ [Next]_vars
      => TipInv'
  BY StepKeepsTip
<1>2. IInv /\ TipInv /\ MinerInv /\ OneAuthorization' /\ [Next]_vars => MinerInv'
  BY StepKeepsMiner
<1>3. MinerInv => MinerHasNewest
  BY DEF MinerInv, MinerHasNewest, Due, Free
<1> QED  BY <1>1, <1>2, <1>3, InitTip, InitMiner, InductiveInvariant, PTL DEF Spec

=============================================================================
