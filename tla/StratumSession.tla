--------------------------- MODULE StratumSession ---------------------------
(***************************************************************************)
(* One Stratum V1 session of src/src/stratum.rs: the reader task that      *)
(* handles the miner's requests, the notify task that pushes each template *)
(* the engine publishes, and the vardiff task that changes the difficulty. *)
(* The three share SessionState behind a mutex and one channel to the      *)
(* writer.  A step is what a task does in one hold of the mutex or one     *)
(* send: a task that has pushed a job still has to send it, and takes the  *)
(* mutex a second time afterwards (note_notify_sent).                      *)
(*                                                                         *)
(* The engine is TemplateFeed.  main.rs starts the sessions after the      *)
(* engine's first publication (lines 85-108), so a template is ready from  *)
(* the start, and the branches for one that is not are never taken.  The   *)
(* channel is a FIFO, so what a task sends is what the miner sees next.    *)
(***************************************************************************)
EXTENDS TemplateFeed, Sequences

CONSTANTS
  Difficulty,        \* the difficulties in use
  StartDifficulty,   \* start_difficulty of the configuration
  Retargeter,        \* who may change it: "vardiff", "submit", "suggest"
  VersionBit,        \* the version bits a miner may roll
  MaskChoice,        \* the masks a miner may ask for with mining.configure
  VbRequired,        \* the bits every template requires as they are
  Pow,               \* solutions: nonce, ntime, extranonce2 and version
  BlockPow,          \* those that meet the network target
  JobLimit,          \* jobs a session remembers: 32
  MaxId,             \* the largest session job id: 2^32 - 1
  DupLimit,          \* MAX_DUP_HASHES: 4096
  BucketCapacity,    \* notify_bucket_capacity
  MaxTemplates,      \* bound: templates the engine publishes
  MaxGen,            \* bound: mempool generations of the templates
  MaxAuthorize,      \* bound: mining.authorize requests
  MaxRetargets,      \* bound: changes of difficulty
  MaxSubmits         \* bound: shares past the duplicate check

ASSUME SessionAssumption ==
  /\ Difficulty \subseteq Nat
  /\ StartDifficulty \in Difficulty
  /\ Retargeter \subseteq {"vardiff", "submit", "suggest"}
  /\ MaskChoice \subseteq SUBSET VersionBit
  /\ VbRequired \subseteq VersionBit
  /\ BlockPow \subseteq Pow
  /\ {JobLimit, MaxId, DupLimit} \subseteq Nat \ {0}
  /\ JobLimit <= MaxId
  /\ {BucketCapacity, MaxTemplates, MaxGen, MaxAuthorize, MaxRetargets,
      MaxSubmits} \subseteq Nat

VARIABLES
  unseen,       \* the notify task's receiver holds a value it has not seen
  notify,       \* the notify task: where it stands and the template in hand
  reader,       \* the reader task: where it stands and what it has in hand
  out,          \* what each task has yet to send and to note
  authorized, bootstrapComplete, bootstrapInflight,
  difficulty, versionMask,
  jobs, nextId, lastPrevhash, submittedHashes,   \* of SessionState
  tokens,       \* notify_bucket
  miner,        \* external: the last job and difficulty sent to the miner
  submitted,    \* block candidates handed to submit_block
  recorded,     \* history: the shares that passed the duplicate check
  authorizes, retargets   \* requests so far, for the bounds

flagVars == <<authorized, bootstrapComplete, bootstrapInflight>>
jobVars == <<jobs, nextId, difficulty>>
shareVars == <<submittedHashes, submitted, recorded>>
boundVars == <<authorizes, retargets>>
vars == <<store, stream, unseen, notify, reader, out, flagVars, jobVars,
          versionMask, lastPrevhash, tokens, miner, shareVars, boundVars>>

-----------------------------------------------------------------------------
(* Types and small definitions                                             *)

Task == {"reader", "notify", "vardiff"}
Id == 1..MaxId

SessionJob == [id: Id, template: Job, diff: Difficulty, mask: SUBSET VersionBit]
NoJob == [id |-> 1, template |-> EmptyJob, diff |-> StartDifficulty,
          mask |-> {}]

Effect ==
  [op: {"set_difficulty"}, diff: Difficulty]
    \cup [op: {"notify"}, job: SessionJob]
    \cup [op: {"note"}, prev: Block \cup {NoBlock}, complete: BOOLEAN]

SetDifficultyMsg(d) == [op |-> "set_difficulty", diff |-> d]

(* send_notify and, once it has succeeded, note_notify_sent. *)
Dispatch(job, bootstrap) ==
  <<[op |-> "notify", job |-> job],
    [op |-> "note", prev |-> job.template.prev, complete |-> bootstrap]>>

Live == {jobs[i] : i \in DOMAIN jobs}
Newest == jobs[Len(jobs)]
DupKeys == {submittedHashes[i] : i \in DOMAIN submittedHashes}

(* A request or message is handled to its end before the next one. *)
Free(t) == out[t] = <<>>
ReaderIdle == Free("reader") /\ reader.pc = "idle"

ReaderState ==
  [pc: {"idle", "auth_read", "auth_push", "lookup", "validate",
        "hand_over", "account"},
   template: Job, diff: Difficulty, job: SessionJob, pow: Pow \cup {0},
   mask: SUBSET VersionBit, stale: BOOLEAN]
NoRequest ==
  [pc |-> "idle", template |-> EmptyJob, diff |-> StartDifficulty,
   job |-> NoJob, pow |-> 0, mask |-> {}, stale |-> FALSE]

TypeOK ==
  /\ store \in Job
  /\ stream \in Job
  /\ unseen \in BOOLEAN
  /\ notify \in [pc: {"idle", "borrow", "decide"}, template: Job]
  /\ reader \in ReaderState
  /\ out \in [Task -> Seq(Effect)]
  /\ authorized \in BOOLEAN
  /\ bootstrapComplete \in BOOLEAN
  /\ bootstrapInflight \in BOOLEAN
  /\ difficulty \in Difficulty
  /\ versionMask \subseteq VersionBit
  /\ jobs \in Seq(SessionJob)
  /\ Len(jobs) <= JobLimit
  /\ nextId \in Id
  /\ lastPrevhash \in Block \cup {NoBlock}
  /\ submittedHashes \in Seq(Id \X Pow)
  /\ Len(submittedHashes) <= DupLimit
  /\ tokens \in 0..BucketCapacity
  /\ miner \in [job: SessionJob, diff: Difficulty]
  /\ submitted \subseteq [job: SessionJob, pow: BlockPow]
  /\ recorded \in Seq(Id \X Pow)
  /\ authorizes \in Nat
  /\ retargets \in Nat

Init ==
  /\ \E b \in Block : store = JobOf("gbt", b, 0, 1)
  /\ stream = store
  /\ unseen = FALSE
  /\ notify = [pc |-> "idle", template |-> EmptyJob]
  /\ reader = NoRequest
  /\ out = [t \in Task |-> <<>>]
  /\ authorized = FALSE
  /\ bootstrapComplete = FALSE
  /\ bootstrapInflight = FALSE
  /\ difficulty = StartDifficulty
  /\ versionMask = VersionBit
  /\ jobs = <<>>
  /\ nextId = 1
  /\ lastPrevhash = NoBlock
  /\ submittedHashes = <<>>
  /\ tokens = BucketCapacity
  /\ miner = [job |-> NoJob, diff |-> StartDifficulty]
  /\ submitted = {}
  /\ recorded = <<>>
  /\ authorizes = 0
  /\ retargets = 0

-----------------------------------------------------------------------------
(* The template engine, as TemplateFeed promises it                        *)

EnginePublish ==
  /\ store.id < MaxTemplates
  /\ \E kind \in {"gbt", "fast"}, b \in Block, gen \in 0..MaxGen :
       store' = JobOf(kind, b, gen, store.id + 1)
  /\ Publish
  /\ store'.kind = "fast" => store'.gen = 0
  /\ UNCHANGED <<unseen, notify, reader, out, flagVars, jobVars, versionMask,
                 lastPrevhash, tokens, miner, shareVars, boundVars>>

EngineDeliver ==
  /\ Deliver
  /\ unseen' = TRUE
  /\ UNCHANGED <<notify, reader, out, flagVars, jobVars, versionMask,
                 lastPrevhash, tokens, miner, shareVars, boundVars>>

-----------------------------------------------------------------------------
(* Slips of the code that the runs must notice.  None is part of the model. *)

(* The queue of jobs is never cut. *)
PushJobUnbounded(job, kept) ==
  /\ jobs' = Append(kept, job)
  /\ nextId' = IF nextId = MaxId THEN 1 ELSE nextId + 1
  /\ difficulty' = job.diff

(* pop_back instead of pop_front once the queue is too long. *)
PushJobDroppingNewest(job, kept) ==
  /\ jobs' = IF Len(kept) >= JobLimit THEN kept ELSE Append(kept, job)
  /\ nextId' = IF nextId = MaxId THEN 1 ELSE nextId + 1
  /\ difficulty' = job.diff

(* saturating_add instead of wrapping_add on next_job_id. *)
PushJobSaturating(job, kept) ==
  /\ jobs' = LET longer == Append(kept, job)
             IN  IF Len(longer) > JobLimit THEN Tail(longer) ELSE longer
  /\ nextId' = IF nextId = MaxId THEN MaxId ELSE nextId + 1
  /\ difficulty' = job.diff

(* The jobs are dropped but their shared flag is not set. *)
MarkNothing == UNCHANGED reader

(* Only a template that forbids old work is clean. *)
CleanOnlyIfForbidden(template) == ~SubmitOld(template)

(* A template that arrives during the bootstrap is dropped. *)
NotifySkipAlways ==
  /\ notify.pc = "decide"
  /\ ~authorized \/ (~bootstrapComplete /\ bootstrapInflight)
  /\ notify' = [pc |-> "idle", template |-> EmptyJob]
  /\ UNCHANGED <<store, stream, unseen, reader, out, flagVars, jobVars,
                 versionMask, lastPrevhash, tokens, miner, shareVars, boundVars>>

(* A second authorization forgets the hashes but not the jobs. *)
BeginKeepingJobs ==
  /\ authorized' = TRUE
  /\ bootstrapComplete' = FALSE
  /\ bootstrapInflight' = TRUE
  /\ lastPrevhash' = NoBlock
  /\ submittedHashes' = <<>>
  /\ UNCHANGED jobs

-----------------------------------------------------------------------------
(* SessionState's operations on jobs                                       *)

NewJob(template, d) ==
  [id |-> nextId, template |-> template, diff |-> d,
   mask |-> versionMask \ VbRequired]

(* push_job onto the jobs that are kept: the oldest makes room. *)
PushJob(job, kept) ==
  /\ jobs' = LET longer == Append(kept, job)
             IN  IF Len(longer) > JobLimit THEN Tail(longer) ELSE longer
  /\ nextId' = IF nextId = MaxId THEN 1 ELSE nextId + 1
  /\ difficulty' = job.diff

(* is_stale_block is shared with a reader that found the job before. *)
MarkJobsStaleBlock ==
  reader' = [reader EXCEPT !.stale = @ \/ reader.job \in Live]

ShouldCleanJobs(template) ==
  ~SubmitOld(template) \/ lastPrevhash # template.prev

(* Change the difficulty and push the newest job again under it. *)
Repush(t, d) ==
  /\ retargets < MaxRetargets
  /\ retargets' = retargets + 1
  /\ d \in Difficulty \ {difficulty}
  /\ IF bootstrapComplete /\ jobs # <<>>
     THEN LET job == NewJob(Newest.template, d)
          IN  /\ PushJob(job, jobs)
              /\ out' = [out EXCEPT ![t] =
                   <<SetDifficultyMsg(d)>> \o Dispatch(job, FALSE)]
     ELSE /\ difficulty' = d
          /\ out' = [out EXCEPT ![t] = <<SetDifficultyMsg(d)>>]
          /\ UNCHANGED <<jobs, nextId>>

-----------------------------------------------------------------------------
(* Sending, and note_notify_sent after it                                  *)

Sent(t) == out' = [out EXCEPT ![t] = Tail(@)]

SendDifficulty(t) ==
  /\ out[t] # <<>>
  /\ Head(out[t]).op = "set_difficulty"
  /\ miner' = [miner EXCEPT !.diff = Head(out[t]).diff]
  /\ Sent(t)
  /\ UNCHANGED <<store, stream, unseen, notify, reader, flagVars, jobVars,
                 versionMask, lastPrevhash, tokens, shareVars, boundVars>>

SendNotify(t) ==
  /\ out[t] # <<>>
  /\ Head(out[t]).op = "notify"
  /\ miner' = [miner EXCEPT !.job = Head(out[t]).job]
  /\ Sent(t)
  /\ UNCHANGED <<store, stream, unseen, notify, reader, flagVars, jobVars,
                 versionMask, lastPrevhash, tokens, shareVars, boundVars>>

NoteNotifySent(t) ==
  /\ out[t] # <<>>
  /\ Head(out[t]).op = "note"
  /\ lastPrevhash' = Head(out[t]).prev
  /\ bootstrapComplete' = (bootstrapComplete \/ Head(out[t]).complete)
  /\ bootstrapInflight' = (bootstrapInflight /\ ~Head(out[t]).complete)
  /\ Sent(t)
  /\ UNCHANGED <<store, stream, unseen, notify, reader, authorized, jobVars,
                 versionMask, tokens, miner, shareVars, boundVars>>

-----------------------------------------------------------------------------
(* The notify task                                                         *)

NotifyChanged ==
  /\ Free("notify")
  /\ notify.pc = "idle"
  /\ unseen
  /\ unseen' = FALSE
  /\ notify' = [notify EXCEPT !.pc = "borrow"]
  /\ UNCHANGED <<store, stream, reader, out, flagVars, jobVars, versionMask,
                 lastPrevhash, tokens, miner, shareVars, boundVars>>

NotifyBorrow ==
  /\ notify.pc = "borrow"
  /\ notify' = [pc |-> "decide", template |-> stream]
  /\ UNCHANGED <<store, stream, unseen, reader, out, flagVars, jobVars,
                 versionMask, lastPrevhash, tokens, miner, shareVars, boundVars>>

NotifyDone == notify' = [pc |-> "idle", template |-> EmptyJob]

Bootstrapping == ~bootstrapComplete /\ bootstrapInflight

(* Nobody to notify, or mining.authorize is about to send a job: retry. *)
NotifySkipOrWait ==
  /\ notify.pc = "decide"
  /\ \/ /\ ~authorized
        /\ NotifyDone
     \/ /\ authorized
        /\ Bootstrapping
        /\ notify' = [pc |-> "borrow", template |-> EmptyJob]
  /\ UNCHANGED <<store, stream, unseen, reader, out, flagVars, jobVars,
                 versionMask, lastPrevhash, tokens, miner, shareVars, boundVars>>

NotifyClean ==
  /\ notify.pc = "decide"
  /\ authorized /\ ~Bootstrapping
  /\ ShouldCleanJobs(notify.template)
  /\ MarkJobsStaleBlock
  /\ LET job == NewJob(notify.template, difficulty)
     IN  /\ PushJob(job, <<>>)
         /\ out' = [out EXCEPT !["notify"] = Dispatch(job, FALSE)]
  /\ NotifyDone
  /\ UNCHANGED <<store, stream, unseen, flagVars, versionMask, lastPrevhash,
                 tokens, miner, shareVars, boundVars>>

(* An update on the same block needs a token and is dropped without one. *)
NotifyUpdate ==
  /\ notify.pc = "decide"
  /\ authorized /\ ~Bootstrapping
  /\ ~ShouldCleanJobs(notify.template)
  /\ IF tokens > 0
     THEN LET job == NewJob(notify.template, difficulty)
          IN  /\ tokens' = tokens - 1
              /\ PushJob(job, jobs)
              /\ out' = [out EXCEPT !["notify"] = Dispatch(job, FALSE)]
     ELSE UNCHANGED <<tokens, jobVars, out>>
  /\ NotifyDone
  /\ UNCHANGED <<store, stream, unseen, reader, flagVars, versionMask,
                 lastPrevhash, miner, shareVars, boundVars>>

RefillBucket ==
  /\ tokens < BucketCapacity
  /\ tokens' = tokens + 1
  /\ UNCHANGED <<store, stream, unseen, notify, reader, out, flagVars, jobVars,
                 versionMask, lastPrevhash, miner, shareVars, boundVars>>

-----------------------------------------------------------------------------
(* The vardiff task; maybe_retarget may come to any other difficulty       *)

VardiffRetarget(d) ==
  /\ "vardiff" \in Retargeter
  /\ Free("vardiff")
  /\ authorized /\ bootstrapComplete
  /\ Repush("vardiff", d)
  /\ UNCHANGED <<store, stream, unseen, notify, reader, flagVars, versionMask,
                 lastPrevhash, tokens, miner, shareVars, authorizes>>

-----------------------------------------------------------------------------
(* mining.authorize                                                        *)

(* begin_authorized_session; the bootstrap is claimed in the same hold. *)
BeginAuthorizedSession ==
  /\ authorized' = TRUE
  /\ bootstrapComplete' = FALSE
  /\ bootstrapInflight' = TRUE
  /\ lastPrevhash' = NoBlock
  /\ submittedHashes' = <<>>
  /\ jobs' = <<>>

AuthorizeBegin ==
  /\ ReaderIdle
  /\ authorizes < MaxAuthorize
  /\ authorizes' = authorizes + 1
  /\ BeginAuthorizedSession
  /\ reader' = [reader EXCEPT !.pc = "auth_read", !.diff = difficulty]
  /\ out' = [out EXCEPT !["reader"] = <<SetDifficultyMsg(difficulty)>>]
  /\ UNCHANGED <<store, stream, unseen, notify, nextId, difficulty,
                 versionMask, tokens, miner, submitted, recorded, retargets>>

AuthorizeRead ==
  /\ reader.pc = "auth_read"
  /\ Free("reader")
  /\ reader' = [reader EXCEPT !.pc = "auth_push", !.template = store]
  /\ UNCHANGED <<store, stream, unseen, notify, out, flagVars, jobVars,
                 versionMask, lastPrevhash, tokens, miner, shareVars, boundVars>>

AuthorizePush ==
  /\ reader.pc = "auth_push"
  /\ authorized /\ Bootstrapping
  /\ LET job == NewJob(reader.template, reader.diff)
     IN  /\ PushJob(job, jobs)
         /\ out' = [out EXCEPT !["reader"] = Dispatch(job, TRUE)]
  /\ reader' = NoRequest
  /\ UNCHANGED <<store, stream, unseen, notify, flagVars, versionMask,
                 lastPrevhash, tokens, miner, shareVars, boundVars>>

-----------------------------------------------------------------------------
(* mining.suggest_difficulty and mining.configure                          *)

SuggestDifficulty(d) ==
  /\ "suggest" \in Retargeter
  /\ ReaderIdle
  /\ d >= StartDifficulty
  /\ Repush("reader", d)
  /\ UNCHANGED <<store, stream, unseen, notify, reader, flagVars, versionMask,
                 lastPrevhash, tokens, miner, shareVars, authorizes>>

(* The suggestion is what the session has already: it is only confirmed. *)
SuggestSame ==
  /\ "suggest" \in Retargeter
  /\ ReaderIdle
  /\ difficulty >= StartDifficulty
  /\ out' = [out EXCEPT !["reader"] = <<SetDifficultyMsg(difficulty)>>]
  /\ UNCHANGED <<store, stream, unseen, notify, reader, flagVars, jobVars,
                 versionMask, lastPrevhash, tokens, miner, shareVars, boundVars>>

(* The mask leaves out what the template current just now requires. *)
Configure(mask) ==
  /\ ReaderIdle
  /\ versionMask' = mask \ VbRequired
  /\ UNCHANGED <<store, stream, unseen, notify, reader, out, flagVars, jobVars,
                 lastPrevhash, tokens, miner, shareVars, boundVars>>

-----------------------------------------------------------------------------
(* mining.submit.  A share for a job that is not live, or that fails a     *)
(* check of its form, is answered and changes nothing.                     *)

SubmitLookup(job, pow) ==
  /\ ReaderIdle
  /\ authorized
  /\ Len(recorded) < MaxSubmits
  /\ reader' = [NoRequest EXCEPT !.pc = "lookup", !.job = job, !.pow = pow,
                                 !.mask = versionMask]
  /\ UNCHANGED <<store, stream, unseen, notify, out, flagVars, jobVars,
                 versionMask, lastPrevhash, tokens, miner, shareVars, boundVars>>

DupKey == <<reader.job.id, reader.pow>>

SubmitDuplicate ==
  /\ reader.pc = "lookup"
  /\ DupKey \in DupKeys
  /\ reader' = NoRequest
  /\ UNCHANGED <<store, stream, unseen, notify, out, flagVars, jobVars,
                 versionMask, lastPrevhash, tokens, miner, shareVars, boundVars>>

SubmitRecord ==
  /\ reader.pc = "lookup"
  /\ DupKey \notin DupKeys
  /\ submittedHashes' =
       Append(IF Len(submittedHashes) >= DupLimit
              THEN Tail(submittedHashes) ELSE submittedHashes, DupKey)
  /\ recorded' = Append(recorded, DupKey)
  /\ reader' = [reader EXCEPT !.pc = "validate"]
  /\ UNCHANGED <<store, stream, unseen, notify, out, flagVars, jobVars,
                 versionMask, lastPrevhash, tokens, miner, submitted, boundVars>>

(* The answer is sent; a solved block becomes a candidate, unless its job  *)
(* has become stale since it was looked up.                                *)
SubmitValidate ==
  /\ reader.pc = "validate"
  /\ reader' = IF reader.pow \in BlockPow /\ ~reader.stale
               THEN [reader EXCEPT !.pc = "hand_over"]
               ELSE [NoRequest EXCEPT !.pc = "account"]
  /\ UNCHANGED <<store, stream, unseen, notify, out, flagVars, jobVars,
                 versionMask, lastPrevhash, tokens, miner, shareVars, boundVars>>

(* The candidate is given to submit_block once metrics.upsert_block has    *)
(* recorded it: the flag is not looked at again after that await.          *)
SubmitHandOver ==
  /\ reader.pc = "hand_over"
  /\ submitted' = submitted \cup {[job |-> reader.job, pow |-> reader.pow]}
  /\ reader' = [NoRequest EXCEPT !.pc = "account"]
  /\ UNCHANGED <<store, stream, unseen, notify, out, flagVars, jobVars,
                 versionMask, lastPrevhash, tokens, miner, submittedHashes,
                 recorded, boundVars>>

SubmitAccount ==
  /\ reader.pc = "account"
  /\ reader' = NoRequest
  /\ UNCHANGED <<store, stream, unseen, notify, out, flagVars, jobVars,
                 versionMask, lastPrevhash, tokens, miner, shareVars, boundVars>>

SubmitRetarget(d) ==
  /\ "submit" \in Retargeter
  /\ reader.pc = "account"
  /\ bootstrapComplete
  /\ reader' = NoRequest
  /\ Repush("reader", d)
  /\ UNCHANGED <<store, stream, unseen, notify, flagVars, versionMask,
                 lastPrevhash, tokens, miner, shareVars, authorizes>>

-----------------------------------------------------------------------------

Engine == EnginePublish \/ EngineDeliver

Send(t) == SendDifficulty(t) \/ SendNotify(t) \/ NoteNotifySent(t)

NotifyTask ==
  \/ NotifyChanged \/ NotifyBorrow \/ NotifySkipOrWait
  \/ NotifyClean \/ NotifyUpdate

(* What the reader goes on with once it has taken up a request. *)
ReaderTask ==
  \/ AuthorizeRead \/ AuthorizePush
  \/ SubmitDuplicate \/ SubmitRecord \/ SubmitValidate
  \/ SubmitHandOver \/ SubmitAccount

Request ==
  \/ AuthorizeBegin
  \/ \E d \in Difficulty : SuggestDifficulty(d)
  \/ SuggestSame
  \/ \E mask \in MaskChoice : Configure(mask)
  \/ \E job \in Live, pow \in Pow : SubmitLookup(job, pow)

Next ==
  \/ Engine
  \/ \E t \in Task : Send(t)
  \/ NotifyTask
  \/ RefillBucket
  \/ \E d \in Difficulty : VardiffRetarget(d)
  \/ Request
  \/ ReaderTask
  \/ \E d \in Difficulty : SubmitRetarget(d)

Spec == Init /\ [][Next]_vars

(* The runtime runs every task, the writer drains the channel, and the     *)
(* engine goes from the write of "current" on to the send.                 *)
Fairness ==
  /\ WF_vars(EngineDeliver)
  /\ \A t \in Task : WF_vars(Send(t))
  /\ WF_vars(NotifyTask)
  /\ WF_vars(ReaderTask)

FairSpec == Spec /\ Fairness

-----------------------------------------------------------------------------
(* Properties                                                              *)

(* A job id names one remembered job: though ids wrap after 2^32 - 1 and   *)
(* are never 0, no two of the at most 32 jobs that find_job searches share *)
(* an id, so a share is checked against the job the miner worked on.       *)
JobIdsDistinct ==
  \A i, j \in DOMAIN jobs : jobs[i].id = jobs[j].id => i = j

(* The jobs a miner may still submit for build on one block: a template on *)
(* another block is never added without dropping the jobs before it, so no *)
(* share is credited for work that the session has told the miner to drop. *)
(* (For a session authorized once, at one difficulty: a late note of a     *)
(* re-pushed job or a second mining.authorize may break it for a moment.)  *)
JobsOnOneTip ==
  \A job \in Live : job.template.prev = Newest.template.prev

(* The reader decides on a solved block by a flag it shares with the task  *)
(* that drops jobs (is_stale_block, line 1098), several awaits after it    *)
(* looked the job up, and the flag tells the truth at that moment: the     *)
(* block is turned away only if a clean job has dropped its job, and kept  *)
(* only if the job is still remembered or more than 32 newer ones have     *)
(* pushed it out.  (What is pushed later, while the candidate is recorded  *)
(* and on its way to the node, the check cannot see and no other follows.) *)
StaleCheckIsRight ==
  [][reader.pc = "validate" /\ reader.pow \in BlockPow =>
       /\ reader'.pc = "hand_over" =>
            reader.job \in Live \/ nextId > reader.job.id + JobLimit
       /\ reader'.pc = "account" => reader.job \notin Live]_vars

(* A share is taken a second time only after MAX_DUP_HASHES others, across *)
(* any number of authorizations: forgetting the hashes (line 1454) is safe *)
(* because the jobs they were for are forgotten with them.  (As long as no *)
(* job id comes round again: MaxId is out of reach in the run.)            *)
NoReplay ==
  \A i, j \in DOMAIN recorded :
    i < j /\ recorded[i] = recorded[j] => j - i > DupLimit

(* Whenever no message is on its way the miner works on the newest job,    *)
(* though a job is pushed in one hold of the mutex and sent after it: the  *)
(* notify task and mining.authorize hand out jobs in the order they push   *)
(* them, because the one waits until the other's first job is noted.       *)
(* (For a session authorized once, at one difficulty, as JobsOnOneTip.)    *)
MinerHasNewest ==
  bootstrapComplete /\ (\A t \in Task : Free(t)) =>
    jobs # <<>> /\ miner.job = Newest

(* The session comes to rest with the miner on the newest block, on a job  *)
(* the session still takes shares for.  README.md:27: announcements of     *)
(* blocks "push clean jobs earlier".                                       *)
MinerFollowsTip ==
  <>[](bootstrapComplete =>
         /\ miner.job.template.prev = store.prev
         /\ miner.job \in Live)

(* The debug_assert_eq of handle_submit (line 974): the mask a job was     *)
(* pushed with is the negotiated mask without the bits it requires.        *)
MaskMatchesJob ==
  reader.pc = "lookup" => reader.job.mask = reader.mask \ VbRequired

=============================================================================
