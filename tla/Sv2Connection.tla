---------------------------- MODULE Sv2Connection ----------------------------
(***************************************************************************)
(* One Stratum V2 connection of src/src/sv2/connection.rs, from the setup  *)
(* to the end of its task.  One task owns the state and handles one event  *)
(* at a time (a frame of the miner, a template of the watch channel, a     *)
(* vardiff tick), so a handler is a step.  What interleaves with it is the *)
(* engine (TemplateFeed): a channel is opened on current_job(), everything *)
(* later comes from the watch channel, and the two may disagree.           *)
(*                                                                         *)
(* "miner" applies the rules of the protocol to the messages in the order  *)
(* they are written: it is what the other end knows once they arrive.  A   *)
(* write may fail at any moment, which ends the connection; the frames     *)
(* that were read before are handled until then.                           *)
(***************************************************************************)
EXTENDS TemplateFeed, Sequences, FiniteSets, Functions

CONSTANTS
  SetupFlag,          \* the flags of SetupConnection
  VersionRolling,     \* FLAG_REQUIRES_VERSION_ROLLING
  Difficulty,         \* the difficulties in use
  StartDifficulty,    \* start_difficulty of the configuration
  VersionBit,         \* the bits of a block version
  JobVersion,         \* those set in every template
  VersionMask,        \* those a miner may roll: allowed, and not vbrequired
  Pow,                \* solutions: nonce, ntime and extranonce
  Quality,            \* the difficulty each solution meets
  NetworkDifficulty,  \* what a block has to meet
  JobLimit,           \* MAX_CHANNEL_JOBS: 32
  ShareLimit,         \* MAX_RECENT_SHARES: 4096
  MaxTemplates,       \* bound: templates the engine publishes
  MaxGen,             \* bound: mempool generations of the templates
  MaxOpens,           \* bound: channels the miner opens
  MaxRetargets,       \* bound: changes of difficulty
  MaxSubmits          \* bound: shares past the duplicate check

ASSUME Sv2Assumption ==
  /\ VersionRolling \in SetupFlag
  /\ Difficulty \subseteq Nat \ {0}
  /\ StartDifficulty \in Difficulty
  /\ JobVersion \subseteq VersionBit
  /\ VersionMask \subseteq VersionBit
  /\ Quality \in [Pow -> Nat]
  /\ NetworkDifficulty \in Nat
  /\ {JobLimit, ShareLimit} \subseteq Nat \ {0}
  /\ {MaxTemplates, MaxGen, MaxOpens, MaxRetargets, MaxSubmits} \subseteq Nat

VARIABLES
  unseen,       \* the receiver holds a template it has not seen
  phase,        \* where the connection's task stands
  rolling,      \* negotiated_flags has FLAG_REQUIRES_VERSION_ROLLING
  nextChannel, nextJob,   \* next_channel_id, next_job_id
  channels,     \* the open channels
  remembered,   \* submitted and submitted_order
  miner,        \* external: what the miner has been told of each channel
  recorded,     \* history: shares given to record_share
  solved,       \* history: shares that validate_share found to be blocks
  submitted,    \* history: those handed to submit_block_candidate
  retargets     \* changes of difficulty so far, for the bound

idVars == <<nextChannel, nextJob>>
shareVars == <<remembered, recorded, solved, submitted>>
vars == <<store, stream, unseen, phase, rolling, idVars, channels, miner,
          shareVars, retargets>>

-----------------------------------------------------------------------------
(* Types and small definitions                                             *)

Id == Nat \ {0}
Open == DOMAIN channels

ChannelJob == [template: Job, diff: Difficulty, follows: BOOLEAN]
Empty == [i \in {} |-> i]

(* A share by the key of build_dup_key: channel, job id, solution and      *)
(* resolved version.  One header may be several shares, as a retarget      *)
(* sends the same template again under a new job id (line 745).            *)
Share == [channel: Id, job: Id, pow: Pow, version: SUBSET VersionBit]

Remembered == {remembered[i] : i \in DOMAIN remembered}

Put(f, x, y) == [z \in DOMAIN f \cup {x} |-> IF z = x THEN y ELSE f[z]]

IsChannel(s) ==
  /\ s = [jobs |-> s.jobs, current |-> s.current, diff |-> s.diff]
  /\ DOMAIN s.jobs \subseteq 1..(nextJob - 1)
  /\ \A i \in DOMAIN s.jobs : s.jobs[i] \in ChannelJob
  /\ Cardinality(DOMAIN s.jobs) <= JobLimit
  /\ s.current \in DOMAIN s.jobs
  /\ s.diff \in Difficulty

TypeOK ==
  /\ store \in Job
  /\ stream \in Job
  /\ unseen \in BOOLEAN
  /\ phase \in {"setup", "idle", "borrow", "closed"}
  /\ rolling \in BOOLEAN
  /\ nextChannel \in Id
  /\ nextJob \in Id
  /\ Open \subseteq 1..(nextChannel - 1)
  /\ \A c \in Open : IsChannel(channels[c])
  /\ remembered \in Seq(Share)
  /\ Len(remembered) <= ShareLimit
  /\ DOMAIN miner = Open
  /\ recorded \in Seq(Share)
  /\ submitted \subseteq solved
  /\ solved \subseteq Share
  /\ retargets \in Nat

Init ==
  /\ \E b \in Block : store = JobOf("gbt", b, 0, 1)
  /\ stream = store
  /\ unseen = FALSE
  /\ phase = "setup"
  /\ rolling = FALSE
  /\ nextChannel = 1
  /\ nextJob = 1
  /\ channels = Empty
  /\ remembered = <<>>
  /\ miner = Empty
  /\ recorded = <<>>
  /\ solved = {}
  /\ submitted = {}
  /\ retargets = 0

-----------------------------------------------------------------------------
(* The template engine, as TemplateFeed promises it                        *)

EnginePublish ==
  /\ store.id < MaxTemplates
  /\ \E kind \in {"gbt", "fast"}, b \in Block, gen \in 0..MaxGen :
       store' = JobOf(kind, b, gen, store.id + 1)
  /\ Publish
  /\ store'.kind = "fast" => store'.gen = 0
  /\ UNCHANGED <<unseen, phase, rolling, idVars, channels, miner, shareVars,
                 retargets>>

EngineDeliver ==
  /\ Deliver
  /\ unseen' = (phase \notin {"setup", "closed"})
  /\ UNCHANGED <<phase, rolling, idVars, channels, miner, shareVars, retargets>>

-----------------------------------------------------------------------------
(* External: the miner's view of a channel.  A job without min_ntime waits *)
(* for its SetNewPrevHash, which drops every other job, and follows each   *)
(* SetTarget; a job with one is active at once and keeps the target it was *)
(* received at.                                                            *)

MinerOpens(d) == [diff |-> d, prev |-> NoBlock, active |-> 0, jobs |-> Empty]

MinerSetTarget(m, d) ==
  [m EXCEPT !.diff = d,
            !.jobs = [i \in DOMAIN m.jobs |->
                        IF m.jobs[i].follows
                        THEN [m.jobs[i] EXCEPT !.diff = d] ELSE m.jobs[i]]]

MinerNewJob(m, id, future) ==
  [m EXCEPT !.jobs = Put(@, id, [diff |-> m.diff, follows |-> future]),
            !.active = IF future THEN @ ELSE id]

MinerSetNewPrevHash(m, id, prev) ==
  [m EXCEPT !.jobs = Restrict(@, {id}), !.active = id, !.prev = prev]

(* NewExtendedMiningJob and, for a clean job, SetNewPrevHash. *)
MinerGetsJob(m, id, template, clean) ==
  LET told == MinerNewJob(m, id, clean)
  IN  IF clean THEN MinerSetNewPrevHash(told, id, template.prev) ELSE told

-----------------------------------------------------------------------------
(* Slips of the code that the runs must notice.  None is part of the model. *)

(* Nothing is pruned. *)
PrunableNone(s) == {0}

(* SetTarget is taken to hold for every job. *)
SetChannelDifficultyOfAll(s, d) ==
  [s EXCEPT !.diff = d,
            !.jobs = [i \in DOMAIN s.jobs |-> [s.jobs[i] EXCEPT !.diff = d]]]

(* Only a template that forbids old work is clean. *)
ShouldCleanIfForbidden(s, template) == ~SubmitOld(template)

(* The key holds the version as it was submitted. *)
DupKeySubmitted(share, version) == [share EXCEPT !.version = version]

(* Only the channels that need a clean job get one. *)
RecipientsOfClean(template) ==
  {c \in Open : channels[c].jobs[channels[c].current].template.prev
                  # template.prev}

(* The ids sent in one go start at the last one drawn. *)
JobIdsFromLast(cs) ==
  Bijection(cs, (nextJob - 1) .. (nextJob + Cardinality(cs) - 2))

-----------------------------------------------------------------------------
(* Operations on a channel                                                 *)

(* prune_extra_jobs, once a new job makes them more than JobLimit: of the  *)
(* others the one with the least created_at goes.  That is a wall clock in *)
(* milliseconds, which ties in a burst of jobs (the hash map's order then  *)
(* decides) and may be set back, so it may be any of them; 0 is none.      *)
Prunable(s) ==
  IF Cardinality(DOMAIN s.jobs) >= JobLimit
  THEN DOMAIN s.jobs ELSE {0}

(* send_job_to_channel; "extra" is the job pruned for a job that is not    *)
(* clean.                                                                  *)
PushJob(s, id, template, clean, extra) ==
  LET kept == IF clean THEN {} ELSE DOMAIN s.jobs \ {extra}
  IN  [s EXCEPT !.current = id,
                !.jobs = Put(Restrict(@, kept), id,
                             [template |-> template, diff |-> s.diff,
                              follows |-> clean])]

CurrentTemplate(s) == s.jobs[s.current].template

ShouldClean(s, template) ==
  \/ ~SubmitOld(template)
  \/ CurrentTemplate(s).prev # template.prev

SetChannelDifficulty(s, d) ==
  [s EXCEPT !.diff = d,
            !.jobs = [i \in DOMAIN s.jobs |->
                        IF s.jobs[i].follows
                        THEN [s.jobs[i] EXCEPT !.diff = d] ELSE s.jobs[i]]]

(* Job ids for a set of channels, visited in the order of the hash map. *)
JobIds(cs) == Bijection(cs, nextJob .. (nextJob + Cardinality(cs) - 1))

-----------------------------------------------------------------------------
(* The connection's task                                                   *)

(* The task returns and its state is dropped with it. *)
End ==
  /\ phase' = "closed"
  /\ unseen' = FALSE
  /\ rolling' = FALSE
  /\ nextChannel' = 1
  /\ nextJob' = 1
  /\ channels' = Empty
  /\ miner' = Empty
  /\ remembered' = <<>>

(* handle_setup_connection; run subscribes to the templates after it. *)
Setup(flags) ==
  /\ phase = "setup"
  /\ flags \subseteq {VersionRolling}
  /\ phase' = "idle"
  /\ rolling' = (VersionRolling \in flags)
  /\ UNCHANGED <<store, stream, unseen, idVars, channels, miner, shareVars,
                 retargets>>

SetupRejected(flags) ==
  /\ phase = "setup"
  /\ ~(flags \subseteq {VersionRolling})
  /\ End
  /\ UNCHANGED <<store, stream, recorded, solved, submitted, retargets>>

(* The reader fails or times out, a frame cannot be decoded or has a type  *)
(* that is not served, or a write fails in a handler: all but those of a   *)
(* share, which leave something behind.  Other refusals are answered and   *)
(* change nothing.                                                         *)
ConnectionEnds ==
  /\ phase # "closed"
  /\ End
  /\ UNCHANGED <<store, stream, recorded, solved, submitted, retargets>>

(* OpenExtendedMiningChannelSuccess carries the target and the SetTarget   *)
(* before the first job repeats it.                                        *)
OpenChannel(d) ==
  /\ phase = "idle"
  /\ nextChannel <= MaxOpens
  /\ d >= StartDifficulty
  /\ LET opened == [jobs |-> Empty, current |-> 0, diff |-> d]
     IN  channels' = Put(channels, nextChannel,
                         PushJob(opened, nextJob, store, TRUE, 0))
  /\ miner' = Put(miner, nextChannel,
                  MinerGetsJob(MinerOpens(d), nextJob, store, TRUE))
  /\ nextChannel' = nextChannel + 1
  /\ nextJob' = nextJob + 1
  /\ UNCHANGED <<store, stream, unseen, phase, rolling, shareVars, retargets>>

CloseChannel(c) ==
  /\ phase = "idle"
  /\ c \in Open
  /\ channels' = Restrict(channels, Open \ {c})
  /\ miner' = Restrict(miner, Open \ {c})
  /\ UNCHANGED <<store, stream, unseen, phase, rolling, idVars, shareVars,
                 retargets>>

(* changed() marks the value as seen; what is borrowed may be newer. *)
TemplateChanged ==
  /\ phase = "idle"
  /\ unseen
  /\ unseen' = FALSE
  /\ phase' = "borrow"
  /\ UNCHANGED <<store, stream, rolling, idVars, channels, miner, shareVars,
                 retargets>>

Recipients(template) == Open

(* send_job_to_all_channels *)
TemplateBorrow ==
  /\ phase = "borrow"
  /\ phase' = "idle"
  /\ LET cs == Recipients(stream)
         clean == [c \in cs |-> ShouldClean(channels[c], stream)]
     IN  /\ \E ids \in JobIds(cs), extra \in [cs -> 0..nextJob] :
              /\ \A c \in cs : extra[c] \in Prunable(channels[c])
              /\ channels' = [c \in Open |->
                   IF c \in cs
                   THEN PushJob(channels[c], ids[c], stream, clean[c], extra[c])
                   ELSE channels[c]]
              /\ miner' = [c \in Open |->
                   IF c \in cs
                   THEN MinerGetsJob(miner[c], ids[c], stream, clean[c])
                   ELSE miner[c]]
         /\ nextJob' = nextJob + Cardinality(cs)
  /\ UNCHANGED <<store, stream, unseen, rolling, nextChannel, shareVars,
                 retargets>>

-----------------------------------------------------------------------------
(* Retargets: SetTarget, and the current template again as a new job.      *)
(* maybe_retarget may come to any other difficulty.                        *)

Retarget(cs, diff) ==
  /\ retargets + Cardinality(cs) <= MaxRetargets
  /\ retargets' = retargets + Cardinality(cs)
  /\ nextJob' = nextJob + Cardinality(cs)
  /\ \E ids \in JobIds(cs), extra \in [cs -> 0..nextJob] :
       /\ \A c \in cs : extra[c] \in Prunable(channels[c])
       /\ channels' = [c \in Open |->
            IF c \in cs
            THEN PushJob(SetChannelDifficulty(channels[c], diff[c]), ids[c],
                         CurrentTemplate(channels[c]), FALSE, extra[c])
            ELSE channels[c]]
       /\ miner' = [c \in Open |->
            IF c \in cs
            THEN MinerGetsJob(MinerSetTarget(miner[c], diff[c]), ids[c],
                              CurrentTemplate(channels[c]), FALSE)
            ELSE miner[c]]

VardiffTick(diff) ==
  /\ phase = "idle"
  /\ LET cs == {c \in Open : diff[c] # channels[c].diff}
     IN  cs # {} /\ Retarget(cs, diff)
  /\ UNCHANGED <<store, stream, unseen, phase, rolling, nextChannel, shareVars>>

-----------------------------------------------------------------------------
(* SubmitSharesExtended                                                    *)

(* resolve_submitted_version: without negotiation the version must be the  *)
(* job's; with it, the bits outside the mask may also be left zero.        *)
VersionAllowed(version) ==
  IF rolling /\ VersionMask # {}
  THEN version \ VersionMask \in {{}, JobVersion \ VersionMask}
  ELSE version = JobVersion

ResolvedVersion(version) ==
  IF rolling
  THEN (JobVersion \ VersionMask) \cup (version \cap VersionMask)
  ELSE JobVersion

ShareOf(c, i, pow, version) ==
  [channel |-> c, job |-> i, pow |-> pow, version |-> ResolvedVersion(version)]

DupKey(share, version) == share

IsBlock(pow) == Quality[pow] >= NetworkDifficulty
Accepted(c, i, pow) == Quality[pow] >= channels[c].jobs[i].diff \/ IsBlock(pow)

(* A share for a job that is live and that is not a duplicate. *)
NewShare(c, i, pow, version) ==
  /\ phase = "idle"
  /\ Len(recorded) < MaxSubmits
  /\ c \in Open
  /\ i \in DOMAIN channels[c].jobs
  /\ VersionAllowed(version)
  /\ DupKey(ShareOf(c, i, pow, version), version) \notin Remembered

(* remember_share *)
RememberShare(key) ==
  remembered' = Append(IF Len(remembered) >= ShareLimit
                       THEN Tail(remembered) ELSE remembered, key)

Solve(share) ==
  solved' = IF IsBlock(share.pow) THEN solved \cup {share} ELSE solved

SubmitShare(c, i, pow, version, d) ==
  /\ NewShare(c, i, pow, version)
  /\ LET share == ShareOf(c, i, pow, version)
     IN  /\ RememberShare(DupKey(share, version))
         /\ recorded' = Append(recorded, share)
         /\ Solve(share)
         /\ submitted' = IF IsBlock(pow) THEN submitted \cup {share}
                                         ELSE submitted
  /\ IF d = channels[c].diff
     THEN UNCHANGED <<nextJob, channels, miner, retargets>>
     ELSE Accepted(c, i, pow) /\ Retarget({c}, [e \in {c} |-> d])
  /\ UNCHANGED <<store, stream, unseen, phase, rolling, nextChannel>>

(* The answer cannot be written: the share is not even recorded. *)
SubmitAnswerFails(c, i, pow, version) ==
  /\ NewShare(c, i, pow, version)
  /\ Solve(ShareOf(c, i, pow, version))
  /\ End
  /\ UNCHANGED <<store, stream, recorded, submitted, retargets>>

(* The share is recorded, but a message of the retarget cannot be written. *)
SubmitRetargetFails(c, i, pow, version) ==
  /\ NewShare(c, i, pow, version)
  /\ Accepted(c, i, pow)
  /\ retargets < MaxRetargets
  /\ retargets' = retargets + 1
  /\ Solve(ShareOf(c, i, pow, version))
  /\ recorded' = Append(recorded, ShareOf(c, i, pow, version))
  /\ End
  /\ UNCHANGED <<store, stream, submitted>>

-----------------------------------------------------------------------------

Engine == EnginePublish \/ EngineDeliver

Submit ==
  \E c \in Open, pow \in Pow, version \in SUBSET VersionBit :
    \E i \in DOMAIN channels[c].jobs :
      \/ \E d \in Difficulty : SubmitShare(c, i, pow, version, d)
      \/ SubmitAnswerFails(c, i, pow, version)
      \/ SubmitRetargetFails(c, i, pow, version)

Next ==
  \/ Engine
  \/ \E flags \in SUBSET SetupFlag : Setup(flags) \/ SetupRejected(flags)
  \/ ConnectionEnds
  \/ \E d \in Difficulty : OpenChannel(d)
  \/ \E c \in Open : CloseChannel(c)
  \/ TemplateChanged
  \/ TemplateBorrow
  \/ \E diff \in [Open -> Difficulty] : VardiffTick(diff)
  \/ Submit

Spec == Init /\ [][Next]_vars

(* The engine goes on from the write of "current" to the send; the task's  *)
(* select picks among what is ready at random, so a template is not passed *)
(* over for ever, and a handler comes to its end.                          *)
Fairness ==
  /\ WF_vars(EngineDeliver)
  /\ WF_vars(TemplateChanged)
  /\ WF_vars(TemplateBorrow)

FairSpec == Spec /\ Fairness

-----------------------------------------------------------------------------
(* Properties                                                              *)

(* Both ends judge a share alike: once the messages on their way have      *)
(* arrived, the miner knows each job the server takes shares for, at the   *)
(* server's difficulty, however SetTarget and jobs with and without        *)
(* min_ntime followed each other (line 134: "SetTarget applies to future   *)
(* jobs and jobs received with empty min_ntime").                          *)
TargetsAgree ==
  \A c \in Open : \A i \in DOMAIN channels[c].jobs :
    /\ i \in DOMAIN miner[c].jobs
    /\ miner[c].jobs[i].diff = channels[c].jobs[i].diff

(* The jobs of a channel build on the block of the last SetNewPrevHash,    *)
(* which was written for a job of that block, and the job the miner works  *)
(* on is the channel's current one and live: though a channel is opened on *)
(* a newer template than the watch channel hands over next (line 423), no  *)
(* share is credited for a block the miner was told to leave.              *)
OneTip ==
  \A c \in Open :
    /\ miner[c].active = channels[c].current
    /\ channels[c].current \in DOMAIN channels[c].jobs
    /\ \A i \in DOMAIN channels[c].jobs :
         channels[c].jobs[i].template.prev = miner[c].prev

(* A solution of one job of a channel is taken a second time only after    *)
(* MAX_RECENT_SHARES others: whatever bits outside the mask the version    *)
(* was submitted with, and however channels were opened, closed and sent   *)
(* other jobs in between.  The rule is by job id, as README.md:209 says:   *)
(* under the new id a retarget gives the template, the same header is a    *)
(* new share.                                                              *)
NoReplay ==
  \A i, j \in DOMAIN recorded :
    i < j /\ recorded[i] = recorded[j] => j - i > ShareLimit

(* A job id means the same work for as long as it is live: a share names   *)
(* its job by id only, so the template it is judged by is the one the      *)
(* miner hashed, however many channels were sent jobs at once and whatever *)
(* was pruned.  Only an id that was never drawn brings new work.           *)
JobsKeepTheirWork ==
  [][\A c \in Open' : \A i \in DOMAIN channels'[c].jobs :
       \/ i >= nextJob
       \/ /\ c \in Open
          /\ i \in DOMAIN channels[c].jobs
          /\ channels'[c].jobs[i].template = channels[c].jobs[i].template]_vars

(* Every channel comes to rest on the engine's newest template, though it  *)
(* may be opened on one and then be sent the one before it.                *)
ChannelsFollowEngine ==
  <>[](\A c \in Open : CurrentTemplate(channels[c]) = store)

(* README.md:47: "If the share solves a block, StratumBee submits it to    *)
(* Bitcoin Core".                                                          *)
BlockIsSubmitted == solved \subseteq submitted

=============================================================================
