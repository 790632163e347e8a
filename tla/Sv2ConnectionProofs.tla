------------------------ MODULE Sv2ConnectionProofs ------------------------
(***************************************************************************)
(* Both ends of an SV2 channel agree, for any number of channels, jobs,    *)
(* templates and difficulties.  The server's view of a channel and the     *)
(* miner's are matched job by job (Match); each operation on a channel is  *)
(* shown to keep the match together with the messages written for it, and  *)
(* the actions then are those operations on some of the channels.          *)
(***************************************************************************)
EXTENDS Sv2Connection, FiniteSetTheorems, SequenceTheorems, TLAPS

-----------------------------------------------------------------------------
(* One channel                                                             *)

(* IsChannel, with the next job id as a parameter. *)
ChannelRecord(s) ==
  /\ s = [jobs |-> s.jobs, current |-> s.current, diff |-> s.diff]
  /\ s.diff \in Difficulty

ChannelType(s, next) ==
  /\ ChannelRecord(s)
  /\ DOMAIN s.jobs \subseteq 1..(next - 1)
  /\ \A i \in DOMAIN s.jobs : s.jobs[i] \in ChannelJob
  /\ Cardinality(DOMAIN s.jobs) <= JobLimit
  /\ s.current \in DOMAIN s.jobs

MinerRecord(m) ==
  m = [diff |-> m.diff, prev |-> m.prev, active |-> m.active, jobs |-> m.jobs]

(* The miner knows each live job, with the same target and the same idea   *)
(* of what a SetTarget does to it, and of the same block.                  *)
Match(s, m) ==
  /\ MinerRecord(m)
  /\ m.diff = s.diff
  /\ m.active = s.current
  /\ s.current \in DOMAIN s.jobs
  /\ \A i \in DOMAIN s.jobs :
       /\ s.jobs[i] \in ChannelJob
       /\ i \in DOMAIN m.jobs
       /\ m.jobs[i] = [diff |-> s.jobs[i].diff, follows |-> s.jobs[i].follows]
       /\ s.jobs[i].template.prev = m.prev

(* A job that is not clean, of the block the channel is on. *)
LEMMA UpdateKeepsMatch ==
  ASSUME NEW s, NEW m, NEW id, NEW template \in Job, NEW extra,
         ChannelRecord(s), Match(s, m),
         CurrentTemplate(s).prev = template.prev
  PROVE  Match(PushJob(s, id, template, FALSE, extra),
               MinerGetsJob(m, id, template, FALSE))
<1> DEFINE t == PushJob(s, id, template, FALSE, extra)
           n == MinerGetsJob(m, id, template, FALSE)
           job == [template |-> template, diff |-> s.diff, follows |-> FALSE]
           told == [diff |-> m.diff, follows |-> FALSE]
<1>1. /\ t.current = id /\ t.diff = s.diff
      /\ t.jobs = Put(Restrict(s.jobs, DOMAIN s.jobs \ {extra}), id, job)
  BY DEF PushJob, ChannelRecord
<1>2. /\ n.active = id /\ n.diff = m.diff /\ n.prev = m.prev
      /\ n.jobs = Put(m.jobs, id, told)
      /\ MinerRecord(n)
  BY DEF MinerGetsJob, MinerNewJob, MinerRecord, Match
<1>3. /\ DOMAIN t.jobs = (DOMAIN s.jobs \ {extra}) \cup {id}
      /\ t.jobs[id] = job
      /\ \A i \in DOMAIN t.jobs : i # id => t.jobs[i] = s.jobs[i]
  BY <1>1 DEF Put, Restrict
<1>4. /\ DOMAIN n.jobs = DOMAIN m.jobs \cup {id}
      /\ n.jobs[id] = told
      /\ \A i \in DOMAIN m.jobs : i # id => n.jobs[i] = m.jobs[i]
  BY <1>2 DEF Put
<1>5. template.prev = m.prev /\ s.diff \in Difficulty /\ m.diff = s.diff
  BY DEF CurrentTemplate, Match, ChannelRecord
<1> HIDE DEF t, n
<1>6. ASSUME NEW i \in DOMAIN t.jobs
      PROVE  /\ t.jobs[i] \in ChannelJob
             /\ i \in DOMAIN n.jobs
             /\ n.jobs[i] = [diff |-> t.jobs[i].diff, follows |-> t.jobs[i].follows]
             /\ t.jobs[i].template.prev = n.prev
  <2>1. CASE i = id
    <3>1. job \in ChannelJob
      BY <1>5 DEF ChannelJob
    <3>2. told = [diff |-> job.diff, follows |-> job.follows]
      BY <1>5
    <3>3. job.template.prev = n.prev
      BY <1>2, <1>5
    <3> HIDE DEF job, told
    <3>4. QED
      BY <1>3, <1>4, <2>1, <3>1, <3>2, <3>3
  <2>2. CASE i # id
    BY <1>2, <1>3, <1>4, <2>2 DEF Match
  <2>3. QED
    BY <2>1, <2>2
<1>7. Match(t, n)
  BY <1>1, <1>2, <1>3, <1>5, <1>6 DEF Match
<1>8. QED
  BY <1>7 DEF t, n

(* A clean job: whatever the two ends knew of other jobs is gone. *)
LEMMA CleanMakesMatch ==
  ASSUME NEW s, NEW m, NEW id, NEW template \in Job, NEW extra,
         ChannelRecord(s), MinerRecord(m), m.diff = s.diff
  PROVE  Match(PushJob(s, id, template, TRUE, extra),
               MinerGetsJob(m, id, template, TRUE))
<1> DEFINE t == PushJob(s, id, template, TRUE, extra)
           n == MinerGetsJob(m, id, template, TRUE)
           job == [template |-> template, diff |-> s.diff, follows |-> TRUE]
           told == [diff |-> m.diff, follows |-> TRUE]
<1>1. /\ t.current = id /\ t.diff = s.diff
      /\ t.jobs = Put(Restrict(s.jobs, {}), id, job)
  BY DEF PushJob, ChannelRecord
<1>2. /\ n.active = id /\ n.diff = m.diff /\ n.prev = template.prev
      /\ n.jobs = Restrict(Put(m.jobs, id, told), {id})
      /\ MinerRecord(n)
  BY DEF MinerGetsJob, MinerNewJob, MinerSetNewPrevHash, MinerRecord
<1>3. DOMAIN t.jobs = {id} /\ t.jobs[id] = job
  BY <1>1 DEF Put, Restrict
<1>4. DOMAIN n.jobs = {id} /\ n.jobs[id] = told
  BY <1>2 DEF Put, Restrict
<1> HIDE DEF t, n
<1>5. s.diff \in Difficulty
  BY DEF ChannelRecord
<1>6. /\ job \in ChannelJob
      /\ told = [diff |-> job.diff, follows |-> job.follows]
      /\ job.template.prev = template.prev
  BY <1>5 DEF ChannelJob
<1>7. Match(t, n)
  <2> HIDE DEF job, told
  <2>1. QED
    BY <1>1, <1>2, <1>3, <1>4, <1>6 DEF Match
<1>8. QED
  BY <1>7 DEF t, n

(* SetTarget, which the two ends apply to the same jobs. *)
LEMMA SetTargetKeepsMatch ==
  ASSUME NEW s, NEW m, NEW d \in Difficulty,
         ChannelRecord(s), Match(s, m)
  PROVE  /\ Match(SetChannelDifficulty(s, d), MinerSetTarget(m, d))
         /\ ChannelRecord(SetChannelDifficulty(s, d))
         /\ SetChannelDifficulty(s, d).current = s.current
         /\ CurrentTemplate(SetChannelDifficulty(s, d)).prev
              = CurrentTemplate(s).prev
<1> DEFINE t == SetChannelDifficulty(s, d)
           n == MinerSetTarget(m, d)
           tJobs == [i \in DOMAIN s.jobs |->
                       IF s.jobs[i].follows
                       THEN [s.jobs[i] EXCEPT !.diff = d] ELSE s.jobs[i]]
           nJobs == [i \in DOMAIN m.jobs |->
                       IF m.jobs[i].follows
                       THEN [m.jobs[i] EXCEPT !.diff = d] ELSE m.jobs[i]]
<1>1. t = [jobs |-> tJobs, current |-> s.current, diff |-> d]
  <2> HIDE DEF tJobs
  <2>1. t = [s EXCEPT !.diff = d, !.jobs = tJobs]
    BY DEF SetChannelDifficulty, tJobs
  <2>2. QED
    BY <2>1 DEF ChannelRecord
<1>2. n = [diff |-> d, prev |-> m.prev, active |-> m.active, jobs |-> nJobs]
  <2> HIDE DEF nJobs
  <2>1. n = [m EXCEPT !.diff = d, !.jobs = nJobs]
    BY DEF MinerSetTarget, nJobs
  <2>2. QED
    BY <2>1 DEF MinerRecord, Match
<1>3. ASSUME NEW i \in DOMAIN s.jobs
      PROVE  /\ tJobs[i] \in ChannelJob
             /\ i \in DOMAIN nJobs
             /\ nJobs[i] = [diff |-> tJobs[i].diff, follows |-> tJobs[i].follows]
             /\ tJobs[i].template = s.jobs[i].template
  <2>1. /\ s.jobs[i] \in ChannelJob /\ i \in DOMAIN m.jobs
        /\ m.jobs[i] = [diff |-> s.jobs[i].diff, follows |-> s.jobs[i].follows]
    BY DEF Match
  <2>2. QED
    BY <2>1 DEF ChannelJob
<1>4. DOMAIN tJobs = DOMAIN s.jobs
  OBVIOUS
<1> HIDE DEF t, n, tJobs, nJobs
<1>5. Match(t, n)
  BY <1>1, <1>2, <1>3, <1>4 DEF Match, MinerRecord
<1>6. ChannelRecord(t) /\ t.current = s.current
  BY <1>1 DEF ChannelRecord
<1>7. CurrentTemplate(t).prev = CurrentTemplate(s).prev
  BY <1>1, <1>3 DEF CurrentTemplate, Match
<1>8. QED
  BY <1>5, <1>6, <1>7 DEF t, n

(* A clean job makes any channel well typed. *)
LEMMA CleanType ==
  ASSUME NEW s, NEW id, NEW template \in Job, NEW extra, NEW next \in Id,
         ChannelRecord(s), id \in 1..(next - 1)
  PROVE  ChannelType(PushJob(s, id, template, TRUE, extra), next)
<1> DEFINE t == PushJob(s, id, template, TRUE, extra)
           job == [template |-> template, diff |-> s.diff, follows |-> TRUE]
           jobs == Put(Restrict(s.jobs, {}), id, job)
<1>1. s.diff \in Difficulty
  BY DEF ChannelRecord
<1>2. job \in ChannelJob
  BY <1>1 DEF ChannelJob
<1>3. t = [jobs |-> jobs, current |-> id, diff |-> s.diff]
  <2> HIDE DEF jobs
  <2>1. t = [s EXCEPT !.current = id, !.jobs = jobs]
    BY DEF PushJob, jobs
  <2>2. QED
    BY <2>1 DEF ChannelRecord
<1>4. DOMAIN jobs = {id} /\ jobs[id] = job
  BY DEF Put, Restrict
<1>5. Cardinality({id}) = 1 /\ JobLimit \in Nat \ {0}
  BY FS_Singleton, Sv2Assumption
<1> HIDE DEF t, job, jobs
<1>6. ChannelType(t, next)
  BY <1>1, <1>2, <1>3, <1>4, <1>5 DEF ChannelType, ChannelRecord
<1>7. QED
  BY <1>6 DEF t

(* A job that is not clean adds one, after one is pruned at the limit. *)
LEMMA UpdateType ==
  ASSUME NEW s, NEW id, NEW template \in Job, NEW extra \in Prunable(s),
         NEW next \in Id, NEW later \in Id, next <= later,
         ChannelType(s, next), id \in 1..(later - 1)
  PROVE  ChannelType(PushJob(s, id, template, FALSE, extra), later)
<1> DEFINE t == PushJob(s, id, template, FALSE, extra)
           job == [template |-> template, diff |-> s.diff, follows |-> FALSE]
           kept == DOMAIN s.jobs \ {extra}
           jobs == Put(Restrict(s.jobs, kept), id, job)
<1>1. s.diff \in Difficulty
  BY DEF ChannelType, ChannelRecord
<1>2. job \in ChannelJob
  BY <1>1 DEF ChannelJob
<1>3. t = [jobs |-> jobs, current |-> id, diff |-> s.diff]
  <2> HIDE DEF jobs
  <2>1. t = [s EXCEPT !.current = id, !.jobs = jobs]
    BY DEF PushJob, jobs
  <2>2. QED
    BY <2>1 DEF ChannelType, ChannelRecord
<1>4. /\ DOMAIN jobs = kept \cup {id}
      /\ \A i \in DOMAIN jobs : jobs[i] = IF i = id THEN job ELSE s.jobs[i]
  BY DEF Put, Restrict
<1>5. Cardinality(kept \cup {id}) <= JobLimit
  <2>1. IsFiniteSet(1..(next - 1)) /\ DOMAIN s.jobs \in SUBSET (1..(next - 1))
    BY FS_Interval DEF ChannelType, Id
  <2>2. IsFiniteSet(DOMAIN s.jobs)
    BY <2>1, FS_Subset
  <2>3. /\ IsFiniteSet(kept)
        /\ Cardinality(kept) = IF extra \in DOMAIN s.jobs
                                 THEN Cardinality(DOMAIN s.jobs) - 1
                                 ELSE Cardinality(DOMAIN s.jobs)
    BY <2>2, FS_RemoveElement
  <2>4. /\ Cardinality(kept) \in Nat /\ Cardinality(DOMAIN s.jobs) \in Nat
    BY <2>2, <2>3, FS_CardinalityType
  <2>5. Cardinality(kept \cup {id}) <= Cardinality(kept) + 1
    <3>1. Cardinality(kept \cup {id}) =
            IF id \in kept THEN Cardinality(kept) ELSE Cardinality(kept) + 1
      BY <2>3, FS_AddElement
    <3>2. QED
      BY <2>4, <3>1
  <2>6. JobLimit \in Nat /\ Cardinality(DOMAIN s.jobs) <= JobLimit
    BY Sv2Assumption DEF ChannelType
  <2>7. \/ extra \in DOMAIN s.jobs
        \/ Cardinality(DOMAIN s.jobs) < JobLimit
    BY <2>4, <2>6 DEF Prunable
  <2>8. Cardinality(kept \cup {id}) \in Nat
    BY <2>3, FS_AddElement, FS_CardinalityType
  <2> HIDE DEF kept
  <2>9. QED
    BY <2>3, <2>4, <2>5, <2>6, <2>7, <2>8
<1>6. kept \cup {id} \subseteq 1..(later - 1)
  BY DEF ChannelType, Id
<1>7. \A i \in DOMAIN jobs : jobs[i] \in ChannelJob
  BY <1>2, <1>4 DEF ChannelType
<1> HIDE DEF t, job, jobs, kept
<1>8. ChannelType(t, later)
  BY <1>1, <1>3, <1>4, <1>5, <1>6, <1>7 DEF ChannelType, ChannelRecord
<1>9. QED
  BY <1>8 DEF t

(* A change of difficulty concerns no job's id. *)
LEMMA SetTargetType ==
  ASSUME NEW s, NEW d \in Difficulty, NEW next, ChannelType(s, next)
  PROVE  /\ ChannelType(SetChannelDifficulty(s, d), next)
         /\ Prunable(SetChannelDifficulty(s, d)) = Prunable(s)
         /\ CurrentTemplate(SetChannelDifficulty(s, d)) = CurrentTemplate(s)
<1> DEFINE t == SetChannelDifficulty(s, d)
           tJobs == [i \in DOMAIN s.jobs |->
                       IF s.jobs[i].follows
                       THEN [s.jobs[i] EXCEPT !.diff = d] ELSE s.jobs[i]]
<1>1. t = [jobs |-> tJobs, current |-> s.current, diff |-> d]
  <2> HIDE DEF tJobs
  <2>1. t = [s EXCEPT !.diff = d, !.jobs = tJobs]
    BY DEF SetChannelDifficulty, tJobs
  <2>2. QED
    BY <2>1 DEF ChannelType, ChannelRecord
<1>2. ASSUME NEW i \in DOMAIN s.jobs
      PROVE  tJobs[i] \in ChannelJob /\ tJobs[i].template = s.jobs[i].template
  <2>1. s.jobs[i] \in ChannelJob
    BY DEF ChannelType
  <2>2. QED
    BY <2>1 DEF ChannelJob
<1>3. DOMAIN tJobs = DOMAIN s.jobs
  OBVIOUS
<1> HIDE DEF t, tJobs
<1>4. ChannelType(t, next)
  BY <1>1, <1>2, <1>3 DEF ChannelType, ChannelRecord
<1>5. Prunable(t) = Prunable(s) /\ CurrentTemplate(t) = CurrentTemplate(s)
  BY <1>1, <1>2, <1>3 DEF Prunable, CurrentTemplate, ChannelType
<1>6. QED
  BY <1>4, <1>5 DEF t

LEMMA LaterType ==
  ASSUME NEW s, NEW next \in Id, NEW later \in Id, next <= later,
         ChannelType(s, next)
  PROVE  ChannelType(s, later)
<1>1. 1..(next - 1) \subseteq 1..(later - 1)
  BY DEF Id
<1>2. QED
  BY <1>1 DEF ChannelType

-----------------------------------------------------------------------------
(* The invariant                                                           *)

Basics ==
  /\ store \in Job
  /\ stream \in Job
  /\ unseen \in BOOLEAN
  /\ phase \in {"setup", "idle", "borrow", "closed"}
  /\ rolling \in BOOLEAN
  /\ nextChannel \in Id
  /\ nextJob \in Id
  /\ Open \subseteq 1..(nextChannel - 1)
  /\ remembered \in Seq(Share)
  /\ Len(remembered) <= ShareLimit
  /\ recorded \in Seq(Share)
  /\ submitted \subseteq solved
  /\ solved \subseteq Share
  /\ retargets \in Nat

Agreed ==
  /\ DOMAIN miner = Open
  /\ \A c \in Open : /\ ChannelType(channels[c], nextJob)
                      /\ Match(channels[c], miner[c])

(* What is remembered is the end of what was recorded. *)
Memory ==
  phase # "closed" =>
    /\ Len(remembered) = IF Len(recorded) <= ShareLimit
                          THEN Len(recorded) ELSE ShareLimit
    /\ \A k \in 1..Len(remembered) :
         remembered[k] = recorded[Len(recorded) - Len(remembered) + k]

IInv == Basics /\ Agreed /\ Memory /\ NoReplay

LEMMA InvariantGivesTypes == IInv => TypeOK
<1>1. ASSUME IInv, NEW c \in Open
      PROVE  IsChannel(channels[c])
  <2>1. ChannelType(channels[c], nextJob)
    BY <1>1 DEF IInv, Agreed
  <2>2. QED
    BY <2>1 DEF ChannelType, ChannelRecord, IsChannel
<1>2. QED
  BY <1>1 DEF IInv, Basics, Agreed, TypeOK

-----------------------------------------------------------------------------
(* Ids                                                                     *)

(* The jobs sent in one go get ids that were not drawn before. *)
LEMMA FreshIds ==
  ASSUME Basics, NEW cs \in SUBSET Open, NEW ids \in JobIds(cs)
  PROVE  /\ Cardinality(cs) \in Nat
         /\ nextJob + Cardinality(cs) \in Id
         /\ nextJob <= nextJob + Cardinality(cs)
         /\ \A c \in cs : ids[c] \in 1..(nextJob + Cardinality(cs) - 1)
<1>1. IsFiniteSet(1..(nextChannel - 1)) /\ cs \in SUBSET (1..(nextChannel - 1))
  BY FS_Interval DEF Basics, Id
<1>2. Cardinality(cs) \in Nat
  BY <1>1, FS_Subset, FS_CardinalityType
<1>3. ids \in [cs -> nextJob .. (nextJob + Cardinality(cs) - 1)]
  BY DEF JobIds, Bijection, Injection
<1>4. nextJob \in Nat \ {0}
  BY DEF Basics, Id
<1>5. QED
  BY <1>2, <1>3, <1>4 DEF Id

-----------------------------------------------------------------------------
(* Shares                                                                  *)

LEMMA NewShareType ==
  ASSUME IInv, NEW c, NEW i, NEW pow \in Pow, NEW version \in SUBSET VersionBit,
         NewShare(c, i, pow, version)
  PROVE  /\ ShareOf(c, i, pow, version) \in Share
         /\ ShareOf(c, i, pow, version) \notin Remembered
         /\ phase # "closed"
<1>1. c \in Id
  BY DEF NewShare, IInv, Basics, Id
<1>2. i \in Id
  <2>1. ChannelType(channels[c], nextJob) /\ i \in DOMAIN channels[c].jobs
    BY DEF NewShare, IInv, Agreed
  <2>2. QED
    BY <2>1 DEF ChannelType, IInv, Basics, Id
<1>3. ResolvedVersion(version) \subseteq VersionBit
  BY Sv2Assumption DEF ResolvedVersion
<1>4. QED
  BY <1>1, <1>2, <1>3 DEF ShareOf, Share, NewShare, DupKey

(* A share that is not among those remembered was not among the last       *)
(* ShareLimit that were recorded.                                          *)
LEMMA RecordKeepsNoReplay ==
  ASSUME Basics, Memory, NoReplay, phase # "closed",
         NEW share \in Share, share \notin Remembered,
         recorded' = Append(recorded, share)
  PROVE  NoReplay' /\ recorded' \in Seq(Share)
<1> DEFINE r == Len(recorded)
           n == Len(remembered)
<1>1. r \in Nat /\ n \in Nat /\ ShareLimit \in Nat \ {0}
  BY Sv2Assumption DEF Basics
<1>2. /\ recorded' \in Seq(Share) /\ Len(recorded') = r + 1
      /\ DOMAIN recorded' = 1..(r + 1) /\ DOMAIN recorded = 1..r
      /\ recorded'[r + 1] = share
      /\ \A i \in 1..r : recorded'[i] = recorded[i]
  BY AppendProperties, LenProperties DEF Basics
<1>3. /\ n = IF r <= ShareLimit THEN r ELSE ShareLimit
      /\ \A k \in 1..n : remembered[k] = recorded[r - n + k]
  BY DEF Memory
<1>4. \A k \in 1..n : remembered[k] # share
  BY DEF Remembered, Basics
<1>5. \A i, j \in 1..r :
        i < j /\ recorded[i] = recorded[j] => j - i > ShareLimit
  BY <1>2 DEF NoReplay
<1> HIDE DEF r, n
<1>6. ASSUME NEW i \in 1..(r + 1), NEW j \in 1..(r + 1),
             i < j, recorded'[i] = recorded'[j]
      PROVE  j - i > ShareLimit
  <2>1. CASE j <= r
    <3>1. i \in 1..r /\ j \in 1..r
      BY <1>1, <1>6, <2>1
    <3>2. recorded[i] = recorded[j]
      BY <1>2, <1>6, <3>1
    <3>3. QED
      BY <1>5, <1>6, <3>1, <3>2
  <2>2. CASE j = r + 1
    <3>1. i \in 1..r
      BY <1>1, <1>6, <2>2
    <3>2. recorded[i] = share
      BY <1>2, <1>6, <2>2, <3>1
    <3>3. SUFFICES ASSUME ~(j - i > ShareLimit) PROVE FALSE
      OBVIOUS
    <3> DEFINE k == i - r + n
    <3>4. k \in 1..n /\ r - n + k = i
      BY <1>1, <1>3, <2>2, <3>1, <3>3
    <3> HIDE DEF k
    <3>5. remembered[k] = share
      BY <1>3, <3>2, <3>4
    <3>6. QED
      BY <1>4, <3>4, <3>5
  <2>3. QED
    BY <1>1, <2>1, <2>2
<1>7. NoReplay'
  BY <1>2, <1>6 DEF NoReplay
<1>8. QED
  BY <1>2, <1>7

LEMMA RememberKeepsMemory ==
  ASSUME Basics, Memory, phase # "closed", NEW share \in Share,
         recorded' = Append(recorded, share), RememberShare(share)
  PROVE  /\ Memory'
         /\ remembered' \in Seq(Share)
         /\ Len(remembered') <= ShareLimit
<1> DEFINE r == Len(recorded)
           n == Len(remembered)
<1>1. r \in Nat /\ n \in Nat /\ ShareLimit \in Nat \ {0}
  BY Sv2Assumption DEF Basics
<1>2. /\ Len(recorded') = r + 1 /\ recorded'[r + 1] = share
      /\ \A i \in 1..r : recorded'[i] = recorded[i]
  BY AppendProperties DEF Basics
<1>3. /\ n = IF r <= ShareLimit THEN r ELSE ShareLimit
      /\ \A k \in 1..n : remembered[k] = recorded[r - n + k]
  BY DEF Memory
<1>4. CASE n >= ShareLimit
  <2> DEFINE kept == Tail(remembered)
  <2>1. n = ShareLimit /\ r >= n
    BY <1>1, <1>3, <1>4
  <2>2. remembered # <<>>
    BY <1>1, <2>1
  <2>3. /\ kept \in Seq(Share) /\ Len(kept) = n - 1
        /\ \A k \in 1..(n - 1) : kept[k] = remembered[k + 1]
    BY <2>2, HeadTailProperties DEF Basics
  <2>4. remembered' = Append(kept, share)
    BY <1>4 DEF RememberShare
  <2> HIDE DEF kept
  <2>5. /\ remembered' \in Seq(Share) /\ Len(remembered') = n
        /\ remembered'[n] = share
        /\ \A k \in 1..(n - 1) : remembered'[k] = kept[k]
    BY <1>1, <2>3, <2>4, AppendProperties
  <2> HIDE DEF r, n
  <2>6. ASSUME NEW k \in 1..n
        PROVE  remembered'[k] = recorded'[r + 1 - n + k]
    <3>1. CASE k = n
      BY <1>1, <1>2, <2>1, <2>5, <3>1
    <3>2. CASE k < n
      <4>1. k \in 1..(n - 1) /\ k + 1 \in 1..n
        BY <1>1, <3>2
      <4>2. r - n + (k + 1) = r + 1 - n + k /\ r + 1 - n + k \in 1..r
        BY <1>1, <2>1, <4>1
      <4>3. remembered'[k] = recorded[r - n + (k + 1)]
        BY <1>3, <2>3, <2>5, <4>1
      <4>4. QED
        BY <1>2, <4>2, <4>3
    <3>3. k = n \/ k < n
      BY <1>1
    <3>4. QED
      BY <3>1, <3>2, <3>3
  <2>7. ~(Len(recorded') <= ShareLimit) /\ Len(remembered') = ShareLimit
    BY <1>1, <1>2, <2>1, <2>5
  <2>8. Memory'
    <3>1. \A k \in 1..Len(remembered') :
            remembered'[k] = recorded'[Len(recorded') - Len(remembered') + k]
      <4>1. Len(recorded') - Len(remembered') = r + 1 - n
        BY <1>1, <1>2, <2>5
      <4>2. Len(remembered') = n
        BY <2>5
      <4>3. QED
        BY <2>6, <4>1, <4>2
    <3>2. QED
      BY <2>7, <3>1 DEF Memory
  <2>9. Len(remembered') <= ShareLimit
    BY <1>1, <2>1, <2>5
  <2>10. QED
    BY <2>5, <2>8, <2>9
<1>5. CASE n < ShareLimit
  <2>1. n = r
    BY <1>1, <1>3, <1>5
  <2>2. remembered' = Append(remembered, share)
    BY <1>1, <1>5 DEF RememberShare
  <2>3. /\ remembered' \in Seq(Share) /\ Len(remembered') = n + 1
        /\ remembered'[n + 1] = share
        /\ \A k \in 1..n : remembered'[k] = remembered[k]
    BY <2>2, AppendProperties DEF Basics
  <2> HIDE DEF r, n
  <2>4. ASSUME NEW k \in 1..(n + 1)
        PROVE  remembered'[k] = recorded'[k]
    <3>1. CASE k = n + 1
      BY <1>2, <2>1, <2>3, <3>1
    <3>2. CASE k \in 1..n
      <4>1. r - n + k = k /\ k \in 1..r
        BY <1>1, <2>1, <3>2
      <4>2. remembered'[k] = remembered[k] /\ recorded'[k] = recorded[k]
        BY <1>2, <2>3, <3>2, <4>1
      <4>3. remembered[k] = recorded[r - n + k]
        BY <1>3, <3>2
      <4>4. QED
        BY <4>1, <4>2, <4>3
    <3>3. k = n + 1 \/ k \in 1..n
      BY <1>1
    <3>4. QED
      BY <3>1, <3>2, <3>3
  <2>5. /\ Len(recorded') = r + 1 /\ Len(remembered') = r + 1
        /\ r + 1 <= ShareLimit
    BY <1>1, <1>2, <1>5, <2>1, <2>3
  <2>6. \A k \in 1..Len(remembered') :
          remembered'[k] = recorded'[Len(recorded') - Len(remembered') + k]
    <3>1. SUFFICES ASSUME NEW k \in 1..(n + 1)
                   PROVE  remembered'[k] = recorded'[(r + 1) - (r + 1) + k]
      BY <2>1, <2>5
    <3>2. (r + 1) - (r + 1) + k = k
      BY <1>1, <2>1
    <3>3. QED
      BY <2>4, <3>2
  <2>7. Len(remembered') = IF Len(recorded') <= ShareLimit
                           THEN Len(recorded') ELSE ShareLimit
    BY <2>5
  <2>8. Memory'
    BY <2>6, <2>7 DEF Memory
  <2>9. Len(remembered') <= ShareLimit
    BY <2>5
  <2>10. QED
    BY <2>3, <2>8, <2>9
<1>6. QED
  BY <1>1, <1>4, <1>5

-----------------------------------------------------------------------------
(* Jobs sent to some of the channels                                       *)

(* One channel, sent a template it is or is not to be cleaned for. *)
LEMMA PushKeepsAgreement ==
  ASSUME NEW s, NEW m, NEW template \in Job, NEW extra \in Prunable(s),
         NEW next \in Id, NEW later \in Id, next <= later,
         NEW id \in 1..(later - 1), NEW clean \in BOOLEAN,
         ChannelType(s, next), Match(s, m),
         clean \/ CurrentTemplate(s).prev = template.prev
  PROVE  /\ ChannelType(PushJob(s, id, template, clean, extra), later)
         /\ Match(PushJob(s, id, template, clean, extra),
                  MinerGetsJob(m, id, template, clean))
<1>1. ChannelRecord(s) /\ MinerRecord(m) /\ m.diff = s.diff
  BY DEF ChannelType, Match
<1>2. CASE clean = TRUE
  <2>1. ChannelType(PushJob(s, id, template, TRUE, extra), later)
    BY <1>1, CleanType
  <2>2. Match(PushJob(s, id, template, TRUE, extra),
              MinerGetsJob(m, id, template, TRUE))
    BY <1>1, CleanMakesMatch
  <2>3. QED
    BY <1>2, <2>1, <2>2
<1>3. CASE clean = FALSE
  <2>1. ChannelType(PushJob(s, id, template, FALSE, extra), later)
    BY UpdateType
  <2>2. CurrentTemplate(s).prev = template.prev
    BY <1>3
  <2>3. Match(PushJob(s, id, template, FALSE, extra),
              MinerGetsJob(m, id, template, FALSE))
    BY <1>1, <2>2, UpdateKeepsMatch
  <2>4. QED
    BY <1>3, <2>1, <2>3
<1>4. QED
  BY <1>2, <1>3

(* The channels that are sent nothing stay as they were. *)
LEMMA OthersAgree ==
  ASSUME Agreed, Basics, NEW later \in Id, nextJob <= later, NEW c \in Open
  PROVE  ChannelType(channels[c], later) /\ Match(channels[c], miner[c])
BY LaterType DEF Agreed, Basics

LEMMA BorrowKeepsAgreement ==
  ASSUME Agreed, Basics, TemplateBorrow
  PROVE  Agreed' /\ Open' = Open /\ nextJob' \in Id
<1> DEFINE clean == [c \in Open |-> ShouldClean(channels[c], stream)]
<1>1. PICK ids \in JobIds(Open), extra \in [Open -> 0..nextJob] :
        /\ \A c \in Open : extra[c] \in Prunable(channels[c])
        /\ channels' = [c \in Open |->
             IF c \in Open
             THEN PushJob(channels[c], ids[c], stream, clean[c], extra[c])
             ELSE channels[c]]
        /\ miner' = [c \in Open |->
             IF c \in Open
             THEN MinerGetsJob(miner[c], ids[c], stream, clean[c])
             ELSE miner[c]]
  BY DEF TemplateBorrow, Recipients
<1>2. nextJob' = nextJob + Cardinality(Open)
  BY DEF TemplateBorrow, Recipients
<1>3. /\ nextJob' \in Id /\ nextJob <= nextJob' /\ nextJob \in Id
      /\ \A c \in Open : ids[c] \in 1..(nextJob' - 1)
  <2>1. nextJob \in Id
    BY DEF Basics
  <2>2. /\ Cardinality(Open) \in Nat
        /\ nextJob + Cardinality(Open) \in Id
        /\ nextJob <= nextJob + Cardinality(Open)
        /\ \A c \in Open : ids[c] \in 1..(nextJob + Cardinality(Open) - 1)
    BY FreshIds
  <2>3. QED
    BY <1>2, <2>1, <2>2 DEF Id
<1>4. ASSUME NEW c \in Open
      PROVE  ChannelType(channels'[c], nextJob') /\ Match(channels'[c], miner'[c])
  <2>1. ChannelType(channels[c], nextJob) /\ Match(channels[c], miner[c])
    BY DEF Agreed
  <2>2. clean[c] \in BOOLEAN
    BY DEF ShouldClean
  <2>3. clean[c] \/ CurrentTemplate(channels[c]).prev = stream.prev
    BY DEF ShouldClean
  <2>4. /\ channels'[c]
             = PushJob(channels[c], ids[c], stream, clean[c], extra[c])
        /\ miner'[c] = MinerGetsJob(miner[c], ids[c], stream, clean[c])
        /\ extra[c] \in Prunable(channels[c])
    BY <1>1
  <2>5. stream \in Job
    BY DEF Basics
  <2> HIDE DEF clean
  <2>6. QED
    BY <1>3, <2>1, <2>2, <2>3, <2>4, <2>5, PushKeepsAgreement
<1>5. Open' = Open /\ DOMAIN miner' = Open'
  BY <1>1 DEF Open
<1>6. QED
  BY <1>3, <1>4, <1>5 DEF Agreed

LEMMA RetargetKeepsAgreement ==
  ASSUME Agreed, Basics, NEW cs \in SUBSET Open, NEW diff,
         \A c \in cs : diff[c] \in Difficulty, Retarget(cs, diff)
  PROVE  /\ Agreed' /\ Open' = Open /\ nextJob' \in Id
         /\ retargets' \in Nat
<1>1. PICK ids \in JobIds(cs), extra \in [cs -> 0..nextJob] :
        /\ \A c \in cs : extra[c] \in Prunable(channels[c])
        /\ channels' = [c \in Open |->
             IF c \in cs
             THEN PushJob(SetChannelDifficulty(channels[c], diff[c]), ids[c],
                          CurrentTemplate(channels[c]), FALSE, extra[c])
             ELSE channels[c]]
        /\ miner' = [c \in Open |->
             IF c \in cs
             THEN MinerGetsJob(MinerSetTarget(miner[c], diff[c]), ids[c],
                               CurrentTemplate(channels[c]), FALSE)
             ELSE miner[c]]
  BY DEF Retarget
<1>2. /\ nextJob' = nextJob + Cardinality(cs)
      /\ retargets' = retargets + Cardinality(cs)
  BY DEF Retarget
<1>3. /\ nextJob' \in Id /\ nextJob <= nextJob' /\ nextJob \in Id
      /\ \A c \in cs : ids[c] \in 1..(nextJob' - 1)
      /\ retargets' \in Nat
  <2>1. nextJob \in Id /\ retargets \in Nat
    BY DEF Basics
  <2>2. /\ Cardinality(cs) \in Nat
        /\ nextJob + Cardinality(cs) \in Id
        /\ nextJob <= nextJob + Cardinality(cs)
        /\ \A c \in cs : ids[c] \in 1..(nextJob + Cardinality(cs) - 1)
    BY FreshIds
  <2>3. QED
    BY <1>2, <2>1, <2>2 DEF Id
<1>4. ASSUME NEW c \in Open
      PROVE  ChannelType(channels'[c], nextJob') /\ Match(channels'[c], miner'[c])
  <2>1. CASE c \in cs
    <3> DEFINE template == CurrentTemplate(channels[c])
               s == SetChannelDifficulty(channels[c], diff[c])
               m == MinerSetTarget(miner[c], diff[c])
    <3>1. ChannelType(channels[c], nextJob) /\ Match(channels[c], miner[c])
      BY DEF Agreed
    <3>2. diff[c] \in Difficulty /\ ChannelRecord(channels[c])
      BY <2>1, <3>1 DEF ChannelType
    <3>3. /\ ChannelType(s, nextJob) /\ Prunable(s) = Prunable(channels[c])
          /\ CurrentTemplate(s) = template
      BY <3>1, <3>2, SetTargetType
    <3>4. Match(s, m)
      BY <3>1, <3>2, SetTargetKeepsMatch
    <3>5. /\ channels'[c] = PushJob(s, ids[c], template, FALSE, extra[c])
          /\ miner'[c] = MinerGetsJob(m, ids[c], template, FALSE)
          /\ extra[c] \in Prunable(channels[c])
      BY <1>1, <2>1
    <3>6. template \in Job
      <4>1. /\ channels[c].current \in DOMAIN channels[c].jobs
            /\ channels[c].jobs[channels[c].current] \in ChannelJob
        BY <3>1 DEF ChannelType
      <4>2. QED
        BY <4>1 DEF CurrentTemplate, ChannelJob
    <3>7. ids[c] \in 1..(nextJob' - 1) /\ extra[c] \in Prunable(s)
      BY <1>3, <2>1, <3>3, <3>5
    <3> HIDE DEF template, s, m
    <3>8. CurrentTemplate(s).prev = template.prev
      BY <3>3
    <3>9. ChannelType(channels'[c], nextJob')
      BY <1>3, <3>3, <3>5, <3>6, <3>7, UpdateType
    <3>10. Match(channels'[c], miner'[c])
      <4>1. ChannelRecord(s)
        BY <3>3 DEF ChannelType
      <4>2. QED
        BY <3>4, <3>5, <3>6, <3>8, <4>1, UpdateKeepsMatch
    <3>11. QED
      BY <3>9, <3>10
  <2>2. CASE c \notin cs
    <3>1. channels'[c] = channels[c] /\ miner'[c] = miner[c]
      BY <1>1, <2>2
    <3>2. QED
      BY <1>3, <3>1, OthersAgree
  <2>3. QED
    BY <2>1, <2>2
<1>5. Open' = Open /\ DOMAIN miner' = Open'
  BY <1>1 DEF Open
<1>6. QED
  BY <1>3, <1>4, <1>5 DEF Agreed

LEMMA OpenKeepsAgreement ==
  ASSUME Agreed, Basics, NEW d \in Difficulty, OpenChannel(d)
  PROVE  /\ Agreed' /\ nextJob' \in Id /\ nextChannel' \in Id
         /\ Open' \subseteq 1..(nextChannel' - 1)
<1> DEFINE opened == [jobs |-> Empty, current |-> 0, diff |-> d]
           s == PushJob(opened, nextJob, store, TRUE, 0)
           m == MinerGetsJob(MinerOpens(d), nextJob, store, TRUE)
<1>1. /\ channels' = Put(channels, nextChannel, s)
      /\ miner' = Put(miner, nextChannel, m)
      /\ nextChannel' = nextChannel + 1 /\ nextJob' = nextJob + 1
  BY DEF OpenChannel
<1>2. /\ nextJob' \in Id /\ nextJob <= nextJob' /\ nextJob \in 1..(nextJob' - 1)
      /\ nextChannel' \in Id /\ nextJob \in Id
      /\ nextChannel \in Id
  BY <1>1 DEF Basics, Id
<1>3. ChannelRecord(opened) /\ MinerRecord(MinerOpens(d))
  BY DEF ChannelRecord, MinerRecord, MinerOpens
<1>4. store \in Job /\ MinerOpens(d).diff = opened.diff
  BY DEF Basics, MinerOpens
<1>5. ChannelType(s, nextJob')
  <2> HIDE DEF opened
  <2>1. QED
    BY <1>2, <1>3, <1>4, CleanType
<1>6. Match(s, m)
  <2> HIDE DEF opened
  <2>1. QED
    BY <1>3, <1>4, CleanMakesMatch
<1> HIDE DEF opened, s, m
<1>7. /\ Open' = Open \cup {nextChannel} /\ DOMAIN miner' = Open'
      /\ \A c \in Open' :
           /\ channels'[c] = IF c = nextChannel THEN s ELSE channels[c]
           /\ miner'[c] = IF c = nextChannel THEN m ELSE miner[c]
  BY <1>1 DEF Put, Agreed, Open
<1>8. ASSUME NEW c \in Open'
      PROVE  ChannelType(channels'[c], nextJob') /\ Match(channels'[c], miner'[c])
  <2>1. CASE c = nextChannel
    BY <1>5, <1>6, <1>7, <2>1
  <2>2. CASE c # nextChannel
    <3>1. c \in Open /\ channels'[c] = channels[c] /\ miner'[c] = miner[c]
      BY <1>7, <2>2
    <3>2. QED
      BY <1>2, <3>1, OthersAgree
  <2>3. QED
    BY <2>1, <2>2
<1>9. Open' \subseteq 1..(nextChannel' - 1)
  BY <1>1, <1>2, <1>7 DEF Basics, Id
<1>10. QED
  BY <1>2, <1>7, <1>8, <1>9 DEF Agreed

LEMMA CloseKeepsAgreement ==
  ASSUME Agreed, Basics, NEW c, CloseChannel(c)
  PROVE  /\ Agreed' /\ Open' \subseteq Open
<1>1. /\ Open' = Open \ {c} /\ DOMAIN miner' = Open'
      /\ nextJob' = nextJob
      /\ \A e \in Open' : channels'[e] = channels[e] /\ miner'[e] = miner[e]
  BY DEF CloseChannel, Restrict, idVars, Open
<1>2. QED
  BY <1>1 DEF Agreed

-----------------------------------------------------------------------------
(* The end of the task                                                     *)

LEMMA EndIsTyped ==
  ASSUME End
  PROVE  /\ Agreed' /\ Memory' /\ Open' = {}
         /\ phase' = "closed" /\ unseen' = FALSE /\ rolling' = FALSE
         /\ nextChannel' \in Id /\ nextJob' \in Id
         /\ remembered' \in Seq(Share) /\ Len(remembered') <= ShareLimit
<1>1. DOMAIN Empty = {}
  BY DEF Empty
<1>2. ShareLimit \in Nat
  BY Sv2Assumption
<1>3. /\ Open' = {} /\ DOMAIN miner' = {}
      /\ phase' = "closed" /\ unseen' = FALSE /\ rolling' = FALSE
      /\ nextChannel' = 1 /\ nextJob' = 1 /\ remembered' = <<>>
  BY <1>1 DEF End, Open
<1>4. Agreed' /\ Memory'
  BY <1>3 DEF Agreed, Memory
<1>5. QED
  BY <1>2, <1>3, <1>4 DEF Id

-----------------------------------------------------------------------------
(* Every step keeps the invariant                                          *)

LEMMA InitInv == Init => IInv
<1> SUFFICES ASSUME Init PROVE IInv
  OBVIOUS
<1>1. Open = {} /\ DOMAIN miner = {}
  BY DEF Init, Empty, Open
<1>2. store \in Job
  BY FeedAssumption DEF Init, JobOf, Job
<1>3. ShareLimit \in Nat
  BY Sv2Assumption
<1>4. /\ stream = store /\ unseen = FALSE /\ phase = "setup"
      /\ rolling = FALSE /\ nextChannel = 1 /\ nextJob = 1
      /\ remembered = <<>> /\ recorded = <<>>
      /\ solved = {} /\ submitted = {} /\ retargets = 0
  BY DEF Init
<1>5. Basics
  <2>1. remembered \in Seq(Share) /\ recorded \in Seq(Share)
    BY <1>4
  <2>2. Len(remembered) <= ShareLimit
    BY <1>3, <1>4
  <2>3. nextChannel \in Id /\ nextJob \in Id /\ retargets \in Nat
    BY <1>4 DEF Id
  <2>4. solved \subseteq Share /\ submitted \subseteq solved
    BY <1>4
  <2>5. Open \subseteq 1..(nextChannel - 1)
    BY <1>1
  <2>6. /\ unseen \in BOOLEAN /\ rolling \in BOOLEAN /\ stream \in Job
        /\ phase \in {"setup", "idle", "borrow", "closed"}
    BY <1>2, <1>4
  <2>7. QED
    BY <1>2, <2>1, <2>2, <2>3, <2>4, <2>5, <2>6 DEF Basics
<1>6. Agreed
  BY <1>1 DEF Agreed
<1>7. Memory /\ NoReplay
  BY <1>3, <1>4 DEF Memory, NoReplay
<1>8. QED
  BY <1>5, <1>6, <1>7 DEF IInv

(* A step that leaves ids, channels and the miner alone. *)
LEMMA SameChannels ==
  ASSUME Agreed, channels' = channels, miner' = miner, nextJob' = nextJob
  PROVE  Agreed' /\ Open' = Open
<1>1. Open' = Open
  BY DEF Open
<1>2. \A c \in Open' : /\ ChannelType(channels'[c], nextJob')
                        /\ Match(channels'[c], miner'[c])
  BY <1>1 DEF Agreed
<1>3. QED
  BY <1>1, <1>2 DEF Agreed

(* A step that leaves the shares alone and does not reopen the session. *)
LEMMA SameShares ==
  ASSUME Memory, NoReplay, remembered' = remembered, recorded' = recorded,
         phase = "closed" => phase' = "closed"
  PROVE  Memory' /\ NoReplay'
BY DEF Memory, NoReplay

LEMMA EngineInv ==
  ASSUME IInv, Engine
  PROVE  IInv'
<1>1. Basics /\ Agreed /\ Memory /\ NoReplay
  BY DEF IInv
<1>2. /\ UNCHANGED <<phase, rolling, idVars, channels, miner, shareVars, retargets>>
      /\ unseen' \in BOOLEAN /\ store' \in Job /\ stream' \in Job
  <2>1. CASE EnginePublish
    BY <1>1, <2>1 DEF EnginePublish, Publish, Basics
  <2>2. CASE EngineDeliver
    BY <1>1, <2>2 DEF EngineDeliver, Deliver, Basics
  <2>3. QED
    BY <2>1, <2>2 DEF Engine
<1>3. Agreed' /\ Open' = Open
  BY <1>1, <1>2, SameChannels DEF idVars
<1>4. Memory' /\ NoReplay'
  BY <1>1, <1>2, SameShares DEF shareVars
<1>5. Basics'
  BY <1>1, <1>2, <1>3 DEF Basics, idVars, shareVars
<1>6. QED
  BY <1>3, <1>4, <1>5 DEF IInv

(* A handler that touches neither channels nor shares. *)
LEMMA QuietInv ==
  ASSUME IInv, UNCHANGED <<store, stream, idVars, channels, miner, shareVars, retargets>>,
         unseen' \in BOOLEAN, rolling' \in BOOLEAN,
         phase' \in {"setup", "idle", "borrow"}, phase # "closed"
  PROVE  IInv'
<1>1. Basics /\ Agreed /\ Memory /\ NoReplay
  BY DEF IInv
<1>2. Agreed' /\ Open' = Open
  BY <1>1, SameChannels DEF idVars
<1>3. Memory' /\ NoReplay'
  BY <1>1, SameShares DEF shareVars
<1>4. Basics'
  BY <1>1, <1>2 DEF Basics, idVars, shareVars
<1>5. QED
  BY <1>2, <1>3, <1>4 DEF IInv

LEMMA EndInv ==
  ASSUME IInv, End, UNCHANGED <<store, stream>>,
         recorded' \in Seq(Share), NoReplay',
         solved' \subseteq Share, submitted' \subseteq solved',
         retargets' \in Nat
  PROVE  IInv'
<1>1. Basics
  BY DEF IInv
<1>2. /\ Agreed' /\ Memory' /\ Open' = {}
      /\ phase' = "closed" /\ unseen' = FALSE /\ rolling' = FALSE
      /\ nextChannel' \in Id /\ nextJob' \in Id
      /\ remembered' \in Seq(Share) /\ Len(remembered') <= ShareLimit
  BY EndIsTyped
<1>3. Basics'
  BY <1>1, <1>2 DEF Basics
<1>4. QED
  BY <1>2, <1>3 DEF IInv

(* The channels change, the shares do not. *)
LEMMA ChannelsInv ==
  ASSUME IInv, Agreed', nextChannel' \in Id, nextJob' \in Id,
         Open' \subseteq 1..(nextChannel' - 1), retargets' \in Nat,
         phase \in {"idle", "borrow"}, phase' = "idle",
         UNCHANGED <<store, stream, unseen, rolling, shareVars>>
  PROVE  IInv'
<1>1. Basics /\ Memory /\ NoReplay
  BY DEF IInv
<1>2. Memory' /\ NoReplay'
  BY <1>1, SameShares DEF shareVars
<1>3. Basics'
  BY <1>1 DEF Basics, shareVars
<1>4. QED
  BY <1>2, <1>3 DEF IInv

LEMMA SubmitInv ==
  ASSUME IInv, Submit
  PROVE  IInv'
<1> PICK c \in Open, pow \in Pow, version \in SUBSET VersionBit :
      \E i \in DOMAIN channels[c].jobs :
        \/ \E d \in Difficulty : SubmitShare(c, i, pow, version, d)
        \/ SubmitAnswerFails(c, i, pow, version)
        \/ SubmitRetargetFails(c, i, pow, version)
  BY DEF Submit
<1> PICK i \in DOMAIN channels[c].jobs :
        \/ \E d \in Difficulty : SubmitShare(c, i, pow, version, d)
        \/ SubmitAnswerFails(c, i, pow, version)
        \/ SubmitRetargetFails(c, i, pow, version)
  OBVIOUS
<1> DEFINE share == ShareOf(c, i, pow, version)
<1>1. NewShare(c, i, pow, version)
  BY DEF SubmitShare, SubmitAnswerFails, SubmitRetargetFails
<1>2. share \in Share /\ share \notin Remembered /\ phase # "closed"
  BY <1>1, NewShareType
<1>3. Basics /\ Agreed /\ Memory /\ NoReplay
  BY DEF IInv
<1>4. /\ solved \subseteq Share /\ submitted \subseteq solved
      /\ recorded \in Seq(Share) /\ retargets \in Nat
  BY <1>3 DEF Basics
<1>5. ASSUME Solve(share)
      PROVE  /\ solved' \subseteq Share /\ submitted \subseteq solved'
             /\ IsBlock(pow) => share \in solved'
  <2> HIDE DEF share
  <2>1. CASE IsBlock(share.pow)
    BY <1>2, <1>4, <1>5, <2>1 DEF Solve
  <2>2. CASE ~IsBlock(share.pow)
    <3>1. share.pow = pow
      BY DEF share, ShareOf
    <3>2. QED
      BY <1>4, <1>5, <2>2, <3>1 DEF Solve
  <2>3. QED
    BY <2>1, <2>2
<1>6. ASSUME recorded' = Append(recorded, share)
      PROVE  NoReplay' /\ recorded' \in Seq(Share)
  <2> HIDE DEF share
  <2>1. QED
    BY <1>2, <1>3, <1>6, RecordKeepsNoReplay
<1>7. ASSUME NEW d \in Difficulty, SubmitShare(c, i, pow, version, d)
      PROVE  IInv'
  <2>1. /\ RememberShare(share) /\ recorded' = Append(recorded, share)
        /\ Solve(share)
        /\ submitted' = IF IsBlock(pow) THEN submitted \cup {share}
                                         ELSE submitted
        /\ phase = "idle" /\ phase' = "idle"
        /\ UNCHANGED <<store, stream, unseen, rolling, nextChannel>>
    BY <1>1, <1>7 DEF SubmitShare, DupKey, NewShare
  <2>2. Memory' /\ remembered' \in Seq(Share) /\ Len(remembered') <= ShareLimit
    <3> HIDE DEF share
    <3>1. QED
      BY <1>2, <1>3, <2>1, RememberKeepsMemory
  <2>3. NoReplay' /\ recorded' \in Seq(Share)
    BY <1>6, <2>1
  <2>4. solved' \subseteq Share /\ submitted' \subseteq solved'
    BY <1>5, <2>1
  <2>5. Agreed' /\ Open' = Open /\ nextJob' \in Id /\ retargets' \in Nat
    <3>1. CASE d = channels[c].diff
      <4>1. UNCHANGED <<nextJob, channels, miner, retargets>>
        BY <1>7, <3>1 DEF SubmitShare
      <4>2. nextJob \in Id
        BY <1>3 DEF Basics
      <4>3. QED
        BY <1>3, <1>4, <4>1, <4>2, SameChannels
    <3>2. CASE d # channels[c].diff
      <4> DEFINE diff == [e \in {c} |-> d]
      <4>1. Retarget({c}, diff)
        BY <1>7, <3>2 DEF SubmitShare
      <4>2. {c} \in SUBSET Open /\ \A e \in {c} : diff[e] \in Difficulty
        OBVIOUS
      <4> HIDE DEF diff
      <4>3. QED
        BY <1>3, <4>1, <4>2, RetargetKeepsAgreement
    <3>3. QED
      BY <3>1, <3>2
  <2>6. Basics'
    BY <1>3, <2>1, <2>2, <2>3, <2>4, <2>5 DEF Basics
  <2>7. QED
    BY <2>2, <2>3, <2>5, <2>6 DEF IInv
<1>8. CASE SubmitAnswerFails(c, i, pow, version)
  <2>1. /\ Solve(share) /\ End
        /\ UNCHANGED <<store, stream, recorded, submitted, retargets>>
    BY <1>8 DEF SubmitAnswerFails
  <2>2. solved' \subseteq Share /\ submitted' \subseteq solved'
    BY <1>5, <2>1
  <2>3. NoReplay' /\ recorded' \in Seq(Share) /\ retargets' \in Nat
    BY <1>3, <1>4, <2>1 DEF NoReplay
  <2>4. QED
    BY <2>1, <2>2, <2>3, EndInv
<1>9. CASE SubmitRetargetFails(c, i, pow, version)
  <2>1. /\ Solve(share) /\ End /\ recorded' = Append(recorded, share)
        /\ retargets' = retargets + 1
        /\ UNCHANGED <<store, stream, submitted>>
    BY <1>9 DEF SubmitRetargetFails
  <2>2. solved' \subseteq Share /\ submitted' \subseteq solved'
    BY <1>5, <2>1
  <2>3. NoReplay' /\ recorded' \in Seq(Share) /\ retargets' \in Nat
    BY <1>4, <1>6, <2>1
  <2>4. QED
    BY <2>1, <2>2, <2>3, EndInv
<1>10. QED
  BY <1>7, <1>8, <1>9

LEMMA StepInv == IInv /\ [Next]_vars => IInv'
<1> SUFFICES ASSUME IInv, [Next]_vars PROVE IInv'
  OBVIOUS
<1>0. /\ Basics /\ Agreed /\ Memory /\ NoReplay
      /\ nextChannel \in Id /\ nextJob \in Id /\ retargets \in Nat
      /\ Open \subseteq 1..(nextChannel - 1)
      /\ solved \subseteq Share /\ submitted \subseteq solved
      /\ recorded \in Seq(Share)
  BY DEF IInv, Basics
<1>1. CASE Engine
  BY <1>1, EngineInv
<1>2. ASSUME NEW flags \in SUBSET SetupFlag, Setup(flags)
      PROVE  IInv'
  <2>1. /\ UNCHANGED <<store, stream, unseen, idVars, channels, miner, shareVars, retargets>>
        /\ rolling' \in BOOLEAN /\ phase' = "idle" /\ phase = "setup"
    BY <1>2 DEF Setup
  <2>2. unseen' \in BOOLEAN
    BY <1>0, <2>1 DEF Basics
  <2>3. QED
    BY <2>1, <2>2, QuietInv
<1>3. ASSUME End, UNCHANGED <<store, stream, recorded, solved, submitted, retargets>>
      PROVE  IInv'
  <2>1. NoReplay'
    BY <1>0, <1>3 DEF NoReplay
  <2>2. QED
    BY <1>0, <1>3, <2>1, EndInv
<1>4. ASSUME NEW flags \in SUBSET SetupFlag, SetupRejected(flags)
      PROVE  IInv'
  BY <1>3, <1>4 DEF SetupRejected
<1>5. CASE ConnectionEnds
  BY <1>3, <1>5 DEF ConnectionEnds
<1>6. ASSUME NEW d \in Difficulty, OpenChannel(d)
      PROVE  IInv'
  <2>1. /\ UNCHANGED <<store, stream, unseen, rolling, shareVars>>
        /\ phase = "idle" /\ phase' = "idle" /\ retargets' = retargets
    BY <1>6 DEF OpenChannel
  <2>2. /\ Agreed' /\ nextJob' \in Id /\ nextChannel' \in Id
        /\ Open' \subseteq 1..(nextChannel' - 1)
    BY <1>0, <1>6, OpenKeepsAgreement
  <2>3. QED
    BY <1>0, <2>1, <2>2, ChannelsInv
<1>7. ASSUME NEW c \in Open, CloseChannel(c)
      PROVE  IInv'
  <2>1. /\ UNCHANGED <<store, stream, unseen, rolling, shareVars>>
        /\ phase = "idle" /\ phase' = "idle" /\ retargets' = retargets
        /\ nextChannel' = nextChannel /\ nextJob' = nextJob
    BY <1>7 DEF CloseChannel, idVars
  <2>2. Agreed' /\ Open' \subseteq Open
    BY <1>0, <1>7, CloseKeepsAgreement
  <2>3. QED
    BY <1>0, <2>1, <2>2, ChannelsInv
<1>8. CASE TemplateChanged
  <2>1. /\ UNCHANGED <<store, stream, rolling, idVars, channels, miner, shareVars, retargets>>
        /\ unseen' = FALSE /\ phase' = "borrow" /\ phase = "idle"
    BY <1>8 DEF TemplateChanged
  <2>2. rolling' \in BOOLEAN
    BY <1>0, <2>1 DEF Basics
  <2>3. QED
    BY <2>1, <2>2, QuietInv
<1>9. CASE TemplateBorrow
  <2>1. /\ UNCHANGED <<store, stream, unseen, rolling, shareVars>>
        /\ phase = "borrow" /\ phase' = "idle" /\ retargets' = retargets
        /\ nextChannel' = nextChannel
    BY <1>9 DEF TemplateBorrow
  <2>2. Agreed' /\ Open' = Open /\ nextJob' \in Id
    BY <1>0, <1>9, BorrowKeepsAgreement
  <2>3. QED
    BY <1>0, <2>1, <2>2, ChannelsInv
<1>10. ASSUME NEW diff \in [Open -> Difficulty], VardiffTick(diff)
       PROVE  IInv'
  <2> DEFINE cs == {c \in Open : diff[c] # channels[c].diff}
  <2>1. /\ UNCHANGED <<store, stream, unseen, rolling, shareVars>>
        /\ phase = "idle" /\ phase' = "idle"
        /\ nextChannel' = nextChannel
        /\ Retarget(cs, diff)
    BY <1>10 DEF VardiffTick
  <2>2. cs \in SUBSET Open /\ \A c \in cs : diff[c] \in Difficulty
    OBVIOUS
  <2> HIDE DEF cs
  <2>3. Agreed' /\ Open' = Open /\ nextJob' \in Id /\ retargets' \in Nat
    BY <1>0, <2>1, <2>2, RetargetKeepsAgreement
  <2>4. QED
    BY <1>0, <2>1, <2>3, ChannelsInv
<1>11. CASE Submit
  BY <1>11, SubmitInv
<1>12. CASE UNCHANGED vars
  <2>1. /\ UNCHANGED <<store, stream, unseen, phase, rolling, nextChannel,
                       channels, miner, nextJob, remembered, recorded, solved,
                       submitted, retargets>>
    BY <1>12 DEF vars, idVars, shareVars
  <2>2. Agreed' /\ Open' = Open
    BY <1>0, <2>1, SameChannels
  <2>3. Memory' /\ NoReplay'
    BY <1>0, <2>1, SameShares
  <2>4. Basics'
    BY <1>0, <2>1, <2>2 DEF Basics
  <2>5. QED
    BY <2>2, <2>3, <2>4 DEF IInv
<1>13. QED
  BY <1>1, <1>2, <1>4, <1>5, <1>6, <1>7, <1>8, <1>9, <1>10, <1>11, <1>12
  DEF Next

-----------------------------------------------------------------------------
(* What a job id means                                                     *)

(* The step of JobsKeepTheirWork. *)
WorkKept ==
  \A c \in Open' : \A i \in DOMAIN channels'[c].jobs :
    \/ i >= nextJob
    \/ /\ c \in Open
       /\ i \in DOMAIN channels[c].jobs
       /\ channels'[c].jobs[i].template = channels[c].jobs[i].template

(* Beside the job it adds, a push only takes jobs away. *)
LEMMA PushLeavesOthers ==
  ASSUME NEW s, NEW id, NEW template, NEW clean, NEW extra,
         s = [jobs |-> s.jobs, current |-> s.current, diff |-> s.diff],
         NEW i \in DOMAIN PushJob(s, id, template, clean, extra).jobs, i # id
  PROVE  /\ i \in DOMAIN s.jobs
         /\ PushJob(s, id, template, clean, extra).jobs[i] = s.jobs[i]
<1> DEFINE kept == IF clean THEN {} ELSE DOMAIN s.jobs \ {extra}
           job == [template |-> template, diff |-> s.diff, follows |-> clean]
<1>1. PushJob(s, id, template, clean, extra).jobs
        = Put(Restrict(s.jobs, kept), id, job)
  BY DEF PushJob
<1>2. kept \subseteq DOMAIN s.jobs
  OBVIOUS
<1> HIDE DEF kept, job
<1>3. QED
  BY <1>1, <1>2 DEF Put, Restrict

(* A change of difficulty leaves the work of every job. *)
LEMMA SetTargetLeavesWork ==
  ASSUME NEW s, NEW d, NEW next, ChannelType(s, next)
  PROVE  /\ LET t == SetChannelDifficulty(s, d)
            IN  t = [jobs |-> t.jobs, current |-> t.current, diff |-> t.diff]
         /\ DOMAIN SetChannelDifficulty(s, d).jobs = DOMAIN s.jobs
         /\ \A i \in DOMAIN s.jobs :
              SetChannelDifficulty(s, d).jobs[i].template = s.jobs[i].template
<1> DEFINE tJobs == [i \in DOMAIN s.jobs |->
                       IF s.jobs[i].follows
                       THEN [s.jobs[i] EXCEPT !.diff = d] ELSE s.jobs[i]]
<1>1. SetChannelDifficulty(s, d)
        = [jobs |-> tJobs, current |-> s.current, diff |-> d]
  <2> HIDE DEF tJobs
  <2>1. SetChannelDifficulty(s, d) = [s EXCEPT !.diff = d, !.jobs = tJobs]
    BY DEF SetChannelDifficulty, tJobs
  <2>2. QED
    BY <2>1 DEF ChannelType, ChannelRecord
<1>2. ASSUME NEW i \in DOMAIN s.jobs
      PROVE  tJobs[i].template = s.jobs[i].template
  <2>1. s.jobs[i] \in ChannelJob
    BY DEF ChannelType
  <2>2. QED
    BY <2>1 DEF ChannelJob
<1>3. DOMAIN tJobs = DOMAIN s.jobs
  OBVIOUS
<1> HIDE DEF tJobs
<1>4. QED
  BY <1>1, <1>2, <1>3

(* An id drawn for a job was never drawn before. *)
LEMMA DrawnIdsAreNew ==
  ASSUME NEW cs, NEW ids \in JobIds(cs), nextJob \in Id,
         Cardinality(cs) \in Nat, NEW c \in cs
  PROVE  ids[c] >= nextJob
<1>1. ids \in [cs -> nextJob .. (nextJob + Cardinality(cs) - 1)]
  BY DEF JobIds, Bijection, Injection
<1>2. QED
  BY <1>1 DEF Id

LEMMA BorrowKeepsWork ==
  ASSUME IInv, TemplateBorrow
  PROVE  WorkKept
<1> DEFINE clean == [c \in Open |-> ShouldClean(channels[c], stream)]
<1>1. PICK ids \in JobIds(Open), extra \in [Open -> 0..nextJob] :
        channels' = [c \in Open |->
             IF c \in Open
             THEN PushJob(channels[c], ids[c], stream, clean[c], extra[c])
             ELSE channels[c]]
  BY DEF TemplateBorrow, Recipients
<1>2. nextJob \in Id /\ Cardinality(Open) \in Nat
  BY FreshIds DEF IInv, Basics
<1>3. Open' = Open
  BY <1>1 DEF Open
<1>4. ASSUME NEW c \in Open, NEW i \in DOMAIN channels'[c].jobs
      PROVE  \/ i >= nextJob
             \/ /\ i \in DOMAIN channels[c].jobs
                /\ channels'[c].jobs[i].template = channels[c].jobs[i].template
  <2>1. channels'[c]
          = PushJob(channels[c], ids[c], stream, clean[c], extra[c])
    BY <1>1
  <2>2. ids[c] >= nextJob
    BY <1>2, DrawnIdsAreNew
  <2>3. channels[c] = [jobs |-> channels[c].jobs,
                       current |-> channels[c].current,
                       diff |-> channels[c].diff]
    BY DEF IInv, Agreed, ChannelType, ChannelRecord
  <2> HIDE DEF clean
  <2>4. i # ids[c] => /\ i \in DOMAIN channels[c].jobs
                      /\ channels'[c].jobs[i] = channels[c].jobs[i]
    BY <2>1, <2>3, PushLeavesOthers
  <2>5. QED
    BY <2>2, <2>4
<1>5. QED
  BY <1>3, <1>4 DEF WorkKept

LEMMA RetargetKeepsWork ==
  ASSUME IInv, NEW cs \in SUBSET Open, NEW diff, Retarget(cs, diff)
  PROVE  WorkKept
<1>1. PICK ids \in JobIds(cs), extra \in [cs -> 0..nextJob] :
        channels' = [c \in Open |->
             IF c \in cs
             THEN PushJob(SetChannelDifficulty(channels[c], diff[c]), ids[c],
                          CurrentTemplate(channels[c]), FALSE, extra[c])
             ELSE channels[c]]
  BY DEF Retarget
<1>2. nextJob \in Id /\ Cardinality(cs) \in Nat
  BY FreshIds DEF IInv, Basics
<1>3. Open' = Open
  BY <1>1 DEF Open
<1>4. ASSUME NEW c \in Open, NEW i \in DOMAIN channels'[c].jobs
      PROVE  \/ i >= nextJob
             \/ /\ i \in DOMAIN channels[c].jobs
                /\ channels'[c].jobs[i].template = channels[c].jobs[i].template
  <2>1. CASE c \in cs
    <3> DEFINE s == SetChannelDifficulty(channels[c], diff[c])
               template == CurrentTemplate(channels[c])
               clean == FALSE
    <3>1. channels'[c] = PushJob(s, ids[c], template, clean, extra[c])
      BY <1>1, <2>1
    <3>2. ids[c] >= nextJob
      BY <1>2, <2>1, DrawnIdsAreNew
    <3>3. ChannelType(channels[c], nextJob)
      BY DEF IInv, Agreed
    <3>4. /\ DOMAIN s.jobs = DOMAIN channels[c].jobs
          /\ \A k \in DOMAIN channels[c].jobs :
               s.jobs[k].template = channels[c].jobs[k].template
      BY <3>3, SetTargetLeavesWork
    <3>5. s = [jobs |-> s.jobs, current |-> s.current, diff |-> s.diff]
      BY <3>3, SetTargetLeavesWork
    <3> HIDE DEF s, template, clean
    <3>6. i # ids[c] => i \in DOMAIN s.jobs /\ channels'[c].jobs[i] = s.jobs[i]
      BY <3>1, <3>5, PushLeavesOthers
    <3>7. QED
      BY <3>2, <3>4, <3>6
  <2>2. CASE c \notin cs
    BY <1>1, <2>2
  <2>3. QED
    BY <2>1, <2>2
<1>5. QED
  BY <1>3, <1>4 DEF WorkKept

LEMMA OpenKeepsWork ==
  ASSUME IInv, NEW d, OpenChannel(d)
  PROVE  WorkKept
<1> DEFINE opened == [jobs |-> Empty, current |-> 0, diff |-> d]
           s == PushJob(opened, nextJob, store, TRUE, 0)
<1>1. channels' = Put(channels, nextChannel, s)
  BY DEF OpenChannel
<1>2. DOMAIN s.jobs = {nextJob} /\ nextJob >= nextJob
  BY DEF PushJob, Put, Restrict, IInv, Basics, Id
<1> HIDE DEF opened, s
<1>3. /\ Open' = Open \cup {nextChannel}
      /\ \A c \in Open' :
           channels'[c] = IF c = nextChannel THEN s ELSE channels[c]
  BY <1>1 DEF Put, Open
<1>4. QED
  BY <1>2, <1>3 DEF WorkKept

(* No step gives a live id other work. *)
LEMMA StepKeepsWork ==
  ASSUME IInv, Next
  PROVE  WorkKept
<1>1. ASSUME Open' \subseteq Open,
             \A c \in Open' : channels'[c] = channels[c]
      PROVE  WorkKept
  BY <1>1 DEF WorkKept
<1>2. ASSUME channels' = channels
      PROVE  WorkKept
  BY <1>1, <1>2 DEF Open
<1>3. ASSUME End
      PROVE  WorkKept
  BY <1>1, <1>3 DEF End, Empty, Open
<1>4. CASE Engine
  BY <1>2, <1>4 DEF Engine, EnginePublish, EngineDeliver
<1>5. ASSUME NEW flags, Setup(flags) \/ SetupRejected(flags)
      PROVE  WorkKept
  BY <1>2, <1>3, <1>5 DEF Setup, SetupRejected
<1>6. CASE ConnectionEnds \/ TemplateChanged
  BY <1>2, <1>3, <1>6 DEF ConnectionEnds, TemplateChanged
<1>7. ASSUME NEW c \in Open, CloseChannel(c)
      PROVE  WorkKept
  BY <1>1, <1>7 DEF CloseChannel, Restrict, Open
<1>8. ASSUME NEW diff, VardiffTick(diff)
      PROVE  WorkKept
  <2> DEFINE cs == {c \in Open : diff[c] # channels[c].diff}
  <2>1. Retarget(cs, diff) /\ cs \in SUBSET Open
    BY <1>8 DEF VardiffTick
  <2> HIDE DEF cs
  <2>2. QED
    BY <2>1, RetargetKeepsWork
<1>9. CASE Submit
  <2> PICK c \in Open, pow \in Pow, version \in SUBSET VersionBit :
        \E i \in DOMAIN channels[c].jobs :
          \/ \E d \in Difficulty : SubmitShare(c, i, pow, version, d)
          \/ SubmitAnswerFails(c, i, pow, version)
          \/ SubmitRetargetFails(c, i, pow, version)
    BY <1>9 DEF Submit
  <2>1. ASSUME NEW i, NEW d, SubmitShare(c, i, pow, version, d)
        PROVE  WorkKept
    <3>1. CASE d = channels[c].diff
      BY <1>2, <2>1, <3>1 DEF SubmitShare
    <3>2. CASE d # channels[c].diff
      <4> DEFINE diff == [e \in {c} |-> d]
      <4>1. Retarget({c}, diff) /\ {c} \in SUBSET Open
        BY <2>1, <3>2 DEF SubmitShare
      <4> HIDE DEF diff
      <4>2. QED
        BY <4>1, RetargetKeepsWork
    <3>3. QED
      BY <3>1, <3>2
  <2>2. ASSUME NEW i, SubmitAnswerFails(c, i, pow, version)
                        \/ SubmitRetargetFails(c, i, pow, version)
        PROVE  WorkKept
    BY <1>3, <2>2 DEF SubmitAnswerFails, SubmitRetargetFails
  <2>3. QED
    BY <2>1, <2>2
<1>10. QED
  BY <1>4, <1>5, <1>6, <1>7, <1>8, <1>9, BorrowKeepsWork, OpenKeepsWork
  DEF Next

-----------------------------------------------------------------------------
(* Theorems                                                                *)

(* The variables of a connection keep their types. *)
THEOREM TypeCorrect == Spec => []TypeOK
<1>1. IInv => TypeOK
  BY InvariantGivesTypes
<1>2. QED
  BY <1>1, InitInv, StepInv, PTL DEF Spec

(* Both ends judge a share at one difficulty, whatever the order of        *)
(* retargets, new templates, opened and closed channels was                *)
(* (send_set_target, send_job_to_channel).                                 *)
THEOREM TargetsAlwaysAgree == Spec => []TargetsAgree
<1>1. IInv => TargetsAgree
  <2>1. ASSUME IInv, NEW c \in Open, NEW i \in DOMAIN channels[c].jobs
        PROVE  /\ i \in DOMAIN miner[c].jobs
               /\ miner[c].jobs[i].diff = channels[c].jobs[i].diff
    <3>1. Match(channels[c], miner[c])
      BY <2>1 DEF IInv, Agreed
    <3>2. /\ i \in DOMAIN miner[c].jobs
          /\ miner[c].jobs[i] = [diff |-> channels[c].jobs[i].diff,
                                 follows |-> channels[c].jobs[i].follows]
      BY <3>1 DEF Match
    <3>3. QED
      BY <3>2
  <2>2. QED
    BY <2>1 DEF TargetsAgree
<1>2. QED
  BY <1>1, InitInv, StepInv, PTL DEF Spec

(* The live jobs of a channel build on the block of the last               *)
(* SetNewPrevHash, although a channel is opened on current_job() and       *)
(* continues with what the watch channel hands over (line 423).            *)
THEOREM JobsOnOneBlock == Spec => []OneTip
<1>1. IInv => OneTip
  <2>1. ASSUME IInv, NEW c \in Open
        PROVE  /\ miner[c].active = channels[c].current
               /\ channels[c].current \in DOMAIN channels[c].jobs
               /\ \A i \in DOMAIN channels[c].jobs :
                    channels[c].jobs[i].template.prev = miner[c].prev
    BY <2>1 DEF IInv, Agreed, Match
  <2>2. QED
    BY <2>1 DEF OneTip
<1>2. QED
  BY <1>1, InitInv, StepInv, PTL DEF Spec

(* A solution of one job id is recorded again only after ShareLimit        *)
(* others.  (The same header under another job id is another share.)       *)
THEOREM NoShareTwice == Spec => []NoReplay
<1>1. IInv => NoReplay
  BY DEF IInv
<1>2. QED
  BY <1>1, InitInv, StepInv, PTL DEF Spec

(* The template a share is judged by is the one its miner was sent under   *)
(* that job id (send_job_to_channel, handle_submit_extended).              *)
THEOREM JobIdsKeepTheirWork == Spec => JobsKeepTheirWork
<1>1. IInv /\ [Next]_vars => [WorkKept]_vars
  BY StepKeepsWork
<1>2. Spec => [][WorkKept]_vars
  BY <1>1, InitInv, StepInv, PTL DEF Spec
<1>3. QED
  BY <1>2 DEF JobsKeepTheirWork, WorkKept

=============================================================================
