------------------------ MODULE BlockLifecycleProofs ------------------------
(***************************************************************************)
(* Machine-checked proofs about BlockLifecycle, for every set of blocks,   *)
(* number of tasks, of attempts and of remembered blocks, and every bound. *)
(* The argument: the node never forgets a block it has taken, a task that  *)
(* holds a good verdict holds it for a block the node has (InHand), and    *)
(* the history only takes up such verdicts or candidates.                  *)
(***************************************************************************)
EXTENDS BlockLifecycle, SequenceTheorems, TLAPS

(* A task at work has a block; a good verdict in hand is a true one.       *)
InHand ==
  \A s \in Submission :
    /\ sub[s].pc # "idle" => sub[s].hash \in Hash
    /\ sub[s].pc = "enter" /\ sub[s].verdict \in Taken =>
         HasBlock(sub[s].hash)

(* An answer in hand is about a block.                                     *)
AnswerInHand == answer # NoAnswer => answer.hash \in Hash

IInv == TypeOK /\ TakenIsKnown /\ InHand /\ AnswerInHand

-----------------------------------------------------------------------------
(* The history                                                             *)

OneRecordPerBlock(history) ==
  \A i, j \in DOMAIN history : history[i].hash = history[j].hash => i = j

(* Whatever is entered, the history stays within its bound and holds one   *)
(* record per block, each of them an old one or the new one.               *)
LEMMA UpsertKeeps ==
  ASSUME TypeOK, NEW rec \in Record, Upsert(rec)
  PROVE  /\ blocks' \in Seq(Record)
         /\ Len(blocks') <= MaxBlocks
         /\ OneRecordPerBlock(blocks')
         /\ \A i \in DOMAIN blocks' :
              blocks'[i] = rec \/ \E j \in DOMAIN blocks : blocks'[i] = blocks[j]
<1>1. /\ MaxBlocks \in Nat \ {0}
      /\ blocks \in Seq(Record)
      /\ Len(blocks) <= MaxBlocks
      /\ OneRecordPerBlock(blocks)
  BY LifecycleAssumption DEF TypeOK, OneRecordPerBlock
<1>2. CASE \E i \in DOMAIN blocks : blocks[i].hash = rec.hash
  <2>1. blocks' = [i \in DOMAIN blocks |->
                     IF blocks[i].hash = rec.hash THEN rec ELSE blocks[i]]
    BY <1>2 DEF Upsert
  <2>2. DOMAIN blocks = 1..Len(blocks) /\ Len(blocks) \in Nat
    BY <1>1
  <2>3. \A i \in 1..Len(blocks) : blocks[i] \in Record
    BY <1>1
  <2>4. /\ DOMAIN blocks' = 1..Len(blocks)
        /\ \A i \in 1..Len(blocks) :
             blocks'[i] \in Record /\ blocks'[i].hash = blocks[i].hash
    BY <2>1, <2>2, <2>3
  <2>5. blocks' \in Seq(Record) /\ Len(blocks') = Len(blocks)
    BY <2>1, <2>2, <2>4, IsASeq
  <2>6. OneRecordPerBlock(blocks')
    BY <1>1, <2>2, <2>4 DEF OneRecordPerBlock
  <2> QED  BY <1>1, <2>1, <2>2, <2>4, <2>5, <2>6
<1>3. CASE ~ \E i \in DOMAIN blocks : blocks[i].hash = rec.hash
  <2> DEFINE longer == Append(blocks, rec)
  <2>1. /\ longer \in Seq(Record)
        /\ Len(longer) = Len(blocks) + 1
        /\ \A i \in 1..Len(blocks) : longer[i] = blocks[i]
        /\ longer[Len(blocks) + 1] = rec
    BY <1>1
  <2>2. OneRecordPerBlock(longer)
    BY <1>1, <1>3, <2>1 DEF OneRecordPerBlock
  <2>3. \A i \in DOMAIN longer :
          longer[i] = rec \/ \E j \in DOMAIN blocks : longer[i] = blocks[j]
    BY <1>1, <2>1
  <2>4. CASE Len(longer) <= MaxBlocks
    <3>1. blocks' = longer
      BY <1>1, <1>3, <2>1, <2>4 DEF Upsert
    <3> QED  BY <2>1, <2>2, <2>3, <2>4, <3>1
  <2>5. CASE Len(longer) > MaxBlocks
    <3>1. blocks' = Tail(longer)
      BY <1>3, <2>5 DEF Upsert
    <3>2. /\ blocks' \in Seq(Record)
          /\ Len(blocks') = Len(blocks)
          /\ \A i \in 1..Len(blocks) : blocks'[i] = longer[i + 1]
      BY <1>1, <2>1, <3>1
    <3>3. DOMAIN blocks' = 1..Len(blocks) /\ DOMAIN longer = 1..(Len(blocks) + 1)
      BY <1>1, <2>1, <3>2
    <3>4. OneRecordPerBlock(blocks')
      <4> SUFFICES ASSUME NEW i \in 1..Len(blocks), NEW j \in 1..Len(blocks),
                          blocks'[i].hash = blocks'[j].hash
                   PROVE  i = j
        BY <3>3 DEF OneRecordPerBlock
      <4>1. i + 1 \in DOMAIN longer /\ j + 1 \in DOMAIN longer
        BY <1>1, <3>3
      <4>2. i + 1 = j + 1
        BY <2>2, <3>2, <4>1 DEF OneRecordPerBlock
      <4> QED  BY <1>1, <4>2
    <3>5. \A i \in DOMAIN blocks' : i + 1 \in DOMAIN longer
      BY <1>1, <3>3
    <3> QED  BY <1>1, <2>3, <3>2, <3>3, <3>4, <3>5
  <2> QED  BY <1>1, <2>1, <2>4, <2>5
<1> QED  BY <1>2, <1>3

(* What HasBlock says of the next state. *)
StillHas(h) == node'[h] \in {"active", "stale"}

(* The block of a record stays with the node if the node forgets none.     *)
LEMMA EnteredIsKnown ==
  ASSUME TypeOK, TakenIsKnown, NEW rec \in Record, Upsert(rec),
         \A h \in Hash : HasBlock(h) => StillHas(h),
         rec.status \in Taken => StillHas(rec.hash)
  PROVE  TakenIsKnown'
<1>1. ASSUME NEW i \in DOMAIN blocks', blocks'[i].status \in Taken
      PROVE  StillHas(blocks'[i].hash)
  <2>1. CASE blocks'[i] = rec
    BY <1>1, <2>1
  <2>2. ASSUME NEW j \in DOMAIN blocks, blocks'[i] = blocks[j]
        PROVE  StillHas(blocks'[i].hash)
    <3>1. blocks[j] \in Record
      BY DEF TypeOK
    <3>2. HasBlock(blocks[j].hash) /\ blocks[j].hash \in Hash
      BY <1>1, <2>2, <3>1 DEF TakenIsKnown, Record
    <3> QED  BY <2>2, <3>2
  <2> QED  BY <2>1, <2>2, UpsertKeeps
<1> QED  BY <1>1 DEF TakenIsKnown, HasBlock, StillHas

(* While the history stands, it is enough that the node forgets no block.  *)
LEMMA KnownStays ==
  ASSUME TypeOK, TakenIsKnown, UNCHANGED blocks,
         \A h \in Hash : HasBlock(h) => StillHas(h)
  PROVE  TakenIsKnown'
<1>1. \A i \in DOMAIN blocks : blocks[i].hash \in Hash
  <2> SUFFICES ASSUME NEW i \in DOMAIN blocks PROVE blocks[i].hash \in Hash
    OBVIOUS
  <2>1. blocks[i] \in Record
    BY DEF TypeOK
  <2> QED  BY <2>1 DEF Record
<1>2. \A i \in DOMAIN blocks :
        blocks[i].status \in Taken => StillHas(blocks[i].hash)
  BY <1>1 DEF TakenIsKnown
<1> QED  BY <1>2 DEF TakenIsKnown, HasBlock, StillHas

-----------------------------------------------------------------------------
(* Every step keeps IInv                                                   *)

(* The node never forgets a block it has taken. *)
LEMMA NodeForgetsNothing ==
  ASSUME TypeOK, Next
  PROVE  \A h \in Hash : HasBlock(h) => StillHas(h)
<1> USE DEF HasBlock, StillHas, TypeOK, nodeVars
<1>1. ASSUME NEW s \in Submission, NEW h \in Hash, FindBlock(s, h)
      PROVE  UNCHANGED nodeVars
  BY <1>1 DEF FindBlock
<1>2. ASSUME NEW s \in Submission, Submit(s)
      PROVE  \A h \in Hash : HasBlock(h) => StillHas(h)
  BY <1>2 DEF Submit, SubmitAnswered, SubmitFails, EnterVerdict, NodeTakes,
              NodeHasIt, NodeRefuses
<1>3. ASSUME NEW h \in Hash, Node(h)
      PROVE  \A x \in Hash : HasBlock(x) => StillHas(x)
  BY <1>3 DEF Node, NodeConfirms, NodeReorganizes, NodeReturns
<1>4. CASE Monitor
  BY <1>4 DEF Monitor, MonitorRound, MonitorAsk, MonitorSkip, MonitorApply
<1> QED  BY <1>1, <1>2, <1>3, <1>4 DEF Next

LEMMA AttemptsType == Attempts \in Nat /\ Attempts > 0
  BY LifecycleAssumption

LEMMA IdleTask == NoSubmission \in Task /\ NoSubmission.pc = "idle"
  BY AttemptsType DEF NoSubmission, Task, Verdict

(* A task that has got its verdict is otherwise as it was. *)
LEMMA Decided ==
  ASSUME TypeOK, NEW s \in Submission, NEW verdict \in Verdict,
         Decide(s, verdict)
  PROVE  /\ sub' \in [Submission -> Task]
         /\ \A x \in Submission \ {s} : sub'[x] = sub[x]
         /\ sub'[s].pc = "enter"
         /\ sub'[s].verdict = verdict
         /\ sub'[s].hash = sub[s].hash
  BY DEF Decide, TypeOK, Task

(* The node only goes from one of its states for a block to another. *)
LEMMA NodeTypes ==
  ASSUME TypeOK, NEW h \in Hash,
         NodeTakes(h) \/ NodeRefuses(h) \/ NodeHasIt(h) \/ UNCHANGED nodeVars
  PROVE  /\ node' \in [Hash -> {"unknown", "refused", "active", "stale"}]
         /\ depth' \in [Hash -> 0..Maturity]
<1>1. 1 \in 0..Maturity
  BY LifecycleAssumption
<1> QED
  BY <1>1 DEF TypeOK, NodeTakes, NodeRefuses, NodeHasIt, nodeVars

LEMMA InitIInv == Init => IInv
<1> SUFFICES ASSUME Init PROVE IInv
  OBVIOUS
<1> USE LifecycleAssumption DEF Init
<1>1. sub \in [Submission -> Task]
  BY IdleTask
<1>2. answer \in Answer
  BY DEF NoAnswer, Answer
<1>3. TypeOK
  BY <1>1, <1>2 DEF TypeOK
<1>4. TakenIsKnown /\ InHand /\ AnswerInHand
  BY DEF TakenIsKnown, InHand, AnswerInHand, NoSubmission
<1> QED  BY <1>3, <1>4 DEF IInv

LEMMA FindKeeps ==
  ASSUME IInv, NEW s \in Submission, NEW h \in Hash, FindBlock(s, h)
  PROVE  IInv'
<1> DEFINE rec == [hash |-> h, status |-> "candidate",
                   reward |-> "pending_submission"]
<1>1. rec \in Record /\ rec.status \notin Taken
  BY DEF Record, Reward, Taken
<1>2. Upsert(rec) /\ UNCHANGED <<nodeVars, monitorVars, faults, reorgs>>
  BY DEF FindBlock
<1> HIDE DEF rec
<1>3. TypeOK'
  <2>1. sub' \in [Submission -> Task]
    <3>1. NewSubmission(h) \in Task
      <4>1. 1 \in 0..Attempts
        BY AttemptsType
      <4> QED  BY <4>1 DEF NewSubmission, Task, Verdict
    <3> QED  BY <3>1 DEF FindBlock, IInv, TypeOK
  <2>2. finds' \in Nat
    BY DEF FindBlock, IInv, TypeOK
  <2> QED
    BY <1>1, <1>2, <2>1, <2>2, UpsertKeeps
       DEF IInv, TypeOK, OneRecordPerBlock, nodeVars, monitorVars
<1>4. TakenIsKnown'
  BY <1>1, <1>2, EnteredIsKnown DEF IInv, HasBlock, StillHas, nodeVars
<1>5. InHand'
  BY <1>2, LifecycleAssumption
     DEF IInv, TypeOK, InHand, FindBlock, NewSubmission, HasBlock, nodeVars
<1>6. AnswerInHand'
  BY <1>2 DEF IInv, AnswerInHand, monitorVars
<1> QED  BY <1>3, <1>4, <1>5, <1>6 DEF IInv

LEMMA SubmitKeeps ==
  ASSUME IInv, NEW s \in Submission, Submit(s)
  PROVE  IInv'
<1>0. \A h \in Hash : HasBlock(h) => StillHas(h)
  BY NodeForgetsNothing DEF IInv, Next
<1>a. TypeOK /\ TakenIsKnown /\ InHand /\ AnswerInHand /\ sub[s] \in Task
  BY DEF IInv, TypeOK
<1>1. CASE SubmitAnswered(s)
  <2>0. sub[s].hash \in Hash
    BY <1>1, <1>a DEF SubmitAnswered, InHand
  <2>1. UNCHANGED <<blocks, monitorVars, finds, faults, reorgs>>
    BY <1>1 DEF SubmitAnswered
  <2>2. PICK verdict \in {"submitted", "duplicate", "rejected"} :
          /\ Decide(s, verdict)
          /\ verdict \in Taken => StillHas(sub[s].hash)
    BY <1>1, <1>a, <2>0
       DEF SubmitAnswered, NodeTakes, NodeHasIt, HasBlock, StillHas, Taken,
           nodeVars, TypeOK
  <2>3. /\ sub' \in [Submission -> Task]
        /\ \A x \in Submission \ {s} : sub'[x] = sub[x]
        /\ sub'[s].pc = "enter"
        /\ sub'[s].verdict = verdict
        /\ sub'[s].hash = sub[s].hash
    BY <1>a, <2>2, Decided DEF Verdict
  <2>4. TypeOK'
    BY <1>1, <1>a, <2>0, <2>1, <2>3, NodeTypes
       DEF TypeOK, SubmitAnswered, monitorVars
  <2>5. TakenIsKnown'
    BY <1>0, <1>a, <2>1, KnownStays
  <2>6. InHand'
    BY <1>0, <1>a, <2>0, <2>2, <2>3 DEF InHand, HasBlock, StillHas
  <2>7. AnswerInHand'
    BY <1>a, <2>1 DEF AnswerInHand, monitorVars
  <2> QED  BY <2>4, <2>5, <2>6, <2>7 DEF IInv
<1>2. CASE SubmitFails(s)
  <2>0. sub[s].hash \in Hash
    BY <1>2, <1>a DEF SubmitFails, InHand
  <2>1. UNCHANGED <<blocks, monitorVars, finds, reorgs>> /\ faults' \in Nat
    BY <1>2, <1>a DEF SubmitFails, TypeOK
  <2>2. /\ sub' \in [Submission -> Task]
        /\ \A x \in Submission \ {s} : sub'[x] = sub[x]
        /\ sub'[s].hash = sub[s].hash
        /\ sub'[s].pc = "enter" => sub'[s].verdict \notin Taken
    <3>1. CASE sub[s].attempt < Attempts
      <4>1. sub' = [sub EXCEPT ![s].attempt = @ + 1]
        BY <1>2, <3>1 DEF SubmitFails, AfterError
      <4>2. sub[s].attempt + 1 \in 0..Attempts
        BY <1>a, <3>1, AttemptsType DEF Task
      <4>3. sub[s].pc = "call"
        BY <1>2 DEF SubmitFails
      <4> QED  BY <1>a, <4>1, <4>2, <4>3 DEF TypeOK, Task
    <3>2. CASE ~(sub[s].attempt < Attempts)
      <4>1. Decide(s, "submit_failed")
        BY <1>2, <3>2 DEF SubmitFails, AfterError
      <4> QED  BY <1>a, <4>1, Decided DEF Verdict, Taken
    <3> QED  BY <3>1, <3>2
  <2>3. TypeOK'
    BY <1>2, <1>a, <2>0, <2>1, <2>2, NodeTypes
       DEF TypeOK, SubmitFails, monitorVars
  <2>4. TakenIsKnown'
    BY <1>0, <1>a, <2>1, KnownStays
  <2>5. InHand'
    BY <1>0, <1>a, <2>0, <2>2 DEF InHand, HasBlock, StillHas
  <2>6. AnswerInHand'
    BY <1>a, <2>1 DEF AnswerInHand, monitorVars
  <2> QED  BY <2>3, <2>4, <2>5, <2>6 DEF IInv
<1>3. CASE EnterVerdict(s)
  <2> DEFINE rec == [hash |-> sub[s].hash, status |-> sub[s].verdict,
                     reward |-> IF sub[s].verdict \in Taken
                                THEN "pending_confirmation" ELSE "unavailable"]
  <2>0. /\ sub[s].pc = "enter" /\ sub[s].hash \in Hash
        /\ sub[s].verdict \in Verdict
    BY <1>a, <1>3 DEF EnterVerdict, InHand, Task
  <2>1. /\ rec \in Record
        /\ rec.status \in Taken => StillHas(rec.hash)
    <3>1. rec \in Record
      BY <2>0 DEF Record, Reward
    <3>2. sub[s].verdict \in Taken => HasBlock(sub[s].hash)
      BY <1>a, <2>0 DEF InHand
    <3> QED  BY <1>0, <2>0, <3>1, <3>2
  <2>2. Upsert(rec) /\ UNCHANGED <<nodeVars, monitorVars, finds, faults, reorgs>>
    BY <1>3 DEF EnterVerdict
  <2> HIDE DEF rec
  <2>3. sub' = [sub EXCEPT ![s] = NoSubmission]
    BY <1>3 DEF EnterVerdict
  <2>4. TypeOK'
    <3>1. sub' \in [Submission -> Task]
      BY <2>3, IdleTask DEF IInv, TypeOK
    <3> QED
      BY <2>1, <2>2, <3>1, UpsertKeeps
         DEF IInv, TypeOK, OneRecordPerBlock, nodeVars, monitorVars
  <2>5. TakenIsKnown'
    BY <1>0, <2>1, <2>2, EnteredIsKnown DEF IInv
  <2>6. InHand'
    BY <2>2, <2>3 DEF IInv, TypeOK, InHand, NoSubmission, HasBlock, nodeVars
  <2>7. AnswerInHand'
    BY <2>2 DEF IInv, AnswerInHand, monitorVars
  <2> QED  BY <2>4, <2>5, <2>6, <2>7 DEF IInv
<1> QED  BY <1>1, <1>2, <1>3 DEF Submit

LEMMA NodeKeeps ==
  ASSUME IInv, NEW h \in Hash, Node(h)
  PROVE  IInv'
<1>0. \A x \in Hash : HasBlock(x) => StillHas(x)
  BY NodeForgetsNothing DEF IInv, Next
<1>1. /\ UNCHANGED <<blocks, sub, monitorVars, finds, faults>>
      /\ reorgs' \in Nat
  BY DEF Node, NodeConfirms, NodeReorganizes, NodeReturns, IInv, TypeOK
<1>2. /\ node' \in [Hash -> {"unknown", "refused", "active", "stale"}]
      /\ depth' \in [Hash -> 0..Maturity]
  <2>1. Maturity \in Nat /\ Maturity > 0
    BY LifecycleAssumption
  <2>2. /\ node \in [Hash -> {"unknown", "refused", "active", "stale"}]
        /\ depth \in [Hash -> 0..Maturity]
    BY DEF IInv, TypeOK
  <2>3. CASE NodeConfirms(h)
    <3>1. depth[h] + 1 \in 0..Maturity
      BY <2>1, <2>2, <2>3 DEF NodeConfirms
    <3> QED  BY <2>2, <2>3, <3>1 DEF NodeConfirms
  <2>4. CASE NodeReorganizes(h)
    BY <2>2, <2>4 DEF NodeReorganizes
  <2>5. CASE NodeReturns(h)
    BY <2>1, <2>2, <2>5 DEF NodeReturns
  <2> QED  BY <2>3, <2>4, <2>5 DEF Node
<1>3. TypeOK'
  BY <1>1, <1>2 DEF IInv, TypeOK, monitorVars
<1>4. TakenIsKnown'
  BY <1>0, <1>1, KnownStays DEF IInv
<1>5. InHand' /\ AnswerInHand'
  BY <1>0, <1>1
     DEF IInv, InHand, AnswerInHand, HasBlock, StillHas, monitorVars
<1> QED  BY <1>3, <1>4, <1>5 DEF IInv

LEMMA MonitorKeeps ==
  ASSUME IInv, Monitor
  PROVE  IInv'
<1>0. TypeOK /\ TakenIsKnown /\ InHand /\ AnswerInHand
  BY DEF IInv
<1>1. CASE MonitorRound
  <2>1. todo' \subseteq Hash
    <3>1. \A i \in DOMAIN blocks : blocks[i] \in Record
      BY <1>0 DEF TypeOK
    <3> QED  BY <1>1, <3>1 DEF MonitorRound, Record
  <2> QED
    BY <1>0, <1>1, <2>1
       DEF MonitorRound, IInv, TypeOK, TakenIsKnown, InHand, AnswerInHand,
           HasBlock, nodeVars
<1>2. ASSUME NEW h \in todo, MonitorAsk(h) PROVE IInv'
  <2>1. answer' \in Answer /\ answer'.hash \in Hash
    BY <1>0, <1>2, LifecycleAssumption
       DEF MonitorAsk, Answer, Confirmations, TypeOK
  <2> QED
    BY <1>0, <1>2, <2>1
       DEF MonitorAsk, IInv, TypeOK, TakenIsKnown, InHand, AnswerInHand,
           HasBlock, nodeVars
<1>3. ASSUME NEW h \in todo, MonitorSkip(h) PROVE IInv'
  BY <1>0, <1>3
     DEF MonitorSkip, IInv, TypeOK, TakenIsKnown, InHand, AnswerInHand,
         HasBlock, nodeVars
<1>4. CASE MonitorApply
  <2>1. /\ blocks \in Seq(Record) /\ Len(blocks) <= MaxBlocks
        /\ OneRecordPerBlock(blocks)
    BY <1>0 DEF TypeOK, OneRecordPerBlock
  <2>2. RewardFor(answer.confirmations) \in Reward
    BY DEF RewardFor, Reward
  <2>3. /\ DOMAIN blocks' = DOMAIN blocks
        /\ \A i \in DOMAIN blocks :
             /\ blocks'[i] \in Record
             /\ blocks'[i].hash = blocks[i].hash
             /\ blocks'[i].status = blocks[i].status
    <3>1. \A i \in DOMAIN blocks : blocks[i] \in Record
      BY <2>1
    <3> QED  BY <1>4, <2>2, <3>1 DEF MonitorApply, Record
  <2>4. blocks' \in Seq(Record) /\ Len(blocks') = Len(blocks)
    <3>1. DOMAIN blocks = 1..Len(blocks) /\ Len(blocks) \in Nat
      BY <2>1
    <3>2. blocks' = [i \in 1..Len(blocks) |-> blocks'[i]]
      BY <1>4, <3>1 DEF MonitorApply
    <3> QED  BY <2>3, <3>1, <3>2, IsASeq
  <2>5. OneRecordPerBlock(blocks')
    BY <2>1, <2>3 DEF OneRecordPerBlock
  <2>6. UNCHANGED <<nodeVars, sub, todo, finds, faults, reorgs>>
        /\ answer' = NoAnswer
    BY <1>4 DEF MonitorApply
  <2>7. NoAnswer \in Answer
    BY LifecycleAssumption DEF NoAnswer, Answer
  <2>8. TypeOK'
    BY <1>0, <2>1, <2>4, <2>5, <2>6, <2>7
       DEF TypeOK, OneRecordPerBlock, nodeVars
  <2>9. TakenIsKnown'
    BY <1>0, <2>3, <2>6 DEF TakenIsKnown, HasBlock, nodeVars
  <2>10. InHand' /\ AnswerInHand'
    BY <1>0, <2>6 DEF InHand, AnswerInHand, HasBlock, nodeVars
  <2> QED  BY <2>8, <2>9, <2>10 DEF IInv
<1> QED  BY <1>1, <1>2, <1>3, <1>4 DEF Monitor

-----------------------------------------------------------------------------
(* The theorems                                                            *)

(* IInv holds in every reachable state. *)
THEOREM InductiveInvariant == Spec => []IInv
<1>1. IInv /\ [Next]_vars => IInv'
  <2> SUFFICES ASSUME IInv, [Next]_vars PROVE IInv'
    OBVIOUS
  <2>1. CASE \E s \in Submission, h \in Hash : FindBlock(s, h)
    BY <2>1, FindKeeps
  <2>2. CASE \E s \in Submission : Submit(s)
    BY <2>2, SubmitKeeps
  <2>3. CASE \E h \in Hash : Node(h)
    BY <2>3, NodeKeeps
  <2>4. CASE Monitor
    BY <2>4, MonitorKeeps
  <2>5. CASE UNCHANGED vars
    BY <2>5 DEF vars, IInv, TypeOK, TakenIsKnown, InHand, AnswerInHand, HasBlock
  <2> QED  BY <2>1, <2>2, <2>3, <2>4, <2>5 DEF Next
<1> QED  BY <1>1, InitIInv, PTL DEF Spec

(* The history never holds more than max_block_history records nor two of  *)
(* one block, whatever the order in which candidates, verdicts and answers *)
(* of the node come in (metrics.rs lines 560-571).                         *)
THEOREM TypeCorrect == Spec => []TypeOK
<1>1. IInv => TypeOK
  BY DEF IInv
<1> QED  BY <1>1, InductiveInvariant, PTL

(* A record says "submitted" or "duplicate" only of a block the node has,  *)
(* for any number of attempts, lost answers and repeated submissions.      *)
THEOREM TakenBlocksAreKnown == Spec => []TakenIsKnown
<1>1. IInv => TakenIsKnown
  BY DEF IInv
<1> QED  BY <1>1, InductiveInvariant, PTL

-----------------------------------------------------------------------------
(* Candidates                                                              *)

(* upsert_block leaves one record of the block, the one it was given. *)
LEMMA UpsertReplaces ==
  ASSUME TypeOK, NEW rec \in Record, Upsert(rec), NEW i \in DOMAIN blocks'
  PROVE  \/ blocks'[i] = rec
         \/ /\ blocks'[i].hash # rec.hash
            /\ \E j \in DOMAIN blocks : blocks'[i] = blocks[j]
<1>1. CASE \E j \in DOMAIN blocks : blocks[j].hash = rec.hash
  BY <1>1 DEF Upsert
<1>2. CASE ~ \E j \in DOMAIN blocks : blocks[j].hash = rec.hash
  BY <1>2, UpsertKeeps
<1> QED  BY <1>1, <1>2

LEMMA CandidateKeeps ==
  ASSUME IInv, CandidateHasTask, [Next]_vars
  PROVE  CandidateHasTask'
<1>0. TypeOK /\ InHand /\ sub \in [Submission -> Task]
  BY DEF IInv, TypeOK
(* A task goes on with its block, and another one with its own. *)
<1>1. ASSUME UNCHANGED blocks,
             \A s \in Submission :
               sub[s].pc # "idle" => sub'[s].pc # "idle" /\ sub'[s].hash = sub[s].hash
      PROVE  CandidateHasTask'
  BY <1>1 DEF CandidateHasTask
<1>2. ASSUME NEW s \in Submission, NEW h \in Hash, FindBlock(s, h)
      PROVE  CandidateHasTask'
  <2> DEFINE rec == [hash |-> h, status |-> "candidate",
                     reward |-> "pending_submission"]
  <2>1. rec \in Record /\ rec.hash = h
    BY DEF Record, Reward
  <2>2. Upsert(rec)
    BY <1>2 DEF FindBlock
  <2>3. /\ sub'[s].pc # "idle" /\ sub'[s].hash = h
        /\ sub[s].pc = "idle"
        /\ \A x \in Submission \ {s} : sub'[x] = sub[x]
    BY <1>0, <1>2 DEF FindBlock, NewSubmission
  <2> HIDE DEF rec
  <2> SUFFICES ASSUME NEW i \in DOMAIN blocks', blocks'[i].status = "candidate"
               PROVE  \E x \in Submission :
                        sub'[x].pc # "idle" /\ sub'[x].hash = blocks'[i].hash
    BY DEF CandidateHasTask
  <2>4. CASE blocks'[i] = rec
    BY <2>1, <2>3, <2>4
  <2>5. CASE \E j \in DOMAIN blocks : blocks'[i] = blocks[j]
    <3>1. PICK x \in Submission :
            sub[x].pc # "idle" /\ sub[x].hash = blocks'[i].hash
      BY <2>5 DEF CandidateHasTask
    <3> QED  BY <2>3, <3>1
  <2> QED  BY <1>0, <2>1, <2>2, <2>4, <2>5, UpsertReplaces
<1>3. ASSUME NEW s \in Submission, SubmitAnswered(s) \/ SubmitFails(s)
      PROVE  CandidateHasTask'
  <2>1. UNCHANGED blocks
    BY <1>3 DEF SubmitAnswered, SubmitFails
  <2>2. \/ \E verdict : Decide(s, verdict)
        \/ sub' = [sub EXCEPT ![s].attempt = @ + 1]
    BY <1>3 DEF SubmitAnswered, SubmitFails
  <2>3. sub[s] \in Task /\ sub[s].pc = "call"
    BY <1>0, <1>3 DEF SubmitAnswered, SubmitFails
  <2>4. /\ sub'[s].pc # "idle" /\ sub'[s].hash = sub[s].hash
        /\ \A x \in Submission \ {s} : sub'[x] = sub[x]
    BY <1>0, <2>2, <2>3 DEF Decide, Task
  <2> QED  BY <1>1, <2>1, <2>4
<1>4. ASSUME NEW s \in Submission, EnterVerdict(s)
      PROVE  CandidateHasTask'
  <2> DEFINE rec == [hash |-> sub[s].hash, status |-> sub[s].verdict,
                     reward |-> IF sub[s].verdict \in Taken
                                THEN "pending_confirmation" ELSE "unavailable"]
  <2>1. rec \in Record /\ rec.status # "candidate" /\ rec.hash = sub[s].hash
    BY <1>0, <1>4 DEF EnterVerdict, InHand, Task, Record, Reward, Verdict
  <2>2. Upsert(rec)
    BY <1>4 DEF EnterVerdict
  <2>3. \A x \in Submission \ {s} : sub'[x] = sub[x]
    BY <1>0, <1>4 DEF EnterVerdict
  <2> HIDE DEF rec
  <2> SUFFICES ASSUME NEW i \in DOMAIN blocks', blocks'[i].status = "candidate"
               PROVE  \E x \in Submission :
                        sub'[x].pc # "idle" /\ sub'[x].hash = blocks'[i].hash
    BY DEF CandidateHasTask
  <2>4. blocks'[i].hash # rec.hash /\ \E j \in DOMAIN blocks : blocks'[i] = blocks[j]
    BY <1>0, <2>1, <2>2, UpsertReplaces
  <2>5. PICK x \in Submission :
          sub[x].pc # "idle" /\ sub[x].hash = blocks'[i].hash
    BY <2>4 DEF CandidateHasTask
  <2>6. x # s
    BY <2>1, <2>4, <2>5
  <2> QED  BY <2>3, <2>5, <2>6
<1>5. ASSUME NEW h \in Hash, Node(h) PROVE CandidateHasTask'
  BY <1>1, <1>5 DEF Node, NodeConfirms, NodeReorganizes, NodeReturns
<1>6. CASE Monitor
  <2>1. CASE MonitorApply
    <3>1. /\ UNCHANGED sub
          /\ DOMAIN blocks' = DOMAIN blocks
          /\ \A i \in DOMAIN blocks :
               blocks'[i].hash = blocks[i].hash /\ blocks'[i].status = blocks[i].status
      <4>1. \A i \in DOMAIN blocks : blocks[i] \in Record
        BY <1>0 DEF TypeOK
      <4> QED  BY <2>1, <4>1 DEF MonitorApply, Record
    <3> QED  BY <3>1 DEF CandidateHasTask
  <2>2. CASE MonitorRound \/ \E h \in todo : MonitorAsk(h) \/ MonitorSkip(h)
    BY <1>1, <2>2 DEF MonitorRound, MonitorAsk, MonitorSkip
  <2> QED  BY <1>6, <2>1, <2>2 DEF Monitor
<1>7. CASE UNCHANGED vars
  BY <1>1, <1>7 DEF vars
<1> QED
  BY <1>2, <1>3, <1>4, <1>5, <1>6, <1>7 DEF Next, Submit

(* No record is left a candidate without a task to enter its verdict, for  *)
(* any number of tasks, attempts and repeated submissions: what is left to *)
(* show that every candidate gets a verdict is that tasks end.             *)
THEOREM CandidatesAreUnderWay == Spec => []CandidateHasTask
<1>1. Init => CandidateHasTask
  BY DEF Init, CandidateHasTask
<1>2. IInv /\ CandidateHasTask /\ [Next]_vars => CandidateHasTask'
  BY CandidateKeeps
<1> QED  BY <1>1, <1>2, InductiveInvariant, PTL DEF Spec

=============================================================================
