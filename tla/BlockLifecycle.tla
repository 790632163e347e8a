--------------------------- MODULE BlockLifecycle ---------------------------
(***************************************************************************)
(* What becomes of a solved block: a session enters it in the history of   *)
(* blocks (upsert_block of src/src/metrics.rs) and spawns a task that      *)
(* submits it with retries (submit_block of src/src/template.rs) and       *)
(* enters the verdict; the block monitor (src/src/block_monitor.rs) polls  *)
(* the node for the blocks the node has taken and keeps their reward up to *)
(* date.  The history is bounded, every access to it is one hold of its    *)
(* lock, and it is written between the monitor's question and the answer.  *)
(*                                                                         *)
(* "confirmations" and "in_active_chain" of a record are set together with *)
(* reward_status and say no more than it does, but for the exact number.   *)
(* The V1 and the SV2 sessions do the same (stratum.rs lines 1097-1178,    *)
(* sv2/connection.rs lines 834-913).                                       *)
(***************************************************************************)
EXTENDS Integers, Sequences

CONSTANTS
  Hash,          \* the hashes of solved blocks
  NoHash,        \* no hash
  Submission,    \* slots for submission tasks
  Attempts,      \* calls of submitblock per task: 5
  Maturity,      \* COINBASE_MATURITY_CONFIRMATIONS: 100
  MaxBlocks,     \* max_block_history
  MaxFinds,      \* bound: solved blocks, the same one again included
  MaxFaults,     \* bound: calls that fail or whose answer is lost
  MaxReorgs      \* bound: blocks the node drops from its active chain

ASSUME LifecycleAssumption ==
  /\ NoHash \notin Hash
  /\ {Attempts, Maturity, MaxBlocks} \subseteq Nat \ {0}
  /\ {MaxFinds, MaxFaults, MaxReorgs} \subseteq Nat

VARIABLES
  node,      \* external: what the node makes of each block
  depth,     \* external: confirmations of a block in the active chain
  blocks,    \* the history: MetricsState.blocks
  sub,       \* the submission tasks
  todo,      \* hashes the monitor has yet to ask about in this round
  answer,    \* what the node has told it about one, not yet entered
  finds, faults, reorgs    \* so far, for the bounds

nodeVars == <<node, depth>>
monitorVars == <<todo, answer>>
vars == <<node, depth, blocks, sub, todo, answer, finds, faults, reorgs>>

-----------------------------------------------------------------------------
(* Slips of the code that the runs must notice.  None is part of the model. *)

(* The error of the last attempt is forgotten: Submitted is returned. *)
LastWordForgetful(n) == IF n < Attempts THEN "retry" ELSE "submitted"

(* Only blocks answered with null are polled. *)
ForConfirmationNoDuplicates(rec) == rec.status = "submitted"

(* A record that is there already is left as it is. *)
UpsertOnce(rec) ==
  blocks' = IF \E i \in DOMAIN blocks : blocks[i].hash = rec.hash
            THEN blocks
            ELSE LET longer == Append(blocks, rec)
                 IN  IF Len(longer) > MaxBlocks THEN Tail(longer) ELSE longer

(* A verdict for a block already in the history is appended as well. *)
UpsertAppending(rec) ==
  blocks' = LET longer == Append(blocks, rec)
            IN  IF Len(longer) > MaxBlocks THEN Tail(longer) ELSE longer

-----------------------------------------------------------------------------
(* Types and small definitions                                             *)

Verdict == {"submitted", "duplicate", "rejected", "submit_failed"}
Taken == {"submitted", "duplicate"}
Reward == {"pending_submission", "unavailable", "pending_confirmation",
           "confirming", "matured", "orphaned"}
Record == [hash: Hash, status: Verdict \cup {"candidate"}, reward: Reward]

Answer == [hash: Hash \cup {NoHash}, confirmations: -1..Maturity]
NoAnswer == [hash |-> NoHash, confirmations |-> 0]
Task == [pc: {"idle", "call", "enter"}, hash: Hash \cup {NoHash},
         attempt: 0..Attempts, verdict: Verdict]
NoSubmission == [pc |-> "idle", hash |-> NoHash, attempt |-> 0,
                 verdict |-> "submit_failed"]
NewSubmission(h) == [pc |-> "call", hash |-> h, attempt |-> 1,
                     verdict |-> "submit_failed"]

(* Positive for the active chain, -1 for a block that left it. *)
Confirmations(h) == IF node[h] = "active" THEN depth[h] ELSE -1
HasBlock(h) == node[h] \in {"active", "stale"}

(* update_block_chain_state: the reward after an answer of the node. *)
RewardFor(confirmations) ==
  IF confirmations < 0 THEN "orphaned"
  ELSE IF confirmations >= Maturity THEN "matured"
  ELSE IF confirmations > 0 THEN "confirming"
  ELSE "pending_confirmation"

TypeOK ==
  /\ node \in [Hash -> {"unknown", "refused", "active", "stale"}]
  /\ depth \in [Hash -> 0..Maturity]
  /\ blocks \in Seq(Record)
  /\ Len(blocks) <= MaxBlocks
  /\ \A i, j \in DOMAIN blocks : blocks[i].hash = blocks[j].hash => i = j
  /\ sub \in [Submission -> Task]
  /\ todo \subseteq Hash
  /\ answer \in Answer
  /\ {finds, faults, reorgs} \subseteq Nat

Init ==
  /\ node = [h \in Hash |-> "unknown"]
  /\ depth = [h \in Hash |-> 0]
  /\ blocks = <<>>
  /\ sub = [s \in Submission |-> NoSubmission]
  /\ todo = {}
  /\ answer = NoAnswer
  /\ finds = 0
  /\ faults = 0
  /\ reorgs = 0

-----------------------------------------------------------------------------
(* upsert_block: replace the record of the hash, or append one and drop    *)
(* the oldest                                                              *)

Upsert(rec) ==
  blocks' = IF \E i \in DOMAIN blocks : blocks[i].hash = rec.hash
            THEN [i \in DOMAIN blocks |->
                    IF blocks[i].hash = rec.hash THEN rec ELSE blocks[i]]
            ELSE LET longer == Append(blocks, rec)
                 IN  IF Len(longer) > MaxBlocks THEN Tail(longer) ELSE longer

-----------------------------------------------------------------------------
(* A session solves a block and a task submits it                          *)

(* The same block may be solved again: a job pushed again under another    *)
(* difficulty is the same work under another id.                           *)
FindBlock(s, h) ==
  /\ sub[s].pc = "idle"
  /\ finds < MaxFinds
  /\ finds' = finds + 1
  /\ Upsert([hash |-> h, status |-> "candidate",
             reward |-> "pending_submission"])
  /\ sub' = [sub EXCEPT ![s] = NewSubmission(h)]
  /\ UNCHANGED <<nodeVars, monitorVars, faults, reorgs>>

(* The node's answer: null, "duplicate", or a reason of refusal. *)
NodeTakes(h) ==
  /\ ~HasBlock(h)
  /\ node' = [node EXCEPT ![h] = "active"]
  /\ depth' = [depth EXCEPT ![h] = 1]

NodeRefuses(h) ==
  /\ ~HasBlock(h)
  /\ node' = [node EXCEPT ![h] = "refused"]
  /\ UNCHANGED depth

NodeHasIt(h) ==
  /\ HasBlock(h)
  /\ UNCHANGED nodeVars

Decide(s, verdict) ==
  sub' = [sub EXCEPT ![s].pc = "enter", ![s].verdict = verdict]

SubmitAnswered(s) ==
  /\ sub[s].pc = "call"
  /\ \/ NodeTakes(sub[s].hash) /\ Decide(s, "submitted")
     \/ NodeHasIt(sub[s].hash) /\ Decide(s, "duplicate")
     \/ NodeRefuses(sub[s].hash) /\ Decide(s, "rejected")
  /\ UNCHANGED <<blocks, monitorVars, finds, faults, reorgs>>

(* What the loop of submit_block makes of an error of the n-th attempt. *)
AfterError(n) == IF n < Attempts THEN "retry" ELSE "submit_failed"

(* The call fails: it never reaches the node, or only the answer is lost.  *)
(* After a pause the next attempt is made, and the last one is final.      *)
SubmitFails(s) ==
  /\ sub[s].pc = "call"
  /\ faults < MaxFaults
  /\ faults' = faults + 1
  /\ \/ UNCHANGED nodeVars
     \/ NodeTakes(sub[s].hash)
     \/ NodeRefuses(sub[s].hash)
  /\ LET next == AfterError(sub[s].attempt)
     IN  IF next = "retry"
         THEN sub' = [sub EXCEPT ![s].attempt = @ + 1]
         ELSE Decide(s, next)
  /\ UNCHANGED <<blocks, monitorVars, finds, reorgs>>

EnterVerdict(s) ==
  /\ sub[s].pc = "enter"
  /\ Upsert([hash |-> sub[s].hash, status |-> sub[s].verdict,
             reward |-> IF sub[s].verdict \in Taken
                        THEN "pending_confirmation" ELSE "unavailable"])
  /\ sub' = [sub EXCEPT ![s] = NoSubmission]
  /\ UNCHANGED <<nodeVars, monitorVars, finds, faults, reorgs>>

-----------------------------------------------------------------------------
(* The node goes on (external)                                             *)

NodeConfirms(h) ==
  /\ node[h] = "active"
  /\ depth[h] < Maturity
  /\ depth' = [depth EXCEPT ![h] = @ + 1]
  /\ UNCHANGED <<node, blocks, sub, monitorVars, finds, faults, reorgs>>

NodeReorganizes(h) ==
  /\ node[h] = "active"
  /\ reorgs < MaxReorgs
  /\ reorgs' = reorgs + 1
  /\ node' = [node EXCEPT ![h] = "stale"]
  /\ UNCHANGED <<depth, blocks, sub, monitorVars, finds, faults>>

NodeReturns(h) ==
  /\ node[h] = "stale"
  /\ node' = [node EXCEPT ![h] = "active"]
  /\ depth' = [depth EXCEPT ![h] = 1]
  /\ UNCHANGED <<blocks, sub, monitorVars, finds, faults, reorgs>>

-----------------------------------------------------------------------------
(* BlockMonitor::refresh: list the blocks, then ask about one at a time    *)
(* (in the order of the history, which nothing depends on)                 *)

(* blocks_for_confirmation *)
ForConfirmation(rec) == rec.status \in Taken

MonitorRound ==
  /\ todo = {} /\ answer = NoAnswer
  /\ todo' = {blocks[i].hash :
                i \in {i \in DOMAIN blocks : ForConfirmation(blocks[i])}}
  /\ todo' # {}
  /\ UNCHANGED <<nodeVars, blocks, sub, answer, finds, faults, reorgs>>

MonitorAsk(h) ==
  /\ answer = NoAnswer
  /\ HasBlock(h)
  /\ todo' = todo \ {h}
  /\ answer' = [hash |-> h, confirmations |-> Confirmations(h)]
  /\ UNCHANGED <<nodeVars, blocks, sub, finds, faults, reorgs>>

(* The call fails, or the node does not know the block: on to the next. *)
MonitorSkip(h) ==
  /\ answer = NoAnswer
  /\ \/ faults < MaxFaults /\ faults' = faults + 1
     \/ ~HasBlock(h) /\ UNCHANGED faults
  /\ todo' = todo \ {h}
  /\ UNCHANGED <<nodeVars, blocks, sub, answer, finds, reorgs>>

(* update_block_chain_state, whatever the record has become meanwhile. *)
MonitorApply ==
  /\ answer # NoAnswer
  /\ blocks' = [i \in DOMAIN blocks |->
                  IF blocks[i].hash = answer.hash
                  THEN [blocks[i] EXCEPT !.reward =
                          RewardFor(answer.confirmations)]
                  ELSE blocks[i]]
  /\ answer' = NoAnswer
  /\ UNCHANGED <<nodeVars, sub, todo, finds, faults, reorgs>>

-----------------------------------------------------------------------------

Submit(s) == SubmitAnswered(s) \/ SubmitFails(s) \/ EnterVerdict(s)

Monitor ==
  \/ MonitorRound
  \/ \E h \in todo : MonitorAsk(h) \/ MonitorSkip(h)
  \/ MonitorApply

Node(h) == NodeConfirms(h) \/ NodeReorganizes(h) \/ NodeReturns(h)

Next ==
  \/ \E s \in Submission, h \in Hash : FindBlock(s, h)
  \/ \E s \in Submission : Submit(s)
  \/ \E h \in Hash : Node(h)
  \/ Monitor

Spec == Init /\ [][Next]_vars

(* Tasks run, the node answers, and the monitor's interval keeps ticking. *)
Fairness ==
  /\ \A s \in Submission : WF_vars(Submit(s))
  /\ WF_vars(Monitor)

FairSpec == Spec /\ Fairness

-----------------------------------------------------------------------------
(* Properties                                                              *)

(* "submitted" and "duplicate" (README.md:47) are said only of a block     *)
(* the node has: no path through the retries of submit_block (lines        *)
(* 407-469), with lost answers and a second submission of the same block,  *)
(* takes a failed call for a success.                                      *)
TakenIsKnown ==
  \A i \in DOMAIN blocks :
    blocks[i].status \in Taken => HasBlock(blocks[i].hash)

(* A record says "candidate" only while a task of its block is on the way  *)
(* to a verdict: none is left behind by a second submission of the block   *)
(* that ends first, nor is one entered again after the last verdict.       *)
CandidateHasTask ==
  \A i \in DOMAIN blocks :
    blocks[i].status = "candidate" =>
      \E s \in Submission : sub[s].pc # "idle" /\ sub[s].hash = blocks[i].hash

(* Every solved block still in the history gets its verdict: the record    *)
(* does not stay a candidate, however the submissions of the same block    *)
(* interleave (the verdicts of README.md:47).                               *)
VerdictIsReached ==
  <>[](\A i \in DOMAIN blocks : blocks[i].status # "candidate")

(* Once the node is quiet, the reward of every block it has taken is what  *)
(* the chain says (README.md:48), through lost calls, answers that were    *)
(* out of date when applied and records that were overwritten meanwhile.   *)
RewardSettles ==
  <>[](\A i \in DOMAIN blocks :
         blocks[i].status \in Taken =>
           blocks[i].reward = RewardFor(Confirmations(blocks[i].hash)))

=============================================================================
