---------------------------- MODULE TemplateFeed ----------------------------
(***************************************************************************)
(* What TemplateEngine promises to the Stratum V1 and V2 sessions.  A      *)
(* session sees the engine through two windows: current_job(), which reads *)
(* the RwLock "current", and the tokio watch channel, whose value is set   *)
(* in a second step of publish_job.  The promise: the store only moves to  *)
(* a new job, with a larger id, at a height that is not lower and with a   *)
(* template key that differs; a fast job always raises the height, and at  *)
(* one height the parent block changes only when the node's template       *)
(* overrules a fast job; and the stream trails the store by at most one    *)
(* job.                                                                    *)
(***************************************************************************)
EXTENDS Naturals

CONSTANTS
  Block,      \* the blocks of the chain, as hashes
  NoBlock,    \* the hash an empty template carries
  Height,     \* the height of every block
  ForbidsOld  \* the generations whose templates carry submitold = false

ASSUME FeedAssumption ==
  /\ NoBlock \notin Block
  /\ Height \in [Block -> Nat]
  /\ ForbidsOld \subseteq Nat

VARIABLES
  store,      \* what current_job() returns
  stream      \* what a watch receiver borrows

feedVars == <<store, stream>>

(* A JobTemplate.  "gen" stands for the transaction list, fees and         *)
(* witness commitment the node chose; a fast job has none.                 *)
Job == [id: Nat, kind: {"empty", "gbt", "fast"},
        prev: Block \cup {NoBlock}, height: Nat, gen: Nat]

EmptyJob ==
  [id |-> 0, kind |-> "empty", prev |-> NoBlock, height |-> 0, gen |-> 0]

Ready(job) == job.kind # "empty"

(* Sessions drop the miner's work when the template forbids old work: a    *)
(* fast job always does, one of the node's where its submitold is false.   *)
SubmitOld(job) == job.kind # "fast" /\ job.gen \notin ForbidsOld

(* template_key: two templates with the same key are the same work. *)
Key(job) == <<job.kind, job.prev, job.gen>>

JobOf(kind, prev, gen, id) ==
  [id |-> id, kind |-> kind, prev |-> prev,
   height |-> Height[prev] + 1, gen |-> gen]

FeedInit == store = EmptyJob /\ stream = EmptyJob

Publish ==
  /\ stream = store
  /\ store' \in Job
  /\ Ready(store')
  /\ store'.prev \in Block
  /\ store'.height = Height[store'.prev] + 1
  /\ store'.id > store.id
  /\ store'.height >= store.height
  /\ Key(store') # Key(store)
  /\ store'.kind = "fast" => store'.height > store.height
  /\ store'.height = store.height =>
       store'.prev = store.prev \/ store.kind = "fast"
  /\ UNCHANGED stream

Deliver ==
  /\ stream # store
  /\ stream' = store
  /\ UNCHANGED store

FeedNext == Publish \/ Deliver

FeedSpec == FeedInit /\ [][FeedNext]_feedVars

FairFeedSpec == FeedSpec /\ WF_feedVars(Deliver)

=============================================================================
