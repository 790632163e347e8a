# StratumBee in TLA+

StratumBee is a solo-mining server: it takes block templates from one Bitcoin
Core node, hands them to miners over Stratum V1 and SV2, validates their shares
and submits solved blocks. This directory models the parts of it that run
concurrently, checks them with TLC on small instances and proves their safety
with TLAPS for every instance. Source lines are those of `src/src/*.rs`;
`PROJECT.json` maps each definition to the lines it models.

## The system

| Component | State | Operations | Works with |
| --- | --- | --- | --- |
| Template engine, `template.rs` | `current`, the watch channel, `chain_tip`, `last_template_key`, `last_longpollid`, the one-permit semaphore, the pending slot, the ZMQ debounce | `start`, `refresh_template`, `apply_gbt_response`, `longpoll_loop`, `zmq_block_loop`, `handle_fast_block_announcement`, `submit_block` | node (RPC, ZMQ), P2P client, sessions |
| P2P fast peer, `p2p.rs` | handshake flags of one connection | `inv`, `headers`, `cmpctblock`, `ping` | template engine |
| Stratum V1 session, `stratum.rs` | `SessionState` behind a mutex: jobs, ids, difficulty, version mask, hashes of shares, bootstrap flags, token bucket | reader task (`authorize`, `suggest_difficulty`, `configure`, `submit`, ...), notify task, vardiff task, writer task | template engine, share validation, metrics |
| SV2 connection, `sv2/connection.rs` | channels with jobs and targets, ids, hashes of shares | setup, open channel, submit, template, vardiff tick, in one task | template engine, metrics |
| SV2 transport, `sv2/transport.rs` | connection permits, per address and in total | accept, handshake with timeout, frames | SV2 connection |
| Block history, `metrics.rs` | bounded list of solved blocks | `upsert_block`, `blocks_for_confirmation`, `update_block_chain_state` | sessions, block monitor, API |
| Block monitor, `block_monitor.rs` | none but its round | `refresh` every 15 s | node, block history |
| Counters and miners, `metrics.rs`; latency registry, `stratum.rs` | counters, maps of miners and handles | recording, pruning, sampling | sessions, API |
| Algorithms: `share.rs`, `vardiff.rs`, `hash.rs`, `bitcoin_encoding.rs`, parts of `template.rs` | none, or a window of shares | validation, retarget, merkle branches, compact targets, script numbers | sessions, engine |
| `rpc.rs`, `api.rs`, `config.rs`, `main.rs`, `sv2/keys.rs` | configuration | HTTP calls, read-only views, parsing, start order, key file | all |

What is hard in it:

* Five kinds of task publish or read templates. Publication is two steps
  (`current`, then the watch channel), and sessions read both.
* A refresh that finds the semaphore taken drops its answer and leaves only a
  flag; ZMQ messages are debounced or lost; calls fail; the longpoll times out.
* The fast path publishes a job for a block the node has not accepted.
* In a session a job is pushed under the mutex, sent after releasing it, and
  noted in another hold of it, by three tasks at once.
* A block submission is retried after lost answers, the same block may be
  solved twice, and the monitor's answers come back to records that changed.
* An SV2 channel opens on `current_job()` while the watch channel may still hold
  the template before; a difficulty changes what future jobs are judged at but
  not the active ones; every handler returns at the first failed write.
* SV2 connections hold permits while they wait for another, and leave in five
  ways; their reader task outlives them.

What makes each right: the engine publishes one template at a time, never goes
back in height, and ends up on the node's template; a session checks a share
against the job the miner had, counts each solution of a job once, decides on a
solved block by a flag that is right when it is read and brings the miner to the
newest job; a block's record tells what the node said, and in
the end what the chain says; both ends of an SV2 channel agree on the target and
the block of every live job, and each solution of a job counts once; connections
stay within their limits and give every permit back.

## Modules

| Module | Models | Grain |
| --- | --- | --- |
| `TemplateFeed` | what the engine promises to sessions: a store and a stream of jobs | abstract specification |
| `TemplateEngine` | `template.rs`: the fetching tasks, the permit, the fast path, publication; the announcements of `p2p.rs` | every `await` another task can slip into is a step |
| `StratumSession` | one V1 session, on top of `TemplateFeed` | one hold of the mutex or one send is a step |
| `BlockLifecycle` | `submit_block`, `upsert_block`, the block monitor, for V1 and SV2 | one call, or one hold of the lock, is a step |
| `Sv2Connection` | one SV2 connection, on top of `TemplateFeed`, and the miner's side of its protocol | a handler is a step, as one task owns the state |
| `Sv2Admission` | `sv2/transport.rs`: the accept loop, the connection tasks, their permits and counters | what a task does between two places where another may come in |
| `MCTemplateEngine`, `MCStratumSession`, `MCBlockLifecycle`, `MCSv2Connection`, `MCSv2Admission` | constants for TLC | |
| `TemplateEngineProofs`, `StratumSessionProofs`, `StratumShareProofs` (on top of it), `BlockLifecycleProofs`, `Sv2ConnectionProofs`, `Sv2AdmissionProofs` | theorems | |

**TemplateEngine.** `pc[t]` says where each fetching task is: the longpoll task
(which also runs `start`) or a slot of `RefreshTask`, for a refresh spawned by
ZMQ or by the fast path. `RpcReply` takes the node's template,
`Acquire`/`Refused` are `try_acquire_owned`, and the holder then takes one of
`SkipStale`, `RefuseRules`, `SkipDuplicate`, `BuildFails`, `PublishGbt`, in the
order of the code's returns. Only the holder writes those variables, which is
why the decision is one step; the send (`SendGbt`, `FastSend`) is another,
because sessions read `current` and the channel without the permit.
`TakePending` is the look at the pending slot. A template is its parent block and
a generation, which stands for the transactions, and names the longpollid too.
The P2P client is `Announce` (one message, the height estimated from the current
job), `AnnounceNext` (the next header of it) and the `Fast...` actions. A fast
job may be published at heights in `FastHeight`; the code publishes none off
mainnet or at a multiple of 2016.

**StratumSession.** `EnginePublish` and `EngineDeliver` are the feed of
`TemplateFeed`; `TemplateEngine` is checked and proved to implement it, so the
session is right for the real engine too. `out[t]` is what a task has pushed and
still has to send and to note; `SendDifficulty`, `SendNotify` and
`NoteNotifySent` carry it out one step at a time, and a task takes nothing new
before it is done. `miner` is what the miner has been sent last. `reader` holds
what the reader found in one hold of the mutex and uses in a later one, with
`stale` for the shared `is_stale_block`. `SubmitValidate` reads that flag
(line 1098) and `SubmitHandOver` gives the candidate to the node (line 1138): the
reader awaits `upsert_block` between them and holds no lock, so the notify task may
push a clean job there and the candidate of a dropped job still goes to the node.
The model has that window and no property denies it; nor does a document of the
repository. `ForbidsOld` are the generations whose templates carry
`submitold = false` (`template.rs:849`) and are clean on an unchanged block.
`main.rs` starts the sessions after the
engine's first publication (lines 85-108), so a template is ready from the start
and the branches for one that is not cannot be taken; among them is the notify
task's own bootstrap.

**BlockLifecycle.** `sub` are the spawned submissions, `blocks` the history,
`todo` and `answer` the monitor's round. `confirmations` and `in_active_chain`
follow from `reward_status` but for the exact number. The monitor takes the
hashes of a round in any order, which nothing depends on. Blocks gain
confirmations independently of each other.

**Sv2Connection.** `phase` is "setup" until the first frame, "borrow" between
`changed()` and `borrow()` (the feed may move in between) and "idle" where
`tokio::select!` waits. `channels` are the code's, with a job's target given by its
difficulty and `follows` for `updates_with_channel_target`. `miner` is what the
other end knows once the messages written so far have arrived: `SetTarget`,
`NewExtendedMiningJob` and `SetNewPrevHash` are applied by the rules of the
protocol, so it is the yardstick for the server's own book-keeping. `JobIds`
visits the channels in any order and `Prunable` lets any job but the new one go,
as the hash map's order and a wall clock in milliseconds decide both. A handler
whose write fails ends the connection (`ConnectionEnds`); the two places in
`handle_submit_extended` where that leaves something behind are `SubmitAnswerFails`
and `SubmitRetargetFails`. `VersionBit` has one bit a miner may roll and one it may
not. A `Share` is what `build_dup_key` tells apart, the job id included: a retarget
sends the channel its template again under a new id (line 745), and the same header
is then a new share, in the model as in the code and in `README.md:209`. A block
that is handed over goes on in `BlockLifecycle`.

**Sv2Admission.** `inHand` is the connection the accept loop is working on, `pc`
where each connection stands; `counts` are the entries of `IpConnectionLimiter`
and `queue` the waiters of the fair handshake semaphore. A task ends in three
steps, in the order the code counts and drops: counters, address permit,
connection permit. `lingering` are the connections that are over while their
reader task still holds half of the socket: permits count connections, not
sockets.

Operators under "Slips of the code" in the modules are plausible mistakes that no
specification uses: each property is confirmed to fail once one of them replaces
the definition it imitates.

## Runs

| Run | Question | Result |
| --- | --- | --- |
| `engine_safety` | one holder of the permit, the copies of the template agree, the engine refines the feed, a fast job is published only on top of the current one | holds, 1.0 million states |
| `engine_live` | sessions end up on the node's template; the pending slot empties once that template can be built | holds, 745 thousand states |
| `engine_refused` | is a fast job always replaced by a template of the node? | violated, see below |
| `session_shares` | no share of one job id counted twice; the flag that decides on a solved block is right when it is read | holds, 2.9 million states |
| `session_follow` | ids differ, live jobs build on one block, the miner has the newest job whenever no message is on its way, and comes to rest on the newest block | holds, 56 thousand states |
| `session_oldwork` | the same with the vardiff task at work | violated, see below |
| `session_assert` | the debug assertion of `handle_submit` | violated, see below |
| `block_history` | one record per hash, a bounded history, "submitted" and "duplicate" only of blocks the node has, a task behind each candidate | holds, 0.7 million states |
| `block_reward` | each record gets its verdict, each taken block its reward | holds |
| `sv2_session` | both ends agree on targets and blocks, solutions of one job id count once, a job id keeps its template, channels come to rest on the newest template | holds, 1.2 million states |
| `sv2_lostblock` | is a solved block always submitted? | violated, see below |
| `sv2_admission` | limits, permits, counters, handshakes, everything given back | holds, 62 thousand states |

**Bounds and why they suffice.**
Engine: four blocks hold a fork (same height, other parent) and a branch two
longer, the cases the height comparisons tell apart; one refresh slot besides
the longpoll and P2P tasks gives three contenders for one permit; one failed
call and two mempool generations let each repair be needed once. `engine_safety`
has one undelivered ZMQ message and two announcements, templates of the later
generation that cannot be built and a block with unknown rules. `engine_live` has
a chain of three blocks, so that the node advances twice and two ZMQ messages may
be out, the second of which is debounced; the first template on the middle block
cannot be built; one announcement; the fork is left to `engine_safety` and
`engine_refused`. What repairs a dropped message is the refresh of the longpoll's
timeout (line 531): without fairness for it TLC finds `FollowsNode` violated.
`PendingIsTaken` has a condition, as a node that stays on a template that cannot be
built makes every refresh return its error before it looks at the slot.
Heights start at 1, as the program takes height 0 for no template.
Session: `JobLimit`, `DupLimit` and `MaxId` are the code's 32, 4096 and
2^32 - 1, scaled to 2-3, 1-2 and 3-9, so that queues overflow, hashes are evicted
and (`session_follow`) ids wrap. `session_shares` has two difficulties, two
retargets from any source, two authorizations, three shares and one narrowed
mask, and no token for updates, so that every template is clean or dropped;
`session_follow` has six templates on three blocks and a token, later generations
that forbid old work, and no retarget, as `session_oldwork` shows what one does.
The other runs have no such templates (`ForbidsOld = {}`), as they add too many
states: a clean job on an unchanged block is met there when a session or channel
starts on a fast job that the watch channel then hands over once more. The theorems
hold for every `ForbidsOld`.
Blocks: 2 of the 5 attempts, 2 of the 100 confirmations, a history of 1 or 2 for
the configured 8 or more, three solved blocks with repetition, two failed or
lost calls, one reorganisation. `block_history` uses symmetry in blocks and
submission tasks, which is sound there as it checks no liveness.

SV2 connection: two channels, so that ids interleave and one can close while the
other lives; three templates on two blocks, so that a channel can open on one and
then get the one before it; one change of difficulty (of a job that follows and of
one that does not, as a tick or after a share); `JobLimit` 2 and `ShareLimit` 1 for
32 and 4096, so that jobs are pruned and a hash is forgotten; two shares. Channel
and job ids wrap only after 2^32 - 1, which the model leaves out.
SV2 admission: three connections of one address and one of another, each of which
comes once; limits of three, two and one, so that each is reached while the
others are not, and one connection waits for another's handshake.

Runs without deadlock checking are those in which everything may come to rest
because the requests are bounded: every run but `engine_safety`,
`engine_live` and `engine_refused`.

**Fairness.** All of it is weak and on what the Tokio runtime or the node does:
a task that can go on does; an RPC call is answered or fails (the longpoll by
its timeout of 120 s at the latest); the writer drains the channel; the
monitor's interval ticks. An SV2 connection's `select!` takes a ready branch at
random, so a template is not passed over for ever. A handshake ends, by
`sv2_handshake_timeout_secs` while the peer is silent (the write of the second
message has no timeout, but fits the buffer of a new socket), and a reader ends by
`sv2_idle_timeout_secs`; Tokio's semaphore serves its waiters in order. `NodeCatchesUp` says that a node behind a block its
peer announced learns of it or of another at that height, unless it refuses all.
No fairness is assumed of miners, peers, the end of a connection that is served, ZMQ, the mempool, announcements or the fast
path's being taken, nor for failed calls, which are bounded instead.
`MinerFollowsTip`, `FollowsNode` and `RewardSettles` are of the form "in the
end, for ever": they speak of the quiet after the bounded disturbances.

## Where the code and its documents differ

* `engine_refused`: `README.md:45` of the repository says that the final
  transactions come from the node's next template. If the node refuses the
  announced block, each of its templates is a block lower than the fast job, and
  `is_gbt_older_than_current` (`template.rs:658`) skips it.
* `session_oldwork`: the vardiff task sends a job of the old block after the
  notify task has sent the clean one (`stratum.rs:408`), against the early clean
  job of `README.md:44`. The session no longer takes shares for that job.
* `session_assert`: `debug_assert_eq!` at `stratum.rs:974` fails when
  `mining.configure` comes between a job and its share.
* `sv2_lostblock`: `handle_submit_extended` writes `SubmitSharesSuccess`
  (`sv2/connection.rs:651`) and a retarget (line 685) with `?` before it submits the
  block the share solved (line 690). When the write fails the block is dropped,
  against `README.md:47` and `README.md:208`; the V1 session ignores that the
  answer could not be sent and submits.

## Proofs

The theorems hold for every value of the constants that satisfies the named
assumptions (`EngineAssumption`, `FeedAssumption`, `SessionAssumption`,
`LifecycleAssumption`, `Sv2Assumption`, `AdmissionAssumption`), the bounds of the runs included. The assumptions say that the
sentinels differ from the values, that a block's height is its parent's plus one,
and that a session has at least as many ids as it remembers jobs.

* **Engine** (`TemplateEngineProofs`). `TypeOK`, `OneHolder` and `CopiesAgree`
  are inductive together: only with `OneHolder` does no second task write between
  a publication and its send, which is what keeps `CopiesAgree`, and only with
  `CopiesAgree` can a step compare a new template with the old one's key, height
  and block. `EngineImplementsFeed` uses that invariant: `PublishGbt` and
  `FastPublish` are `Publish`, the sends are `Deliver`, all else stutters.
  `FastJobsExtendCurrent` is where `CopiesAgree` pays: `handle_fast_block_announcement`
  compares the announced block with `chain_tip` only, and the theorem says that
  the *current job* is the one it extends.
* **Session** (`StratumSessionProofs`). `JobIdsDistinct` is not inductive: two ids
  could be equal after a wrap. `RecentIds` says which ids the queue holds, the ones
  just before `nextId` in cyclic order; at most `JobLimit <= MaxId` of
  those are distinct. `ShareInHand` says that the reader has a share while it
  handles one; the types of what a share leaves behind rest on it.
* **Shares of a session** (`StratumShareProofs`). Each theorem here has a condition
  on the behaviour, and TLC finds a counterexample on a small instance once it is
  dropped. `StaleCheckIsRight` and `NoReplay` are proved as long as the id counter has
  not come to 2^32 - 1 (`NoIdComesRound`): after that a new job may have the id of
  an old share. `JobInHand` says of the job a share was looked up for that it is
  remembered, or known to be stale, or pushed out by more than `JobLimit` others;
  it needs `IdsAscend`, that the remembered jobs carry the last ids, and
  `OlderThanLive`, that a stale job is older than all that are remembered. The
  theorem is about the moment of the check: of the await between it and the
  hand-over nothing is claimed.
  `NoReplay` spans the authorizations that clear the hashes: `ForgottenAreDead` says
  that a hash forgotten early is for a job whose id is below every id a share can
  still name. `JobsOnOneTip` and `MinerHasNewest` are proved
  for a session authorized once and not retargeted (`OneAuthorization`), which every
  session is until its difficulty changes or it authorizes again: `TipInv` splits its life into the time before
  the first job, the sending of it, and the rest, in which only the notify task
  pushes jobs and all build on the block of the last note or of the one to come.
  `MinerInv` adds that a job still to be sent is the newest. With a retarget or a
  second authorization both fail for a moment, as the order of pushes is then
  not the order of sends (`session_oldwork` shows the lasting case).
* **Blocks** (`BlockLifecycleProofs`). `TakenIsKnown` needs `InHand`: a task that is
  about to enter "submitted" or "duplicate" holds a block the node has, and nothing
  makes the node forget one; `AnswerInHand` says the same of the monitor's answer.
  `CandidateHasTask` is inductive on top of the types: a task that leaves replaces the record of its
  hash, and there is one record of a hash (`UpsertReplaces`).
* **SV2 connection** (`Sv2ConnectionProofs`). `TargetsAgree` and `OneTip` are read
  off `Match`, which pairs the two ends of a channel job by job and also says that
  they agree on `follows`, that is on what the next `SetTarget` will do to the job.
  A lemma for each operation (a job that is not clean, a clean one, `SetTarget`)
  shows that it keeps the match together with the messages written for it, and the
  actions are such operations on some of the channels; that a job which is not
  clean has the parent of the current one comes from `ShouldClean`. `NoShareTwice`, which
  like its V1 counterpart speaks of solutions of one job id, needs
  `Memory`: what is remembered is the end of what was recorded. `JobIdsKeepTheirWork`
  is an action property: a push takes jobs away or adds one under an id not drawn
  before (`PushLeavesOthers`, `DrawnIdsAreNew`), and a `SetTarget` leaves templates alone.
* **SV2 admission** (`Sv2AdmissionProofs`). The counts of permits and the counters
  of the metrics are sizes of sets of connections (`Balance`, `Counters`); moving
  one connection changes the size of each set by at most one (`MoveCounts`,
  `MoveSizes`). The limits follow from the guards on those counts. That a moved
  connection was where the code takes it to be needs `InHandIsAdmitting` and
  `QueueIsWaiting`.

Only model-checked: all liveness (`FollowsNode`, `PendingIsTaken`,
`MinerFollowsTip`, `VerdictIsReached`, `RewardSettles`, `ChannelsFollowEngine`,
`HandshakesHappen`, `Drains`), which is out of the prover's reach. Every invariant
and every action property that a passing run checks is stated by a theorem. Where
a theorem has a condition the run goes no further: `session_shares`
lets no id come round, `session_follow` authorizes once and does not retarget.

## Not modelled

* Of the engine: the arithmetic of `build_job`, `note_gbt_success` (health only).
* Of a V1 session: `set_version_mask` messages, stale reasons, metrics, closing,
  malformed requests (answered without effect), a full channel (a send that waits is
  an interleaving the model has). Every template requires the same version bits.
* Of blocks: that a node may keep a block it called "inconclusive" and
  activate it later; a record says "rejected" then and stays so.
* Of SV2: Noise and the framing and decoding of messages (they succeed, or end the
  connection), labels, metrics, wrapping ids, the `SetTarget` that only repeats the
  target a channel was opened with, requests that are only answered, and what a
  miner's `nominal_hash_rate` comes to (any difficulty from the configured start).
* P2P handshake and parsing, vardiff and share arithmetic, metrics but for the blocks
  and the SV2 connections, latency registry: planned, below.
* HTTP API, configuration, logging, key file, RPC transport: views, parsing and I/O.

## Plan

1. `TemplateFeed`, `TemplateEngine`, proofs: done.
2. `StratumSession`, proofs of its types, ids, shares and jobs: done. Left: what
   still holds of the jobs after a retarget or a second authorization.
3. `BlockLifecycle`, proofs: done.
4. `Sv2Connection`, on `TemplateFeed`, and proofs: done.
5. `Sv2Admission`, proofs: done.
6. `Algorithms`: merkle branches, compact targets, script numbers, version
   resolution, retarget, each against a reference definition on bounded inputs.
7. The P2P handshake, the latency registry, miners and health, as room allows.
