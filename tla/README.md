# Votor, block production and the unified scheduler in TLA+

Models of the concurrent core of the validator:

* **votor**, the Alpenglow consensus engine (`src/crates/consensus/votor`), which
  decides what a validator votes, when a block is final, what is rooted and on
  which parent a leader builds, and a **cluster** of such validators;
* the **block creation loop** and the **record channels** (`core`, `poh`), which
  turn a leader window into blocks while banking workers record into them;
* the **unified scheduler** (`unified-scheduler-logic`, `unified-scheduler-pool`
  and the bank's side in `runtime`), which executes the transactions of replayed
  blocks in parallel.

A mistake in the first is a safety or liveness fault of the chain, in the second a
block that other validators reject, in the third a bank hash that differs.  The
rest of the repository is inventoried below and left out.

File names below are relative to `src/crates/consensus/votor/src/` unless they
start with `src/` or are named by their crate.

## 1. The system

```
  sigverify ──votes, certificates──►  ConsensusPoolService ──own certificates──► VotingService ──► network
                                       ▲     │ events                              ▲   │
                              own votes│     ▼                                     │   └─► vote history on disk
     Timers ───timeouts──────────►  EventHandler ────── BLSOp (votes) ────────────┘
        ▲───────set_timeouts───────────┘ │  ▲ │
                                         │  │ └── leader windows ──► BlockCreationLoop ◄─records─ banking workers
              root / switch requests     ▼  │ Block events            │  ▲ optimistic parents        (freeze lock)
                                      ReplayStage, BankForks ◄────────┘  │
                                         │   └───────────────────────────┘
                        transactions     ▼ results
                              scheduler pool: scheduler thread ◄─► handler threads
```

Every box is a thread.  All channels into the event handler are one bounded
channel; the channel for own votes, the BLS channel, and the channels for leader
windows and optimistic parents are bounded too.  Timers sit behind one lock; the
status of a bank's scheduler behind another; the record channel behind one atomic
word and a counter.

| Part | State | Operations | What makes it correct |
|---|---|---|---|
| Parent-ready tracker (`consensus_pool/parent_ready_tracker.rs`) | per slot: skip flag, certified blocks, ready parents; root; highest ready slot | new certificate, new skip, set_root, production parent | the incremental walks find exactly the ready parents; each is announced once; an announced slot can be produced |
| Consensus pool (`consensus_pool.rs`, `vote_pool.rs`, `slot_stake_counters.rs`) | votes per slot, type and validator; stake counters; certificates; highest finalization | add_vote, add_certificate, prune | certificates are backed by enough different stake and none is missed; safe-to events are complete and exclude a competing fast finalization |
| Pool service (`consensus_pool_service.rs`) | blocks waiting for repair, highest ready slot, event batch, standstill timer | message batches, produce-window, pending safe-to-notar, standstill | no safe block is lost, each leader window is produced once |
| Event handler (`event_handler.rs`, `root_utils.rs`) | vote history, pending and finalized blocks, received shreds, standstill slot, requests to replay | one arm per `VotorEvent` | never votes against itself, fails no assert that its own steps could make fail, votes when it can, roots only replayed finalized blocks |
| Vote history (`vote_history.rs`) | votes and facts above the root | add_vote, add_parent_ready, set_root, queries | set_root forgets nothing still needed |
| Cluster | the votes and certificates of all validators | every vote a handler casts, every certificate a pool completes | finalized blocks are never contradicted; a split vote is always resolved |
| Timers (`timer_manager.rs`, `timers.rs`) | one timer per window, heap of deadlines, sleeping thread | set_timeouts, progress | every slot times out, at its deadline |
| Voting service (`voting_service.rs`, `voting_utils.rs`, `vote_history_storage.rs`) | BLS channel, stored history, refresh queue | PushVote, PushCertificates, RefreshVotes, RefreshCertificates, restore | what has been broadcast survives a crash; refreshes are fair and within the rate limit |
| Threads (`votor.rs`, `src/crates/consensus/core/src/{tvu,validator}.rs`) | channels, lock | blocking sends and waits | nobody waits for ever, but for three known cycles when the event channel is full |
| Block creation loop (`core/src/block_creation_loop.rs`, `poh/src/poh_recorder.rs`) | window and parent, working bank, accumulated transactions, stashed window, the identity last read | choose a window, start, record, complete, hand over, abandon | a block that gets a footer is the bank it was made from, on the announced parent; nothing is left behind |
| Record channels (`poh/src/record_channels.rs`) and banking workers (`core/src/banking_stage/`) | packed word of bank and insertions, active senders, queue; freeze locks | try_send, shutdown, restart, drain, commit | no record crosses from one bank into another, none is lost |
| Scheduling state machine (`unified-scheduler-logic`) | usage queue per account, blocked counts, queue of unblocked tasks | schedule_or_buffer, schedule_next_unblocked, deschedule, clear, reinitialize | granted tasks never conflict and follow the order; everything is granted in the end |
| Scheduler pool (`unified-scheduler-pool`, `runtime/src/installed_scheduler_pool.rs`) | status per bank, idle and trashed schedulers, threads, channels, results | install, schedule, pause, terminate, time out, resume, return, drop | the outcome of a bank is that of its transactions; order kept across schedulers; no assert fails |

What is hard here, and hardly reached by the unit tests of the repository:

* **Order.** Votes, certificates, replayed blocks, timeouts and roots arrive in
  any order and repeatedly.  Several parts compute the same fact incrementally
  from whichever input comes last.
* **Split views.** Validators see votes in different orders, and a faulty one
  tells each something else.
* **Stale state.** Votor hands a root to replay and goes on; the pool reads the
  root twice around one message; a change of identity swaps the vote history
  under pending blocks; a scheduler's status is read, unlocked and written; a
  parent's bank is replaced between its announcement and its use; block creation
  reads the identity before it waits for a window.
* **Interleavings on atomics.** A record's sender reads, announces, exchanges and
  inserts in four steps, while the receiver shuts down, drains and restarts.
* **Crashes** between casting, saving and sending a vote; **failures** of a
  transaction or of a block at every step.
* **Waiting.** Bounded channels, locks, joins of threads, a `ParentReady` that
  never comes.
* **Boundaries.** Thresholds of 20, 40, 60 and 80 percent, roots in the middle
  of a window, budgets that run out in the middle of a queue.

`PROJECT.json` lists each hazard at its line, with the property that covers it.

### Not modelled

The repository has more than half a million lines of implementation; most of it is
sequential computation over large data, where a small instance shows nothing, or
input and output, where there is nothing to check.  What the models take from it
are results: a block is complete, a bank freezes, a transaction succeeds or fails.

| Component | Why |
|---|---|
| Accounts database, runtime, SVM, programs and syscalls | execution and storage of accounts; correctness is arithmetic and encoding over data that no bound keeps |
| Ledger storage, snapshots | RocksDB and files |
| RPC, clients, networking, tools | interfaces, without consensus state |
| Turbine, repair, gossip | the network; in the models messages are lost, delayed and repeated anyway |
| Certificate builder, BLS verification | cryptographic data; a certificate is assumed to carry the votes it claims |
| Banking stage's schedulers and buffers | packing heuristics; a worker's record and commit are in `RecordChannels` |
| Migration from TowerBFT, genesis votes | runs once, before what is modelled |
| TowerBFT lockouts and fork choice | the protocol before the migration; arithmetic over trees of votes |
| Staked-validator cache, metrics, commitment | outputs that nothing waits for and no vote depends on |

## 2. Modules and code

| Module | Models | Extends |
|---|---|---|
| `LeaderWindows` | slots and windows of consecutive leader slots | |
| `ParentReadyTracker` | the tracker, driven by certificates and by the root of bank forks | `LeaderWindows` |
| `ParentReadyTrackerProofs` | theorems about it | `ParentReadyTracker` |
| `ConsensusVotes` | vote types, which votes exclude each other | `LeaderWindows` |
| `VoteHistory` | the history as a record, its queries, updates and asserts | `ConsensusVotes` |
| `VotingRules` | when a handler may notarize, finalize or skip | `VoteHistory` |
| `Stakes` | what a pool concludes from votes: certificates, safe-to events, ready parents | `ConsensusVotes` |
| `EventHandler` | the event loop with rooting, and the part of replay that answers it | `VotingRules` |
| `EventHandlerProofs` | theorems about it | `EventHandler` |
| `ConsensusPool` | vote pools, counters, certificates and the service loop | `Stakes` |
| `ConsensusPoolProofs` | theorems about it | `ConsensusPool` |
| `Cluster` | many validators, some faulty: handlers and pools composed | `VotingRules`, `Stakes` |
| `ClusterProofs` | theorems about it | `Cluster` |
| `Timers` | timers and their thread in discrete time | `LeaderWindows` |
| `TimersProofs` | theorems about it | `Timers` |
| `VotingService` | from casting a vote to broadcasting it, with crashes and identities | `ConsensusVotes` |
| `VotingServiceProofs` | theorems about it | `VotingService` |
| `StandstillQueue` | the refresh queue with cursor and budget | |
| `VotorThreads` | who waits for whom | |
| `RecordChannels` | the record channel and the banking workers | |
| `BlockCreationLoop` | the loop, its recorder, votor and replay around it | `RecordChannels` |
| `BlockCreationLoopProofs` | theorems about it | `BlockCreationLoop` |
| `TaskOrder` | abstract: in which order conflicting tasks may run | |
| `SchedulingStateMachine` | usage queues; implements `TaskOrder` | |
| `SchedulingStateMachineProofs` | theorems about it | `SchedulingStateMachine` |
| `SchedulerSessions` | pool, threads and banks, on top of `TaskOrder` | |

`MC...` modules hold the small block trees, validator sets and event sets of the
runs.  Variables and definitions carry the names of the code; variables marked
*history* in a module exist for the properties only.  Definitions named as a
mutant are variants of the definition below them with a plausible mistake; no
specification uses them.

Choices that a reader should know:

* **One action per handler.**  An action of `EventHandler` is one arm of
  `handle_event` with all it calls: a record `Local` goes through the calls
  (`TrySkipWindow`, `CheckPendingBlocks`, `CheckRootable`,
  `AddMissingParentReady`), `Commit` makes it the next state.  The first assert,
  unwrap or expect of the code that does not hold on the way is recorded in `failed`
  by its kind: `AddVote` (the asserts of `add_vote`), `BelowRoot` (a query of the
  history below its root), `RootBank` (the bank of a root is missing) and
  `Standstill` (the `debug_assert` on the standstill slot); the validator then stops.
  After the last one a release build goes on with the state unchanged, so that
  stopping there hides nothing: the same state without the event goes on in the
  model.  The pass over pending blocks has
  one outcome per choice between competing blocks of a slot: the code orders
  blocks by id, and the model does not depend on that order.
* **Inputs of the handler.**  Events of the pool are possible when the pool
  could send them: a safe-to event needs the own first vote, a timeout needs a
  timer, certificates respect the agreement of the cluster (a certified block
  at or above a finalized one descends from it, `Agreed`).  That assumption about
  the other validators is what `Cluster` checks as `Agreement`.
* **Replay in `EventHandler`** is its interface: banks are frozen when their
  parent is, a root is applied in its own step, a switch of banks may be
  deferred for repair and clears banks as `slots_to_clear` does.  Between choosing
  a root and using its bank votor has unlocked bank forks
  (`event_handler.rs:898`): `CheckRootable` lets a switch clear the bank in that gap
  (`MayClear`).
* **A change of identity in `EventHandler`** loads any history of `SwitchHistories`,
  with an older or a later root than the one in use, and keeps all else, as
  `handle_set_identity` does.
* **The events of an instance** of `EventHandler` are one member of `Inputs`, which the
  variable `inputs` keeps: a bound, so that one run can look at two sets of events
  without all their combinations.
* **The pool** keeps votes and certificates as sets; the stake counters are
  functions of the votes kept, because the code updates them exactly when a
  vote is accepted.  Fractions are compared by cross-multiplication.  Each
  message is one action, as the service thread runs it; the root is read twice
  and may move in between.  Parent-ready is its declarative meaning, which the
  theorems of `ParentReadyTrackerProofs` show the tracker to compute.
* **The cluster** has the votes cast and the certificates completed as its only
  state.  A step of a validator may use any of them: every condition of the
  handler and of the pool is monotone in what has arrived, so a pool that has
  seen less only has fewer steps, and what each pool has seen need not be kept.
  A pool refuses a second, conflicting vote of a validator; so a faulty validator
  contributes one lie to each conclusion, and `Told` is the one that makes the
  conclusion soonest.  Lost, delayed and repeated messages are thereby included.
* **Time** in `Timers` is discrete, the thread runs as soon as its sleep ends,
  and several due stages fire at one instant.  The growth of the timeout in a
  standstill is any monotone function; the instance doubles it, so that few
  ticks suffice (the code multiplies by 1.05 per window).  In
  `BlockCreationLoop`, `SchedulerSessions` and `Cluster` a timeout may come at any
  moment.
* **Crashes** in `VotingService` are crashes of the process at any step; what
  was written stays written.  The history is stored without `fsync`
  (`vote_history_storage.rs:163`): a power failure is outside the model.
  At a restart and at a change of identity the file may fail to load, which the
  code answers with a new history.
* **Which votes can be cast** in `VotingService` is any vote that does not
  contradict the history in memory: the questions there are about the
  difference between memory, disk and network.  Signing may fail at any vote of the
  staked identity and always fails for a spare one.  Set-identity happens between
  any two events and waits for nothing (`MaxSwitches` bounds how often); the pool is told of the restored votes from
  the higher of the history's root and the bank's, which is any slot.
* **What the code loses** in `VotingService` is recorded in history variables, so that
  the properties can be stated for everything else: `unbacked` has the votes that were
  refreshed before any save covered them, and `lapses` says why a restored history
  lacked votes: `LoadFailed`, or `Overtaken` when a PushVote of the identity was still
  under way.  No step reads them.
* **The threads** have the event channel, the own-vote, leader-window and repair
  channels with their blocking sends, and the timers' lock, which a `ParentReady`
  event takes and a `Block` or `Finalized` event that makes up a missing parent-ready
  too.  The lock on bank forks is held over no send and no wait, and is left out.
* **Record channels** keep the atomic steps of `try_send` (load, announce,
  exchange, insert) apart, with the index mutex where indexes are tracked, and
  the steps of a drain (empty, no active sender, still empty).  The word is
  packed and added to in wrapping arithmetic; the constants are small.  A freeze
  lock is `std`'s `RwLock`, which on Linux keeps new readers out while a writer
  waits; without that `wait_for_inflight_commits` could be overtaken by a worker
  that has the bank and not yet the lock.
* **Block creation** has one window before this validator's first; its last slot,
  `OtherSlot`, is the block of another leader that replay freezes, offers as a parent
  and may switch.  The loop starts with a channel that is shut, as it finds it;
  the hand-over from `PohService` at the migration is before that.  Broadcast is
  taken to store the shreds of a block before the loop looks for the next window
  (`has_existing_shreds_for_slot`).  Replay's InsertBank looks only for a bank in
  the parent's slot (`replay_stage.rs:5150`), and so does the model.
  Transactions given back after a handover reach the banking stage's buffer; the
  code may evict them there.
* **The identity in block creation** is changed once, at any moment; votor announces
  windows for whichever identity it is told of, and the loop reads it at its head
  only (`block_creation_loop.rs:311`), before it waits.  Either of the two identities
  may lead a window.  A block started for a slot of the other one panics
  (`wrong_leader`), which ends the behaviour.
* **The scheduling state machine** has one function over the accounts for each
  loop over lock contexts, since the accounts of a transaction are distinct.
  `TaskOrder` states the same in terms of conflicts and an order; the refinement
  maps active tasks and granted tasks, the queues disappear.
* **Scheduler sessions** use `TaskOrder`'s rule for what may run.  A transaction
  of a bank is executed by at most one scheduler at a time; the outcome travels
  with the bank's status.  A panicking handler stops the validator (panic hook),
  so that the path by which the code would give back a scheduler whose thread
  died of it (`unified-scheduler-pool/src/lib.rs:1001`) is not modelled.

Left out inside the modelled parts: the assert on
`MAX_NOTAR_FALLBACK_BLOCKS` in the tracker, the panic on a bank-hash mismatch, the
panic on a slot without a leader (`block_creation_loop.rs:1219`; the schedule of the
models is complete),
genesis votes and certificates, repair requests, metrics and logging, the
addresses messages are sent to, the contents of a block footer, exit flags, and
the scheduler's timings.

## 3. Runs

Every run finishes within five minutes with two workers.  Deadlock is checked
except where the system may stop: `EventHandler` (a failed assert stops the
validator), `VotorThreads` (a thread that gets no other message, or a closed cycle of
waits), `Cluster` (everybody has voted), `SchedulerSessions` (every bank is settled),
`BlockCreationLoop` (no window is left, or a panic).  In `Timers` the step `Horizon` marks the last instant.

| Run | Bounds | Distinct states | Shows |
|---|---|---|---|
| `parent_ready` | slots 0–5, two blocks per slot, windows of 2 | 339 000 | every start-up, every order of certificates and roots: ready parents are exact, announced slots are producible, each window announced once |
| `handler` | two windows of three slots; either a chain of three blocks and a competing one with every kind of event, a fresh or rooted history at the start and, at any time, another one by a change of identity; or the chain with two versions of slot 1 as ready parents and switch requests that clear banks | 940 000 | no conflicting votes, votes are backed and extend the own chain, no step leaves a block pending that it made votable, the asserts of `add_vote` hold and the others fail only after a history with a later root was loaded, the bank of a chosen or requested root is missing only when two certified blocks compete |
| `pool_stakes` | five equal validators, four blocks of a slot, all first votes, fallback votes of two validators | 102 000 | certificates backed and complete, safe-to events complete, fast finalization excluded, at most three notarize-fallback votes |
| `pool_windows` | stakes 2, 2, 1, a chain over two windows, six certificates, moving root, full repair channel | 80 000 | finalization exact, safe blocks neither lost nor unbacked, leader windows produced once, waiting blocks resolve (liveness) |
| `cluster` | stakes 61, 61, 39 and a faulty 39; two windows of one slot, a block in the first, and in the second one block on it and one on its skip | 107 000 | agreement, and every slot decided when the correct validators come to rest |
| `timers_steady` | three timers over 14 ticks, no standstill | 63 000 | no sleep past a deadline, deadlines as documented, every slot times out |
| `voting` | three votes, two of which conflict, a root, one crash, signing and loading that may fail, certificates; the identity changed away and back, in behaviours without the vote of the second slot; a behaviour ends when a restored history has lapsed (`InBounds`) | 2 266 000 | what is broadcast is on disk and no equivocation across crashes and identities, but for votes refreshed without a save and after a lapse; the pool hears of every restored vote that can be signed |
| `threads` | every channel of 1, five events with up to two votes each, batches of two, a timer | 87 500 | outside three cycles of waits every event finishes, timer events are sent, votes, windows and bank commands are taken |
| `standstill_queue` | three slots, up to three messages, budget 3 of which up to 2 for certificates | 8 200 | budget kept, fair turns, nothing starves |
| `scheduler` | four tasks, two of them the same transaction, two accounts, six ways to use them; FIFO without limits and priority with at most 2 running and 3 unique tasks | 166 000 | implements `TaskOrder`, no failed assert, no conflict, accounts held exactly by whose turn it is, sessions drain |
| `sessions` | two banks with three transactions, two handlers per scheduler, one failing transaction, one abandoned bank, one timeout at any time and a second before the second bank is started (`InBounds`) | 811 000 | no failed assert, faithful outcomes, order and bank of every execution, everybody is answered (liveness) |
| `block_creation` | two workers, two transactions, a channel of 1, windows of two slots, at most three banks; a parent that is skipped, or in two versions; windows of one or the other identity, changed once | 1 401 000 | no failed assert on channel, recorder or working bank, completed blocks equal their banks on the announced parent, nothing left behind, transactions kept, every window ends (liveness) |

Why the bounds are enough: the tracker's walks depend on the neighbouring slots
only, and five slots hold a walk in the middle of two others with a pruned slot
below (the theorems cover all sizes).  The handler's conditions look at one
slot, its parent and its window; two windows with a fork contain each kind of
pair, and windows of three slots are the smallest in which a root has a slot of
its window on either side.  Five equal validators put every threshold (20, 40,
60, 80 percent) exactly on a multiple of one stake, the boundary case.  One
crash is enough for a disagreement between disk and network, as a second crash
starts from the same kind of state.  In `threads` every channel holds one message,
so that each is full while its reader is busy, and five events are enough to close
each of the three cycles (TLC reaches all of them).  In `sessions` the first
timeout makes a bank stale and the second comes in the gap of its resumption; this
concerns one bank and its schedulers.  In `voting` a behaviour with a lapse is cut where
its properties have nothing more to say.  The scheduler's questions are about a task
that waits for two accounts held by two others, with a fourth that reblocks one of
them: four tasks and two accounts.  In `sessions` one scheduler serves both banks
and one bank is served by two schedulers.  In `block_creation` three banks are a
handover and the next slot, and with a channel of 1 a sender finds it full; the
second bank after a handover is where a stale record would surface.

The stakes of `cluster` put a block and a skip on the edge of 40, 60 and 80
percent with and without the faulty validator's 19.5 percent.  Variants checked
with the definitions of `MCCluster`: one window of three slots with two blocks in
its first (`WindowSize = 3`, `InWindow`, `InWindowParents`; 48 600 states), the
fork with a second block in slot 1 (1.25 million), three slots with stakes 41, 20,
20 and a faulty 19 (409 000), and one slot with four correct validators.

Symmetry is used in `pool_stakes` and `cluster`: the validators that are exchanged
have equal stake, may send the same votes and occur only through sets, and the
runs check invariants only.

### Fairness

* `ConsensusPool`: weak fairness of a pass with room in the repair channel.  The
  service loop waits at most its timeout for messages, and the repair thread
  empties the channel without waiting for votor.  No message is assumed to come.
* `VotorThreads`: weak fairness of each thread: a thread whose next step is
  possible takes it; the repair service takes what is in its channel.  No fairness for new messages or new banks.
* `StandstillQueue`: weak fairness of the refresh: the voting service returns to
  the queue at least once per interval.
* `SchedulingStateMachine`: weak fairness of handing out an unblocked task, of
  the return of some running task (the handlers execute it), and of the loop that
  clears the machine.  No task is assumed to arrive.
* `SchedulerSessions`: weak fairness of the steps of all threads taken together,
  replay's included; none for timeouts or the dropping of idle schedulers.
* `BlockCreationLoop`: weak fairness of the loop, whose waits all end by a timeout
  in the code; of each worker in the middle of a record; and of votor's highest
  `ParentReady`, which moves on to the window after ours as the cluster does.  No
  fairness for `ParentReady` of this validator's own window, for replay, or for
  new work.

### Where the code breaks what it says

Nine statements that a comment or an assert of the repository makes are broken by what
the code does.  Each is a definition of its module; TLC finds the counterexample within
seconds when the definition is given as the only invariant with the constants named here.

| Property | Instance | What TLC shows |
|---|---|---|
| `ReadyBlocksNotarized` | `MCEventHandler` with `MaxSlot = 3`, `WindowSize = 2`, `Blocks <- JoinBlocks`, `ParentOf <- JoinParentOf`, `InitialHistories <- Fresh`, `SwitchHistories <- NoHistories`, `Inputs <- JoinInputs` | A node that learns of a finalized block in the middle of a window gets the missing parent-ready, whose comment promises that it "will immediately vote Notarize" (`event_handler.rs:544-547`); `try_notar` looks at parent-ready only in the first slot of a window, and the block stays pending. |
| `NoReadBelowRoot` | as `handler` | After set-identity to an identity whose stored root lies above a pending block, the next look at pending blocks fails `assert!(slot >= self.root)` (`vote_history.rs:91`). |
| `OneStandstill` | as `handler` | After the same the Finalized event that would end a standstill is ignored, and the next standstill fails the `debug_assert` on its slot (`event_handler.rs:491`). |
| `RootBankThere` | as `handler` | With two certified blocks in a slot, the switch to the one clears the bank of a root that descends from the other and is chosen or requested: the unwrap in `set_root` (`root_utils.rs:61`) or "Root bank doesn't exist" (`root_utils.rs:124`) fails. |
| `NoOversleep` | `MCTimers` as in `timers_steady`, with `TimerSlots = {2, 4}` and `StandstillSlots = {0}` | After a standstill the thread sleeps until an extended deadline and misses that of a timer set meanwhile; the comment on the sleep (`timer_manager.rs:45`) asks that it be shorter than any new timer needs. |
| `VotesSaved` | as `voting` | A vote of which no message could be made is in the history but not saved (`voting_utils.rs:283`: "Update and save the vote history"); a later refresh broadcasts it. |
| `NoEquivocation` | as `voting` with `MaxSlot = 1`, `Candidates <- FirstVotes`, without the constraint and the check for deadlock | Switching the identity away and back while a PushVote is under way restores a history without its vote, and the asserts that "guard against vote equivocation" (`vote_history.rs:167`) see the stale one. |
| `NoCertifiedEquivocation` | the same | A certificate with the own vote leaves the node before the vote is saved; after a crash the node casts a vote that excludes it. |
| `LeaderMatches` | as `block_creation` | The identity is changed while the loop waits: the window announced for the new one is started under the old one, and the loop panics on the leader of the slot (`block_creation_loop.rs:1226`); a window of the old identity that is queued or stashed does the same. |

The passing runs keep these behaviours and state what holds nonetheless: `AssertsHold`,
`RootBankKept`, `NoneLeftVotable`, `VotesDurable`, `NeverEquivocates`, `CreationNoPanic`
and `LoopReturns` name their exceptions.  Only `DeadlinesKept` is checked and proved
without the case that breaks it (no standstill).

`EveryoneServed` names its exceptions too.  When the event channel is full (1000
unhandled events), the handler can be in a cycle of waits: with the timer thread, which
holds the timers' lock while it waits for room (`timer_manager/timers.rs:250`); with
the pool service, when the own-vote channel is full as well; and with block creation
and replay, when the leader-window channel is full, the loop waits for replay's answer
and replay for room.  No comment of the repository says that these cannot happen.

### Refinement

`scheduler` checks `SchedulingStateMachine => TaskOrder!Spec`
(`OrderImplemented`) with the mapping `active <- Known` (tasks in a usage queue, in
the unblocked queue or with the caller) and `granted <- running \cup Queued`.  So
the usage queues, the blocked counts and reblocking grant at every moment exactly
the tasks that no conflicting earlier or granted task stands against.
`SchedulerSessions` is built on `TaskOrder`, not on the queues; the refinement
carries its results over to the state machine the pool really uses.

## 4. Proofs

Eight modules hold theorems.  Each proves an inductive invariant of a component and
derives the properties of the runs from it, for every value of the constants that
meets the named assumptions.  The inductive invariants were model-checked on the
instances of the runs before they were proved.

| Module | Theorems | Hypotheses beyond the assumptions on constants |
|---|---|---|
| `ParentReadyTrackerProofs` | `ParentReadyCorrect`, `HighestCorrect`, `ProductionParentExists`, `WindowsAnnounced`, `TrackerTypeCorrect` | none |
| `ClusterProofs` | `ClusterAgreement`, `CorrectNeverEquivocate` | none |
| `ConsensusPoolProofs` | `CertificatesCorrect`, `SafeEventsNeverMissed`, `FallbacksNeverHarm`, `FinalizationCorrect`, `SafeBlocksNeverLost`, `WindowsAlwaysProduced` | none |
| `EventHandlerProofs` | `VotesNeverConflict`, `AssertsNeverFail`, `VotesAlwaysBacked`, `NothingVotableLeft` | on the loaded histories |
| `VotingServiceProofs` | `VotesAreDurable`, `CrashesNeverEquivocate`, `PoolAlwaysSees` | none |
| `TimersProofs` | `WindowsAlwaysTimeOut`, `DeadlinesAlwaysKept` | for the second: no standstill |
| `SchedulingStateMachineProofs` | `GrantedNeverConflict`, `QueuesAgree`, `NeverPanics`, `ImplementsTaskOrder` | none |
| `BlockCreationLoopProofs` | `CreationNeverPanics`, `CompletedBlocksSound`, `LoopRestsClean`, `HandoverReturnsAccepted` | none |

### The parent-ready tracker

`ParentReadyTrackerProofs` proves, for every `MaxSlot > 0`, every
`WindowSize > 0` and every set of integer block ids, that in every behaviour of
`ParentReadyTracker`

* `TrackerTypeCorrect`: the type invariant holds;
* `ParentReadyCorrect`: `parents_ready[s]` is exactly the set of certified blocks
  connected to `s` by skip certificates, for every slot that is not pruned;
* `HighestCorrect`: `highest_with_parent_ready` is the highest slot with a ready
  parent and lies above the root;
* `ProductionParentExists`: `block_production_parent` never answers
  `ParentNotReady` for an announced slot, so the `unreachable!` in
  `add_produce_block_event` (`consensus_pool_service.rs:515`) is unreachable;
* `WindowsAnnounced`: every ready parent of an unpruned first slot of a window has
  been announced, and no step announces a pair twice.

None of these is inductive.  `TrackerInv` adds three facts:

* `StatusExact`: above the root, `skip` and `notar_fallbacks` agree with the
  certificates accepted so far.  The walks read them, so exactness of
  `parents_ready` after a step follows only from their exactness before it.
* `HighestBounds`: `root <= bank_root < highest_with_parent_ready`, and every
  certified block lies below the highest ready slot.  Roots move to certified
  blocks only, so pruning never reaches the highest ready slot.
* `AnnouncedReady`: an announced slot is not above the highest one, and its
  parent is still ready unless the slot is pruned.  It gives both
  `ProductionParentExists` (below the highest slot the answer is
  `MissedWindow`, at it the parent exists) and announcing once.

The steps are `NotarStep` (a certified block extends the parents along the walk
after it), `SkipStep` (a skipped slot joins the walk after it with the parents
of the slot before it: a block is connected to a later slot through the new
skip exactly when it is connected to the skipped slot itself), and `RootStep`.
`GreatestSlot` (a non-empty set of slots has a greatest element) comes from
well-foundedness of the naturals.  The proofs use the assumptions on the
constants and nothing else; one abstraction matters: certificates are for slots
below `MaxSlot`, so that a walk ends.

### Agreement of the cluster

`ClusterAgreement` is `Agreement` for every set of validators, every distribution of
stake with less than 20 percent faulty, every block tree and every window length.
Stake is a finitely additive measure (`StakeAssumption`), which is all the argument
needs.  `ClusterInv` records, with each vote of a correct validator, the reason that
was there when it was cast and that can only grow since:

* `OneFirstVote`: one notarize or skip vote per slot;
* `FinalizeBacked`: a finalize vote comes with the own notarize vote for a block that
  has a notarization certificate, and with no fallback vote;
* `NotarizeExtends`: a notarize vote inside a window extends the own vote before it,
  and at the start of a window a ready parent;
* `NotarizeFallbackBacked`, `SkipFallbackBacked`: a fallback vote comes after another
  first vote, when 40 percent, the faulty validators included, may be against every
  block it contradicts;
* `CertificatesSound`: the votes cast and those the faulty validators may add suffice
  for each certificate.

Two finalizations of one slot, or a finalization and a skip, would need more correct
stake than there is.  Across slots the proof takes the lowest slot at or above a
finalized block with a block that can be certified and does not descend from it;
its parent can be certified too, is not below the finalized block and lies in a
slot that is lower still.  `CorrectNeverEquivocate`: no
two votes of a correct validator exclude each other, so every pool accepts all of
them; this is why a pool of `Cluster` may have seen any of the votes cast.

### The consensus pool

No invariant of `ConsensusPool` about thresholds is inductive alone, because the
counters add stakes of several vote pools.  `PoolInv` has, besides the six
properties of the runs and the types:

* `Apart`: no validator has two votes in the pools that exclude each other.  So the
  sums of two kinds of votes count nobody twice, which is what makes certificates
  exact when two vote types are added up.
* `SafeForReason`: every recorded safe-to event still has the votes that led to it.
  Together with `Apart` it gives `FallbacksSafe`: a fast finalization of another block
  is out of reach, and four safe blocks of one slot would need more than all
  stake.
* `PruneBounds`: the pool has pruned up to a root that is not above the bank's.
* `RaisedBacked`, `WaitInside`: the blocks announced have a certified parent or need
  none, also while the event is still on its way, and only blocks inside a window
  wait.
* `WindowsInv`: `highest_parent_ready` of the service is a ready slot that no
  `ParentReady` it has seen exceeds; it was produced when this node leads it, unless
  a later slot was ready already, and nothing is produced twice.

The lemmas are about stake (monotone in the votes, additive over disjoint pools), one
per effect of `add_message` (votes, certificates, events, pruning) and one per
action of the service.  The proofs hold for any validators, stakes, blocks, leader
slots, and any votes and certificates as input.

### The event handler

`HandlerInv` is the type of the state and `Sound(vote_history, cast)`: the history and
the votes cast agree at and above the root, and below it, where the history has
forgotten, the votes cast still exclude each other as needed.  `Backed` ties each
finalize vote to a certificate and each notarize vote to the chain it extends.  Each
is shown for the record `Local` that goes through a handler (`SoundAt`, `BackedAt`,
`SettledAt`), so that one lemma per helper (`try_notar`, `try_final`, `try_skip_window`,
`check_pending_blocks`, rooting) serves all the actions that call it.

`AssertsNeverFail` needs two more parts.  `Anchored`: the root of the history was voted on
and, unless a history with a later root was loaded (`restored`), no pending block is below
it, since `set_root` prunes them; so `check_pending_blocks` asks for no slot below the root.
`StandstillOk`: roots are finalized blocks and, again unless `restored`, a standstill is at
the highest finalized slot and not below any root, so that no Finalized event which ends
it is ignored.  The asserts of `add_vote` follow from `Sound`.

The histories that are loaded at the start or with an identity are constants, and
the theorems need hypotheses on them:

* `ConsistentHistories` (all): a loaded history is `Sound` by itself and its root was
  voted on.  `set_root` keeps all votes of a slot or none and is called for slots this
  node has voted on, so the histories that the code saves are.
* `GroundedHistories` (`VotesAlwaysBacked`): what they hold is backed.  A history
  whose root is in the middle of a window has lost the vote that the next one
  extends.

Which history is loaded when is not restricted: an older root, a later one or none.
The constants of the run `handler` satisfy both hypotheses.

### The voting service

For any votes, any number of crashes, spare identities and size of the channel, with
signatures and loads that fail at any time, and without a hypothesis.  `VotingInv` is the
type of the state and, as long as `lapses` is empty, `SoundInv`: histories only grow along
their way, from the file over the ops in the channel and in the batch to the handler
(`SavesOrdered`); an op that sends a vote comes no sooner than a save of a history that
covers it, or its vote is in `unbacked` (`SavesBacked`); what was broadcast is on disk
(`Durable`); an identity has one file at most (`OneFile`) and a spare one casts nothing
(`SpareBatch`); and of the votes which others may have seen or may still see no two exclude
each other, and the handler's history covers them all (`AliveAgree`).  The hard steps
are a restart and a change of identity: the restored history is the file, and
without a lapse nothing is under way that the file lacks.  `VotesAreDurable` and
`CrashesNeverEquivocate` say nothing after a lapse and of unbacked votes, where the
opposite happens (section 3).  `PoolAlwaysSees` has no such exception.

### The timers

`TimersInv` holds for all durations and with standstills: a timer's timeout is that of
its stage (`TimeoutsExact`), its events are those of the stages behind it
(`StagesFired`), a timer that is gone has fired them all and any other timer of its
slot starts later (`GoneComplete`), and they fired in order (`FiredInOrder`).
`WindowsAlwaysTimeOut` follows.  `DeadlinesAlwaysKept` adds `OnTime`, that the thread
never sleeps past a deadline, and is about `SteadyDurations`: no standstill, and a
block and the idle sleep no longer than the first deadline of a new timer.  In the
code these are 400 and 100 ms against more than 1000 ms.  In a standstill the
statement is false (section 3).

### The scheduling state machine

For any finite set of tasks and of accounts, any accesses, both kinds of queueing and
all limits.  `SchedulerInv` expresses the whole state as a function of the known
tasks, the granted tasks and one total order on them: the waiting tasks of an account
(`QueuesExact`), its usage (`UsageExact`), the count of accounts a task waits for
(`CountsExact`), who is granted (`GrantedExact`), the order of arrival
(`ArrivalsExact`) and the counters (`CountersExact`), with `HeldExact` and
`SchedulerNoPanic`.  The hard step is `deschedule_task`: the tasks it unblocks at
several accounts are unblocked one after the other, with reblocking in between, and
the result must be the same function of the remaining tasks.  `ImplementsTaskOrder`
is the refinement of `TaskOrder`: initial states map to initial states and every step
to a step or a stutter, under the mapping of section 3.

### Block creation

For any finite set of workers, any transactions, any capacity of the record channel,
windows of any length above one and any leader schedule whose windows are whole and
start with the one after `OtherSlot`.  `BoundsAssumption` asks that bank ids stay
below the id that means "disabled" (2^54 - 1 in the code).  `CreationInv` has these
parts:

* *Control* (`PcsOk`, `WorkingOk`, `WindowOk`): where the loop may be with which
  intention, when there is a working bank (it is then the last one made), and that the
  parent of a window's first block is the announced one unless the start was
  optimistic.
* *The channel* (`WordOk`, `EmptyOk`, `WorkersOk`): the packed word names the working
  bank while the channel is open and the disabled id otherwise; the insertions it
  still allows, the queue and the reserved sends together never exceed the capacity,
  so that a reserved insertion finds room.  All records in the queue, and all workers
  with a freeze lock, are the working bank's; from the second look of a drain on no
  worker has reserved an insertion, because each announces itself before it reserves
  and the loop counts the announcements between its two looks at the queue.  That is
  what the asserts of `restart` and of the recorder's reset need: a worker that still
  has the old word in hand finds it changed when it exchanges.
* *The block* (`BankOk`, `StreamOk`, `BodyOk`, `RecordingOk`): what was broadcast since
  the last UpdateParent marker, followed by what is in the queue, agrees one to one
  and index by index with what the bank has committed and what its workers are about
  to commit (`Agree`).  A worker that sends adds to both sides, the loop moves a
  record from the queue to the broadcast, a commit moves a transaction into the bank.
  When no commit is in flight and the queue is empty the two sides are the block and
  the bank: `FooterMatches` then gives `CompletedBlocksSound`.
* *The handover* (`HandoverOk`, `PlacesOk`): the accumulated transactions are the ones
  the abandoned bank accepted, and none of them is in the buffer or with a worker that
  has not sent it, so that exactly they are added to the buffer.
* *What is finished* (`ForksOk`, `DoneOk`): BankForks holds no unfinished leader bank
  but the working one, and a block with a footer matches the last bank of its slot.
  Both survive later windows, a switch of `OtherSlot` and other banks' commits.

The invariant needs no fairness and no particular schedule of votor and replay, and
`MaxBanks` only has to be below the disabled id; `SwitchBank` may take away the working
bank's ancestors at any time.  The steps that change the identity or read it leave
everything the invariant speaks of alone, and a loop that has panicked on the leader of a
slot stops: `CreationNeverPanics` is about the asserts on the channel, the recorder and the
working bank, and not about that panic (`LeaderMatches` is false).

### Only model-checked

* Liveness (`WaitingBlocksResolve`, `EveryMessageRefreshed`, `EveryoneServed`,
  `SessionDrains`, `BanksSettle`, `LoopReturns`) and `DecidedAtRest`, which uses
  `ENABLED`: the prover handles neither.
* `RootBankKept` of the handler: its argument is about what replay has cleared and
  about agreement among the certified blocks, which `HandlerInv` does not relate.
* `SchedulerSessions` and `StandstillQueue`, and in `VotorThreads` what its run checks.

## 5. Plan

*Proofs about the scheduler pool.*  `LedgerOrder` and `OutcomeFaithful` of
`SchedulerSessions`: a transaction belongs to one scheduler of its bank at a time.
