---------------------------- MODULE VotorThreads ----------------------------
(***************************************************************************)
(* Who waits for whom: the threads around votor, their bounded channels    *)
(* and the lock on the timers.                                             *)
(*                                                                         *)
(* A blocking send waits for room, lock() for the holder, and a bank forks *)
(* command for the answer of replay.  What the threads compute is left to  *)
(* the other modules; here an event causes some own votes, a repair        *)
(* request and new timeouts, a message some events.  The channels to the   *)
(* voting service, to the commitment service and to the metrics are        *)
(* drained by threads that wait for none of these and are left out;        *)
(* FirstShred and the pool's repair requests are sent without waiting      *)
(* (try_send).                                                             *)
(***************************************************************************)
EXTENDS Integers, Sequences

CONSTANTS
    EventCap,      \* capacity of the votor event channel, 1000 in the code
    OwnCap,        \* capacity of the own-vote channel, 10000 in the code
    WindowCap,     \* capacity of the leader-window channel, 7 in the code
    RepairCap,     \* capacity of the repair channel, 100 in the code
    PoolKinds,     \* bound: the kinds of events the pool sends
    MaxVotes,      \* bound: own votes that one event causes
    MaxBatch,      \* bound: events that one batch of messages causes
    MaxEvents,     \* bound: events of the pool and of replay
    MaxTimers      \* bound: timers set

ASSUME CapacityAssumption ==
    /\ EventCap \in Nat \ {0} /\ OwnCap \in Nat \ {0} /\ WindowCap \in Nat \ {0}
    /\ RepairCap \in Nat \ {0}
    /\ PoolKinds \subseteq {"ParentReady", "ProduceWindow", "Notarized", "Finalized", "SafeTo"}
    /\ MaxVotes \in Nat /\ MaxBatch \in Nat /\ MaxEvents \in Nat /\ MaxTimers \in Nat

VARIABLES
    event_queue,     \* event_sender / event_receiver
    own_queue,       \* number of own votes under way to the pool
    window_queue,    \* number of leader windows under way to block creation
    repair_queue,    \* number of requests under way to the repair service
    handler,         \* the event being handled, and what is left to do of it
    timers,          \* timers that have not fired
    timer_left,      \* events the timer thread still has to send; it holds the lock
    pool_left,       \* events the pool still has to send
    replay,          \* "run", or "send" while it sends a Block event
    builder,         \* "idle", or "wait" for the answer to a bank forks command
    made,            \* how many events the pool and replay have made
    timers_set

threadVars == <<event_queue, own_queue, window_queue, repair_queue, handler, timers, timer_left,
                pool_left, replay, builder, made, timers_set>>

\* An event being handled: the own votes it still sends, whether it still asks for a
\* repair, and whether it ends in handle_parent_ready_event.
Task(event, votes, repair, lock) ==
    [event |-> event, votes |-> votes, repair |-> repair, lock |-> lock]
Idle == Task("none", 0, FALSE, FALSE)

\* There is room in the event channel.
HasRoom == Len(event_queue) < EventCap

\* timers.write() is free: the timer thread holds it for the whole of progress.
TimersFree == timer_left = 0

-----------------------------------------------------------------------------
(* The event handler                                                         *)

\* What handle_event has to do for an event, beyond computing: a Block or Finalized
\* event of a slot without a ready parent takes the way of ParentReady
\* (add_missing_parent_ready).
Tasks(event) ==
    {Task(event, n, event \in {"Notarized", "Finalized"}, lock) :
        n \in IF event = "ProduceWindow" THEN {0} ELSE 0..MaxVotes,
        lock \in CASE event = "ParentReady" -> {TRUE}
                   [] event \in {"Block", "Finalized"} -> BOOLEAN
                   [] OTHER -> {FALSE}}

\* Mutant of HandlerReceive: the timers' lock is taken before the event is received.
HandlerReceiveLocked ==
    /\ handler = Idle
    /\ event_queue # <<>>
    /\ TimersFree
    /\ event_queue' = Tail(event_queue)
    /\ handler' \in Tasks(Head(event_queue))
    /\ UNCHANGED <<own_queue, window_queue, repair_queue, timers, timer_left, pool_left, replay,
                   builder, made, timers_set>>

HandlerReceive ==
    /\ handler = Idle
    /\ event_queue # <<>>
    /\ event_queue' = Tail(event_queue)
    /\ handler' \in Tasks(Head(event_queue))
    /\ UNCHANGED <<own_queue, window_queue, repair_queue, timers, timer_left, pool_left, replay,
                   builder, made, timers_set>>

\* own_vote_sender.send; Finalized asks for the repair first.
HandlerVote ==
    /\ handler.votes > 0
    /\ handler.event = "Finalized" => ~ handler.repair
    /\ own_queue < OwnCap
    /\ own_queue' = own_queue + 1
    /\ handler' = [handler EXCEPT !.votes = @ - 1]
    /\ UNCHANGED <<event_queue, window_queue, repair_queue, timers, timer_left, pool_left,
                   replay, builder, made, timers_set>>

\* request_repair: send waits when try_send finds the channel full.  Notarized asks
\* after its finalize vote.
HandlerRepair ==
    /\ handler.repair
    /\ handler.event = "Notarized" => handler.votes = 0
    /\ repair_queue < RepairCap
    /\ repair_queue' = repair_queue + 1
    /\ handler' = [handler EXCEPT !.repair = FALSE]
    /\ UNCHANGED <<event_queue, own_queue, window_queue, timers, timer_left, pool_left, replay,
                   builder, made, timers_set>>

\* The end of handle_parent_ready_event: set_timeouts takes the lock.
HandlerSetTimeouts ==
    /\ handler.lock /\ handler.votes = 0 /\ ~ handler.repair
    /\ TimersFree
    /\ handler' = Idle
    /\ IF timers_set < MaxTimers
       THEN timers' = timers + 1 /\ timers_set' = timers_set + 1
       ELSE UNCHANGED <<timers, timers_set>>
    /\ UNCHANGED <<event_queue, own_queue, window_queue, repair_queue, timer_left, pool_left,
                   replay, builder, made>>

\* leader_window_info_sender.send
HandlerProduceWindow ==
    /\ handler.event = "ProduceWindow"
    /\ window_queue < WindowCap
    /\ window_queue' = window_queue + 1
    /\ handler' = Idle
    /\ UNCHANGED <<event_queue, own_queue, repair_queue, timers, timer_left, pool_left, replay,
                   builder, made, timers_set>>

\* Every other event ends with its last vote and its repair request.
HandlerDone ==
    /\ handler.event \notin {"none", "ProduceWindow"}
    /\ ~ handler.lock /\ handler.votes = 0 /\ ~ handler.repair
    /\ handler' = Idle
    /\ UNCHANGED <<event_queue, own_queue, window_queue, repair_queue, timers, timer_left,
                   pool_left, replay, builder, made, timers_set>>

-----------------------------------------------------------------------------
(* The timer thread: progress runs under the lock and sends events.          *)

TimerWake ==
    /\ TimersFree
    /\ timers > 0
    /\ timer_left' \in 1..timers
    /\ timers' = timers - timer_left'
    /\ UNCHANGED <<event_queue, own_queue, window_queue, repair_queue, handler, pool_left,
                   replay, builder, made, timers_set>>

TimerSend ==
    /\ timer_left > 0
    /\ HasRoom
    /\ event_queue' = Append(event_queue, "Timeout")
    /\ timer_left' = timer_left - 1
    /\ UNCHANGED <<own_queue, window_queue, repair_queue, handler, timers, pool_left, replay,
                   builder, made, timers_set>>

-----------------------------------------------------------------------------
(* The consensus pool service                                                *)

\* Events of a batch, within the bound.
Batch == 0..(IF MaxEvents - made < MaxBatch THEN MaxEvents - made ELSE MaxBatch)

\* What is left of the own votes after the service has read them (try_iter).
Drained == 0

PoolReceiveOwn ==
    /\ pool_left = 0
    /\ own_queue > 0
    /\ own_queue' = Drained
    /\ pool_left' \in Batch
    /\ made' = made + pool_left'
    /\ UNCHANGED <<event_queue, window_queue, repair_queue, handler, timers, timer_left, replay,
                   builder, timers_set>>

\* Messages of other validators.
PoolReceiveOthers ==
    /\ pool_left = 0
    /\ pool_left' \in Batch \ {0}
    /\ made' = made + pool_left'
    /\ UNCHANGED <<event_queue, own_queue, window_queue, repair_queue, handler, timers,
                   timer_left, replay, builder, timers_set>>

\* event_sender.send
PoolSend ==
    /\ pool_left > 0
    /\ HasRoom
    /\ \E kind \in PoolKinds : event_queue' = Append(event_queue, kind)
    /\ pool_left' = pool_left - 1
    /\ UNCHANGED <<own_queue, window_queue, repair_queue, handler, timers, timer_left, replay,
                   builder, made, timers_set>>

-----------------------------------------------------------------------------
(* Replay, block creation and repair                                         *)

\* A bank is frozen.
ReplayFreeze ==
    /\ replay = "run"
    /\ made < MaxEvents
    /\ made' = made + 1
    /\ replay' = "send"
    /\ UNCHANGED <<event_queue, own_queue, window_queue, repair_queue, handler, timers,
                   timer_left, pool_left, builder, timers_set>>

\* votor_event_sender.send
ReplaySend ==
    /\ replay = "send"
    /\ HasRoom
    /\ event_queue' = Append(event_queue, "Block")
    /\ replay' = "run"
    /\ UNCHANGED <<own_queue, window_queue, repair_queue, handler, timers, timer_left,
                   pool_left, builder, made, timers_set>>

\* process_bank_forks_commands answers insert_bank or clear_bank.
ReplayServe ==
    /\ replay = "run"
    /\ builder = "wait"
    /\ builder' = "idle"
    /\ UNCHANGED <<event_queue, own_queue, window_queue, repair_queue, handler, timers,
                   timer_left, pool_left, replay, made, timers_set>>

\* The block creation loop takes all windows that are there and asks for a bank.
BuilderTake ==
    /\ builder = "idle"
    /\ window_queue > 0
    /\ window_queue' = 0
    /\ builder' = "wait"
    /\ UNCHANGED <<event_queue, own_queue, repair_queue, handler, timers, timer_left, pool_left,
                   replay, made, timers_set>>

\* The repair service takes all requests that are there.
RepairTake ==
    /\ repair_queue > 0
    /\ repair_queue' = 0
    /\ UNCHANGED <<event_queue, own_queue, window_queue, handler, timers, timer_left, pool_left,
                   replay, builder, made, timers_set>>

-----------------------------------------------------------------------------
Init ==
    /\ event_queue = <<>> /\ own_queue = 0 /\ window_queue = 0 /\ repair_queue = 0
    /\ handler = Idle
    /\ timers = 0 /\ timer_left = 0 /\ pool_left = 0
    /\ replay = "run" /\ builder = "idle"
    /\ made = 0 /\ timers_set = 0

Handler ==
    \/ HandlerReceive \/ HandlerVote \/ HandlerRepair \/ HandlerSetTimeouts
    \/ HandlerProduceWindow \/ HandlerDone
TimerThread == TimerWake \/ TimerSend
Pool == PoolReceiveOwn \/ PoolSend
Replay == ReplaySend \/ ReplayServe

Next ==
    \/ Handler \/ TimerThread \/ Pool \/ PoolReceiveOthers
    \/ Replay \/ ReplayFreeze \/ BuilderTake \/ RepairTake

Spec == Init /\ [][Next]_threadVars

\* Every thread that can go on does; messages and blocks need not come.
FairSpec ==
    /\ Spec
    /\ WF_threadVars(Handler) /\ WF_threadVars(TimerThread) /\ WF_threadVars(Pool)
    /\ WF_threadVars(ReplaySend) /\ WF_threadVars(ReplayServe) /\ WF_threadVars(BuilderTake)
    /\ WF_threadVars(RepairTake)

-----------------------------------------------------------------------------
(* Properties                                                                *)

\* The cyclic waits the code has: the handler waits for another thread, and that one
\* waits for room in the event channel, which only the handler makes.
WaitsForTimers == handler.lock /\ handler.votes = 0 /\ ~ handler.repair /\ timer_left > 0
WaitsForPool == handler.votes > 0 /\ own_queue = OwnCap /\ pool_left > 0
WaitsForBuilder ==
    /\ handler.event = "ProduceWindow" /\ window_queue = WindowCap
    /\ builder = "wait" /\ replay = "send"

Stuck == Len(event_queue) = EventCap /\ (WaitsForTimers \/ WaitsForPool \/ WaitsForBuilder)

\* Nobody waits for ever but in these cycles: unless one of them has closed, the
\* handler ends every event it has begun, the timer thread and the pool get rid of
\* their events, replay of its block, and votes, windows and bank forks commands are
\* taken.  No other wait (the repair channel, a full channel with an idle handler, a
\* lock held over a sleep) may stop a thread.
EveryoneServed ==
    /\ [](handler # Idle => <>(handler = Idle \/ []Stuck))
    /\ [](timer_left > 0 => <>(timer_left = 0 \/ []Stuck))
    /\ [](pool_left > 0 => <>(pool_left = 0 \/ []Stuck))
    /\ [](replay = "send" => <>(replay = "run" \/ []Stuck))
    /\ [](builder = "wait" => <>(builder = "idle" \/ []Stuck))
    /\ [](own_queue > 0 => <>(own_queue = 0 \/ []Stuck))
    /\ [](window_queue > 0 => <>(window_queue = 0 \/ []Stuck))

=============================================================================
