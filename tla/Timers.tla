------------------------------- MODULE Timers -------------------------------
(***************************************************************************)
(* The skip timers of votor and the thread that fires them                 *)
(* (votor/src/timer_manager.rs, timer_manager/timers.rs).                  *)
(*                                                                         *)
(* Time is discrete.  The event handler sets a timer for a window, the     *)
(* timer thread sleeps until the earliest deadline it saw when it last     *)
(* looked, and a timer goes through one stage for the first slice and one  *)
(* per block of the window.  The thread runs as soon as its sleep is over: *)
(* what is late here is late because of the code, not of the machine.      *)
(***************************************************************************)
EXTENDS LeaderWindows

CONSTANTS
    MaxTime,           \* bound: the last instant of an instance
    MaxSets,           \* bound: how many timers are set
    TimerSlots,        \* bound: the slots timers are set for
    StandstillSlots,   \* bound: the slots a standstill may have started at
    DeltaTimeout,      \* leader windows since a standstill -> scaled delta_timeout
    DeltaFirstSlice,
    DeltaBlock,
    IdleSleep          \* how long the thread sleeps when there is no timer

ASSUME DeltaAssumption ==
    /\ MaxTime \in Nat /\ MaxSets \in Nat
    /\ TimerSlots \subseteq Slots /\ StandstillSlots \subseteq Slots
    /\ DeltaTimeout \in [0..MaxSlot -> Nat]
    /\ \A m, n \in 0..MaxSlot : m <= n => DeltaTimeout[m] <= DeltaTimeout[n]
    /\ DeltaFirstSlice \in Nat /\ DeltaBlock \in Nat \ {0}
    /\ DeltaFirstSlice <= DeltaBlock
    /\ IdleSleep \in Nat \ {0}

VARIABLES
    now,
    timers,        \* the active timers: at most one per slot
    wake,          \* when the thread's sleep ends
    fired,         \* history: the events sent, with the time and the timer they belong to
    sets           \* history: how many timers were set

timerVars == <<now, timers, wake, fired, sets>>

\* A timer: stage 0 waits for the first slice, stage i for the i-th block; `start`
\* and `delta` say when and with which delta_timeout it was set.
TimerRecords ==
    [slot : Slots, stage : 0..WindowSize, timeout : Nat, start : Nat, delta : Nat]

-----------------------------------------------------------------------------
(* set_timeouts                                                              *)

\* calculate_timeout_multiplier: the leader windows since the standstill began.
WindowsSince(slot, standstill) == MaxOf(slot - standstill, 0) \div WindowSize

\* delta_timeout of a new timer; `standstill` has at most one element.
ScaledDelta(slot, standstill) ==
    IF standstill = {} THEN DeltaTimeout[0]
    ELSE DeltaTimeout[WindowsSince(slot, CHOOSE s \in standstill : TRUE)]

\* TimerState::new
NewTimer(slot, delta) ==
    [slot |-> slot, stage |-> 0, timeout |-> now + delta + DeltaFirstSlice,
     start |-> now, delta |-> delta]

\* A timer that exists already is kept: there may be several ParentReady for a slot.
SetTimeouts(slot, standstill) ==
    /\ sets < MaxSets
    /\ sets' = sets + 1
    /\ timers' = IF \E t \in timers : t.slot = slot THEN timers
                 ELSE timers \union {NewTimer(slot, ScaledDelta(slot, standstill))}
    /\ UNCHANGED <<now, wake, fired>>

-----------------------------------------------------------------------------
(* progress                                                                  *)

\* The number of slots of the timer's window.
WindowLength(t) == LastSlot(t.slot) - t.slot + 1

\* Mutant of TimeoutAt: does not take back the first slice's share.
TimeoutAtTwice(t, k) ==
    IF k = t.stage THEN t.timeout
    ELSE IF t.stage = 0 THEN t.timeout + k * DeltaBlock
    ELSE t.timeout + (k - t.stage) * DeltaBlock

\* The timeout of stage k >= t.stage, as the steps of TimerState::progress move it.
TimeoutAt(t, k) ==
    IF k = t.stage THEN t.timeout
    ELSE IF t.stage = 0 THEN t.timeout + DeltaBlock - DeltaFirstSlice + (k - 1) * DeltaBlock
    ELSE t.timeout + (k - t.stage) * DeltaBlock

\* The stages of a timer that are due.
DueStages(t) == {k \in t.stage..WindowLength(t) : TimeoutAt(t, k) <= now}

\* The event of stage k: TimeoutCrashedLeader for the window, or Timeout for a slot.
FiredEvent(t, k) ==
    [kind |-> IF k = 0 THEN "TimeoutCrashedLeader" ELSE "Timeout",
     slot |-> IF k = 0 THEN t.slot ELSE t.slot + k - 1,
     at |-> now, start |-> t.start, delta |-> t.delta, window |-> t.slot]

\* A timer after its due stages, which form a prefix of the remaining ones.
Advanced(t) ==
    IF DueStages(t) = {} THEN t
    ELSE LET next == 1 + CHOOSE k \in DueStages(t) : \A j \in DueStages(t) : j <= k
         IN  [t EXCEPT !.stage = next, !.timeout = TimeoutAt(t, next)]

\* Mutant of NotDone: a timer with one block left counts as done.
NotDoneEarly(t) == Advanced(t).stage < WindowLength(t)

NotDone(t) == Advanced(t).stage <= WindowLength(t)

\* The deadlines from which progress takes the earliest: those after a stage
\* that fired, and that of the first timer that is not due.
Seen ==
    UNION {{TimeoutAt(t, k) : k \in {j \in (t.stage + 1)..WindowLength(t) : j - 1 \in DueStages(t)}}
              \union (IF DueStages(t) = {} THEN {t.timeout} ELSE {}) :
              t \in timers}

\* Until when the thread sleeps.
WakeAt == IF Seen = {} THEN now + IdleSleep ELSE CHOOSE x \in Seen : \A y \in Seen : x <= y

\* The thread wakes up, fires everything that is due and goes to sleep again.
Progress ==
    /\ now >= wake
    /\ fired' = fired \union UNION {{FiredEvent(t, k) : k \in DueStages(t)} : t \in timers}
    /\ timers' = {Advanced(t) : t \in {u \in timers : NotDone(u)}}
    /\ wake' = WakeAt
    /\ UNCHANGED <<now, sets>>

\* Time passes while the thread sleeps.
Tick ==
    /\ now < MaxTime
    /\ now < wake
    /\ now' = now + 1
    /\ UNCHANGED <<timers, wake, fired, sets>>

\* The end of an instance.
Horizon == now = MaxTime /\ UNCHANGED timerVars

Init ==
    /\ now = 0 /\ timers = {} /\ wake = 0 /\ fired = {} /\ sets = 0

Next ==
    \/ \E slot \in TimerSlots, standstill \in {{}} \union {{s} : s \in StandstillSlots} :
            SetTimeouts(slot, standstill)
    \/ Progress
    \/ Tick
    \/ Horizon

Spec == Init /\ [][Next]_timerVars

-----------------------------------------------------------------------------
(* Properties                                                                *)

\* The thread never sleeps through a deadline: no timer is due and waits for a
\* wake-up that lies in the future, although timers are set while it sleeps.  (The
\* comment on the sleep in TimerManager::new asks that it be shorter than what any
\* newly added timer takes to expire.)
NoOversleep == \A t \in timers : t.timeout < now => wake <= now

\* The deadlines that the stages compute step by step are those the comments
\* derive: the leader counts as crashed delta_first_slice + delta_timeout after
\* the window starts, and block i is late i * delta_block + delta_timeout after it.
DeadlinesExact ==
    \A e \in fired :
        LET due == e.start + e.delta + IF e.kind = "Timeout"
                                       THEN (e.slot - e.window + 1) * DeltaBlock
                                       ELSE DeltaFirstSlice
        IN  e.at = due

\* Every timeout fires at the time that was meant (Timers::progress and the
\* sleep of the timer thread).
DeadlinesKept == NoOversleep /\ DeadlinesExact

\* Every slot of a window times out before its timer goes away, in order.
WindowTimesOut ==
    \A e \in fired : e.kind = "TimeoutCrashedLeader" =>
        LET same == {f \in fired : f.kind = "Timeout" /\ f.window = e.window /\ f.start = e.start}
        IN  /\ \A f \in same : \A s \in e.slot..f.slot : \E g \in same : g.slot = s /\ g.at <= f.at
            /\ (\A t \in timers : t.slot # e.window) => \E f \in same : f.slot = LastSlot(e.slot)

=============================================================================
