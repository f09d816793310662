---------------------------- MODULE TimersProofs ----------------------------
(***************************************************************************)
(* Every slot of a window times out, in order and at its deadline: for     *)
(* every window length, all durations, any number of timers and any time   *)
(* at which they are set.                                                  *)
(***************************************************************************)
EXTENDS Timers, WellFoundedInduction, TLAPS

(***************************************************************************)
(* The inductive invariants                                                *)
(***************************************************************************)
TimersTypeOK ==
    /\ now \in Nat /\ wake \in Nat
    /\ timers \subseteq [slot : Slots, stage : Nat, timeout : Nat, start : Nat, delta : Nat]
    /\ fired \subseteq [kind : {"Timeout", "TimeoutCrashedLeader"}, slot : Nat, at : Nat,
                        start : Nat, delta : Nat, window : Slots]

\* The last stage of the timer for the window that slot w is in.
LastStage(w) == LastSlot(w) - w + 1

\* How long after start + delta stage k is due.
Offset(k) == IF k = 0 THEN DeltaFirstSlice ELSE k * DeltaBlock

\* The stage an event belongs to, and whether two events are of one timer.
StageOf(e) == IF e.kind = "Timeout" THEN e.slot - e.window + 1 ELSE 0
Together(e, f) == e.window = f.window /\ e.start = f.start
BelongsTo(e, t) == e.window = t.slot /\ e.start = t.start

\* A timer's timeout is that of its stage, and there is one timer per slot.
TimeoutsExact ==
    /\ \A t \in timers : /\ t.stage <= LastStage(t.slot) /\ t.start <= now
                         /\ t.timeout = t.start + t.delta + Offset(t.stage)
    /\ \A t, u \in timers : t.slot = u.slot => t = u

\* The events of a timer are those of the stages behind it.
StagesFired ==
    /\ \A t \in timers : /\ \A e \in fired : BelongsTo(e, t) => StageOf(e) < t.stage
                         /\ \A k \in 0..(t.stage - 1) : \E e \in fired : BelongsTo(e, t) /\ StageOf(e) = k
    /\ \A e \in fired : /\ StageOf(e) \in 0..LastStage(e.window) /\ e.at <= now
                        /\ e.kind = "TimeoutCrashedLeader" => e.slot = e.window
                        /\ e.kind = "Timeout" => StageOf(e) # 0

\* A timer that is gone has fired all its stages, and another one for its slot
\* starts later.
GoneComplete ==
    \A e \in fired :
        \/ \E t \in timers : BelongsTo(e, t)
        \/ /\ e.start < now
           /\ \A k \in 0..LastStage(e.window) : \E f \in fired : Together(e, f) /\ StageOf(f) = k

FiredInOrder ==
    \A e, f \in fired : Together(e, f) /\ StageOf(e) <= StageOf(f) => e.at <= f.at

TimersInv == TimersTypeOK /\ TimeoutsExact /\ StagesFired /\ GoneComplete /\ FiredInOrder

\* Without a standstill, and with durations like those of the code (delta_timeout is
\* 1000 ms, delta_block 400 ms, the idle sleep 100 ms), the thread is never late.
SteadyDurations ==
    /\ StandstillSlots = {}
    /\ DeltaBlock <= DeltaTimeout[0] + DeltaFirstSlice
    /\ IdleSleep <= DeltaTimeout[0] + DeltaFirstSlice

\* The thread wakes up before the next deadline, also that of a timer set meanwhile.
OnTime ==
    /\ now <= wake /\ wake <= now + DeltaTimeout[0] + DeltaFirstSlice
    /\ \A t \in timers : /\ now <= t.timeout /\ wake <= t.timeout
                         /\ t.delta = DeltaTimeout[0]
                         /\ t.stage # 0 => t.timeout <= now + DeltaBlock
    /\ \A e \in fired : e.at = e.start + e.delta + Offset(StageOf(e))

-----------------------------------------------------------------------------
(* Slots and durations                                                       *)

\* A window has its last slot at or after each of its slots.
LEMMA WindowFacts ==
    /\ Slots \subseteq Nat
    /\ \A w \in Slots : LastStage(w) \in Nat \ {0} /\ FirstSlot(w) \in Nat
    /\ \A n \in Slots : n \div WindowSize \in Slots
<1>1. ASSUME NEW n \in Nat
      PROVE  /\ n \div WindowSize \in Nat /\ WindowSize * (n \div WindowSize) <= n
             /\ n < WindowSize * (n \div WindowSize) + WindowSize
  <2>1. n \div WindowSize \in Nat
    BY WindowSizeAssumption
  <2>2. WindowSize * (n \div WindowSize) <= n
    BY WindowSizeAssumption
  <2>3. n < WindowSize * (n \div WindowSize) + WindowSize
    BY WindowSizeAssumption
  <2> QED
    BY <2>1, <2>2, <2>3
<1>2. Slots \subseteq Nat
  BY MaxSlotAssumption DEF Slots
<1>3. ASSUME NEW w \in Slots PROVE LastStage(w) \in Nat \ {0} /\ FirstSlot(w) \in Nat
  BY <1>1, <1>2, WindowSizeAssumption DEF LastStage, LastSlot, FirstSlot
<1>4. ASSUME NEW n \in Slots PROVE n \div WindowSize \in Slots
  <2>1. n \in Nat /\ n \div WindowSize \in Nat
    BY <1>1, <1>2
  <2>2. WindowSize * (n \div WindowSize) >= n \div WindowSize
    BY <2>1, WindowSizeAssumption
  <2>3. n \div WindowSize <= n
    BY <1>1, <2>1, <2>2, WindowSizeAssumption
  <2> QED
    BY <2>1, <2>3, MaxSlotAssumption DEF Slots
<1> QED
  BY <1>2, <1>3, <1>4

\* Later stages are due later, by one block at most from one to the next.
LEMMA OffsetsGrow ==
    /\ \A k \in Nat : Offset(k) \in Nat
    /\ \A k \in Nat : Offset(k) <= Offset(k + 1) /\ Offset(k + 1) <= Offset(k) + DeltaBlock
    /\ \A j, k \in Nat : j <= k => Offset(j) <= Offset(k)
    /\ \A k \in Nat \ {0} : Offset(k) > 0
<1>1. DeltaFirstSlice \in Nat /\ DeltaBlock \in Nat \ {0} /\ DeltaFirstSlice <= DeltaBlock
  BY DeltaAssumption
<1>2. \A k \in Nat : k * DeltaBlock \in Nat /\ (k + 1) * DeltaBlock = k * DeltaBlock + DeltaBlock
  BY <1>1
<1>3. \A k \in Nat : k # 0 => k * DeltaBlock >= DeltaBlock
  BY <1>1
<1>4. \A j, k \in Nat : j <= k => j * DeltaBlock <= k * DeltaBlock
  BY <1>1
<1>5. \A k \in Nat : Offset(k) \in Nat
  BY <1>1, <1>2 DEF Offset
<1>6. \A k \in Nat : Offset(k) <= Offset(k + 1) /\ Offset(k + 1) <= Offset(k) + DeltaBlock
  BY <1>1, <1>2, <1>3 DEF Offset
<1>7. ASSUME NEW j \in Nat, NEW k \in Nat, j <= k PROVE Offset(j) <= Offset(k)
  BY <1>1, <1>2, <1>3, <1>4, <1>7 DEF Offset
<1>8. \A k \in Nat \ {0} : Offset(k) > 0
  BY <1>1, <1>2, <1>3 DEF Offset
<1> QED
  BY <1>5, <1>6, <1>7, <1>8

\* The deadline of a new timer's stages.
LEMMA DeltaIs ==
    ASSUME NEW slot \in Slots, NEW standstill \in {{}} \union {{s} : s \in StandstillSlots}
    PROVE  ScaledDelta(slot, standstill) \in Nat
<1>0. DeltaTimeout \in [Slots -> Nat] /\ 0 \in Slots
  BY DeltaAssumption, MaxSlotAssumption DEF Slots
<1>1. CASE standstill = {}
  BY <1>0, <1>1 DEF ScaledDelta
<1>2. CASE standstill # {}
  <2>1. PICK s \in StandstillSlots : standstill = {s}
    BY <1>2
  <2>2. (CHOOSE x \in standstill : TRUE) = s
    BY <2>1
  <2>3. s \in Slots /\ s \in Nat /\ slot \in Nat
    BY DeltaAssumption, WindowFacts
  <2>4. MaxOf(slot - s, 0) \in Slots
    BY <2>3, MaxSlotAssumption DEF MaxOf, Slots
  <2>5. WindowsSince(slot, s) \in Slots
    BY <2>4, WindowFacts DEF WindowsSince
  <2> QED
    BY <1>0, <1>2, <2>2, <2>5 DEF ScaledDelta
<1> QED
  BY <1>1, <1>2


-----------------------------------------------------------------------------
(* The stages of a timer                                                     *)

\* A non-empty set of naturals has a least element.
LEMMA LeastNat ==
    ASSUME NEW X \in SUBSET Nat, X # {}
    PROVE  \E m \in X : \A n \in X : m <= n
<1>1. PICK m \in X : \A n \in X : ~ (<<n, m>> \in OpToRel(<, Nat))
  BY WFMin, NatLessThanWellFounded
<1>2. ASSUME NEW n \in X, ~ (m <= n) PROVE FALSE
  <2>1. n \in Nat /\ m \in Nat /\ n < m
    BY <1>2
  <2>2. <<n, m>> \in OpToRel(<, Nat)
    BY <2>1, Zenon DEF OpToRel
  <2> QED
    BY <1>1, <2>2
<1> QED
  BY <1>2

\* One below a bound has a greatest element.
LEMMA GreatestBelow ==
    ASSUME NEW bound \in Nat, NEW X \in SUBSET (0..bound), X # {}
    PROVE  \E m \in X : \A n \in X : n <= m
<1> DEFINE D == {n \in Nat : bound - n \in X}
<1>1. D \in SUBSET Nat /\ D # {}
  <2>1. PICK n \in X : n \in 0..bound
    OBVIOUS
  <2>2. bound - n \in D
    BY <2>1
  <2> QED
    BY <2>2
<1>2. PICK d \in D : \A e \in D : d <= e
  <2> HIDE DEF D
  <2> QED
    BY <1>1, LeastNat
<1>3. ASSUME NEW n \in X PROVE n <= bound - d
  <2>1. bound - n \in D
    BY <1>3
  <2> QED
    BY <1>2, <2>1
<1> QED
  BY <1>2, <1>3

\* The timers that exist, and what is known of their stages.
TimerIs(t) ==
    /\ t \in [slot : Slots, stage : Nat, timeout : Nat, start : Nat, delta : Nat]
    /\ t.stage <= LastStage(t.slot) /\ t.start <= now
    /\ t.timeout = t.start + t.delta + Offset(t.stage)

Base(t) == t.start + t.delta

\* TimerState::progress moves the timeout to that of the next stages.
LEMMA StageTimeouts ==
    ASSUME NEW t, TimerIs(t), NEW k \in Nat, t.stage <= k
    PROVE  TimeoutAt(t, k) = Base(t) + Offset(k) /\ TimeoutAt(t, k) \in Nat
<1>0. t.stage \in Nat /\ t.start \in Nat /\ t.delta \in Nat /\ t.timeout = Base(t) + Offset(t.stage)
  BY DEF TimerIs, Base
<1>1. DeltaFirstSlice \in Nat /\ DeltaBlock \in Nat
  BY DeltaAssumption
<1>2. Base(t) \in Nat /\ Offset(k) \in Nat
  <2>1. Base(t) \in Nat
    BY <1>0 DEF Base
  <2>2. Offset(k) \in Nat
    BY OffsetsGrow
  <2> QED
    BY <2>1, <2>2
<1>3. CASE k = t.stage
  BY <1>0, <1>2, <1>3 DEF TimeoutAt
<1>4. CASE k # t.stage /\ t.stage = 0
  <2>1. k # 0 /\ (k - 1) * DeltaBlock = k * DeltaBlock - DeltaBlock /\ k * DeltaBlock \in Nat
    BY <1>1, <1>4
  <2>2. TimeoutAt(t, k) = t.timeout + DeltaBlock - DeltaFirstSlice + (k - 1) * DeltaBlock
    BY <1>4 DEF TimeoutAt
  <2>3. t.timeout = Base(t) + DeltaFirstSlice /\ Offset(k) = k * DeltaBlock
    BY <1>0, <1>4, <2>1 DEF Offset
  <2> QED
    BY <1>1, <1>2, <2>1, <2>2, <2>3
<1>5. CASE k # t.stage /\ t.stage # 0
  <2>1. /\ k # 0 /\ (k - t.stage) * DeltaBlock = k * DeltaBlock - t.stage * DeltaBlock
        /\ k * DeltaBlock \in Nat /\ t.stage * DeltaBlock \in Nat
    BY <1>0, <1>1, <1>5
  <2>2. TimeoutAt(t, k) = t.timeout + (k - t.stage) * DeltaBlock
    BY <1>5 DEF TimeoutAt
  <2>3. t.timeout = Base(t) + t.stage * DeltaBlock /\ Offset(k) = k * DeltaBlock
    BY <1>0, <1>5, <2>1 DEF Offset
  <2> QED
    BY <1>1, <1>2, <2>1, <2>2, <2>3
<1> QED
  BY <1>3, <1>4, <1>5

\* The due stages are those between a timer's stage and the one it goes to.
LEMMA AdvancedIs ==
    ASSUME TimersTypeOK, NEW t, TimerIs(t)
    PROVE  /\ Advanced(t) \in [slot : Slots, stage : Nat, timeout : Nat, start : Nat, delta : Nat]
           /\ Advanced(t).slot = t.slot /\ Advanced(t).start = t.start /\ Advanced(t).delta = t.delta
           /\ t.stage <= Advanced(t).stage /\ Advanced(t).stage <= LastStage(t.slot) + 1
           /\ Advanced(t).timeout = Base(t) + Offset(Advanced(t).stage)
           /\ DueStages(t) = t.stage..(Advanced(t).stage - 1)
           /\ \A k \in t.stage..(Advanced(t).stage - 1) : Base(t) + Offset(k) <= now
           /\ NotDone(t) => Advanced(t).timeout > now
           /\ NotDone(t) <=> Advanced(t).stage <= LastStage(t.slot)
<1> DEFINE last == LastStage(t.slot)
<1>0. /\ t.stage \in Nat /\ t.start \in Nat /\ t.delta \in Nat /\ Base(t) \in Nat
      /\ t.slot \in Slots /\ last \in Nat \ {0} /\ t.stage <= last /\ now \in Nat
      /\ WindowLength(t) = last
  <2>1. t.stage \in Nat /\ t.start \in Nat /\ t.delta \in Nat /\ t.slot \in Slots /\ t.stage <= last
    BY DEF TimerIs
  <2>2. Base(t) \in Nat
    BY <2>1 DEF Base
  <2>3. last \in Nat \ {0}
    BY <2>1, WindowFacts
  <2>4. WindowLength(t) = last
    BY DEF WindowLength, LastStage
  <2> QED
    BY <2>1, <2>2, <2>3, <2>4 DEF TimersTypeOK
<1>1. \A k \in Nat : Offset(k) \in Nat
  BY OffsetsGrow
<1> HIDE DEF last
<1>2. \A k \in Nat : k \in DueStages(t) <=> t.stage <= k /\ k <= last /\ Base(t) + Offset(k) <= now
  BY <1>0, StageTimeouts DEF DueStages
<1>3. DueStages(t) \subseteq 0..last
  BY <1>0 DEF DueStages
<1>4. NotDone(t) <=> Advanced(t).stage <= last
  BY <1>0 DEF NotDone
<1>5. CASE DueStages(t) = {}
  <2>1. Advanced(t) = t
    BY <1>5 DEF Advanced
  <2>2. ~ (Base(t) + Offset(t.stage) <= now)
    BY <1>0, <1>2, <1>5
  <2>3. t.timeout = Base(t) + Offset(t.stage) /\ t.timeout \in Nat
    BY DEF TimerIs, Base
  <2>4. t.stage..(t.stage - 1) = {}
    BY <1>0
  <2>5. t.timeout > now
    BY <1>0, <2>2, <2>3
  <2>6. t.stage <= last + 1
    BY <1>0
  <2> QED
    BY <1>0, <1>4, <1>5, <2>1, <2>3, <2>4, <2>5, <2>6 DEF TimerIs, last
<1>6. CASE DueStages(t) # {}
  <2> DEFINE m == CHOOSE k \in DueStages(t) : \A j \in DueStages(t) : j <= k
  <2>1. \E k \in DueStages(t) : \A j \in DueStages(t) : j <= k
    BY <1>0, <1>3, <1>6, GreatestBelow
  <2>2. m \in DueStages(t) /\ \A j \in DueStages(t) : j <= m
    BY <2>1
  <2>3. Advanced(t) = [t EXCEPT !.stage = 1 + m, !.timeout = TimeoutAt(t, 1 + m)]
    BY <1>6 DEF Advanced
  <2> HIDE DEF m
  <2>4. m \in Nat /\ t.stage <= m /\ m <= last /\ Base(t) + Offset(m) <= now /\ 1 + m \in Nat
    BY <1>0, <1>2, <1>3, <2>2
  <2>5. TimeoutAt(t, 1 + m) = Base(t) + Offset(1 + m) /\ TimeoutAt(t, 1 + m) \in Nat
    BY <1>0, <2>4, StageTimeouts
  <2>6. /\ Advanced(t) \in [slot : Slots, stage : Nat, timeout : Nat, start : Nat, delta : Nat]
        /\ Advanced(t).slot = t.slot /\ Advanced(t).start = t.start /\ Advanced(t).delta = t.delta
        /\ Advanced(t).stage = 1 + m /\ Advanced(t).timeout = Base(t) + Offset(1 + m)
    BY <2>3, <2>4, <2>5 DEF TimerIs
  <2>7. \A k \in t.stage..m : k \in Nat /\ Base(t) + Offset(k) <= now
    <3> SUFFICES ASSUME NEW k \in t.stage..m PROVE k \in Nat /\ Base(t) + Offset(k) <= now
      OBVIOUS
    <3>1. k \in Nat /\ k <= m
      BY <1>0, <2>4
    <3>2. Offset(k) <= Offset(m)
      BY <2>4, <3>1, OffsetsGrow
    <3> QED
      BY <1>0, <1>1, <2>4, <3>1, <3>2
  <2>8. DueStages(t) = t.stage..m
    <3>1. \A k \in DueStages(t) : k \in t.stage..m
      BY <1>0, <1>2, <1>3, <2>2, <2>4
    <3>2. \A k \in t.stage..m : k \in DueStages(t)
      BY <1>0, <1>2, <2>4, <2>7
    <3> QED
      BY <3>1, <3>2
  <2>9. (1 + m) - 1 = m /\ t.stage <= 1 + m /\ 1 + m <= last + 1
    BY <1>0, <2>4
  <2>10. ASSUME 1 + m <= last PROVE Base(t) + Offset(1 + m) > now
    <3>1. 1 + m \notin DueStages(t)
      BY <2>2, <2>4
    <3>2. t.stage <= 1 + m /\ Offset(1 + m) \in Nat
      BY <1>0, <1>1, <2>4
    <3> QED
      BY <1>0, <1>2, <2>4, <2>10, <3>1, <3>2
  <2> QED
    BY <1>4, <2>6, <2>7, <2>8, <2>9, <2>10 DEF last
<1> QED
  BY <1>5, <1>6

\* An event carries the stage, the timer and the time it was fired at.
LEMMA EventIs ==
    ASSUME TimersTypeOK, NEW t, TimerIs(t), NEW k \in Nat
    PROVE  /\ FiredEvent(t, k) \in [kind : {"Timeout", "TimeoutCrashedLeader"}, slot : Nat, at : Nat,
                                    start : Nat, delta : Nat, window : Slots]
           /\ FiredEvent(t, k).at = now /\ FiredEvent(t, k).start = t.start
           /\ FiredEvent(t, k).delta = t.delta /\ FiredEvent(t, k).window = t.slot
           /\ StageOf(FiredEvent(t, k)) = k
           /\ FiredEvent(t, k).kind = "TimeoutCrashedLeader" => FiredEvent(t, k).slot = t.slot
           /\ FiredEvent(t, k).kind = "Timeout" => k # 0
<1>1. t.slot \in Slots /\ t.slot \in Nat /\ t.start \in Nat /\ t.delta \in Nat /\ now \in Nat
  BY WindowFacts DEF TimerIs, TimersTypeOK
<1>2. CASE k = 0
  BY <1>1, <1>2 DEF FiredEvent, StageOf
<1>3. CASE k # 0
  BY <1>1, <1>3 DEF FiredEvent, StageOf
<1> QED
  BY <1>2, <1>3

\* The invariant says of each timer what the lemmas above ask for.
LEMMA TimersAre ==
    ASSUME TimersInv
    PROVE  TimersTypeOK /\ \A t \in timers : TimerIs(t)
  BY DEF TimersInv, TimersTypeOK, TimeoutsExact, TimerIs

\* What progress does, timer by timer.
LEMMA ProgressEffect ==
    ASSUME TimersInv, Progress
    PROVE  /\ fired \subseteq fired' /\ now' = now
           /\ \A e \in fired' : \/ e \in fired
                                \/ \E t \in timers : \E k \in t.stage..(Advanced(t).stage - 1) :
                                      e = FiredEvent(t, k)
           /\ \A t \in timers : \A k \in t.stage..(Advanced(t).stage - 1) : FiredEvent(t, k) \in fired'
           /\ \A u \in timers' : \E t \in timers :
                  u = Advanced(t) /\ NotDone(t) /\ Advanced(t).stage <= LastStage(t.slot)
           /\ \A t \in timers : Advanced(t).stage <= LastStage(t.slot) => Advanced(t) \in timers'
<1>0. TimersTypeOK /\ \A t \in timers : TimerIs(t)
  BY TimersAre
<1>1. \A t \in timers : /\ DueStages(t) = t.stage..(Advanced(t).stage - 1)
                        /\ NotDone(t) <=> Advanced(t).stage <= LastStage(t.slot)
  BY <1>0, AdvancedIs
<1>2. /\ now' = now /\ timers' = {Advanced(t) : t \in {u \in timers : NotDone(u)}}
      /\ fired' = fired \union UNION {{FiredEvent(t, k) : k \in DueStages(t)} : t \in timers}
  BY DEF Progress
<1>3. \A e \in fired' : e \in fired \/ \E t \in timers : \E k \in DueStages(t) : e = FiredEvent(t, k)
  BY <1>2
<1>4. \A t \in timers : \A k \in DueStages(t) : FiredEvent(t, k) \in fired'
  BY <1>2
<1>5. fired \subseteq fired'
  BY <1>2
<1>6. \A u \in timers' : \E t \in timers : u = Advanced(t) /\ NotDone(t)
  BY <1>2
<1>7. \A t \in timers : NotDone(t) => Advanced(t) \in timers'
  BY <1>2
<1>8. \A u \in timers' : \E t \in timers :
          u = Advanced(t) /\ NotDone(t) /\ Advanced(t).stage <= LastStage(t.slot)
  BY <1>1, <1>6
<1>9. \A t \in timers : Advanced(t).stage <= LastStage(t.slot) => Advanced(t) \in timers'
  BY <1>1, <1>7
<1>10. \A t \in timers : \A k \in t.stage..(Advanced(t).stage - 1) : FiredEvent(t, k) \in fired'
  BY <1>1, <1>4
<1>11. \A e \in fired' : \/ e \in fired
                         \/ \E t \in timers : \E k \in t.stage..(Advanced(t).stage - 1) :
                               e = FiredEvent(t, k)
  BY <1>1, <1>3
<1> QED
  BY <1>2, <1>5, <1>8, <1>9, <1>10, <1>11

-----------------------------------------------------------------------------
(* Every step keeps the invariant                                            *)

\* wake is a time whatever progress has seen.
LEMMA WakeIs ==
    ASSUME TimersInv
    PROVE  /\ Seen \subseteq Nat /\ WakeAt \in Nat
           /\ Seen = {} => WakeAt = now + IdleSleep
           /\ Seen # {} => WakeAt \in Seen /\ \A x \in Seen : WakeAt <= x
<1>0. TimersTypeOK /\ \A t \in timers : TimerIs(t)
  BY TimersAre
<1>1. Seen \subseteq Nat
  <2> SUFFICES ASSUME NEW x \in Seen PROVE x \in Nat
    OBVIOUS
  <2>1. PICK t \in timers :
            x \in {TimeoutAt(t, k) : k \in {j \in (t.stage + 1)..WindowLength(t) : j - 1 \in DueStages(t)}}
                     \union (IF DueStages(t) = {} THEN {t.timeout} ELSE {})
    BY DEF Seen
  <2>2. TimerIs(t) /\ t.timeout \in Nat /\ t.stage \in Nat
    BY <1>0 DEF TimerIs
  <2>3. CASE x = t.timeout
    BY <2>2, <2>3
  <2>4. CASE x # t.timeout
    <3>1. PICK k \in (t.stage + 1)..WindowLength(t) : x = TimeoutAt(t, k)
      BY <2>1, <2>4
    <3>2. k \in Nat /\ t.stage <= k
      BY <2>2, <3>1
    <3> QED
      BY <2>2, <3>1, <3>2, StageTimeouts
  <2> QED
    BY <2>3, <2>4
<1>2. CASE Seen = {}
  BY <1>0, <1>2, DeltaAssumption DEF WakeAt, TimersTypeOK
<1>3. CASE Seen # {}
  <2>1. \E m \in Seen : \A n \in Seen : m <= n
    BY <1>1, <1>3, LeastNat
  <2>2. WakeAt = CHOOSE x \in Seen : \A y \in Seen : x <= y
    BY <1>3 DEF WakeAt
  <2>3. WakeAt \in Seen /\ \A x \in Seen : WakeAt <= x
    BY <2>1, <2>2
  <2> QED
    BY <1>1, <1>3, <2>3
<1> QED
  BY <1>1, <1>2, <1>3

\* The timers and the time after progress.
LEMMA ProgressTypes ==
    ASSUME TimersInv, Progress
    PROVE  TimersTypeOK' /\ TimeoutsExact'
<1>0. TimersTypeOK /\ \A t \in timers : TimerIs(t)
  BY TimersAre
<1>1. ASSUME NEW u \in timers'
      PROVE  /\ u \in [slot : Slots, stage : Nat, timeout : Nat, start : Nat, delta : Nat]
             /\ u.stage <= LastStage(u.slot) /\ u.start <= now
             /\ u.timeout = u.start + u.delta + Offset(u.stage)
  <2>1. PICK t \in timers : u = Advanced(t) /\ Advanced(t).stage <= LastStage(t.slot)
    BY ProgressEffect
  <2>2. TimerIs(t)
    BY <1>0
  <2>3. t.start <= now
    BY <2>2 DEF TimerIs
  <2> QED
    BY <1>0, <2>1, <2>2, <2>3, AdvancedIs DEF Base
<1>2. ASSUME NEW e \in fired'
      PROVE  e \in [kind : {"Timeout", "TimeoutCrashedLeader"}, slot : Nat, at : Nat,
                    start : Nat, delta : Nat, window : Slots]
  <2>1. CASE e \in fired
    BY <1>0, <2>1 DEF TimersTypeOK
  <2>2. CASE e \notin fired
    <3>1. PICK t \in timers : \E k \in t.stage..(Advanced(t).stage - 1) : e = FiredEvent(t, k)
      BY <2>2, ProgressEffect
    <3>2. PICK k \in t.stage..(Advanced(t).stage - 1) : e = FiredEvent(t, k)
      BY <3>1
    <3>3. TimerIs(t) /\ t.stage \in Nat
      BY <1>0 DEF TimerIs
    <3>4. Advanced(t).stage \in Nat
      BY <1>0, <3>3, AdvancedIs
    <3>5. k \in Nat
      BY <3>2, <3>3, <3>4
    <3> QED
      BY <1>0, <3>2, <3>3, <3>5, EventIs
  <2> QED
    BY <2>1, <2>2
<1>3. ASSUME NEW u \in timers', NEW v \in timers', u.slot = v.slot PROVE u = v
  <2>1. PICK t \in timers : u = Advanced(t)
    BY ProgressEffect
  <2>2. PICK s \in timers : v = Advanced(s)
    BY ProgressEffect
  <2>3. u.slot = t.slot /\ v.slot = s.slot
    BY <1>0, <2>1, <2>2, AdvancedIs
  <2> QED
    BY <1>3, <2>1, <2>2, <2>3 DEF TimersInv, TimeoutsExact
<1>4. now' \in Nat /\ wake' \in Nat /\ now' = now
  BY <1>0, WakeIs DEF Progress, TimersTypeOK
<1>5. TimersTypeOK'
  BY <1>1, <1>2, <1>4 DEF TimersTypeOK
<1>6. TimeoutsExact'
  BY <1>1, <1>3, <1>4 DEF TimeoutsExact
<1> QED
  BY <1>5, <1>6

\* After progress all stages of a timer before the one it has reached have fired.
LEMMA StagesBehind ==
    ASSUME TimersInv, Progress, NEW t \in timers, NEW k \in 0..(Advanced(t).stage - 1)
    PROVE  \E f \in fired' : BelongsTo(f, t) /\ StageOf(f) = k
<1>0. TimersTypeOK /\ TimerIs(t) /\ t.stage \in Nat
  BY TimersAre DEF TimerIs
<1>1. Advanced(t).stage \in Nat /\ k \in Nat
  BY <1>0, AdvancedIs
<1>2. CASE k < t.stage
  <2>1. k \in 0..(t.stage - 1)
    BY <1>0, <1>1, <1>2
  <2>2. PICK e \in fired : BelongsTo(e, t) /\ StageOf(e) = k
    BY <2>1 DEF TimersInv, StagesFired
  <2>3. e \in fired'
    BY ProgressEffect
  <2> QED
    BY <2>2, <2>3
<1>3. CASE ~ (k < t.stage)
  <2>1. k \in t.stage..(Advanced(t).stage - 1)
    BY <1>0, <1>1, <1>3
  <2>2. FiredEvent(t, k) \in fired'
    BY <2>1, ProgressEffect
  <2>3. BelongsTo(FiredEvent(t, k), t) /\ StageOf(FiredEvent(t, k)) = k
    BY <1>0, <1>1, EventIs DEF BelongsTo
  <2> QED
    BY <2>2, <2>3
<1> QED
  BY <1>2, <1>3

\* A new event is of a stage its timer has just passed.
LEMMA NewEvent ==
    ASSUME TimersInv, Progress, NEW e \in fired', e \notin fired
    PROVE  \E t \in timers :
               /\ BelongsTo(e, t) /\ StageOf(e) \in Nat /\ e.at = now /\ e.delta = t.delta
               /\ t.stage <= StageOf(e) /\ StageOf(e) < Advanced(t).stage
               /\ StageOf(e) <= LastStage(t.slot)
               /\ Base(t) + Offset(StageOf(e)) <= now
               /\ e.kind = "TimeoutCrashedLeader" => e.slot = e.window
               /\ e.kind = "Timeout" => StageOf(e) # 0
<1>1. PICK t \in timers : \E k \in t.stage..(Advanced(t).stage - 1) : e = FiredEvent(t, k)
  BY ProgressEffect
<1>2. PICK k \in t.stage..(Advanced(t).stage - 1) : e = FiredEvent(t, k)
  BY <1>1
<1>3. TimersTypeOK /\ TimerIs(t) /\ t.stage \in Nat /\ t.slot \in Slots
  BY TimersAre DEF TimerIs
<1>4. /\ Advanced(t).stage \in Nat /\ Advanced(t).stage <= LastStage(t.slot) + 1
      /\ Base(t) + Offset(k) <= now
  BY <1>2, <1>3, AdvancedIs
<1>5. LastStage(t.slot) \in Nat
  BY <1>3, WindowFacts
<1>6. k \in Nat /\ t.stage <= k /\ k < Advanced(t).stage /\ k <= LastStage(t.slot)
  BY <1>2, <1>3, <1>4, <1>5
<1>7. /\ e.at = now /\ e.start = t.start /\ e.delta = t.delta /\ e.window = t.slot /\ StageOf(e) = k
      /\ e.kind = "TimeoutCrashedLeader" => e.slot = t.slot
      /\ e.kind = "Timeout" => k # 0
  BY <1>2, <1>3, <1>6, EventIs
<1>8. BelongsTo(e, t)
  BY <1>7 DEF BelongsTo
<1> QED
  BY <1>4, <1>6, <1>7, <1>8

\* After progress the events are still those of the stages behind, of live timers and
\* of those that are gone, and in order.
LEMMA ProgressStages ==
    ASSUME TimersInv, Progress
    PROVE  StagesFired' /\ GoneComplete' /\ FiredInOrder'
<1>0. /\ TimersTypeOK /\ \A t \in timers : TimerIs(t) /\ t.stage \in Nat /\ t.slot \in Slots
      /\ TimeoutsExact /\ StagesFired /\ GoneComplete /\ FiredInOrder
  BY TimersAre DEF TimersInv, TimerIs
<1>1. now' = now /\ now \in Nat /\ fired \subseteq fired'
  BY <1>0, ProgressEffect DEF TimersTypeOK
<1>2. \A t \in timers : /\ Advanced(t).slot = t.slot /\ Advanced(t).start = t.start
                        /\ Advanced(t).stage \in Nat /\ t.stage <= Advanced(t).stage
  BY <1>0, AdvancedIs
<1>3. \A e \in fired' : StageOf(e) \in Int
  <2> SUFFICES ASSUME NEW e \in fired' PROVE StageOf(e) \in Int
    OBVIOUS
  <2>1. CASE e \in fired
    <3>1. StageOf(e) \in 0..LastStage(e.window)
      BY <1>0, <2>1 DEF StagesFired
    <3> QED
      BY <3>1
  <2>2. CASE e \notin fired
    BY <2>2, NewEvent
  <2> QED
    BY <2>1, <2>2
<1>4. ASSUME NEW u \in timers', NEW e \in fired', BelongsTo(e, u) PROVE StageOf(e) < u.stage
  <2>1. PICK t \in timers : u = Advanced(t)
    BY ProgressEffect
  <2>2. BelongsTo(e, t) /\ t.stage \in Nat /\ u.stage \in Nat /\ t.stage <= u.stage
    BY <1>0, <1>2, <1>4, <2>1 DEF BelongsTo
  <2>3. CASE e \in fired
    <3>1. StageOf(e) < t.stage
      BY <1>0, <2>2, <2>3 DEF StagesFired
    <3> QED
      BY <1>3, <2>2, <3>1
  <2>4. CASE e \notin fired
    <3>1. PICK s \in timers : BelongsTo(e, s) /\ StageOf(e) < Advanced(s).stage
      BY <2>4, NewEvent
    <3>2. s = t
      BY <1>0, <2>2, <3>1 DEF BelongsTo, TimeoutsExact
    <3> QED
      BY <2>1, <3>1, <3>2
  <2> QED
    BY <2>3, <2>4
<1>5. ASSUME NEW u \in timers', NEW k \in 0..(u.stage - 1)
      PROVE  \E e \in fired' : BelongsTo(e, u) /\ StageOf(e) = k
  <2>1. PICK t \in timers : u = Advanced(t)
    BY ProgressEffect
  <2>2. PICK e \in fired' : BelongsTo(e, t) /\ StageOf(e) = k
    BY <1>5, <2>1, StagesBehind
  <2>3. BelongsTo(e, u)
    BY <1>2, <2>1, <2>2 DEF BelongsTo
  <2> QED
    BY <2>2, <2>3
<1>6. ASSUME NEW e \in fired'
      PROVE  /\ StageOf(e) \in 0..LastStage(e.window) /\ e.at <= now
             /\ e.kind = "TimeoutCrashedLeader" => e.slot = e.window
             /\ e.kind = "Timeout" => StageOf(e) # 0
  <2>1. CASE e \in fired
    BY <1>0, <2>1 DEF StagesFired
  <2>2. CASE e \notin fired
    <3>1. PICK t \in timers : /\ BelongsTo(e, t) /\ StageOf(e) \in Nat /\ e.at = now
                              /\ StageOf(e) <= LastStage(t.slot)
                              /\ e.kind = "TimeoutCrashedLeader" => e.slot = e.window
                              /\ e.kind = "Timeout" => StageOf(e) # 0
      BY <2>2, NewEvent
    <3>2. e.window = t.slot /\ LastStage(t.slot) \in Nat
      BY <1>0, <3>1, WindowFacts DEF BelongsTo
    <3> QED
      BY <1>1, <3>1, <3>2
  <2> QED
    BY <2>1, <2>2
<1>7. StagesFired'
  BY <1>1, <1>4, <1>5, <1>6 DEF StagesFired
<1>8. ASSUME NEW e \in fired'
      PROVE  \/ \E t \in timers' : BelongsTo(e, t)
             \/ /\ e.start < now
                /\ \A k \in 0..LastStage(e.window) : \E f \in fired' : Together(e, f) /\ StageOf(f) = k
  <2>1. ASSUME NEW t \in timers, BelongsTo(e, t), ~ \E u \in timers' : BelongsTo(e, u)
        PROVE  /\ e.start < now
               /\ \A k \in 0..LastStage(e.window) : \E f \in fired' : Together(e, f) /\ StageOf(f) = k
    <3> DEFINE last == LastStage(t.slot)
    <3>0. /\ e.window = t.slot /\ e.start = t.start /\ last \in Nat \ {0} /\ TimerIs(t)
          /\ t.start \in Nat /\ t.delta \in Nat /\ t.stage <= last /\ t.stage \in Nat
      BY <1>0, <2>1, WindowFacts DEF BelongsTo, TimerIs
    <3> HIDE DEF last
    <3>1. Advanced(t).stage = last + 1
      <4>1. Advanced(t) \notin timers'
        BY <1>2, <2>1 DEF BelongsTo
      <4>2. ~ (Advanced(t).stage <= last)
        BY <4>1, ProgressEffect DEF last
      <4>3. Advanced(t).stage <= last + 1
        BY <1>0, AdvancedIs DEF last
      <4> QED
        BY <1>2, <3>0, <4>2, <4>3
    <3>2. last \in t.stage..(Advanced(t).stage - 1)
      BY <3>0, <3>1
    <3>3. Base(t) + Offset(last) <= now
      BY <1>0, <3>0, <3>2, AdvancedIs
    <3>4. Offset(last) \in Nat /\ Offset(last) > 0
      BY <3>0, OffsetsGrow
    <3>5. t.start + t.delta + Offset(last) <= now
      BY <3>3 DEF Base
    <3>6. t.start < now
      BY <1>1, <3>0, <3>4, <3>5
    <3>7. ASSUME NEW k \in 0..last PROVE \E f \in fired' : Together(e, f) /\ StageOf(f) = k
      <4>1. k \in 0..(Advanced(t).stage - 1)
        BY <3>0, <3>1
      <4>2. PICK f \in fired' : BelongsTo(f, t) /\ StageOf(f) = k
        BY <4>1, StagesBehind
      <4> QED
        BY <3>0, <4>2 DEF BelongsTo, Together
    <3> QED
      BY <3>0, <3>6, <3>7 DEF last
  <2>2. CASE \E t \in timers : BelongsTo(e, t)
    BY <2>1, <2>2
  <2>3. CASE ~ \E t \in timers : BelongsTo(e, t)
    <3>1. e \in fired
      BY <2>3, NewEvent
    <3>2. /\ e.start < now
          /\ \A k \in 0..LastStage(e.window) : \E f \in fired : Together(e, f) /\ StageOf(f) = k
      BY <1>0, <2>3, <3>1 DEF GoneComplete
    <3> QED
      BY <1>1, <3>2
  <2> QED
    BY <2>2, <2>3
<1>9. GoneComplete'
  BY <1>1, <1>8 DEF GoneComplete
<1>10. ASSUME NEW e \in fired', NEW f \in fired', Together(e, f), StageOf(e) <= StageOf(f)
       PROVE  e.at <= f.at
  <2>1. CASE f \notin fired
    <3>1. f.at = now
      BY <2>1, NewEvent
    <3> QED
      BY <1>6, <3>1
  <2>2. CASE e \in fired /\ f \in fired
    BY <1>0, <1>10, <2>2 DEF FiredInOrder
  <2>3. CASE e \notin fired /\ f \in fired
    <3>1. PICK t \in timers : BelongsTo(e, t) /\ t.stage <= StageOf(e)
      BY <2>3, NewEvent
    <3>2. BelongsTo(f, t)
      BY <1>10, <3>1 DEF BelongsTo, Together
    <3>3. StageOf(f) < t.stage
      BY <1>0, <2>3, <3>2 DEF StagesFired
    <3>4. t.stage \in Int /\ StageOf(e) \in Int /\ StageOf(f) \in Int
      BY <1>0, <1>3
    <3> QED
      BY <1>10, <3>1, <3>3, <3>4
  <2> QED
    BY <2>1, <2>2, <2>3
<1>11. FiredInOrder'
  BY <1>10 DEF FiredInOrder
<1> QED
  BY <1>7, <1>9, <1>11

\* Setting a timer keeps the invariant: its slot has no other, and an older one of
\* the slot started earlier.
LEMMA SetKeeps ==
    ASSUME TimersInv, NEW slot \in TimerSlots,
           NEW standstill \in {{}} \union {{s} : s \in StandstillSlots}, SetTimeouts(slot, standstill)
    PROVE  TimersInv'
<1>0. /\ TimersTypeOK /\ TimeoutsExact /\ StagesFired /\ GoneComplete /\ FiredInOrder
      /\ now' = now /\ wake' = wake /\ fired' = fired
  BY DEF TimersInv, SetTimeouts
<1>1. CASE timers' = timers
  <2>1. TimersTypeOK' /\ TimeoutsExact' /\ StagesFired' /\ GoneComplete' /\ FiredInOrder'
    BY <1>0, <1>1 DEF TimersTypeOK, TimeoutsExact, StagesFired, GoneComplete, FiredInOrder
  <2> QED
    BY <2>1 DEF TimersInv
<1>2. CASE timers' # timers
  <2> DEFINE d == ScaledDelta(slot, standstill)
             n == NewTimer(slot, d)
  <2>1. timers' = timers \union {n} /\ \A t \in timers : t.slot # slot
    BY <1>2 DEF SetTimeouts
  <2>2. slot \in Slots /\ d \in Nat /\ now \in Nat /\ Offset(0) = DeltaFirstSlice /\ DeltaFirstSlice \in Nat
    BY <1>0, DeltaAssumption, DeltaIs DEF TimersTypeOK, Offset
  <2> HIDE DEF d
  <2>3. /\ n \in [slot : Slots, stage : Nat, timeout : Nat, start : Nat, delta : Nat]
        /\ n.slot = slot /\ n.stage = 0 /\ n.start = now /\ n.delta = d
        /\ n.timeout = now + d + Offset(0)
    BY <2>2 DEF NewTimer
  <2> HIDE DEF n
  <2>4. LastStage(slot) \in Nat
    BY <2>2, WindowFacts
  <2>5. TimersTypeOK'
    BY <1>0, <2>1, <2>3 DEF TimersTypeOK
  <2>6. TimeoutsExact'
    <3>1. n.stage <= LastStage(n.slot) /\ n.start <= now /\ n.timeout = n.start + n.delta + Offset(n.stage)
      BY <2>2, <2>3, <2>4
    <3>2. \A t \in timers' : /\ t.stage <= LastStage(t.slot) /\ t.start <= now
                             /\ t.timeout = t.start + t.delta + Offset(t.stage)
      BY <1>0, <2>1, <3>1 DEF TimeoutsExact
    <3>3. \A t, u \in timers' : t.slot = u.slot => t = u
      BY <1>0, <2>1, <2>3 DEF TimeoutsExact
    <3> QED
      BY <1>0, <3>2, <3>3 DEF TimeoutsExact
  <2>7. ASSUME NEW e \in fired PROVE ~ BelongsTo(e, n)
    <3>1. CASE \E t \in timers : BelongsTo(e, t)
      BY <2>1, <2>3, <3>1 DEF BelongsTo
    <3>2. CASE e.start < now
      <4>1. e.start \in Nat
        BY <1>0 DEF TimersTypeOK
      <4> QED
        BY <2>2, <2>3, <3>2, <4>1 DEF BelongsTo
    <3> QED
      BY <1>0, <3>1, <3>2 DEF GoneComplete
  <2>8. StagesFired'
    <3>1. 0..(n.stage - 1) = {}
      BY <2>3
    <3>2. \A t \in timers' : /\ \A e \in fired : BelongsTo(e, t) => StageOf(e) < t.stage
                             /\ \A k \in 0..(t.stage - 1) : \E e \in fired : BelongsTo(e, t) /\ StageOf(e) = k
      BY <1>0, <2>1, <2>7, <3>1 DEF StagesFired
    <3> QED
      BY <1>0, <3>2 DEF StagesFired
  <2>9. GoneComplete' /\ FiredInOrder'
    BY <1>0, <2>1 DEF GoneComplete, FiredInOrder
  <2> QED
    BY <2>5, <2>6, <2>8, <2>9 DEF TimersInv
<1> QED
  BY <1>1, <1>2

\* Time passes.
LEMMA TickKeeps == TimersInv /\ Tick => TimersInv'
<1> SUFFICES ASSUME TimersInv, Tick PROVE TimersInv'
  OBVIOUS
<1>0. /\ TimersTypeOK /\ TimeoutsExact /\ StagesFired /\ GoneComplete /\ FiredInOrder
      /\ now' = now + 1 /\ wake' = wake /\ fired' = fired /\ timers' = timers
  BY DEF TimersInv, Tick
<1>1. TimersTypeOK' /\ now \in Nat
  BY <1>0 DEF TimersTypeOK
<1>2. \A t \in timers : t.start <= now => t.start <= now'
  BY <1>0, <1>1 DEF TimersTypeOK
<1>3. \A e \in fired : (e.at <= now => e.at <= now') /\ (e.start < now => e.start < now')
  BY <1>0, <1>1 DEF TimersTypeOK
<1>4. TimeoutsExact'
  BY <1>0, <1>2 DEF TimeoutsExact
<1>5. StagesFired'
  BY <1>0, <1>3 DEF StagesFired
<1>6. GoneComplete' /\ FiredInOrder'
  BY <1>0, <1>3 DEF GoneComplete, FiredInOrder
<1> QED
  BY <1>1, <1>4, <1>5, <1>6 DEF TimersInv

\* No timer and no event at the start.
LEMMA InitTimersInv == Init => TimersInv
  BY DEF Init, TimersInv, TimersTypeOK, TimeoutsExact, StagesFired, GoneComplete, FiredInOrder

\* Every step keeps the invariant.
LEMMA NextTimersInv == TimersInv /\ [Next]_timerVars => TimersInv'
<1> SUFFICES ASSUME TimersInv, [Next]_timerVars PROVE TimersInv'
  OBVIOUS
<1>1. ASSUME NEW slot \in TimerSlots, NEW standstill \in {{}} \union {{s} : s \in StandstillSlots},
             SetTimeouts(slot, standstill)
      PROVE  TimersInv'
  BY <1>1, SetKeeps
<1>2. CASE Progress
  BY <1>2, ProgressTypes, ProgressStages DEF TimersInv
<1>3. CASE Tick
  BY <1>3, TickKeeps
<1>4. CASE UNCHANGED timerVars
  BY <1>4 DEF timerVars, TimersInv, TimersTypeOK, TimeoutsExact, StagesFired, GoneComplete, FiredInOrder
<1> QED
  BY <1>1, <1>2, <1>3, <1>4 DEF Next, Horizon

-----------------------------------------------------------------------------
(* Without a standstill everything is on time                                *)

\* What progress has seen is not past, and comes before any later timer's deadline.
LEMMA SeenSoon ==
    ASSUME SteadyDurations, TimersInv, OnTime, now >= wake, NEW x \in Seen
    PROVE  x >= now /\ x <= now + DeltaTimeout[0] + DeltaFirstSlice
<1>0. TimersTypeOK /\ \A t \in timers : TimerIs(t)
  BY TimersAre
<1>1. /\ now \in Nat /\ DeltaBlock \in Nat /\ DeltaFirstSlice \in Nat /\ DeltaTimeout[0] \in Nat
      /\ DeltaBlock <= DeltaTimeout[0] + DeltaFirstSlice
  BY <1>0, DeltaAssumption, MaxSlotAssumption DEF TimersTypeOK, SteadyDurations
<1>2. PICK t \in timers :
          x \in {TimeoutAt(t, k) : k \in {j \in (t.stage + 1)..WindowLength(t) : j - 1 \in DueStages(t)}}
                   \union (IF DueStages(t) = {} THEN {t.timeout} ELSE {})
  BY DEF Seen
<1>3. /\ TimerIs(t) /\ t.stage \in Nat /\ t.timeout \in Nat /\ t.start \in Nat /\ t.start <= now
      /\ t.timeout = t.start + t.delta + Offset(t.stage) /\ t.delta = DeltaTimeout[0]
      /\ now <= t.timeout
      /\ t.stage # 0 => t.timeout <= now + DeltaBlock
  BY <1>0 DEF TimerIs, OnTime
<1>4. CASE x = t.timeout
  <2>1. CASE t.stage = 0
    <3>1. t.timeout = t.start + DeltaTimeout[0] + DeltaFirstSlice
      BY <1>3, <2>1 DEF Offset
    <3> QED
      BY <1>1, <1>3, <1>4, <3>1
  <2>2. CASE t.stage # 0
    BY <1>1, <1>3, <1>4, <2>2
  <2> QED
    BY <2>1, <2>2
<1>5. CASE x # t.timeout
  <2>1. PICK k \in (t.stage + 1)..WindowLength(t) : x = TimeoutAt(t, k) /\ k - 1 \in DueStages(t)
    BY <1>2, <1>5
  <2>2. k \in Nat /\ k - 1 \in Nat /\ t.stage <= k - 1 /\ t.stage <= k
    BY <1>3, <2>1
  <2>3. k - 1 \in t.stage..(Advanced(t).stage - 1)
    BY <1>0, <1>3, <2>1, AdvancedIs
  <2>4. Base(t) + Offset(k - 1) <= now
    BY <1>0, <1>3, <2>3, AdvancedIs
  <2>5. x = Base(t) + Offset(k)
    BY <1>3, <2>1, <2>2, StageTimeouts
  <2>6. /\ Offset(t.stage) <= Offset(k - 1) /\ Offset(k - 1) <= Offset((k - 1) + 1)
        /\ Offset((k - 1) + 1) <= Offset(k - 1) + DeltaBlock
        /\ Offset(t.stage) \in Nat /\ Offset(k - 1) \in Nat /\ Offset(k) \in Nat
    BY <1>3, <2>2, OffsetsGrow
  <2>7. (k - 1) + 1 = k
    BY <2>2
  <2>8. Base(t) \in Nat /\ now <= Base(t) + Offset(t.stage)
    BY <1>1, <1>3 DEF Base
  <2> QED
    BY <1>1, <2>4, <2>5, <2>6, <2>7, <2>8
<1> QED
  BY <1>4, <1>5

\* The thread goes to sleep until a deadline none of the timers precedes, and what it
\* has just fired was due now.
LEMMA ProgressOnTime ==
    ASSUME SteadyDurations, TimersInv, OnTime, Progress
    PROVE  OnTime'
<1>0. TimersTypeOK /\ \A t \in timers : TimerIs(t) /\ now >= wake /\ wake' = WakeAt /\ now' = now
  BY TimersAre DEF Progress
<1>1. /\ now \in Nat /\ DeltaBlock \in Nat /\ DeltaFirstSlice \in Nat /\ DeltaTimeout[0] \in Nat
      /\ IdleSleep \in Nat /\ IdleSleep <= DeltaTimeout[0] + DeltaFirstSlice
  BY <1>0, DeltaAssumption, MaxSlotAssumption DEF TimersTypeOK, SteadyDurations
<1>2. now' <= wake' /\ wake' <= now' + DeltaTimeout[0] + DeltaFirstSlice
  <2>0. now >= wake /\ wake' = WakeAt /\ now' = now
    BY DEF Progress
  <2>1. CASE Seen = {}
    BY <1>1, <2>0, <2>1, WakeIs
  <2>2. CASE Seen # {}
    <3>1. WakeAt \in Seen
      BY <2>2, WakeIs
    <3>2. WakeAt >= now /\ WakeAt <= now + DeltaTimeout[0] + DeltaFirstSlice /\ WakeAt \in Nat
      BY <2>0, <3>1, SeenSoon, WakeIs
    <3> QED
      BY <1>1, <2>0, <3>2
  <2> QED
    BY <2>1, <2>2
<1>3. ASSUME NEW u \in timers'
      PROVE  /\ now <= u.timeout /\ WakeAt <= u.timeout /\ u.delta = DeltaTimeout[0]
             /\ u.stage # 0 => u.timeout <= now + DeltaBlock
  <2>1. PICK t \in timers : u = Advanced(t) /\ NotDone(t) /\ u.stage <= LastStage(t.slot)
    BY ProgressEffect
  <2>2. /\ TimerIs(t) /\ t.stage \in Nat /\ t.slot \in Slots /\ t.delta = DeltaTimeout[0]
        /\ t.timeout = Base(t) + Offset(t.stage)
        /\ t.stage # 0 => t.timeout <= now + DeltaBlock
    BY <1>0 DEF OnTime, TimerIs, Base
  <2>3. /\ u.stage \in Nat /\ u.timeout \in Nat /\ u.delta = t.delta /\ t.stage <= u.stage
        /\ u.timeout = Base(t) + Offset(u.stage) /\ u.timeout > now
        /\ DueStages(t) = t.stage..(u.stage - 1)
        /\ \A k \in t.stage..(u.stage - 1) : Base(t) + Offset(k) <= now
    BY <1>0, <2>1, <2>2, AdvancedIs
  <2>4. CASE DueStages(t) = {}
    <3>1. u = t
      BY <2>1, <2>4 DEF Advanced
    <3>2. t.timeout \in Seen
      BY <2>4 DEF Seen
    <3>3. WakeAt <= t.timeout
      BY <3>2, WakeIs
    <3> QED
      BY <1>1, <2>2, <2>3, <3>1, <3>3
  <2>5. CASE DueStages(t) # {}
    <3>1. u.stage - 1 \in t.stage..(u.stage - 1) /\ u.stage - 1 \in Nat /\ t.stage + 1 <= u.stage
      BY <2>2, <2>3, <2>5
    <3>2. WindowLength(t) = LastStage(t.slot)
      BY DEF WindowLength, LastStage
    <3>3. TimeoutAt(t, u.stage) = u.timeout
      BY <2>2, <2>3, StageTimeouts
    <3>4. LastStage(t.slot) \in Nat
      BY <2>2, WindowFacts
    <3>5. u.stage \in (t.stage + 1)..WindowLength(t)
      BY <2>1, <2>2, <2>3, <3>1, <3>2, <3>4
    <3>6. u.stage \in {j \in (t.stage + 1)..WindowLength(t) : j - 1 \in DueStages(t)}
      BY <2>3, <3>1, <3>5
    <3>7. u.timeout \in Seen
      BY <3>3, <3>6 DEF Seen
    <3>8. WakeAt <= u.timeout
      BY <3>7, WakeIs
    <3>9. Base(t) + Offset(u.stage - 1) <= now
      BY <2>3, <3>1
    <3>10. Offset((u.stage - 1) + 1) <= Offset(u.stage - 1) + DeltaBlock
      BY <3>1, OffsetsGrow
    <3>11. (u.stage - 1) + 1 = u.stage /\ Offset(u.stage) \in Nat /\ Offset(u.stage - 1) \in Nat
      <4>1. u.stage \in Nat /\ u.stage - 1 \in Nat
        BY <2>3, <3>1
      <4>2. (u.stage - 1) + 1 = u.stage
        BY <4>1
      <4>3. Offset(u.stage) \in Nat /\ Offset(u.stage - 1) \in Nat
        BY <4>1, OffsetsGrow
      <4> QED
        BY <4>2, <4>3
    <3>12. Base(t) \in Nat
      BY <2>2 DEF Base, TimerIs
    <3>13. u.timeout <= now + DeltaBlock
      BY <1>1, <2>3, <3>9, <3>10, <3>11, <3>12
    <3> QED
      BY <1>1, <2>2, <2>3, <3>8, <3>13
  <2> QED
    BY <2>4, <2>5
<1>4. ASSUME NEW e \in fired' PROVE e.at = e.start + e.delta + Offset(StageOf(e))
  <2>1. CASE e \in fired
    BY <2>1 DEF OnTime
  <2>2. CASE e \notin fired
    <3>1. PICK t \in timers : /\ BelongsTo(e, t) /\ StageOf(e) \in Nat /\ e.at = now
                              /\ e.delta = t.delta /\ t.stage <= StageOf(e)
                              /\ Base(t) + Offset(StageOf(e)) <= now
      BY <2>2, NewEvent
    <3>2. /\ t.start \in Nat /\ t.delta \in Nat /\ t.stage \in Nat /\ Base(t) \in Nat
          /\ now <= Base(t) + Offset(t.stage) /\ Base(t) = e.start + e.delta
      BY <1>0, <3>1 DEF TimerIs, OnTime, Base, BelongsTo
    <3>3. /\ Offset(t.stage) <= Offset(StageOf(e)) /\ Offset(t.stage) \in Nat
          /\ Offset(StageOf(e)) \in Nat
      BY <3>1, <3>2, OffsetsGrow
    <3>4. now = Base(t) + Offset(StageOf(e))
      BY <1>1, <3>1, <3>2, <3>3
    <3> QED
      BY <3>1, <3>2, <3>4
  <2> QED
    BY <2>1, <2>2
<1>5. now' = now /\ wake' = WakeAt
  BY DEF Progress
<1> QED
  BY <1>2, <1>3, <1>4, <1>5 DEF OnTime

\* A new timer's first deadline is not before the end of a sleep chosen earlier.
LEMMA SetOnTime ==
    ASSUME SteadyDurations, TimersInv, OnTime, NEW slot \in TimerSlots,
           NEW standstill \in {{}} \union {{s} : s \in StandstillSlots}, SetTimeouts(slot, standstill)
    PROVE  OnTime'
<1>0. TimersTypeOK /\ now' = now /\ wake' = wake /\ fired' = fired
  BY DEF TimersInv, SetTimeouts
<1>1. /\ now \in Nat /\ DeltaFirstSlice \in Nat /\ DeltaTimeout[0] \in Nat
  BY <1>0, DeltaAssumption, MaxSlotAssumption DEF TimersTypeOK
<1>2. ScaledDelta(slot, standstill) = DeltaTimeout[0]
  BY DEF SteadyDurations, ScaledDelta
<1>3. \A t \in timers' : t \in timers \/ t = NewTimer(slot, DeltaTimeout[0])
  BY <1>2 DEF SetTimeouts
<1>4. /\ NewTimer(slot, DeltaTimeout[0]).timeout = now + DeltaTimeout[0] + DeltaFirstSlice
      /\ NewTimer(slot, DeltaTimeout[0]).delta = DeltaTimeout[0]
      /\ NewTimer(slot, DeltaTimeout[0]).stage = 0
  BY DEF NewTimer
<1>5. now <= wake /\ wake <= now + DeltaTimeout[0] + DeltaFirstSlice
  BY DEF OnTime
<1>6. ASSUME NEW t \in timers'
      PROVE  /\ now <= t.timeout /\ wake <= t.timeout /\ t.delta = DeltaTimeout[0]
             /\ t.stage # 0 => t.timeout <= now + DeltaBlock
  <2>1. CASE t \in timers
    BY <2>1 DEF OnTime
  <2>2. CASE t = NewTimer(slot, DeltaTimeout[0])
    BY <1>1, <1>4, <1>5, <2>2
  <2> QED
    BY <1>3, <2>1, <2>2
<1> QED
  BY <1>0, <1>6 DEF OnTime

\* Time does not pass beyond the end of the sleep.
LEMMA TickOnTime ==
    ASSUME SteadyDurations, TimersInv, OnTime, Tick
    PROVE  OnTime'
<1>0. /\ TimersTypeOK /\ now' = now + 1 /\ wake' = wake /\ fired' = fired /\ timers' = timers
      /\ now < wake
  BY DEF TimersInv, Tick
<1>1. /\ now \in Nat /\ wake \in Nat /\ DeltaFirstSlice \in Nat /\ DeltaTimeout[0] \in Nat
      /\ DeltaBlock \in Nat
  BY <1>0, DeltaAssumption, MaxSlotAssumption DEF TimersTypeOK
<1>2. now' <= wake /\ wake <= now' + DeltaTimeout[0] + DeltaFirstSlice
  BY <1>0, <1>1 DEF OnTime
<1>3. ASSUME NEW t \in timers
      PROVE  /\ now' <= t.timeout /\ wake <= t.timeout /\ t.delta = DeltaTimeout[0]
             /\ t.stage # 0 => t.timeout <= now' + DeltaBlock
  <2>1. t.timeout \in Nat
    BY <1>0 DEF TimersTypeOK
  <2>2. /\ wake <= t.timeout /\ t.delta = DeltaTimeout[0]
        /\ t.stage # 0 => t.timeout <= now + DeltaBlock
    BY DEF OnTime
  <2> QED
    BY <1>0, <1>1, <2>1, <2>2
<1> QED
  BY <1>0, <1>2, <1>3 DEF OnTime

-----------------------------------------------------------------------------
(* The theorems                                                              *)

\* The events of a timer are those of its stages, in order, with or without standstills.
THEOREM TimersInvariance == Spec => []TimersInv
  BY InitTimersInv, NextTimersInv, PTL DEF Spec

\* timers.rs progress: every slot of a window times out before its timer goes away,
\* in order, also when the thread comes late and several stages are due at once.
THEOREM WindowsAlwaysTimeOut == Spec => []WindowTimesOut
<1>1. ASSUME TimersInv, NEW e \in fired, e.kind = "TimeoutCrashedLeader"
      PROVE  LET same == {f \in fired : f.kind = "Timeout" /\ f.window = e.window /\ f.start = e.start}
             IN  /\ \A f \in same : \A s \in e.slot..f.slot : \E g \in same : g.slot = s /\ g.at <= f.at
                 /\ (\A t \in timers : t.slot # e.window) => \E f \in same : f.slot = LastSlot(e.slot)
  <2> DEFINE same == {f \in fired : f.kind = "Timeout" /\ f.window = e.window /\ f.start = e.start}
             last == LastStage(e.window)
  <2>0. TimersTypeOK /\ StagesFired /\ GoneComplete /\ FiredInOrder
    BY <1>1 DEF TimersInv
  <2>1. /\ e.window \in Slots /\ e.window \in Nat /\ e.slot = e.window /\ last \in Nat \ {0}
        /\ last = LastSlot(e.window) - e.window + 1 /\ LastSlot(e.window) \in Int
    <3>1. e.window \in Slots /\ e.slot = e.window
      BY <1>1, <2>0 DEF TimersTypeOK, StagesFired
    <3>2. FirstSlot(e.window) \in Nat
      BY <3>1, WindowFacts
    <3>3. LastStage(e.window) \in Nat \ {0} /\ e.window \in Nat
      BY <3>1, WindowFacts
    <3>4. LastSlot(e.window) \in Int
      BY <3>2, WindowSizeAssumption DEF LastSlot
    <3> QED
      BY <3>1, <3>3, <3>4 DEF LastStage
  <2> HIDE DEF last
  <2>2. ASSUME NEW f \in fired, Together(e, f), StageOf(f) # 0
        PROVE  f \in same /\ f.slot = e.window + StageOf(f) - 1 /\ f.slot \in Nat /\ StageOf(f) \in Int
    <3>1. f.slot \in Nat
      BY <2>0 DEF TimersTypeOK
    <3> QED
      BY <2>1, <2>2, <3>1 DEF StageOf, Together
  <2>3. ASSUME NEW f \in same, NEW s \in e.slot..f.slot
        PROVE  \E g \in same : g.slot = s /\ g.at <= f.at
    <3> DEFINE k == s - e.window + 1
    <3>1. f \in fired /\ Together(e, f) /\ Together(f, e) /\ f.slot \in Nat
      BY <2>0 DEF Together, TimersTypeOK
    <3>2. StageOf(f) = f.slot - e.window + 1 /\ StageOf(f) \in 0..last
      BY <2>0, <3>1 DEF StageOf, StagesFired, last
    <3>3. s \in Nat /\ k \in Nat \ {0} /\ k <= StageOf(f) /\ StageOf(f) \in Nat /\ s = e.window + k - 1
      BY <2>1, <3>1, <3>2
    <3> HIDE DEF k
    <3>4. PICK g \in fired : Together(e, g) /\ StageOf(g) = k
      <4>1. CASE \E t \in timers : BelongsTo(f, t)
        <5>1. PICK t \in timers : BelongsTo(f, t)
          BY <4>1
        <5>2. StageOf(f) < t.stage /\ t.stage \in Nat
          BY <2>0, <3>1, <5>1 DEF StagesFired, TimersTypeOK
        <5>3. k \in 0..(t.stage - 1)
          BY <3>3, <5>2
        <5>4. PICK g \in fired : BelongsTo(g, t) /\ StageOf(g) = k
          BY <2>0, <5>3 DEF StagesFired
        <5> QED
          BY <3>1, <5>1, <5>4 DEF BelongsTo, Together
      <4>2. CASE ~ \E t \in timers : BelongsTo(f, t)
        <5>1. k \in 0..LastStage(f.window)
          BY <2>1, <3>1, <3>2, <3>3 DEF Together, last
        <5>2. PICK g \in fired : Together(f, g) /\ StageOf(g) = k
          BY <2>0, <3>1, <4>2, <5>1 DEF GoneComplete
        <5> QED
          BY <3>1, <5>2 DEF Together
      <4> QED
        BY <4>1, <4>2
    <3>5. g \in same /\ g.slot = s
      BY <2>2, <3>3, <3>4
    <3>6. g.at <= f.at
      BY <2>0, <3>1, <3>3, <3>4 DEF FiredInOrder, Together
    <3> QED
      BY <3>5, <3>6
  <2>4. ASSUME \A t \in timers : t.slot # e.window
        PROVE  \E f \in same : f.slot = LastSlot(e.slot)
    <3>1. ~ \E t \in timers : BelongsTo(e, t)
      BY <2>4 DEF BelongsTo
    <3>2. last \in 0..last
      BY <2>1
    <3>3. PICK f \in fired : Together(e, f) /\ StageOf(f) = last
      BY <1>1, <2>0, <3>1, <3>2 DEF GoneComplete, last
    <3>4. f \in same /\ f.slot = e.window + last - 1
      BY <2>1, <2>2, <3>3
    <3>5. f.slot = LastSlot(e.slot)
      BY <2>1, <3>4
    <3> QED
      BY <3>4, <3>5
  <2> QED
    BY <2>3, <2>4
<1>2. TimersInv => WindowTimesOut
  BY <1>1 DEF WindowTimesOut
<1> QED
  BY <1>2, TimersInvariance, PTL

\* timer_manager.rs: without a standstill every timeout fires at its deadline, although
\* timers are set while the thread sleeps until a time it chose before.
THEOREM DeadlinesAlwaysKept ==
    ASSUME SteadyDurations
    PROVE  Spec => []DeadlinesKept
<1>1. Init => TimersInv /\ OnTime
  <2>1. DeltaTimeout[0] \in Nat /\ DeltaFirstSlice \in Nat
    BY DeltaAssumption, MaxSlotAssumption
  <2> QED
    BY <2>1, InitTimersInv DEF Init, OnTime
<1>2. TimersInv /\ OnTime /\ [Next]_timerVars => (TimersInv /\ OnTime)'
  <2> SUFFICES ASSUME TimersInv, OnTime, [Next]_timerVars PROVE OnTime'
    BY NextTimersInv
  <2>1. ASSUME NEW slot \in TimerSlots, NEW standstill \in {{}} \union {{s} : s \in StandstillSlots},
               SetTimeouts(slot, standstill)
        PROVE  OnTime'
    BY <2>1, SetOnTime
  <2>2. CASE Progress
    BY <2>2, ProgressOnTime
  <2>3. CASE Tick
    BY <2>3, TickOnTime
  <2>4. CASE UNCHANGED timerVars
    BY <2>4 DEF timerVars, OnTime
  <2> QED
    BY <2>1, <2>2, <2>3, <2>4 DEF Next, Horizon
<1>3. TimersInv /\ OnTime => DeadlinesKept
  <2> SUFFICES ASSUME TimersInv, OnTime PROVE DeadlinesKept
    OBVIOUS
  <2>0. TimersTypeOK /\ StagesFired
    BY DEF TimersInv
  <2>1. NoOversleep
    <3>1. \A t \in timers : t.timeout \in Nat /\ now <= t.timeout /\ now \in Nat
      BY <2>0 DEF TimersTypeOK, OnTime
    <3> QED
      BY <3>1 DEF NoOversleep
  <2>2. ASSUME NEW e \in fired
        PROVE  e.at = e.start + e.delta + IF e.kind = "Timeout"
                                          THEN (e.slot - e.window + 1) * DeltaBlock
                                          ELSE DeltaFirstSlice
    <3>1. e.at = e.start + e.delta + Offset(StageOf(e))
      BY DEF OnTime
    <3>2. e.kind \in {"Timeout", "TimeoutCrashedLeader"} /\ e.slot \in Nat /\ e.window \in Slots
      BY <2>0 DEF TimersTypeOK
    <3>3. e.kind = "Timeout" => Offset(StageOf(e)) = (e.slot - e.window + 1) * DeltaBlock
      BY <2>0, <3>2 DEF Offset, StageOf, StagesFired
    <3>4. e.kind # "Timeout" => Offset(StageOf(e)) = DeltaFirstSlice
      BY DEF Offset, StageOf
    <3> QED
      BY <3>1, <3>3, <3>4
  <2>3. DeadlinesExact
    BY <2>2 DEF DeadlinesExact
  <2> QED
    BY <2>1, <2>3 DEF DeadlinesKept
<1> QED
  BY <1>1, <1>2, <1>3, PTL DEF Spec

=============================================================================
