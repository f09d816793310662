---------------------- MODULE ParentReadyTrackerProofs ----------------------
(***************************************************************************)
(* What the tracker computes, for every number of slots, every set of      *)
(* block ids and every window length.                                      *)
(***************************************************************************)
EXTENDS ParentReadyTracker, WellFoundedInduction, TLAPS

\* A non-empty set of slots has a greatest element, so that the maximum
\* highest_with_parent_ready takes is well defined.
LEMMA GreatestSlot ==
    ASSUME NEW S, S \subseteq Slots, S # {}
    PROVE  \E h \in S : \A s \in S : s <= h
<1> DEFINE T == {n \in Nat : MaxSlot - n \in S}
<1>0. MaxSlot \in Nat
  BY MaxSlotAssumption
<1>1. PICK s0 \in S : s0 \in 0..MaxSlot
  BY DEF Slots
<1>2. T # {} /\ T \subseteq Nat
  <2>1. MaxSlot - s0 \in T
    BY <1>0, <1>1
  <2> QED
    BY <2>1
<1>3. PICK x \in T : \A y \in T : ~ (<<y, x>> \in OpToRel(<, Nat))
  <2> HIDE DEF T
  <2> QED BY <1>2, WFMin, NatLessThanWellFounded
<1>4. \A y \in T : x <= y
  <2> SUFFICES ASSUME NEW y \in T, ~ (x <= y) PROVE FALSE
    OBVIOUS
  <2>1. x \in Nat /\ y \in Nat
    OBVIOUS
  <2>2. y < x
    BY <2>1
  <2>3. <<y, x>> \in OpToRel(<, Nat)
    BY <2>1, <2>2, Zenon DEF OpToRel
  <2> QED
    BY <1>3, <2>3
<1>5. \A s \in S : MaxSlot - s \in T
  BY <1>0 DEF Slots
<1>6. MaxSlot - x \in S /\ x \in Nat
  OBVIOUS
<1>7. \A s \in S : s <= MaxSlot - x
  BY <1>0, <1>4, <1>5, <1>6 DEF Slots
<1> QED
  BY <1>6, <1>7

-----------------------------------------------------------------------------
(***************************************************************************)
(* The inductive invariant.  ParentsReadyExact is not inductive alone: a   *)
(* walk reads skip and notar_fallbacks, so these must agree with the       *)
(* certificates on every slot that is not pruned.  Entries are only ever   *)
(* added above the root, which is why pruning loses nothing a walk needs.  *)
(***************************************************************************)
StatusExact ==
    /\ \A s \in Slots : s >= root => (s \in skip <=> s \in certified.skips)
    /\ \A s \in Slots : s >= root =>
            notar_fallbacks[s] = {b \in certified.blocks : b.slot = s}

\* The walks never pass a slot without raising highest_with_parent_ready.
HighestBounds ==
    /\ root <= bank_root
    /\ bank_root < highest_with_parent_ready
    /\ \A b \in certified.blocks : b.slot < highest_with_parent_ready

\* An announced slot is never above the highest one, and its parent is ready
\* as long as the slot is not pruned.
AnnouncedReady ==
    \A e \in announced :
        /\ e.slot <= highest_with_parent_ready
        /\ e.slot >= root => e.parent \in parents_ready[e.slot]

TrackerInv ==
    /\ TrackerTypeOK
    /\ StatusExact
    /\ ParentsReadyExact
    /\ HighestBounds
    /\ HighestIsHighest
    /\ EveryWindowAnnounced
    /\ AnnouncedReady

\* What NewHighest returns: one of its arguments, and none is above it.
LEMMA NewHighestIsMax ==
    ASSUME NEW S, S \subseteq Slots, highest_with_parent_ready \in Slots
    PROVE  /\ NewHighest(S) \in S \union {highest_with_parent_ready}
           /\ NewHighest(S) \in Slots
           /\ highest_with_parent_ready <= NewHighest(S)
           /\ \A s \in S : s <= NewHighest(S)
<1> DEFINE U == S \union {highest_with_parent_ready}
<1>1. \E h \in U : \A s \in U : s <= h
  BY GreatestSlot
<1>2. NewHighest(S) \in U /\ \A s \in U : s <= NewHighest(S)
  BY <1>1 DEF NewHighest
<1> QED
  BY <1>2

\* Initially everything is derived from the one startup parent.
LEMMA InitTrackerInv == Init => TrackerInv
<1> SUFFICES ASSUME NEW slot \in 1..MaxSlot, NEW parent \in Blocks, NEW bankRoot \in Slots,
                    parent.slot < slot, bankRoot < slot,
                    skip = (parent.slot + 1)..(slot - 1),
                    notar_fallbacks = [s \in Slots |-> IF s = parent.slot THEN {parent} ELSE {}],
                    parents_ready = [s \in Slots |-> IF s \in (parent.slot + 1)..slot
                                                     THEN {parent} ELSE {}],
                    root = MinOf(parent.slot, bankRoot),
                    bank_root = bankRoot,
                    highest_with_parent_ready = MaxOf(slot, bankRoot),
                    events = {},
                    certified = [blocks |-> {parent}, skips |-> (parent.slot + 1)..(slot - 1)],
                    announced = [slot : (parent.slot + 1)..slot, parent : {parent}]
             PROVE  TrackerInv
  BY DEF Init
<1>1. /\ MaxSlot \in Nat
      /\ slot \in Slots /\ slot \in Int /\ parent.slot \in Slots /\ parent.slot \in Int
      /\ bankRoot \in Int
  BY MaxSlotAssumption DEF Slots, Blocks
<1>2. /\ highest_with_parent_ready = slot
      /\ root <= parent.slot /\ root <= bankRoot /\ root \in Slots
  BY <1>1 DEF MaxOf, MinOf, Slots
<1>3. TrackerTypeOK
  <2>1. (parent.slot + 1)..slot \subseteq Slots /\ skip \subseteq Slots
    BY <1>1 DEF Slots
  <2>2. announced \subseteq ParentReadyEvents
    BY <2>1 DEF ParentReadyEvents
  <2> QED
    BY <1>1, <1>2, <2>1, <2>2 DEF TrackerTypeOK
<1>4. StatusExact
  BY <1>1 DEF StatusExact
<1>5. ParentsReadyExact
  BY <1>1 DEF ParentsReadyExact, ParentReadyCondition, Slots
<1>6. HighestBounds
  BY <1>1, <1>2 DEF HighestBounds
<1>7. HighestIsHighest
  BY <1>1, <1>2 DEF HighestIsHighest, Slots
<1>8. EveryWindowAnnounced
  BY <1>1 DEF EveryWindowAnnounced
<1>9. AnnouncedReady
  BY <1>1, <1>2 DEF AnnouncedReady, Slots
<1> QED
  BY <1>3, <1>4, <1>5, <1>6, <1>7, <1>8, <1>9 DEF TrackerInv

\* What MakeReady does to the announcements: exactly the new entries of first
\* slots are announced, each for the first time.
LEMMA MakeReadyAnnounces ==
    ASSUME TrackerInv, NEW slots, slots \subseteq Slots, \A s \in slots : s > root,
           NEW blocks, blocks \subseteq Blocks,
           MakeReady(slots, blocks), root' = root,
           highest_with_parent_ready' \in Slots,
           highest_with_parent_ready <= highest_with_parent_ready',
           \A s \in slots : blocks \subseteq parents_ready[s] \/ s <= highest_with_parent_ready'
    PROVE  /\ parents_ready' \in [Slots -> SUBSET Blocks]
           /\ events' \subseteq ParentReadyEvents
           /\ announced' \subseteq ParentReadyEvents
           /\ EveryWindowAnnounced'
           /\ AnnouncedReady'
           /\ events' \intersect announced = {}
<1> USE DEF TrackerInv, TrackerTypeOK
<1>1. parents_ready' \in [Slots -> SUBSET Blocks]
  BY DEF MakeReady
<1>2. \A e \in events' : /\ e = [slot |-> e.slot, parent |-> e.parent]
                         /\ e.slot \in slots /\ e.parent \in blocks
                         /\ e.parent \notin parents_ready[e.slot]
                         /\ FirstOfWindow(e.slot)
  BY DEF MakeReady, Announcements, Fresh
<1>3. \A s \in slots, b \in blocks : FirstOfWindow(s) /\ b \notin parents_ready[s] =>
            [slot |-> s, parent |-> b] \in events'
  BY DEF MakeReady, Announcements, Fresh
<1>4. events' \subseteq ParentReadyEvents
  BY <1>2 DEF ParentReadyEvents
<1>5. announced' = announced \union events'
  BY DEF MakeReady
<1>6. \A s \in Slots : parents_ready'[s] = IF s \in slots THEN parents_ready[s] \union blocks
                                                            ELSE parents_ready[s]
  BY DEF MakeReady
<1>7. EveryWindowAnnounced'
  BY <1>3, <1>5, <1>6 DEF EveryWindowAnnounced
<1>8. AnnouncedReady'
  <2> SUFFICES ASSUME NEW e \in announced'
               PROVE  /\ e.slot <= highest_with_parent_ready'
                      /\ e.slot >= root => e.parent \in parents_ready'[e.slot]
    BY DEF AnnouncedReady
  <2>1. CASE e \in announced
    <3>1. e.slot \in Slots
      BY <2>1 DEF ParentReadyEvents
    <3>2. /\ e.slot <= highest_with_parent_ready
          /\ e.slot >= root => e.parent \in parents_ready[e.slot]
      BY <2>1 DEF AnnouncedReady
    <3>3. e.slot <= highest_with_parent_ready'
      BY <3>1, <3>2, MaxSlotAssumption DEF Slots
    <3> QED
      BY <3>1, <3>2, <3>3, <1>6
  <2>2. CASE e \in events'
    BY <2>2, <1>2, <1>6
  <2> QED
    BY <2>1, <2>2, <1>5
<1>9. events' \intersect announced = {}
  <2> SUFFICES ASSUME NEW e \in events', e \in announced PROVE FALSE
    OBVIOUS
  <2>1. e.slot > root /\ e.slot \in Slots
    BY <1>2
  <2> QED
    BY <2>1, <1>2, MaxSlotAssumption DEF AnnouncedReady, Slots
<1> QED
  BY <1>1, <1>4, <1>5, <1>7, <1>8, <1>9

\* A certificate for a block: the walk visits exactly the slots for which the
\* block now satisfies the parent-ready condition.
LEMMA NotarStep ==
    ASSUME TrackerInv, NEW block \in Blocks, block.slot < MaxSlot,
           AddNewNotarFallbackOrStronger(block)
    PROVE  TrackerInv' /\ (events' = {} \/ events' \intersect announced = {})
<1> DEFINE slots == SkipConnected(block.slot, skip)
           fresh == {e.slot : e \in Fresh(slots, {block})}
<1>1. CASE block.slot <= root \/ block \in notar_fallbacks[block.slot]
  <2>1. Ignore
    BY <1>1 DEF AddNewNotarFallbackOrStronger
  <2> QED
    BY <2>1 DEF Ignore, TrackerInv, TrackerTypeOK, StatusExact, ParentsReadyExact,
                ParentReadyCondition, HighestBounds, HighestIsHighest,
                EveryWindowAnnounced, AnnouncedReady
<1>2. CASE ~ (block.slot <= root \/ block \in notar_fallbacks[block.slot])
  <2>1. /\ notar_fallbacks' = [notar_fallbacks EXCEPT ![block.slot] = @ \union {block}]
        /\ certified' = [certified EXCEPT !.blocks = @ \union {block}]
        /\ MakeReady(slots, {block})
        /\ highest_with_parent_ready' = NewHighest(fresh)
        /\ skip' = skip /\ root' = root /\ bank_root' = bank_root
    BY <1>2 DEF AddNewNotarFallbackOrStronger
  <2> HIDE DEF fresh, slots
  <2>2. /\ MaxSlot \in Nat /\ root \in Nat /\ block.slot \in Slots /\ block.slot > root
        /\ highest_with_parent_ready \in Slots
    BY <1>2, MaxSlotAssumption DEF Slots, Blocks, TrackerInv, TrackerTypeOK
  <2>3. /\ slots \subseteq Slots
        /\ \A s \in slots : s > block.slot /\ s > root
        /\ block.slot + 1 \in slots
    BY <2>2 DEF slots, SkipConnected, Slots
  <2>4. fresh \subseteq slots /\ \A s \in slots : block \notin parents_ready[s] => s \in fresh
    <3>1. fresh \subseteq slots
      BY DEF fresh, Fresh
    <3>2. ASSUME NEW s \in slots, block \notin parents_ready[s] PROVE s \in fresh
      <4>1. [slot |-> s, parent |-> block] \in Fresh(slots, {block})
        BY <3>2 DEF Fresh
      <4> QED
        BY <4>1 DEF fresh
    <3> QED
      BY <3>1, <3>2
  <2>5. /\ highest_with_parent_ready' \in fresh \union {highest_with_parent_ready}
        /\ highest_with_parent_ready' \in Slots
        /\ highest_with_parent_ready <= highest_with_parent_ready'
        /\ \A s \in fresh : s <= highest_with_parent_ready'
    BY <2>1, <2>2, <2>3, <2>4, NewHighestIsMax
  <2>6. /\ parents_ready' \in [Slots -> SUBSET Blocks]
        /\ events' \subseteq ParentReadyEvents
        /\ announced' \subseteq ParentReadyEvents
        /\ EveryWindowAnnounced'
        /\ AnnouncedReady'
        /\ events' \intersect announced = {}
    BY <2>1, <2>3, <2>4, <2>5, MakeReadyAnnounces
  <2>7. TrackerTypeOK'
    BY <2>1, <2>2, <2>5, <2>6 DEF TrackerInv, TrackerTypeOK, Blocks
  <2>8. /\ certified'.blocks = certified.blocks \union {block}
        /\ certified'.skips = certified.skips
        /\ certified.blocks \subseteq Blocks
    BY <2>1 DEF TrackerInv, TrackerTypeOK
  <2>9. StatusExact'
    BY <2>1, <2>2, <2>8 DEF StatusExact, TrackerInv, TrackerTypeOK, Blocks
  <2>10. \A s \in Slots : parents_ready'[s] =
                IF s \in slots THEN parents_ready[s] \union {block} ELSE parents_ready[s]
    BY <2>1 DEF MakeReady
  <2>11. \A s \in Slots : s \in slots <=>
                s > block.slot /\ \A t \in (block.slot + 1)..(s - 1) : t \in certified.skips
    BY <2>2 DEF slots, SkipConnected, StatusExact, TrackerInv, Slots
  <2>12. ParentsReadyExact'
    <3> SUFFICES ASSUME NEW s \in Slots, s >= root
                 PROVE  parents_ready'[s] = {b \in Blocks : ParentReadyCondition(b, s)'}
      BY <2>1 DEF ParentsReadyExact
    <3>1. parents_ready[s] = {b \in Blocks : ParentReadyCondition(b, s)}
      BY DEF ParentsReadyExact, TrackerInv
    <3>2. \A b \in Blocks : ParentReadyCondition(b, s)' <=>
                ParentReadyCondition(b, s) \/ (b = block /\ s \in slots)
      BY <2>2, <2>8, <2>11 DEF ParentReadyCondition
    <3> QED
      BY <3>1, <3>2, <2>10
  <2>13. block.slot + 1 <= highest_with_parent_ready'
    <3>1. block \in parents_ready[block.slot + 1] => block.slot + 1 <= highest_with_parent_ready
      BY <2>2, <2>3 DEF TrackerInv, HighestIsHighest, Slots
    <3> QED
      BY <3>1, <2>2, <2>3, <2>4, <2>5 DEF Slots
  <2>14. HighestBounds'
    BY <2>1, <2>2, <2>5, <2>8, <2>13 DEF HighestBounds, TrackerInv, TrackerTypeOK, Slots, Blocks
  <2>15. HighestIsHighest'
    <3>1. parents_ready'[highest_with_parent_ready'] # {}
      BY <2>3, <2>4, <2>5, <2>10 DEF TrackerInv, HighestIsHighest
    <3>2. ASSUME NEW s \in Slots, s > highest_with_parent_ready' PROVE parents_ready'[s] = {}
      <4>1. s > highest_with_parent_ready
        BY <3>2, <2>2, <2>5 DEF Slots
      <4>2. parents_ready[s] = {}
        BY <4>1 DEF TrackerInv, HighestIsHighest
      <4>3. s \notin slots
        BY <4>2, <3>2, <2>4, <2>5 DEF Slots
      <4> QED
        BY <4>2, <4>3, <2>10
    <3>3. highest_with_parent_ready' > root'
      BY <2>1, <2>2, <2>5 DEF TrackerInv, HighestIsHighest, Slots
    <3> QED
      BY <3>1, <3>2, <3>3 DEF HighestIsHighest
  <2> QED
    BY <2>6, <2>7, <2>9, <2>12, <2>14, <2>15 DEF TrackerInv
<1> QED
  BY <1>1, <1>2

\* A skip certificate: the slots it connects gain exactly the parents that now
\* reach them, which are all found in the status of the previous slot.
LEMMA SkipStep ==
    ASSUME TrackerInv, NEW slot \in 1..(MaxSlot - 1), AddNewSkip(slot)
    PROVE  TrackerInv' /\ (events' = {} \/ events' \intersect announced = {})
<1> DEFINE future  == SkipConnected(slot, skip)
           parents == PotentialParents(slot)
<1>1. CASE slot <= root
  <2>1. Ignore
    BY <1>1 DEF AddNewSkip
  <2> QED
    BY <2>1 DEF Ignore, TrackerInv, TrackerTypeOK, StatusExact, ParentsReadyExact,
                ParentReadyCondition, HighestBounds, HighestIsHighest,
                EveryWindowAnnounced, AnnouncedReady
<1>2. CASE ~ (slot <= root)
  <2>1. /\ skip' = skip \union {slot}
        /\ certified' = [certified EXCEPT !.skips = @ \union {slot}]
        /\ MakeReady(future, parents)
        /\ parents = {} => highest_with_parent_ready' = highest_with_parent_ready
        /\ parents # {} => highest_with_parent_ready' = NewHighest(future)
        /\ notar_fallbacks' = notar_fallbacks /\ root' = root /\ bank_root' = bank_root
    BY <1>2 DEF AddNewSkip
  <2> HIDE DEF future, parents
  <2>2. /\ MaxSlot \in Nat /\ root \in Nat /\ slot > root
        /\ slot \in Slots /\ slot - 1 \in Slots /\ slot - 1 >= root
        /\ highest_with_parent_ready \in Slots
    BY <1>2, MaxSlotAssumption DEF Slots, TrackerInv, TrackerTypeOK
  <2>3. future \subseteq Slots /\ \A s \in future : s > slot /\ s > root
    BY <2>2 DEF future, SkipConnected, Slots
  <2>4. parents \subseteq Blocks
    BY <2>2 DEF parents, PotentialParents, TrackerInv, TrackerTypeOK
  <2>5. /\ highest_with_parent_ready' \in future \union {highest_with_parent_ready}
        /\ highest_with_parent_ready' \in Slots
        /\ highest_with_parent_ready <= highest_with_parent_ready'
        /\ parents # {} => \A s \in future : s <= highest_with_parent_ready'
        /\ parents = {} => highest_with_parent_ready' = highest_with_parent_ready
    <3>1. CASE parents = {}
      BY <3>1, <2>1, <2>2, MaxSlotAssumption DEF Slots
    <3>2. CASE parents # {}
      BY <3>2, <2>1, <2>2, <2>3, NewHighestIsMax
    <3> QED
      BY <3>1, <3>2
  <2>6. /\ parents_ready' \in [Slots -> SUBSET Blocks]
        /\ events' \subseteq ParentReadyEvents
        /\ announced' \subseteq ParentReadyEvents
        /\ EveryWindowAnnounced'
        /\ AnnouncedReady'
        /\ events' \intersect announced = {}
    BY <2>1, <2>3, <2>4, <2>5, MakeReadyAnnounces
  <2>7. TrackerTypeOK'
    BY <2>1, <2>2, <2>5, <2>6 DEF TrackerInv, TrackerTypeOK
  <2>8. /\ certified'.blocks = certified.blocks
        /\ certified'.skips = certified.skips \union {slot}
        /\ certified.blocks \subseteq Blocks
    BY <2>1 DEF TrackerInv, TrackerTypeOK
  <2>9. StatusExact'
    BY <2>1, <2>2, <2>8 DEF StatusExact, TrackerInv, TrackerTypeOK
  <2>10. \A s \in Slots : parents_ready'[s] =
                IF s \in future THEN parents_ready[s] \union parents ELSE parents_ready[s]
    BY <2>1 DEF MakeReady
  <2>11. \A s \in Slots : s \in future <=>
                s > slot /\ \A t \in (slot + 1)..(s - 1) : t \in certified.skips
    BY <2>2 DEF future, SkipConnected, StatusExact, TrackerInv, Slots
  <2>12. \A b \in Blocks : b \in parents <=>
                /\ b \in certified.blocks
                /\ b.slot < slot
                /\ \A t \in (b.slot + 1)..(slot - 1) : t \in certified.skips
    <3> SUFFICES ASSUME NEW b \in Blocks
                 PROVE  b \in parents <=>
                            /\ b \in certified.blocks
                            /\ b.slot < slot
                            /\ \A t \in (b.slot + 1)..(slot - 1) : t \in certified.skips
      OBVIOUS
    <3>1. b.slot \in Nat
      BY MaxSlotAssumption DEF Blocks, Slots
    <3>2. b \in parents_ready[slot - 1] <=> ParentReadyCondition(b, slot - 1)
      BY <2>2 DEF ParentsReadyExact, TrackerInv
    <3>3. b \in notar_fallbacks[slot - 1] <=> b \in certified.blocks /\ b.slot = slot - 1
      BY <2>2 DEF StatusExact, TrackerInv
    <3>4. slot - 1 \in skip <=> slot - 1 \in certified.skips
      BY <2>2 DEF StatusExact, TrackerInv
    <3>5. b \in parents <=> \/ b \in notar_fallbacks[slot - 1]
                            \/ slot - 1 \in skip /\ b \in parents_ready[slot - 1]
      BY DEF parents, PotentialParents
    <3> QED
      BY <3>1, <3>2, <3>3, <3>4, <3>5, <2>2 DEF ParentReadyCondition
  <2>13. ParentsReadyExact'
    <3> SUFFICES ASSUME NEW s \in Slots, s >= root
                 PROVE  parents_ready'[s] = {b \in Blocks : ParentReadyCondition(b, s)'}
      BY <2>1 DEF ParentsReadyExact
    <3>1. parents_ready[s] = {b \in Blocks : ParentReadyCondition(b, s)}
      BY DEF ParentsReadyExact, TrackerInv
    <3>2. \A b \in Blocks : ParentReadyCondition(b, s)' <=>
                ParentReadyCondition(b, s) \/ (b \in parents /\ s \in future)
      <4> SUFFICES ASSUME NEW b \in Blocks
                   PROVE  ParentReadyCondition(b, s)' <=>
                            ParentReadyCondition(b, s) \/ (b \in parents /\ s \in future)
        OBVIOUS
      <4>1. b.slot \in Int /\ s \in Int /\ slot \in Int
        BY MaxSlotAssumption DEF Blocks, Slots
      <4>2. ParentReadyCondition(b, s)' => ParentReadyCondition(b, s) \/ (b \in parents /\ s \in future)
        BY <4>1, <2>8, <2>11, <2>12 DEF ParentReadyCondition
      <4>3. ParentReadyCondition(b, s) => ParentReadyCondition(b, s)'
        BY <2>8 DEF ParentReadyCondition
      <4>4. b \in parents /\ s \in future => ParentReadyCondition(b, s)'
        BY <4>1, <2>8, <2>11, <2>12 DEF ParentReadyCondition
      <4> QED
        BY <4>2, <4>3, <4>4
    <3> QED
      BY <3>1, <3>2, <2>4, <2>10
  <2>14. HighestBounds'
    BY <2>1, <2>2, <2>5, <2>8 DEF HighestBounds, TrackerInv, TrackerTypeOK, Slots, Blocks
  <2>15. HighestIsHighest'
    <3>1. parents_ready'[highest_with_parent_ready'] # {}
      BY <2>3, <2>5, <2>10 DEF TrackerInv, HighestIsHighest
    <3>2. ASSUME NEW s \in Slots, s > highest_with_parent_ready' PROVE parents_ready'[s] = {}
      <4>1. s > highest_with_parent_ready
        BY <3>2, <2>2, <2>5 DEF Slots
      <4>2. parents_ready[s] = {}
        BY <4>1 DEF TrackerInv, HighestIsHighest
      <4>3. s \notin future \/ parents = {}
        BY <3>2, <2>5 DEF Slots
      <4> QED
        BY <4>2, <4>3, <2>10
    <3>3. highest_with_parent_ready' > root'
      BY <2>1, <2>2, <2>5 DEF TrackerInv, HighestIsHighest, Slots
    <3> QED
      BY <3>1, <3>2, <3>3 DEF HighestIsHighest
  <2> QED
    BY <2>6, <2>7, <2>9, <2>13, <2>14, <2>15 DEF TrackerInv
<1> QED
  BY <1>1, <1>2

\* Pruning keeps every status at or above the new root, and the new root lies
\* below the highest parent-ready slot because its block was certified.
LEMMA RootStep ==
    ASSUME TrackerInv, NEW newRoot \in Slots, SetRoot(newRoot)
    PROVE  TrackerInv' /\ events' = {}
<1>1. /\ MaxSlot \in Nat /\ newRoot \in Nat /\ root \in Nat /\ bank_root \in Nat
      /\ highest_with_parent_ready \in Nat
      /\ newRoot >= root
  BY MaxSlotAssumption DEF Slots, TrackerInv, TrackerTypeOK, HighestBounds, SetRoot
<1>2. newRoot < highest_with_parent_ready
  BY DEF SetRoot, HighestBounds, TrackerInv
<1>3. TrackerTypeOK'
  BY DEF SetRoot, TrackerInv, TrackerTypeOK
<1>4. StatusExact'
  BY <1>1 DEF SetRoot, StatusExact, Retained, TrackerInv, Slots
<1>5. ParentsReadyExact'
  BY <1>1 DEF SetRoot, ParentsReadyExact, ParentReadyCondition, Retained, TrackerInv, Slots
<1>6. HighestBounds'
  BY <1>1, <1>2 DEF SetRoot, HighestBounds, TrackerInv
<1>7. HighestIsHighest'
  BY <1>1, <1>2 DEF SetRoot, HighestIsHighest, Retained, TrackerInv, TrackerTypeOK, Slots
<1>8. EveryWindowAnnounced'
  BY <1>1 DEF SetRoot, EveryWindowAnnounced, Retained, TrackerInv, Slots
<1>9. AnnouncedReady'
  BY <1>1 DEF SetRoot, AnnouncedReady, Retained, TrackerInv, TrackerTypeOK,
              ParentReadyEvents, Slots
<1> QED
  BY <1>3, <1>4, <1>5, <1>6, <1>7, <1>8, <1>9 DEF TrackerInv, SetRoot

-----------------------------------------------------------------------------
\* The invariant holds in every reachable state.
THEOREM TrackerInvariant == Spec => []TrackerInv
<1>1. Init => TrackerInv
  BY InitTrackerInv
<1>2. TrackerInv /\ [Next]_trackerVars => TrackerInv'
  <2> SUFFICES ASSUME TrackerInv, [Next]_trackerVars PROVE TrackerInv'
    OBVIOUS
  <2>1. CASE UNCHANGED trackerVars
    BY <2>1 DEF trackerVars, TrackerInv, TrackerTypeOK, StatusExact, ParentsReadyExact,
                ParentReadyCondition, HighestBounds, HighestIsHighest,
                EveryWindowAnnounced, AnnouncedReady
  <2>2. ASSUME NEW block \in Blocks, block.slot < MaxSlot, AddNewNotarFallbackOrStronger(block)
        PROVE  TrackerInv'
    BY <2>2, NotarStep
  <2>3. ASSUME NEW slot \in 1..(MaxSlot - 1), AddNewSkip(slot) PROVE TrackerInv'
    BY <2>3, SkipStep
  <2>4. ASSUME NEW slot \in Slots, SetRoot(slot) PROVE TrackerInv'
    BY <2>4, RootStep
  <2> QED
    BY <2>1, <2>2, <2>3, <2>4 DEF Next
<1> QED
  BY <1>1, <1>2, PTL DEF Spec

\* Type correctness of the tracker.
THEOREM TrackerTypeCorrect == Spec => []TrackerTypeOK
<1>1. TrackerInv => TrackerTypeOK
  BY DEF TrackerInv
<1> QED
  BY <1>1, TrackerInvariant, PTL

\* add_new_notar_fallback_or_stronger and add_new_skip maintain exactly the
\* parent-ready condition that the file's header defines.
THEOREM ParentReadyCorrect == Spec => []ParentsReadyExact
<1>1. TrackerInv => ParentsReadyExact
  BY DEF TrackerInv
<1> QED
  BY <1>1, TrackerInvariant, PTL

\* highest_parent_ready, on which block_production_parent decides, is right.
THEOREM HighestCorrect == Spec => []HighestIsHighest
<1>1. TrackerInv => HighestIsHighest
  BY DEF TrackerInv
<1> QED
  BY <1>1, TrackerInvariant, PTL

\* The unreachable!() of add_produce_block_event is never reached.
THEOREM ProductionParentExists == Spec => []AnnouncedHasParent
<1>1. TrackerInv => AnnouncedHasParent
  <2> SUFFICES ASSUME TrackerInv, NEW e \in announced
               PROVE  BlockProductionParent(e.slot).kind # "ParentNotReady"
    BY DEF AnnouncedHasParent
  <2>1. /\ e.slot \in Nat /\ root \in Nat /\ highest_with_parent_ready \in Nat
        /\ e.slot <= highest_with_parent_ready
        /\ highest_with_parent_ready > root
        /\ e.slot >= root => e.parent \in parents_ready[e.slot]
    BY MaxSlotAssumption
       DEF TrackerInv, TrackerTypeOK, AnnouncedReady, HighestIsHighest, ParentReadyEvents, Slots
  <2>2. CASE highest_with_parent_ready > e.slot
    BY <2>2 DEF BlockProductionParent
  <2>3. CASE ~ (highest_with_parent_ready > e.slot)
    <3>1. parents_ready[e.slot] # {}
      BY <2>1, <2>3
    <3> QED
      BY <2>1, <2>3, <3>1 DEF BlockProductionParent
  <2> QED
    BY <2>2, <2>3
<1> QED
  BY <1>1, TrackerInvariant, PTL

\* Every window that can be built on is announced, and none is announced twice.
THEOREM WindowsAnnounced == Spec => []EveryWindowAnnounced /\ AnnouncedOnce
<1>1. TrackerInv => EveryWindowAnnounced
  BY DEF TrackerInv
<1>2. TrackerInv /\ [Next]_trackerVars => [events' \intersect announced = {}]_trackerVars
  <2> SUFFICES ASSUME TrackerInv, Next PROVE events' \intersect announced = {}
    OBVIOUS
  <2>1. ASSUME NEW block \in Blocks, block.slot < MaxSlot, AddNewNotarFallbackOrStronger(block)
        PROVE  events' \intersect announced = {}
    BY <2>1, NotarStep
  <2>2. ASSUME NEW slot \in 1..(MaxSlot - 1), AddNewSkip(slot)
        PROVE  events' \intersect announced = {}
    BY <2>2, SkipStep
  <2>3. ASSUME NEW slot \in Slots, SetRoot(slot) PROVE events' \intersect announced = {}
    BY <2>3, RootStep
  <2> QED
    BY <2>1, <2>2, <2>3 DEF Next
<1> QED
  BY <1>1, <1>2, TrackerInvariant, PTL DEF Spec, AnnouncedOnce

=============================================================================
