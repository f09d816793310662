------------------------- MODULE ParentReadyTracker -------------------------
(***************************************************************************)
(* The parent-ready tracker of the consensus pool                          *)
(* (votor/src/consensus_pool/parent_ready_tracker.rs).                     *)
(*                                                                         *)
(* It is fed the certificates the pool completes, in whatever order they   *)
(* complete, and answers incrementally which blocks are valid parents for  *)
(* which slot.  The map slot_statuses is three total functions here: an    *)
(* absent entry behaves as the default one, which the code creates on      *)
(* demand.  The vectors of a status are sets: the code never inserts a     *)
(* duplicate and only asks for membership, length and minimum.             *)
(***************************************************************************)
EXTENDS LeaderWindows

CONSTANT BlockIds      \* the ids of the competing blocks of one slot

ASSUME BlockIdsAssumption == BlockIds \subseteq Int

\* Certificates exist for slots below MaxSlot, so that every walk over
\* skip-certified slots ends at MaxSlot at the latest.

VARIABLES
    skip,                       \* the slots whose status has skip = true
    notar_fallbacks,            \* slot -> blocks with a notarize(-fallback) certificate
    parents_ready,              \* slot -> blocks that are parent-ready in that slot
    root,                       \* the tracker's root
    bank_root,                  \* the root of bank_forks, from which set_root is driven
    highest_with_parent_ready,
    events,                     \* the ParentReady events of the last operation
    certified,                  \* history: every certificate the tracker accepted
    announced                   \* history: every ParentReady the event loop was told of

trackerVars == <<skip, notar_fallbacks, parents_ready, root, bank_root,
                 highest_with_parent_ready, events, certified, announced>>

Blocks == [slot : Slots, id : BlockIds]
ParentReadyEvents == [slot : Slots, parent : Blocks]

\* The slots a walk that starts right after `slot` visits: every slot up to and
\* including the first one that is not skip-certified.
SkipConnected(slot, skipped) ==
    {s \in Slots : s > slot /\ \A t \in (slot + 1)..(s - 1) : t \in skipped}

-----------------------------------------------------------------------------
(* ParentReadyTracker::new, with the arguments initial_parent_ready chooses: *)
(* the startup slot is above the root of bank_forks; the startup parent is   *)
(* the root, the genesis block above it, or the parent a restored vote       *)
(* history remembers, which may lie below the root.                          *)

Init ==
    \E slot \in 1..MaxSlot, parent \in Blocks, bankRoot \in Slots :
        /\ parent.slot < slot
        /\ bankRoot < slot
        /\ skip = (parent.slot + 1)..(slot - 1)
        /\ notar_fallbacks = [s \in Slots |-> IF s = parent.slot THEN {parent} ELSE {}]
        /\ parents_ready = [s \in Slots |-> IF s \in (parent.slot + 1)..slot
                                            THEN {parent} ELSE {}]
        /\ root = MinOf(parent.slot, bankRoot)
        /\ bank_root = bankRoot
        /\ highest_with_parent_ready = MaxOf(slot, bankRoot)
        /\ events = {}
        /\ certified = [blocks |-> {parent}, skips |-> (parent.slot + 1)..(slot - 1)]
        /\ announced = [slot : (parent.slot + 1)..slot, parent : {parent}]

\* The entries that are new when `blocks` become parent-ready in `slots`.
Fresh(slots, blocks) ==
    {e \in [slot : slots, parent : blocks] : e.parent \notin parents_ready[e.slot]}

\* Mutant of Announcements: announces entries the slot already had.
AnnouncementsAgain(slots, blocks) ==
    {e \in [slot : slots, parent : blocks] : FirstOfWindow(e.slot)}

\* Mutant of Announcements: announces a slot for its first parent only.
AnnouncementsFirstParent(slots, blocks) ==
    {e \in Fresh(slots, blocks) : FirstOfWindow(e.slot) /\ parents_ready[e.slot] = {}}

\* Only the first slot of a window is announced to the event loop.
Announcements(slots, blocks) == {e \in Fresh(slots, blocks) : FirstOfWindow(e.slot)}

\* Add `blocks` to the parents of each of `slots`.
MakeReady(slots, blocks) ==
    /\ parents_ready' = [s \in Slots |-> IF s \in slots THEN parents_ready[s] \union blocks
                                                        ELSE parents_ready[s]]
    /\ events' = Announcements(slots, blocks)
    /\ announced' = announced \union events'

\* Mutant of NewHighest: a walk does not raise the highest slot.
NewHighestUnraised(slots) == highest_with_parent_ready

\* highest_with_parent_ready after the slots of a walk are taken into account.
NewHighest(slots) ==
    CHOOSE h \in slots \union {highest_with_parent_ready} :
        \A s \in slots \union {highest_with_parent_ready} : s <= h

\* An operation that returns before it changes anything.
Ignore ==
    /\ events' = {}
    /\ UNCHANGED <<skip, notar_fallbacks, parents_ready, root, bank_root,
                   highest_with_parent_ready, certified, announced>>

-----------------------------------------------------------------------------
(* add_new_notar_fallback_or_stronger                                       *)

AddNewNotarFallbackOrStronger(block) ==
    IF block.slot <= root \/ block \in notar_fallbacks[block.slot]
    THEN Ignore
    ELSE LET slots == SkipConnected(block.slot, skip)
             fresh == {e.slot : e \in Fresh(slots, {block})}
         IN  /\ notar_fallbacks' = [notar_fallbacks EXCEPT ![block.slot] = @ \union {block}]
             /\ certified' = [certified EXCEPT !.blocks = @ \union {block}]
             /\ MakeReady(slots, {block})
             /\ highest_with_parent_ready' = NewHighest(fresh)
             /\ UNCHANGED <<skip, root, bank_root>>

\* The parents the slots after a skipped `slot` gain: the certified blocks of
\* the previous slot and, if that one is skipped too, its own parents.
PotentialParents(slot) ==
    notar_fallbacks[slot - 1]
        \union (IF slot - 1 \in skip THEN parents_ready[slot - 1] ELSE {})

(* add_new_skip                                                             *)
AddNewSkip(slot) ==
    IF slot <= root
    THEN Ignore
    ELSE LET future  == SkipConnected(slot, skip)
             parents == PotentialParents(slot)
         IN  /\ skip' = skip \union {slot}
             /\ certified' = [certified EXCEPT !.skips = @ \union {slot}]
             /\ MakeReady(future, parents)
             /\ IF parents = {}
                THEN UNCHANGED highest_with_parent_ready
                ELSE highest_with_parent_ready' = NewHighest(future)
             /\ UNCHANGED <<notar_fallbacks, root, bank_root>>

\* Mutant of Retained: prunes the root's own status as well.
RetainedAboveRoot(newRoot) == {s \in Slots : s > newRoot}

\* The slots whose status survives set_root(newRoot).
Retained(newRoot) == {s \in Slots : s >= newRoot}

(* set_root.  The caller prunes to the root of bank_forks, which moves only  *)
(* to a block that the pool saw certified.                                   *)
SetRoot(newRoot) ==
    /\ newRoot >= bank_root
    /\ newRoot = bank_root \/ \E b \in certified.blocks : b.slot = newRoot
    /\ root' = newRoot
    /\ bank_root' = newRoot
    /\ skip' = skip \intersect Retained(newRoot)
    /\ notar_fallbacks' = [s \in Slots |-> IF s \in Retained(newRoot)
                                           THEN notar_fallbacks[s] ELSE {}]
    /\ parents_ready' = [s \in Slots |-> IF s \in Retained(newRoot)
                                         THEN parents_ready[s] ELSE {}]
    /\ events' = {}
    /\ UNCHANGED <<highest_with_parent_ready, certified, announced>>

Next ==
    \/ \E block \in Blocks :
            block.slot < MaxSlot /\ AddNewNotarFallbackOrStronger(block)
    \/ \E slot \in 1..(MaxSlot - 1) : AddNewSkip(slot)
    \/ \E slot \in Slots : SetRoot(slot)

Spec == Init /\ [][Next]_trackerVars

-----------------------------------------------------------------------------
(* Queries                                                                   *)

NoBlock == [slot |-> -1, id |-> -1]

\* The order of Block: by slot, then by id.
BlockLeq(a, b) == a.slot < b.slot \/ (a.slot = b.slot /\ a.id <= b.id)

\* block_production_parent: which block to build `slot` on.
BlockProductionParent(slot) ==
    IF highest_with_parent_ready > slot
    THEN [kind |-> "MissedWindow", block |-> NoBlock]
    ELSE IF parents_ready[slot] = {}
    THEN [kind |-> "ParentNotReady", block |-> NoBlock]
    ELSE [kind |-> "Parent", block |-> CHOOSE b \in parents_ready[slot] :
                                          \A c \in parents_ready[slot] : BlockLeq(b, c)]

\* has_notar_fallback_or_stronger
HasNotarFallbackOrStronger(block) == block \in notar_fallbacks[block.slot]

-----------------------------------------------------------------------------
(* Properties                                                                *)

\* The type invariant of the tracker.
TrackerTypeOK ==
    /\ skip \subseteq Slots
    /\ notar_fallbacks \in [Slots -> SUBSET Blocks]
    /\ parents_ready \in [Slots -> SUBSET Blocks]
    /\ root \in Slots
    /\ bank_root \in Slots
    /\ highest_with_parent_ready \in Slots
    /\ events \subseteq ParentReadyEvents
    /\ certified \in [blocks : SUBSET Blocks, skips : SUBSET Slots]
    /\ announced \subseteq ParentReadyEvents

\* The definition at the head of the file, over the certificates seen so far:
\* b is notarized(-fallback) and every slot strictly between b and s is
\* skip-certified.
ParentReadyCondition(b, s) ==
    /\ b \in certified.blocks
    /\ b.slot < s
    /\ \A t \in (b.slot + 1)..(s - 1) : t \in certified.skips

\* The incremental walks compute exactly the declarative parent-ready condition,
\* in whatever order certificates arrive and however pruning interleaves.
ParentsReadyExact ==
    \A s \in Slots : s >= root =>
        parents_ready[s] = {b \in Blocks : ParentReadyCondition(b, s)}

\* highest_with_parent_ready, which decides whether our leader window is missed,
\* is the highest slot with a ready parent, and pruning never catches up with it.
HighestIsHighest ==
    /\ highest_with_parent_ready > root
    /\ parents_ready[highest_with_parent_ready] # {}
    /\ \A s \in Slots : s > highest_with_parent_ready => parents_ready[s] = {}

\* The unreachable!() of add_produce_block_event: a slot announced as parent-ready
\* is either missed by now or still has a parent, although set_root may have
\* pruned its status between the announcement and the question.
AnnouncedHasParent ==
    \A e \in announced : BlockProductionParent(e.slot).kind # "ParentNotReady"

\* Every parent of an unpruned first slot of a window was announced.
EveryWindowAnnounced ==
    \A s \in Slots : s >= root /\ FirstOfWindow(s) =>
        \A b \in parents_ready[s] : [slot |-> s, parent |-> b] \in announced

\* No ParentReady is announced twice, across pruning and repeated certificates.
AnnouncedOnce == [][events' \intersect announced = {}]_trackerVars

=============================================================================
