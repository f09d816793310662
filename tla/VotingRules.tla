---------------------------- MODULE VotingRules ----------------------------
(***************************************************************************)
(* When the event handler (votor/src/event_handler.rs) lets a validator    *)
(* with history h cast a vote.  The handler of one validator and the       *)
(* cluster use it.                                                         *)
(***************************************************************************)
EXTENDS VoteHistory

\* A block and its ancestors.
Chain[b \in Blocks] == IF b.slot = 0 THEN {b} ELSE {b} \union Chain[ParentOf[b]]

\* Mutant of CanFinal: does not wait for the notarization certificate.
CanFinalUncertified(h, b) ==
    b.slot \notin h.its_over /\ ~ BadWindow(h, b.slot) /\ b \in h.voted_notar

\* The conditions of try_final.
CanFinal(h, b) ==
    /\ b \in h.notarized_blocks
    /\ b.slot \notin h.its_over
    /\ ~ BadWindow(h, b.slot)
    /\ b \in h.voted_notar

\* The conditions of try_notar, when the blocks `earlier` were voted on before
\* it in the same call.
CanNotar(h, earlier, b) ==
    LET parent == ParentOf[b]
    IN  /\ b.slot \notin h.voted
        /\ IF FirstOfWindow(b.slot) \/ b.slot = 1
           THEN <<b.slot, parent>> \in h.parent_ready
           ELSE /\ parent.slot + 1 = b.slot
                /\ parent \in h.voted_notar \union earlier

\* Mutant of SkipSlots: does not stop at the root in the middle of a window.
SkipSlotsBelowRoot(h, root, slot) ==
    {s \in MaxOf(FirstSlot(slot), 1)..LastSlot(slot) : s \notin h.voted}

\* The slots of the window try_skip_window votes to skip; slots below the root
\* are left alone.
SkipSlots(h, root, slot) ==
    {s \in MaxOf(MaxOf(FirstSlot(slot), root), 1)..LastSlot(slot) : s \notin h.voted}

=============================================================================
