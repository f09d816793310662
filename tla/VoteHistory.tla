---------------------------- MODULE VoteHistory ----------------------------
(***************************************************************************)
(* The vote history of one validator (votor/src/vote_history.rs): what it  *)
(* has voted and what it has learnt, above the last root.  A history is a  *)
(* record, because the event handler hands whole snapshots of it to the    *)
(* voting service and restores them; its maps are sets of blocks or pairs. *)
(***************************************************************************)
EXTENDS ConsensusVotes

CONSTANT ParentOf      \* block -> its parent block

ASSUME ParentOfAssumption ==
    /\ ParentOf \in [Blocks -> Blocks]
    /\ \A b \in Blocks : b.slot > 0 => ParentOf[b].slot < b.slot

Histories ==
    [voted                : SUBSET Slots,
     voted_notar          : SUBSET Blocks,
     voted_notar_fallback : SUBSET Blocks,
     voted_skip_fallback  : SUBSET Slots,
     skipped              : SUBSET Slots,
     its_over             : SUBSET Slots,
     votes_cast           : SUBSET Votes,
     notarized_blocks     : SUBSET Blocks,
     parent_ready         : SUBSET (Slots \X Blocks),
     root                 : Slots]

\* VoteHistory::new
NewHistory(root) ==
    [voted |-> {}, voted_notar |-> {}, voted_notar_fallback |-> {},
     voted_skip_fallback |-> {}, skipped |-> {}, its_over |-> {}, votes_cast |-> {},
     notarized_blocks |-> {}, parent_ready |-> {}, root |-> root]

-----------------------------------------------------------------------------
(* Queries.  Each asserts slot >= root in the code; Readable is that assert. *)

Readable(h, s) == s >= h.root

\* bad_window: a vote that rules out a finalize vote was cast in the slot.
BadWindow(h, s) ==
    \/ s \in h.skipped
    \/ \E b \in h.voted_notar_fallback : b.slot = s
    \/ s \in h.voted_skip_fallback

\* highest_parent_ready_slot, or -1 for None, which is below every slot
HighestParentReadySlot(h) ==
    IF h.parent_ready = {} THEN -1
    ELSE CHOOSE s \in {p[1] : p \in h.parent_ready} :
            \A p \in h.parent_ready : p[1] <= s

-----------------------------------------------------------------------------
(* Updates.  add_vote is applied to a set of votes at once; the handlers     *)
(* only add votes whose order does not matter to the result.                 *)

AddVotes(h, votes) ==
    [h EXCEPT
        !.voted = @ \union SlotsOf(OfType(votes, "Notarize") \union OfType(votes, "Skip")),
        !.voted_notar = @ \union BlocksOf(OfType(votes, "Notarize")),
        !.its_over = @ \union SlotsOf(OfType(votes, "Finalize")),
        !.skipped = @ \union SlotsOf(OfType(votes, "Skip") \union OfType(votes, "SkipFallback")
                                        \union OfType(votes, "NotarizeFallback")),
        !.voted_notar_fallback = @ \union BlocksOf(OfType(votes, "NotarizeFallback")),
        !.voted_skip_fallback = @ \union SlotsOf(OfType(votes, "SkipFallback")),
        !.votes_cast = @ \union votes]

\* The asserts of add_vote that guard against equivocation.
NotarizeAssert(h, s) == s >= h.root /\ s \notin h.voted /\ \A b \in h.voted_notar : b.slot # s
FinalizeAssert(h, s) == s >= h.root /\ s \notin h.skipped
SkipAssert(h, s)     == s >= h.root
FallbackAssert(h, s) == s >= h.root /\ s \in h.voted /\ s \notin h.its_over

\* add_block_notarized
AddBlockNotarized(h, b) ==
    IF b.slot < h.root THEN h ELSE [h EXCEPT !.notarized_blocks = @ \union {b}]

\* add_parent_ready
AddParentReady(h, s, parent) ==
    IF s < h.root THEN h ELSE [h EXCEPT !.parent_ready = @ \union {<<s, parent>>}]

\* Mutant of SetHistoryRoot: also forgets the root slot itself.
SetHistoryRootAbove(h, root) ==
    [voted                |-> {s \in h.voted : s > root},
     voted_notar          |-> {b \in h.voted_notar : b.slot > root},
     voted_notar_fallback |-> {b \in h.voted_notar_fallback : b.slot > root},
     voted_skip_fallback  |-> {s \in h.voted_skip_fallback : s > root},
     skipped              |-> {s \in h.skipped : s > root},
     its_over             |-> {s \in h.its_over : s > root},
     votes_cast           |-> {w \in h.votes_cast : w.slot > root},
     notarized_blocks     |-> {b \in h.notarized_blocks : b.slot > root},
     parent_ready         |-> {p \in h.parent_ready : p[1] > root},
     root                 |-> root]

\* set_root: forget everything below the new root.
SetHistoryRoot(h, root) ==
    [voted                |-> {s \in h.voted : s >= root},
     voted_notar          |-> {b \in h.voted_notar : b.slot >= root},
     voted_notar_fallback |-> {b \in h.voted_notar_fallback : b.slot >= root},
     voted_skip_fallback  |-> {s \in h.voted_skip_fallback : s >= root},
     skipped              |-> {s \in h.skipped : s >= root},
     its_over             |-> {s \in h.its_over : s >= root},
     votes_cast           |-> {v \in h.votes_cast : v.slot >= root},
     notarized_blocks     |-> {b \in h.notarized_blocks : b.slot >= root},
     parent_ready         |-> {p \in h.parent_ready : p[1] >= root},
     root                 |-> root]

=============================================================================
