--------------------------- MODULE ConsensusVotes ---------------------------
(***************************************************************************)
(* The votes of Alpenglow and which of them exclude each other             *)
(* (votor-messages/src/vote.rs, votor/src/common.rs).  Genesis votes       *)
(* belong to the migration from TowerBFT and are not modelled.             *)
(***************************************************************************)
EXTENDS LeaderWindows, FiniteSets

CONSTANT Blocks        \* the blocks of an instance: records with a slot and an id

ASSUME BlocksAssumption == \A b \in Blocks : b.slot \in Slots

Genesis == CHOOSE b \in Blocks : b.slot = 0

BlockVoteTypes == {"Notarize", "NotarizeFallback"}
SlotVoteTypes  == {"Finalize", "Skip", "SkipFallback"}

\* A vote for a block, and a vote for a slot; `block` holds at most one block.
BlockVote(type, b) == [type |-> type, slot |-> b.slot, block |-> {b}]
SlotVote(type, s)  == [type |-> type, slot |-> s, block |-> {}]

Votes == {BlockVote(t, b) : t \in BlockVoteTypes, b \in Blocks}
            \union {SlotVote(t, s) : t \in SlotVoteTypes, s \in Slots}

OfType(votes, type) == {v \in votes : v.type = type}
SlotsOf(votes)      == {v.slot : v \in votes}
BlocksOf(votes)     == UNION {v.block : v \in votes}

\* Mutant of ConflictingTypes: Skip no longer excludes SkipFallback.
ConflictingTypesNoSkipFallback(type) ==
    CASE type = "Finalize"         -> {"NotarizeFallback", "Skip", "SkipFallback"}
      [] type = "Notarize"         -> {"Skip", "NotarizeFallback"}
      [] type = "NotarizeFallback" -> {"Finalize", "Notarize"}
      [] type = "Skip"             -> {"Finalize", "Notarize"}
      [] type = "SkipFallback"     -> {"Finalize"}

\* conflicting_types: the vote types of a slot that exclude `type`.
ConflictingTypes(type) ==
    CASE type = "Finalize"         -> {"NotarizeFallback", "Skip", "SkipFallback"}
      [] type = "Notarize"         -> {"Skip", "NotarizeFallback"}
      [] type = "NotarizeFallback" -> {"Finalize", "Notarize"}
      [] type = "Skip"             -> {"Finalize", "Notarize", "SkipFallback"}
      [] type = "SkipFallback"     -> {"Skip", "Finalize"}

\* has_conflicting_vote for one earlier vote w of the same validator: two votes
\* that name blocks conflict only on the same block.
Conflicting(v, w) ==
    /\ v.slot = w.slot
    /\ w.type \in ConflictingTypes(v.type)
    /\ v.block # {} /\ w.block # {} => v.block = w.block

\* Two votes of which one validator may cast only one: they conflict, or they
\* notarize two blocks of a slot (a vote pool keeps one notarize vote).
Equivocation(v, w) ==
    \/ Conflicting(v, w)
    \/ v.type = "Notarize" /\ w.type = "Notarize" /\ v.slot = w.slot /\ v # w

=============================================================================
