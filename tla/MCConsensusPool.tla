-------------------------- MODULE MCConsensusPool --------------------------
(***************************************************************************)
(* Small validator sets, blocks and messages for the consensus pool.       *)
(***************************************************************************)
EXTENDS ConsensusPool, FiniteSetsExt, TLC

CONSTANTS v1, v2, v3, v4, v5

\* Validators that may send the same votes and have equal stakes are interchangeable.
Others == Permutations({v2, v3}) \union Permutations({v4, v5})

\* Five validators with a fifth of the stake each.
FiveEqual == {v1, v2, v3, v4, v5}
EqualStake == [S \in SUBSET FiveEqual |-> Cardinality(S)]

g0 == [slot |-> 0, id |-> 0]
b2 == [slot |-> 2, id |-> 1]
c2 == [slot |-> 2, id |-> 2]
d2 == [slot |-> 2, id |-> 3]
e2 == [slot |-> 2, id |-> 4]

NoSlots == {}
NoCerts == {}
NoBlocks == {}

\* Stakes: first votes of all five for four blocks of a slot, and fallback votes
\* of two of them.
FourBlocks == {g0, b2, c2, d2, e2}
FourParents == [b \in FourBlocks |-> g0]
StakeVotes ==
    (FiveEqual \X ({BlockVote("Notarize", b) : b \in {b2, c2, d2, e2}} \union {SlotVote("Skip", 2)}))
        \union ({v2, v3} \X {BlockVote("NotarizeFallback", b2), SlotVote("SkipFallback", 2)})

\* Windows: two slots per window, a chain over the slots 1, 2 and 3, and three
\* validators with two, two and one fifths of the stake.
a1 == [slot |-> 1, id |-> 1]
d3 == [slot |-> 3, id |-> 1]
ChainBlocks == {g0, a1, b2, d3}
ChainParents == [b \in ChainBlocks |-> CASE b = b2 -> a1 [] b = d3 -> b2 [] OTHER -> g0]
Three == {v1, v2, v3}
UnequalStake == [S \in SUBSET Three |-> Cardinality(S) + Cardinality(S \intersect {v1, v2})]

WindowVotes == {<<v1, SlotVote("Skip", 3)>>, <<v2, BlockVote("Notarize", d3)>>,
                <<v3, BlockVote("NotarizeFallback", d3)>>, <<v2, SlotVote("SkipFallback", 3)>>}
WindowCerts == {BlockVote("NotarizeFallback", a1), SlotVote("Skip", 1),
                BlockVote("Notarize", b2), BlockVote("FinalizeFast", b2), SlotVote("Finalize", 2),
                SlotVote("Skip", 3)}
WindowLeader == {2, 4}
MidWindow == {d3}

=============================================================================
