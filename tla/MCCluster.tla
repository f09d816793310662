----------------------------- MODULE MCCluster -----------------------------
(***************************************************************************)
(* A small cluster and small block trees.  The stakes put the thresholds   *)
(* on the edge: the two large validators and the faulty one have 80.5%     *)
(* together, and the small one has 39% with the faulty one.                *)
(***************************************************************************)
EXTENDS Cluster, FiniteSetsExt, TLC

CONSTANTS v1, v2, v3, f

Cluster4 == {v1, v2, v3, f}
Stake(v) == IF v \in {v1, v2} THEN 61 ELSE 39
EdgeStake == [S \in SUBSET Cluster4 |-> MapThenSumSet(Stake, S)]
Liars == {f}
LargeOnes == Permutations({v1, v2})

g0 == [slot |-> 0, id |-> 0]
a1 == [slot |-> 1, id |-> 1]
c1 == [slot |-> 1, id |-> 2]
a2 == [slot |-> 2, id |-> 1]
z2 == [slot |-> 2, id |-> 2]

\* Two windows of one slot: the second holds a block on the first and one that
\* needs the first to be skipped.
Fork == {g0, a1, a2, z2}
ForkParents == [b \in Fork |-> IF b = a2 THEN a1 ELSE g0]

\* The variant of one window (WindowSize = 3): two blocks in its first slot, and
\* a child of one of them.
InWindow == {g0, a1, c1, a2}
InWindowParents == [b \in InWindow |-> IF b = a2 THEN a1 ELSE g0]

=============================================================================
