---------------------------- MODULE ClusterProofs ----------------------------
(***************************************************************************)
(* Agreement of the cluster for every number of validators, every          *)
(* distribution of stake with less than 20% of it faulty, every tree of    *)
(* blocks and every window length.                                         *)
(***************************************************************************)
EXTENDS Cluster, WellFoundedInduction, TLAPS

(***************************************************************************)
(* The inductive invariant.  Agreement speaks of what is possible now; it  *)
(* is preserved because of what made the validators cast their votes, and  *)
(* these reasons are what the invariant records.                           *)
(***************************************************************************)
BlockCertTypes == {"Notarize", "NotarizeFallback", "FinalizeFast"}

ProperVotes == {BlockVote(t, b) : t \in BlockVoteTypes, b \in {d \in Blocks : d.slot > 0}}
                  \union {SlotVote(t, s) : t \in SlotVoteTypes, s \in Nat \ {0}}

ProperCertificates == {BlockVote(t, b) : t \in BlockCertTypes, b \in Blocks}
                         \union {SlotVote(t, s) : t \in {"Finalize", "Skip"}, s \in Nat}

ClusterTypeOK ==
    /\ cast \subseteq Correct \X ProperVotes
    /\ certificates \subseteq ProperCertificates

FirstVoteTypes == {"Notarize", "Skip"}

\* A correct validator casts one of Notarize and Skip in a slot, once.
OneFirstVote ==
    \A v \in Correct, w, x \in ProperVotes :
        /\ <<v, w>> \in cast /\ <<v, x>> \in cast
        /\ w.slot = x.slot /\ w.type \in FirstVoteTypes /\ x.type \in FirstVoteTypes
        => w = x

\* Who votes to finalize has notarized a certified block and votes against it
\* neither before nor after.
FinalizeBacked ==
    \A v \in Correct, s \in Nat : <<v, SlotVote("Finalize", s)>> \in cast =>
        /\ \E b \in Blocks : /\ b.slot = s
                             /\ <<v, BlockVote("Notarize", b)>> \in cast
                             /\ BlockVote("Notarize", b) \in certificates
        /\ \A w \in ProperVotes : <<v, w>> \in cast /\ w.slot = s
                => w.type \in {"Notarize", "Finalize"}

\* Who notarizes a block extends a ready parent at the start of a window and
\* the block it notarized in the slot before inside one.
NotarizeExtends ==
    \A v \in Correct, b \in Blocks : <<v, BlockVote("Notarize", b)>> \in cast =>
        IF Announced(b.slot) THEN ParentOf[b] \in ReadyParents(b.slot)
        ELSE /\ ParentOf[b].slot + 1 = b.slot
             /\ <<v, BlockVote("Notarize", ParentOf[b])>> \in cast

\* The correct validators whose first vote in b's slot is not for b.
Against(b) ==
    {v \in Correct : \E w \in ProperVotes :
        /\ <<v, w>> \in cast
        /\ w.slot = b.slot /\ w.type \in FirstVoteTypes /\ w # BlockVote("Notarize", b)}

Contested(b) == AtLeast(StakeOf[Against(b) \union Faulty], 40)

\* A fallback vote comes after another first vote, for a block that a correct
\* validator has notarized, and when 40% may be against every other block.
NotarizeFallbackBacked ==
    \A v \in Correct, d \in Blocks : <<v, BlockVote("NotarizeFallback", d)>> \in cast =>
        /\ v \in Against(d)
        /\ \E u \in Correct : <<u, BlockVote("Notarize", d)>> \in cast
        /\ ~ Immediate(d) => ParentOf[d] \in CertifiedBlocks
        /\ \A b \in Blocks : b.slot = d.slot /\ b # d => Contested(b)

SkipFallbackBacked ==
    \A v \in Correct, s \in Nat : <<v, SlotVote("SkipFallback", s)>> \in cast =>
        /\ \E b \in Blocks : b.slot = s /\ <<v, BlockVote("Notarize", b)>> \in cast
        /\ \A b \in Blocks : b.slot = s => Contested(b)

CertificatesSound == \A c \in certificates : Possible(c)

ClusterInv ==
    /\ ClusterTypeOK
    /\ OneFirstVote
    /\ FinalizeBacked
    /\ NotarizeExtends
    /\ NotarizeFallbackBacked
    /\ SkipFallbackBacked
    /\ CertificatesSound

-----------------------------------------------------------------------------
(* Stake                                                                     *)

\* More validators have no less stake.
LEMMA StakeMonotone ==
    ASSUME NEW S \in SUBSET Validators, NEW T \in SUBSET Validators, S \subseteq T
    PROVE  StakeOf[S] \in Nat /\ StakeOf[T] \in Nat /\ StakeOf[S] <= StakeOf[T]
<1>1. T = S \union (T \ S) /\ S \intersect (T \ S) = {} /\ T \ S \in SUBSET Validators
  OBVIOUS
<1>2. StakeOf[T] = StakeOf[S] + StakeOf[T \ S]
  BY <1>1, StakeAssumption
<1>3. StakeOf[S] \in Nat /\ StakeOf[T] \in Nat /\ StakeOf[T \ S] \in Nat
  BY <1>1, StakeAssumption
<1> QED
  BY <1>2, <1>3

\* The stakes of disjoint sets add up, and to no more than everything.
LEMMA StakeDisjoint ==
    ASSUME NEW S \in SUBSET Validators, NEW T \in SUBSET Validators, S \intersect T = {}
    PROVE  /\ StakeOf[S \union T] = StakeOf[S] + StakeOf[T]
           /\ StakeOf[S] \in Nat /\ StakeOf[T] \in Nat /\ TotalStake \in Nat
           /\ StakeOf[S] + StakeOf[T] <= TotalStake
<1>1. StakeOf[S \union T] = StakeOf[S] + StakeOf[T]
  BY StakeAssumption
<1>2. StakeOf[S \union T] <= StakeOf[Validators]
  BY StakeMonotone
<1> QED
  BY <1>1, <1>2, StakeAssumption DEF TotalStake

\* Who has at least 60% of the stake together with the faulty validators has
\* more than 40% without them; the faulty ones have less than 20%.
LEMMA FaultyStake ==
    /\ Faulty \in SUBSET Validators /\ StakeOf[Faulty] \in Nat /\ TotalStake \in Nat
    /\ 100 * StakeOf[Faulty] < 20 * TotalStake
    /\ Correct \in SUBSET Validators /\ Correct \intersect Faulty = {}
<1>1. Faulty \in SUBSET Validators /\ Validators \in SUBSET Validators
  BY FaultyAssumption
<1>2. StakeOf[Faulty] \in Nat /\ TotalStake \in Nat
  BY <1>1, StakeAssumption DEF TotalStake
<1> QED
  BY <1>1, <1>2, FaultyAssumption DEF AtLeast, Correct

-----------------------------------------------------------------------------
(* Votes and who cast them                                                   *)

\* A proper vote is a vote for a block or for a slot.
LEMMA ProperVote ==
    ASSUME NEW w \in ProperVotes
    PROVE  /\ \/ \E b \in Blocks : b.slot > 0 /\ w.type \in BlockVoteTypes /\ w = BlockVote(w.type, b)
              \/ \E s \in Nat \ {0} : w.type \in SlotVoteTypes /\ w = SlotVote(w.type, s)
           /\ w.slot \in Nat \ {0}
<1> USE DEF BlockVoteTypes, SlotVoteTypes, BlockVote, SlotVote
<1>1. ASSUME NEW t \in BlockVoteTypes, NEW b \in Blocks, b.slot > 0, w = BlockVote(t, b)
      PROVE  w.type \in BlockVoteTypes /\ w = BlockVote(w.type, b) /\ w.slot \in Nat \ {0}
  <2>1. b.slot \in Nat
    BY BlocksAssumption, MaxSlotAssumption DEF Slots
  <2> QED
    BY <1>1, <2>1
<1>2. ASSUME NEW t \in SlotVoteTypes, NEW s \in Nat \ {0}, w = SlotVote(t, s)
      PROVE  w.type \in SlotVoteTypes /\ w = SlotVote(w.type, s) /\ w.slot \in Nat \ {0}
  BY <1>2
<1> QED
  BY <1>1, <1>2 DEF ProperVotes

\* The voters of one vote.
LEMMA VotersAre ==
    ASSUME NEW V, \A p \in V : p = <<p[1], p[2]>>, NEW w
    PROVE  \A x : x \in Voters(V, w) <=> <<x, w>> \in V
  BY DEF Voters

\* Told adds the faulty validators to the voters of one vote.
LEMMA ToldVoters ==
    ASSUME ClusterTypeOK, NEW lie, NEW w
    PROVE  /\ Voters(cast, w) \subseteq Correct
           /\ Voters(Told(lie), w) = IF w = lie THEN Voters(cast, w) \union Faulty
                                                ELSE Voters(cast, w)
<1>1. \A p \in cast : p = <<p[1], p[2]>> /\ p[1] \in Correct
  BY DEF ClusterTypeOK
<1>2. \A p \in Told(lie) : p = <<p[1], p[2]>>
  BY <1>1 DEF Told
<1>3. /\ \A x : x \in Voters(cast, w) <=> <<x, w>> \in cast
      /\ \A x : x \in Voters(Told(lie), w) <=> <<x, w>> \in Told(lie)
  BY <1>1, <1>2, VotersAre
<1>4. \A x : <<x, w>> \in Told(lie) <=> <<x, w>> \in cast \/ (x \in Faulty /\ w = lie)
  BY DEF Told
<1>5. Voters(cast, w) \subseteq Correct
  <2> SUFFICES ASSUME NEW x \in Voters(cast, w) PROVE x \in Correct
    OBVIOUS
  <2>1. <<x, w>> \in Correct \X ProperVotes
    BY <1>3 DEF ClusterTypeOK
  <2> QED
    BY <2>1
<1>6. CASE w = lie
  BY <1>3, <1>4, <1>5, <1>6
<1>7. CASE w # lie
  BY <1>3, <1>4, <1>5, <1>7
<1> QED
  BY <1>6, <1>7

-----------------------------------------------------------------------------
(* When a certificate is possible                                            *)

Support(w) == StakeOf[Voters(cast, w)]

\* The stake of the correct validators that cast a vote, with and without the
\* stake of the faulty ones.
LEMMA SupportIs ==
    ASSUME ClusterTypeOK, NEW w
    PROVE  /\ Voters(cast, w) \in SUBSET Validators
           /\ Voters(cast, w) \intersect Faulty = {}
           /\ Support(w) \in Nat
           /\ StakeOf[Voters(cast, w) \union Faulty] = Support(w) + StakeOf[Faulty]
<1>1. Voters(cast, w) \subseteq Correct
  BY ToldVoters
<1>2. Voters(cast, w) \in SUBSET Validators /\ Voters(cast, w) \intersect Faulty = {}
  BY <1>1, FaultyStake
<1> QED
  BY <1>2, FaultyStake, StakeDisjoint DEF Support

\* A certificate that counts one vote, and one that counts two: the faulty
\* validators add their stake once.
LEMMA PossibleOne ==
    ASSUME ClusterTypeOK, NEW c, NEW w, CountedVotes(c) = {w}
    PROVE  Possible(c) <=> AtLeast(Support(w) + StakeOf[Faulty], Limit(c))
<1>1. (CHOOSE vote \in CountedVotes(c) : TRUE) = w
  OBVIOUS
<1>2. Possible(c) <=> Complete(Told(w), c)
  BY <1>1 DEF Possible
<1>3. Accumulated(Told(w), c) = EntryStake(Told(w), w) + 0
  BY <1>1 DEF Accumulated
<1>4. EntryStake(Told(w), w) = Support(w) + StakeOf[Faulty]
  BY ToldVoters, SupportIs DEF EntryStake
<1>5. Support(w) \in Nat /\ StakeOf[Faulty] \in Nat
  BY SupportIs, FaultyStake
<1>6. Accumulated(Told(w), c) = Support(w) + StakeOf[Faulty]
  BY <1>3, <1>4, <1>5
<1> QED
  BY <1>2, <1>6 DEF Complete

\* The same for a certificate that counts two kinds of votes.
LEMMA PossibleTwo ==
    ASSUME ClusterTypeOK, NEW c, NEW w, NEW x, w # x, CountedVotes(c) = {w, x}
    PROVE  Possible(c) <=> AtLeast(Support(w) + Support(x) + StakeOf[Faulty], Limit(c))
<1> DEFINE first  == CHOOSE vote \in CountedVotes(c) : TRUE
           second == CHOOSE vote \in CountedVotes(c) : vote # first
<1>1. first \in {w, x}
  OBVIOUS
<1>2. second \in {w, x} /\ second # first
  BY <1>1
<1>3. CountedVotes(c) # {first}
  BY <1>1
<1>4. Possible(c) <=> Complete(Told(first), c)
  BY DEF Possible
<1>5. Accumulated(Told(first), c) = EntryStake(Told(first), first) + EntryStake(Told(first), second)
  BY <1>3 DEF Accumulated
<1> HIDE DEF first, second
<1>6. EntryStake(Told(first), first) = Support(first) + StakeOf[Faulty]
  BY ToldVoters, SupportIs DEF EntryStake
<1>7. EntryStake(Told(first), second) = Support(second)
  BY <1>2, ToldVoters DEF EntryStake, Support
<1>8. Support(first) \in Nat /\ Support(second) \in Nat /\ StakeOf[Faulty] \in Nat
  BY SupportIs, FaultyStake
<1>9. Accumulated(Told(first), c) = Support(w) + Support(x) + StakeOf[Faulty]
  BY <1>1, <1>2, <1>5, <1>6, <1>7, <1>8
<1> QED
  BY <1>4, <1>9 DEF Complete

\* What each certificate takes, by the limits of common.rs.
LEMMA PossibleIs ==
    ASSUME ClusterTypeOK
    PROVE  /\ \A b : Possible(BlockVote("Notarize", b)) <=>
                  AtLeast(Support(BlockVote("Notarize", b)) + StakeOf[Faulty], 60)
           /\ \A b : Possible(BlockVote("FinalizeFast", b)) <=>
                  AtLeast(Support(BlockVote("Notarize", b)) + StakeOf[Faulty], 80)
           /\ \A s : Possible(SlotVote("Finalize", s)) <=>
                  AtLeast(Support(SlotVote("Finalize", s)) + StakeOf[Faulty], 60)
           /\ \A b : Possible(BlockVote("NotarizeFallback", b)) <=>
                  AtLeast(Support(BlockVote("Notarize", b)) + Support(BlockVote("NotarizeFallback", b))
                            + StakeOf[Faulty], 60)
           /\ \A s : Possible(SlotVote("Skip", s)) <=>
                  AtLeast(Support(SlotVote("Skip", s)) + Support(SlotVote("SkipFallback", s))
                            + StakeOf[Faulty], 60)
<1>1. \A b : /\ CountedVotes(BlockVote("Notarize", b)) = {BlockVote("Notarize", b)}
             /\ CountedVotes(BlockVote("FinalizeFast", b)) = {BlockVote("Notarize", b)}
             /\ Limit(BlockVote("Notarize", b)) = 60 /\ Limit(BlockVote("FinalizeFast", b)) = 80
  BY DEF CountedVotes, BlockVote, Limit
<1>2. \A s : /\ CountedVotes(SlotVote("Finalize", s)) = {SlotVote("Finalize", s)}
             /\ Limit(SlotVote("Finalize", s)) = 60
  BY DEF CountedVotes, SlotVote, Limit
<1>3. \A b : /\ CountedVotes(BlockVote("NotarizeFallback", b)) =
                    {BlockVote("Notarize", b), BlockVote("NotarizeFallback", b)}
             /\ Limit(BlockVote("NotarizeFallback", b)) = 60
             /\ BlockVote("Notarize", b) # BlockVote("NotarizeFallback", b)
  BY DEF CountedVotes, BlockVote, BlockVoteTypes, Limit
<1>4. \A s : /\ CountedVotes(SlotVote("Skip", s)) =
                    {SlotVote("Skip", s), SlotVote("SkipFallback", s)}
             /\ Limit(SlotVote("Skip", s)) = 60
             /\ SlotVote("Skip", s) # SlotVote("SkipFallback", s)
  BY DEF CountedVotes, SlotVote, Limit
<1>5. \A b : /\ Possible(BlockVote("Notarize", b)) <=>
                  AtLeast(Support(BlockVote("Notarize", b)) + StakeOf[Faulty], 60)
             /\ Possible(BlockVote("FinalizeFast", b)) <=>
                  AtLeast(Support(BlockVote("Notarize", b)) + StakeOf[Faulty], 80)
  BY <1>1, PossibleOne
<1>6. \A s : Possible(SlotVote("Finalize", s)) <=>
                  AtLeast(Support(SlotVote("Finalize", s)) + StakeOf[Faulty], 60)
  BY <1>2, PossibleOne
<1>7. \A b : Possible(BlockVote("NotarizeFallback", b)) <=>
                  AtLeast(Support(BlockVote("Notarize", b)) + Support(BlockVote("NotarizeFallback", b))
                            + StakeOf[Faulty], 60)
  BY <1>3, PossibleTwo
<1>8. \A s : Possible(SlotVote("Skip", s)) <=>
                  AtLeast(Support(SlotVote("Skip", s)) + Support(SlotVote("SkipFallback", s))
                            + StakeOf[Faulty], 60)
  BY <1>4, PossibleTwo
<1> QED
  BY <1>5, <1>6, <1>7, <1>8

-----------------------------------------------------------------------------
(* Agreement within a slot                                                   *)

\* Two disjoint groups of correct validators, each with 60% of the stake when
\* the faulty validators join it, do not exist: they would share a faulty 20%.
LEMMA GroupsMeet ==
    ASSUME NEW S \in SUBSET Correct, NEW T \in SUBSET Correct, S \intersect T = {},
           AtLeast(StakeOf[S] + StakeOf[Faulty], 60)
    PROVE  ~ AtLeast(StakeOf[T] + StakeOf[Faulty], 60)
<1>1. /\ S \in SUBSET Validators /\ T \in SUBSET Validators /\ Faulty \in SUBSET Validators
      /\ S \union T \in SUBSET Validators /\ (S \union T) \intersect Faulty = {}
  BY FaultyStake
<1>2. StakeOf[S \union T] = StakeOf[S] + StakeOf[T] /\ StakeOf[S] \in Nat /\ StakeOf[T] \in Nat
  BY <1>1, StakeDisjoint
<1>3. StakeOf[S \union T] + StakeOf[Faulty] <= TotalStake
  BY <1>1, StakeDisjoint
<1> QED
  BY <1>2, <1>3, FaultyStake DEF AtLeast

\* A vote names its block and its slot.
LEMMA VoteNames ==
    /\ \A t, b : BlockVote(t, b).type = t /\ BlockVote(t, b).slot = b.slot /\ BlockVote(t, b).block = {b}
    /\ \A t, s : SlotVote(t, s).type = t /\ SlotVote(t, s).slot = s /\ SlotVote(t, s).block = {}
    /\ \A t, u, b, d : BlockVote(t, b) = BlockVote(u, d) => t = u /\ b = d
  BY DEF BlockVote, SlotVote

\* Only correct validators are recorded, and only votes with a vote's shape.
LEMMA CastIsProper ==
    ASSUME ClusterTypeOK, NEW v, NEW w, <<v, w>> \in cast
    PROVE  v \in Correct /\ w \in ProperVotes /\ w.slot \in Nat \ {0}
<1>1. <<v, w>> \in Correct \X ProperVotes
  BY DEF ClusterTypeOK
<1> QED
  BY <1>1, ProperVote

\* The voters of a vote are those that cast it.
LEMMA CastVoters ==
    ASSUME ClusterTypeOK, NEW w
    PROVE  Voters(cast, w) \in SUBSET Correct /\ \A x : x \in Voters(cast, w) <=> <<x, w>> \in cast
<1>1. \A p \in cast : p = <<p[1], p[2]>>
  BY DEF ClusterTypeOK
<1> QED
  BY <1>1, VotersAre, ToldVoters

\* At most one block of a slot can be notarized.
LEMMA UniqueNotarized ==
    ASSUME ClusterInv, NEW b \in Blocks, NEW d \in Blocks, b.slot = d.slot,
           Possible(BlockVote("Notarize", b)), Possible(BlockVote("Notarize", d))
    PROVE  b = d
<1> SUFFICES ASSUME b # d PROVE FALSE
  OBVIOUS
<1>0. ClusterTypeOK /\ OneFirstVote
  BY DEF ClusterInv
<1> DEFINE B == Voters(cast, BlockVote("Notarize", b))
           D == Voters(cast, BlockVote("Notarize", d))
<1>1. B \in SUBSET Correct /\ D \in SUBSET Correct
  BY <1>0, CastVoters
<1>2. B \intersect D = {}
  <2> SUFFICES ASSUME NEW v, v \in B, v \in D PROVE FALSE
    OBVIOUS
  <2>1. <<v, BlockVote("Notarize", b)>> \in cast /\ <<v, BlockVote("Notarize", d)>> \in cast
    BY <1>0, CastVoters
  <2> QED
    BY <2>1, <1>0, CastIsProper, VoteNames DEF OneFirstVote, FirstVoteTypes
<1>3. AtLeast(StakeOf[B] + StakeOf[Faulty], 60) /\ AtLeast(StakeOf[D] + StakeOf[Faulty], 60)
  BY <1>0, PossibleIs DEF Support
<1> QED
  BY <1>1, <1>2, <1>3, GroupsMeet

AgainstTypes == {"Notarize", "NotarizeFallback", "Skip", "SkipFallback"}

\* G is a group that makes block b final: it has notarized b and casts no
\* other vote in its slot that counts for something else.
Finalizes(G, b) ==
    /\ G \in SUBSET Correct
    /\ AtLeast(StakeOf[G] + StakeOf[Faulty], 60)
    /\ \A v \in G, w \in ProperVotes :
          <<v, w>> \in cast /\ w.slot = b.slot /\ w.type \in AgainstTypes => w = BlockVote("Notarize", b)

\* When more than 60% have notarized b in the first place, no fallback vote
\* against b is ever safe.
LEMMA FastUncontested ==
    ASSUME ClusterInv, NEW b \in Blocks, Possible(BlockVote("FinalizeFast", b))
    PROVE  ~ Contested(b) /\ Finalizes(Voters(cast, BlockVote("Notarize", b)), b)
<1> DEFINE G == Voters(cast, BlockVote("Notarize", b))
<1>0. ClusterTypeOK /\ OneFirstVote /\ NotarizeFallbackBacked /\ SkipFallbackBacked
  BY DEF ClusterInv
<1>1. G \in SUBSET Correct /\ \A v : v \in G <=> <<v, BlockVote("Notarize", b)>> \in cast
  BY <1>0, CastVoters
<1>2. AtLeast(StakeOf[G] + StakeOf[Faulty], 80)
  BY <1>0, PossibleIs DEF Support
<1>3. G \intersect Against(b) = {}
  <2> SUFFICES ASSUME NEW v \in G, v \in Against(b) PROVE FALSE
    OBVIOUS
  <2>1. PICK w \in ProperVotes : /\ <<v, w>> \in cast /\ w.slot = b.slot
                                 /\ w.type \in FirstVoteTypes /\ w # BlockVote("Notarize", b)
    BY DEF Against
  <2>2. <<v, BlockVote("Notarize", b)>> \in cast
    BY <1>1
  <2>3. v \in Correct /\ BlockVote("Notarize", b) \in ProperVotes
    BY <1>0, <2>2, CastIsProper
  <2> QED
    BY <1>0, <2>1, <2>2, <2>3, VoteNames DEF OneFirstVote, FirstVoteTypes
<1>4. ~ Contested(b)
  <2>1. /\ G \in SUBSET Validators /\ Against(b) \union Faulty \in SUBSET Validators
        /\ G \intersect (Against(b) \union Faulty) = {}
    BY <1>1, <1>3, FaultyStake DEF Against
  <2>2. /\ StakeOf[G] + StakeOf[Against(b) \union Faulty] <= TotalStake
        /\ StakeOf[G] \in Nat /\ StakeOf[Against(b) \union Faulty] \in Nat
    BY <2>1, StakeDisjoint
  <2> HIDE DEF G
  <2> QED
    BY <2>2, <1>2, FaultyStake DEF Contested, AtLeast
<1>5. AtLeast(StakeOf[G] + StakeOf[Faulty], 60)
  <2>1. StakeOf[G] \in Nat
    BY <1>1, FaultyStake, StakeAssumption
  <2> HIDE DEF G
  <2> QED
    BY <2>1, <1>2, FaultyStake DEF AtLeast
<1>6. ASSUME NEW v \in G, NEW w \in ProperVotes, <<v, w>> \in cast, w.slot = b.slot,
             w.type \in AgainstTypes
      PROVE  w = BlockVote("Notarize", b)
  <2>1. <<v, BlockVote("Notarize", b)>> \in cast /\ v \in Correct /\ v \notin Against(b)
    BY <1>1, <1>3
  <2>2. CASE w.type \in FirstVoteTypes
    BY <2>1, <2>2, <1>6 DEF Against
  <2>3. CASE w.type = "NotarizeFallback"
    <3>1. PICK d \in Blocks : w = BlockVote("NotarizeFallback", d)
      BY <2>3, ProperVote, VoteNames DEF BlockVoteTypes, SlotVoteTypes
    <3>2. d.slot = b.slot /\ d # b
      BY <3>1, <1>6, <2>1, <1>0, VoteNames DEF NotarizeFallbackBacked
    <3> QED
      BY <3>1, <3>2, <2>1, <1>6, <1>0, <1>4 DEF NotarizeFallbackBacked
  <2>4. CASE w.type = "SkipFallback"
    <3>1. b.slot \in Nat /\ w = SlotVote("SkipFallback", b.slot)
      BY <2>4, <1>6, ProperVote, VoteNames DEF BlockVoteTypes, SlotVoteTypes
    <3> QED
      BY <3>1, <2>1, <1>6, <1>0, <1>4 DEF SkipFallbackBacked
  <2> QED
    BY <1>6, <2>2, <2>3, <2>4 DEF AgainstTypes, FirstVoteTypes
<1> QED
  BY <1>1, <1>4, <1>5, <1>6 DEF Finalizes

\* A final block has a group that makes it final: with a fast certificate the
\* validators that notarized it, otherwise those that voted to finalize it.
LEMMA FinalGroup ==
    ASSUME ClusterInv, NEW b \in Blocks, Final(b)
    PROVE  \E G : Finalizes(G, b)
<1>1. CASE Possible(BlockVote("FinalizeFast", b))
  BY <1>1, FastUncontested
<1>2. CASE Possible(BlockVote("Notarize", b)) /\ Possible(SlotVote("Finalize", b.slot))
  <2> DEFINE G == Voters(cast, SlotVote("Finalize", b.slot))
  <2>0. ClusterTypeOK /\ OneFirstVote /\ FinalizeBacked /\ CertificatesSound /\ b.slot \in Nat
    BY BlocksAssumption, MaxSlotAssumption DEF ClusterInv, Slots
  <2>1. G \in SUBSET Correct /\ \A v : v \in G <=> <<v, SlotVote("Finalize", b.slot)>> \in cast
    BY <2>0, CastVoters
  <2>2. AtLeast(StakeOf[G] + StakeOf[Faulty], 60)
    BY <1>2, <2>0, PossibleIs DEF Support
  <2>3. ASSUME NEW v \in G, NEW w \in ProperVotes, <<v, w>> \in cast, w.slot = b.slot,
               w.type \in AgainstTypes
        PROVE  w = BlockVote("Notarize", b)
    <3>1. v \in Correct /\ <<v, SlotVote("Finalize", b.slot)>> \in cast
      BY <2>1
    <3>2. w.type \in {"Notarize", "Finalize"}
      BY <3>1, <2>0, <2>3 DEF FinalizeBacked
    <3>3. w.type = "Notarize"
      BY <3>2, <2>3 DEF AgainstTypes
    <3>4. PICK d \in Blocks : /\ d.slot = b.slot /\ <<v, BlockVote("Notarize", d)>> \in cast
                              /\ BlockVote("Notarize", d) \in certificates
      BY <3>1, <2>0 DEF FinalizeBacked
    <3>5. d = b
      BY <3>4, <1>2, <2>0, UniqueNotarized DEF CertificatesSound
    <3>6. w = BlockVote("Notarize", d)
      <4>1. BlockVote("Notarize", d) \in ProperVotes
        BY <2>0, <3>4, CastIsProper
      <4> QED
        BY <4>1, <3>1, <3>3, <3>4, <2>0, <2>3, VoteNames DEF OneFirstVote, FirstVoteTypes
    <3> QED
      BY <3>5, <3>6
  <2> QED
    BY <2>1, <2>2, <2>3 DEF Finalizes
<1> QED
  BY <1>1, <1>2 DEF Final

\* Votes of a correct validator that count together for one certificate are
\* never both cast.
LEMMA CountedApart ==
    ASSUME ClusterInv
    PROVE  /\ \A s \in Nat : Voters(cast, SlotVote("Skip", s))
                             \intersect Voters(cast, SlotVote("SkipFallback", s)) = {}
           /\ \A d \in Blocks : Voters(cast, BlockVote("Notarize", d))
                             \intersect Voters(cast, BlockVote("NotarizeFallback", d)) = {}
<1>0. ClusterTypeOK /\ OneFirstVote /\ NotarizeFallbackBacked /\ SkipFallbackBacked
  BY DEF ClusterInv
<1>1. ASSUME NEW s \in Nat, NEW v, <<v, SlotVote("Skip", s)>> \in cast,
             <<v, SlotVote("SkipFallback", s)>> \in cast
      PROVE  FALSE
  <2>1. v \in Correct /\ SlotVote("Skip", s) \in ProperVotes
    BY <1>0, <1>1, CastIsProper
  <2>2. PICK b \in Blocks : b.slot = s /\ <<v, BlockVote("Notarize", b)>> \in cast
    BY <2>1, <1>0, <1>1 DEF SkipFallbackBacked
  <2>3. BlockVote("Notarize", b) \in ProperVotes
    BY <1>0, <2>2, CastIsProper
  <2>4. BlockVote("Notarize", b) = SlotVote("Skip", s)
    BY <2>1, <2>2, <2>3, <1>0, <1>1, VoteNames DEF OneFirstVote, FirstVoteTypes
  <2>5. BlockVote("Notarize", b).type = "Notarize" /\ SlotVote("Skip", s).type = "Skip"
    BY VoteNames
  <2> QED
    BY <2>4, <2>5
<1>2. ASSUME NEW d \in Blocks, NEW v, <<v, BlockVote("Notarize", d)>> \in cast,
             <<v, BlockVote("NotarizeFallback", d)>> \in cast
      PROVE  FALSE
  <2>1. v \in Correct /\ BlockVote("Notarize", d) \in ProperVotes
    BY <1>0, <1>2, CastIsProper
  <2>2. v \in Against(d)
    BY <2>1, <1>0, <1>2 DEF NotarizeFallbackBacked
  <2>3. PICK w \in ProperVotes : /\ <<v, w>> \in cast /\ w.slot = d.slot
                                 /\ w.type \in FirstVoteTypes /\ w # BlockVote("Notarize", d)
    BY <2>2 DEF Against
  <2> QED
    BY <2>1, <2>3, <1>0, <1>2, VoteNames DEF OneFirstVote, FirstVoteTypes
<1> QED
  BY <1>0, <1>1, <1>2, CastVoters

\* Agreement within the slot of a final block: no skip, no other block.
LEMMA SlotAgreement ==
    ASSUME ClusterInv, NEW b \in Blocks, Final(b)
    PROVE  /\ ~ Possible(SlotVote("Skip", b.slot))
           /\ \A d \in Blocks : d.slot = b.slot /\ Possible(BlockVote("NotarizeFallback", d)) => d = b
<1>0. ClusterTypeOK /\ b.slot \in Nat
  BY BlocksAssumption, MaxSlotAssumption DEF ClusterInv, Slots
<1>1. PICK G : Finalizes(G, b)
  BY FinalGroup
<1>2. ASSUME NEW w, NEW x, w.slot = b.slot, x.slot = b.slot,
             w.type \in AgainstTypes, x.type \in AgainstTypes,
             w # BlockVote("Notarize", b), x # BlockVote("Notarize", b),
             Voters(cast, w) \intersect Voters(cast, x) = {}
      PROVE  ~ AtLeast(Support(w) + Support(x) + StakeOf[Faulty], 60)
  <2> DEFINE T == Voters(cast, w) \union Voters(cast, x)
  <2>1. T \in SUBSET Correct
    BY <1>0, CastVoters
  <2>2. G \intersect T = {}
    <3> SUFFICES ASSUME NEW v \in G, v \in T PROVE FALSE
      OBVIOUS
    <3>1. PICK y \in {w, x} : <<v, y>> \in cast
      BY <1>0, CastVoters
    <3>2. y \in ProperVotes
      BY <1>0, <3>1, CastIsProper
    <3> QED
      BY <3>1, <3>2, <1>1, <1>2 DEF Finalizes
  <2>3. StakeOf[T] = Support(w) + Support(x)
    BY <1>0, <1>2, SupportIs, StakeDisjoint DEF Support
  <2> HIDE DEF T
  <2>4. ~ AtLeast(StakeOf[T] + StakeOf[Faulty], 60)
    BY <2>1, <2>2, <1>1, GroupsMeet DEF Finalizes
  <2> QED
    BY <2>3, <2>4
<1>3. ~ Possible(SlotVote("Skip", b.slot))
  <2> DEFINE w == SlotVote("Skip", b.slot)
             x == SlotVote("SkipFallback", b.slot)
  <2>1. /\ w.slot = b.slot /\ x.slot = b.slot /\ w.type \in AgainstTypes /\ x.type \in AgainstTypes
        /\ w # BlockVote("Notarize", b) /\ x # BlockVote("Notarize", b)
    BY DEF SlotVote, BlockVote, AgainstTypes
  <2>2. Voters(cast, w) \intersect Voters(cast, x) = {}
    BY <1>0, CountedApart
  <2>3. ~ AtLeast(Support(w) + Support(x) + StakeOf[Faulty], 60)
    <3> HIDE DEF w, x
    <3> QED
      BY <2>1, <2>2, <1>2
  <2> QED
    BY <2>3, <1>0, PossibleIs
<1>4. ASSUME NEW d \in Blocks, d.slot = b.slot, Possible(BlockVote("NotarizeFallback", d)), d # b
      PROVE  FALSE
  <2> DEFINE w == BlockVote("Notarize", d)
             x == BlockVote("NotarizeFallback", d)
  <2>1. /\ w.slot = b.slot /\ x.slot = b.slot /\ w.type \in AgainstTypes /\ x.type \in AgainstTypes
        /\ w # BlockVote("Notarize", b) /\ x # BlockVote("Notarize", b)
    BY <1>4 DEF BlockVote, AgainstTypes
  <2>2. Voters(cast, w) \intersect Voters(cast, x) = {}
    BY CountedApart
  <2>3. ~ AtLeast(Support(w) + Support(x) + StakeOf[Faulty], 60)
    <3> HIDE DEF w, x
    <3> QED
      BY <2>1, <2>2, <1>2
  <2> QED
    BY <2>3, <1>0, <1>4, PossibleIs
<1> QED
  BY <1>3, <1>4

-----------------------------------------------------------------------------
(* Agreement on later slots                                                  *)

\* A non-empty set of natural numbers has a least element.
LEMMA LeastNat ==
    ASSUME NEW T, T \subseteq Nat, T # {}
    PROVE  \E n \in T : \A m \in T : n <= m
<1>1. PICK n \in T : \A m \in T : ~ (<<m, n>> \in OpToRel(<, Nat))
  BY WFMin, NatLessThanWellFounded
<1>2. ASSUME NEW m \in T, ~ (n <= m) PROVE FALSE
  <2>1. n \in Nat /\ m \in Nat
    OBVIOUS
  <2>2. m < n
    BY <2>1, <1>2
  <2>3. <<m, n>> \in OpToRel(<, Nat)
    BY <2>1, <2>2, Zenon DEF OpToRel
  <2> QED
    BY <1>1, <2>3
<1> QED
  BY <1>2

\* Chain satisfies its recursive definition: the least sets of blocks that are
\* closed under taking parents do.
LEMMA ChainIs ==
    \A b \in Blocks : Chain[b] = IF b.slot = 0 THEN {b} ELSE {b} \union Chain[ParentOf[b]]
<1> DEFINE Closed(S) == \A x \in S : x.slot # 0 => ParentOf[x] \in S
           Least(b) == {d \in Blocks : \A S \in SUBSET Blocks : b \in S /\ Closed(S) => d \in S}
           C == [b \in Blocks |-> Least(b)]
<1>1. ASSUME NEW b \in Blocks
      PROVE  Least(b) = IF b.slot = 0 THEN {b} ELSE {b} \union Least(ParentOf[b])
  <2>1. b \in Least(b) /\ ParentOf[b] \in Blocks
    BY ParentOfAssumption
  <2>2. CASE b.slot = 0
    <3>1. Closed({b}) /\ {b} \in SUBSET Blocks
      BY <2>2
    <3>2. \A d \in Least(b) : d = b
      BY <3>1
    <3> QED
      BY <2>1, <2>2, <3>2
  <2>3. CASE b.slot # 0
    <3>1. ParentOf[b] \in Least(ParentOf[b])
      BY <2>1
    <3>2. \A x \in Least(ParentOf[b]) : x.slot # 0 => ParentOf[x] \in Least(ParentOf[b])
      BY ParentOfAssumption
    <3> DEFINE U == {b} \union Least(ParentOf[b])
    <3>3. Closed(U) /\ U \in SUBSET Blocks /\ b \in U
      BY <3>1, <3>2
    <3>4. Least(b) \subseteq U
      BY <3>3
    <3>5. Least(ParentOf[b]) \subseteq Least(b)
      BY <2>3
    <3> QED
      BY <2>1, <2>3, <3>4, <3>5
  <2> QED
    BY <2>2, <2>3
<1>2. \A b \in Blocks : ParentOf[b] \in Blocks
  BY ParentOfAssumption
<1>3. C = [b \in Blocks |-> IF b.slot = 0 THEN {b} ELSE {b} \union C[ParentOf[b]]]
  <2> HIDE DEF Least
  <2> QED
    BY <1>1, <1>2
<1>4. \E f : f = [b \in Blocks |-> IF b.slot = 0 THEN {b} ELSE {b} \union f[ParentOf[b]]]
  <2> HIDE DEF C
  <2> QED
    BY <1>3
<1>5. Chain = [b \in Blocks |-> IF b.slot = 0 THEN {b} ELSE {b} \union Chain[ParentOf[b]]]
  <2> HIDE DEF C
  <2> QED
    BY <1>4 DEF Chain
<1> QED
  BY <1>5

\* Where there are blocks there is one of slot 0, which Genesis denotes.
LEMMA GenesisIs ==
    ASSUME NEW b \in Blocks
    PROVE  Genesis \in Blocks /\ Genesis.slot = 0
<1> DEFINE T == {d.slot : d \in Blocks}
<1>1. T \subseteq Nat /\ T # {}
  BY BlocksAssumption, MaxSlotAssumption DEF Slots
<1>2. PICK n \in T : \A m \in T : n <= m
  <2> HIDE DEF T
  <2> QED
    BY <1>1, LeastNat
<1>3. PICK d \in Blocks : d.slot = n
  OBVIOUS
<1>4. d.slot \in Nat /\ ParentOf[d] \in Blocks /\ ParentOf[d].slot \in Nat
  BY BlocksAssumption, MaxSlotAssumption, ParentOfAssumption DEF Slots
<1>5. ParentOf[d].slot \in T
  BY <1>4
<1>6. n <= ParentOf[d].slot
  BY <1>2, <1>5
<1>7. d.slot = 0
  BY <1>3, <1>4, <1>6, ParentOfAssumption
<1> QED
  BY <1>7 DEF Genesis

\* A block with a certificate of any type can be certified by fallback votes too.
LEMMA CertifiedPossible ==
    ASSUME ClusterInv, NEW p \in BlocksOf(certificates)
    PROVE  p \in Blocks /\ Possible(BlockVote("NotarizeFallback", p))
<1>0. ClusterTypeOK /\ CertificatesSound
  BY DEF ClusterInv
<1>1. PICK c \in certificates : p \in c.block
  BY DEF BlocksOf
<1>2. PICK t \in BlockCertTypes : p \in Blocks /\ c = BlockVote(t, p)
  BY <1>0, <1>1, VoteNames DEF ClusterTypeOK, ProperCertificates
<1>3. Possible(BlockVote(t, p))
  BY <1>0, <1>2 DEF CertificatesSound
<1>4. /\ Support(BlockVote("Notarize", p)) \in Nat /\ Support(BlockVote("NotarizeFallback", p)) \in Nat
      /\ StakeOf[Faulty] \in Nat /\ TotalStake \in Nat
  BY <1>0, SupportIs, FaultyStake
<1>5. CASE t = "Notarize"
  BY <1>0, <1>2, <1>3, <1>4, <1>5, PossibleIs DEF AtLeast
<1>6. CASE t = "FinalizeFast"
  BY <1>0, <1>2, <1>3, <1>4, <1>6, PossibleIs DEF AtLeast
<1>7. CASE t = "NotarizeFallback"
  BY <1>2, <1>3, <1>7
<1> QED
  BY <1>2, <1>5, <1>6, <1>7 DEF BlockCertTypes

\* What can be certified with the help of the faulty validators has a vote of
\* a correct one: the faulty ones alone have less than 20%.
LEMMA CorrectVoter ==
    ASSUME ClusterInv, NEW d \in Blocks, Possible(BlockVote("NotarizeFallback", d))
    PROVE  d.slot > 0 /\ \E v \in Correct : <<v, BlockVote("Notarize", d)>> \in cast
<1>0. ClusterTypeOK /\ NotarizeFallbackBacked
  BY DEF ClusterInv
<1> DEFINE A == Voters(cast, BlockVote("Notarize", d))
           B == Voters(cast, BlockVote("NotarizeFallback", d))
<1>1. /\ A \in SUBSET Correct /\ \A x : x \in A <=> <<x, BlockVote("Notarize", d)>> \in cast
      /\ B \in SUBSET Correct /\ \A x : x \in B <=> <<x, BlockVote("NotarizeFallback", d)>> \in cast
  BY <1>0, CastVoters
<1>2. AtLeast(StakeOf[A] + StakeOf[B] + StakeOf[Faulty], 60)
  BY <1>0, PossibleIs DEF Support
<1>3. A # {} \/ B # {}
  <2> SUFFICES ASSUME A = {}, B = {} PROVE FALSE
    OBVIOUS
  <2>1. StakeOf[A] = 0 /\ StakeOf[B] = 0
    BY StakeAssumption
  <2> QED
    BY <2>1, <1>2, FaultyStake DEF AtLeast
<1>4. PICK v \in Correct : <<v, BlockVote("Notarize", d)>> \in cast
  BY <1>0, <1>1, <1>3 DEF NotarizeFallbackBacked
<1>5. BlockVote("Notarize", d).slot \in Nat \ {0}
  BY <1>0, <1>4, CastIsProper
<1> QED
  BY <1>4, <1>5, VoteNames

\* A block that can be certified, above a final block b, has a parent that can
\* be certified and is not below b: the parent is ready, and then every slot
\* between is skipped, or it is the block of the slot before, which who
\* notarized d notarized too, or which is certified when fallback votes are cast.
LEMMA ParentPossible ==
    ASSUME ClusterInv, NEW b \in Blocks, Final(b), NEW d \in Blocks, d.slot > b.slot,
           Possible(BlockVote("NotarizeFallback", d))
    PROVE  /\ ParentOf[d] \in Blocks
           /\ ParentOf[d].slot < d.slot /\ b.slot <= ParentOf[d].slot
           /\ Possible(BlockVote("NotarizeFallback", ParentOf[d]))
<1> DEFINE p == ParentOf[d]
<1>0. ClusterTypeOK /\ NotarizeExtends /\ NotarizeFallbackBacked /\ CertificatesSound
  BY DEF ClusterInv
<1>1. PICK v \in Correct : <<v, BlockVote("Notarize", d)>> \in cast
  BY CorrectVoter
<1>2. d.slot > 0 /\ d.slot \in Nat /\ b.slot \in Nat
  BY CorrectVoter, BlocksAssumption, MaxSlotAssumption DEF Slots
<1>3. p \in Blocks /\ p.slot \in Nat /\ p.slot < d.slot
  BY <1>2, BlocksAssumption, ParentOfAssumption, MaxSlotAssumption DEF Slots
<1>4. Possible(BlockVote("NotarizeFallback", b))
  <2>1. /\ Support(BlockVote("Notarize", b)) \in Nat /\ Support(BlockVote("NotarizeFallback", b)) \in Nat
        /\ StakeOf[Faulty] \in Nat /\ TotalStake \in Nat
    BY <1>0, SupportIs, FaultyStake
  <2> QED
    BY <1>0, <2>1, PossibleIs DEF AtLeast, Final
<1>5. b.slot > 0
  BY <1>4, CorrectVoter
<1>6. ASSUME p \in CertifiedBlocks, b.slot <= p.slot
      PROVE  Possible(BlockVote("NotarizeFallback", p))
  <2>1. p # Genesis
    BY <1>2, <1>3, <1>5, <1>6, GenesisIs
  <2> QED
    BY <2>1, <1>6, CertifiedPossible DEF CertifiedBlocks
<1>7. CASE Announced(d.slot)
  <2>1. p \in CertifiedBlocks /\ (p.slot + 1)..(d.slot - 1) \subseteq CertifiedSkips
    BY <1>0, <1>1, <1>7 DEF NotarizeExtends, ReadyParents, Ready, IsReady
  <2>2. b.slot \notin CertifiedSkips
    <3> SUFFICES ASSUME b.slot \in CertifiedSkips PROVE FALSE
      OBVIOUS
    <3>1. PICK c \in certificates : c.type = "Skip" /\ c.slot = b.slot
      BY DEF CertifiedSkips, SlotsOf, OfType
    <3>2. c = SlotVote("Skip", b.slot)
      BY <1>0, <3>1, VoteNames DEF ClusterTypeOK, ProperCertificates, BlockCertTypes
    <3> QED
      BY <1>0, <3>1, <3>2, SlotAgreement DEF CertificatesSound
  <2>3. b.slot <= p.slot
    <3> SUFFICES ASSUME ~ (b.slot <= p.slot) PROVE FALSE
      OBVIOUS
    <3>1. b.slot \in (p.slot + 1)..(d.slot - 1)
      BY <1>2, <1>3
    <3> QED
      BY <3>1, <2>1, <2>2
  <2> QED
    BY <1>3, <1>6, <2>1, <2>3
<1>8. CASE ~ Announced(d.slot)
  <2>1. p.slot + 1 = d.slot
    BY <1>0, <1>1, <1>8 DEF NotarizeExtends
  <2>2. b.slot <= p.slot
    BY <2>1, <1>2, <1>3
  <2> DEFINE A == Voters(cast, BlockVote("Notarize", d))
             B == Voters(cast, BlockVote("NotarizeFallback", d))
             P == Voters(cast, BlockVote("Notarize", p))
  <2>3. /\ A \in SUBSET Correct /\ \A x : x \in A <=> <<x, BlockVote("Notarize", d)>> \in cast
        /\ B \in SUBSET Correct /\ \A x : x \in B <=> <<x, BlockVote("NotarizeFallback", d)>> \in cast
        /\ P \in SUBSET Correct /\ \A x : x \in P <=> <<x, BlockVote("Notarize", p)>> \in cast
    BY <1>0, CastVoters
  <2>4. CASE B # {}
    <3>1. ~ Immediate(d)
      BY <1>8 DEF Immediate, Announced
    <3>2. p \in CertifiedBlocks
      BY <1>0, <2>3, <2>4, <3>1 DEF NotarizeFallbackBacked
    <3> QED
      BY <1>3, <1>6, <2>2, <3>2
  <2>5. CASE B = {}
    <3>1. A \subseteq P
      BY <1>0, <1>8, <2>3 DEF NotarizeExtends
    <3>2. StakeOf[A] <= StakeOf[P] /\ StakeOf[A] \in Nat /\ StakeOf[P] \in Nat
      BY <2>3, <3>1, FaultyStake, StakeMonotone
    <3>3. StakeOf[B] = 0
      BY <2>5, StakeAssumption
    <3>4. AtLeast(StakeOf[A] + StakeOf[B] + StakeOf[Faulty], 60)
      BY <1>0, PossibleIs DEF Support
    <3>5. Support(BlockVote("NotarizeFallback", p)) \in Nat
      BY <1>0, SupportIs
    <3>6. Support(BlockVote("Notarize", p)) = StakeOf[P]
      BY DEF Support
    <3> HIDE DEF A, B, P, p
    <3>7. AtLeast(StakeOf[P] + Support(BlockVote("NotarizeFallback", p)) + StakeOf[Faulty], 60)
      BY <3>2, <3>3, <3>4, <3>5, FaultyStake DEF AtLeast
    <3>8. Possible(BlockVote("NotarizeFallback", p))
      BY <1>0, <3>6, <3>7, PossibleIs
    <3> QED
      BY <1>3, <2>2, <3>8 DEF p
  <2> QED
    BY <2>4, <2>5
<1> QED
  BY <1>7, <1>8

\* The invariant implies agreement, by the least slot that would contradict it.
LEMMA InvAgreement == ClusterInv => Agreement
<1> SUFFICES ASSUME ClusterInv, NEW b \in Blocks, Final(b)
             PROVE  /\ ~ Possible(SlotVote("Skip", b.slot))
                    /\ \A d \in Blocks : d.slot >= b.slot /\ Possible(BlockVote("NotarizeFallback", d))
                                             => b \in Chain[d]
  BY DEF Agreement
<1> DEFINE Bad(d) == /\ d.slot >= b.slot
                     /\ Possible(BlockVote("NotarizeFallback", d))
                     /\ b \notin Chain[d]
           T == {d.slot : d \in {e \in Blocks : Bad(e)}}
<1>1. SUFFICES ASSUME T # {} PROVE FALSE
  BY SlotAgreement
<1>2. T \subseteq Nat
  BY BlocksAssumption, MaxSlotAssumption DEF Slots
<1>3. PICK n \in T : \A m \in T : n <= m
  <2> HIDE DEF T
  <2> QED
    BY <1>1, <1>2, LeastNat
<1>4. PICK d \in Blocks : Bad(d) /\ d.slot = n
  BY <1>3
<1>5. d.slot \in Nat /\ b.slot \in Nat /\ d.slot > 0
  BY <1>4, CorrectVoter, BlocksAssumption, MaxSlotAssumption DEF Slots
<1>6. Chain[d] = {d} \union Chain[ParentOf[d]]
  <2>1. d.slot # 0
    BY <1>5
  <2> QED
    BY <2>1, ChainIs, Zenon
<1>7. d.slot > b.slot
  <2> SUFFICES ASSUME d.slot = b.slot PROVE FALSE
    BY <1>4, <1>5
  <2>1. d = b
    BY <1>4, SlotAgreement
  <2> QED
    BY <2>1, <1>4, <1>6
<1> DEFINE p == ParentOf[d]
<1>8. /\ p \in Blocks /\ p.slot < d.slot /\ b.slot <= p.slot
      /\ Possible(BlockVote("NotarizeFallback", p))
  BY <1>4, <1>7, ParentPossible
<1>9. p.slot \in Nat
  BY <1>8, BlocksAssumption, MaxSlotAssumption DEF Slots
<1>10. Bad(p)
  <2>1. p.slot >= b.slot
    BY <1>5, <1>8, <1>9
  <2> QED
    BY <1>4, <1>6, <1>8, <2>1
<1>11. p.slot \in T
  BY <1>8, <1>10
<1>12. n <= p.slot
  BY <1>3, <1>11
<1> QED
  BY <1>4, <1>5, <1>8, <1>9, <1>12

-----------------------------------------------------------------------------
(* What a validator's history says                                           *)

\* A proper vote is known by its type and its block or slot.
LEMMA ProperByType ==
    ASSUME NEW w \in ProperVotes
    PROVE  /\ \A b : w.type \in BlockVoteTypes /\ b \in w.block => b \in Blocks /\ w = BlockVote(w.type, b)
           /\ w.type \in SlotVoteTypes => w = SlotVote(w.type, w.slot)
           /\ w.type \in BlockVoteTypes \/ w.type \in SlotVoteTypes
<1>1. ASSUME NEW b \in Blocks, w.type \in BlockVoteTypes, w = BlockVote(w.type, b)
      PROVE  /\ \A d : d \in w.block => d \in Blocks /\ w = BlockVote(w.type, d)
             /\ w.type \notin SlotVoteTypes
  <2>1. w.block = {b}
    BY <1>1, VoteNames
  <2> QED
    BY <1>1, <2>1 DEF BlockVoteTypes, SlotVoteTypes
<1>2. ASSUME NEW s \in Nat \ {0}, w.type \in SlotVoteTypes, w = SlotVote(w.type, s)
      PROVE  w.type \notin BlockVoteTypes /\ w = SlotVote(w.type, w.slot)
  <2>1. w.slot = s
    BY <1>2, VoteNames
  <2> QED
    BY <1>2, <2>1 DEF BlockVoteTypes, SlotVoteTypes
<1> QED
  BY <1>1, <1>2, ProperVote

\* What a validator's history says, in terms of the votes it has cast.
LEMMA HistoryIs ==
    ASSUME ClusterTypeOK, NEW v, NEW h, h = History(v)
    PROVE  /\ \A w : w \in h.votes_cast <=> <<v, w>> \in cast
           /\ \A s : s \in h.voted <=>
                   \E w \in ProperVotes : <<v, w>> \in cast /\ w.slot = s /\ w.type \in FirstVoteTypes
           /\ \A b : b \in h.voted_notar <=> <<v, BlockVote("Notarize", b)>> \in cast
           /\ \A s : s \in h.its_over <=> <<v, SlotVote("Finalize", s)>> \in cast
           /\ \A s : s \in h.skipped <=>
                   \E w \in ProperVotes : /\ <<v, w>> \in cast /\ w.slot = s
                                          /\ w.type \in {"Skip", "SkipFallback", "NotarizeFallback"}
           /\ \A b : b \in h.notarized_blocks <=> BlockVote("Notarize", b) \in certificates
           /\ \A s, p : <<s, p>> \in h.parent_ready <=>
                   s \in Slots /\ Announced(s) /\ p \in ReadyParents(s)
<1> DEFINE mine == {p[2] : p \in {q \in cast : q[1] = v}}
<1>1. \A w : w \in mine <=> <<v, w>> \in cast
  <2>1. \A q \in cast : q = <<q[1], q[2]>>
    BY DEF ClusterTypeOK
  <2> QED
    BY <2>1
<1>2. /\ h.votes_cast = {} \union mine
      /\ h.voted = {} \union SlotsOf(OfType(mine, "Notarize") \union OfType(mine, "Skip"))
      /\ h.voted_notar = {} \union BlocksOf(OfType(mine, "Notarize"))
      /\ h.its_over = {} \union SlotsOf(OfType(mine, "Finalize"))
      /\ h.skipped = {} \union SlotsOf(OfType(mine, "Skip") \union OfType(mine, "SkipFallback")
                                        \union OfType(mine, "NotarizeFallback"))
      /\ h.notarized_blocks = BlocksOf(OfType(certificates, "Notarize"))
      /\ h.parent_ready = UNION {{s} \X ReadyParents(s) : s \in {t \in Slots : Announced(t)}}
  <2> HIDE DEF mine
  <2>1. h = [AddVotes(NewHistory(0), mine) EXCEPT
                !.notarized_blocks = BlocksOf(OfType(certificates, "Notarize")),
                !.parent_ready = UNION {{s} \X ReadyParents(s) : s \in {t \in Slots : Announced(t)}}]
    BY DEF History, mine
  <2> QED
    BY <2>1 DEF AddVotes, NewHistory
<1> HIDE DEF mine
<1>3. \A w \in mine : w \in ProperVotes
  BY <1>1, CastIsProper
<1>4. \A s : s \in h.voted <=>
          \E w \in ProperVotes : <<v, w>> \in cast /\ w.slot = s /\ w.type \in FirstVoteTypes
  BY <1>1, <1>2, <1>3 DEF SlotsOf, OfType, FirstVoteTypes
<1>5. \A b : b \in h.voted_notar <=> <<v, BlockVote("Notarize", b)>> \in cast
  <2>1. \A b : b \in h.voted_notar <=> \E w \in mine : w.type = "Notarize" /\ b \in w.block
    BY <1>2 DEF BlocksOf, OfType
  <2>2. \A b : \A w \in mine : w.type = "Notarize" /\ b \in w.block => w = BlockVote("Notarize", b)
    BY <1>3, ProperByType DEF BlockVoteTypes
  <2> QED
    BY <2>1, <2>2, <1>1, VoteNames
<1>6. \A s : s \in h.its_over <=> <<v, SlotVote("Finalize", s)>> \in cast
  <2>1. \A s : s \in h.its_over <=> \E w \in mine : w.type = "Finalize" /\ w.slot = s
    BY <1>2 DEF SlotsOf, OfType
  <2>2. \A w \in mine : w.type = "Finalize" => w = SlotVote("Finalize", w.slot)
    BY <1>3, ProperByType DEF SlotVoteTypes
  <2> QED
    BY <2>1, <2>2, <1>1, VoteNames
<1>7. \A s : s \in h.skipped <=>
          \E w \in ProperVotes : /\ <<v, w>> \in cast /\ w.slot = s
                                 /\ w.type \in {"Skip", "SkipFallback", "NotarizeFallback"}
  BY <1>1, <1>2, <1>3 DEF SlotsOf, OfType
<1>8. \A b : b \in h.notarized_blocks <=> BlockVote("Notarize", b) \in certificates
  <2>1. \A b : b \in h.notarized_blocks <=> \E c \in certificates : c.type = "Notarize" /\ b \in c.block
    BY <1>2 DEF BlocksOf, OfType
  <2>2. ASSUME NEW c \in certificates, c.type = "Notarize", NEW b \in c.block
        PROVE  c = BlockVote("Notarize", b)
    BY <2>2, VoteNames DEF ClusterTypeOK, ProperCertificates
  <2> QED
    BY <2>1, <2>2, VoteNames
<1>9. \A s, p : <<s, p>> \in h.parent_ready <=>
          s \in Slots /\ Announced(s) /\ p \in ReadyParents(s)
  BY <1>2
<1> QED
  BY <1>1, <1>2, <1>4, <1>5, <1>6, <1>7, <1>8, <1>9

-----------------------------------------------------------------------------
(* More votes never make less possible                                       *)

\* A certificate that some votes complete is completed by more votes too.
LEMMA CompleteMonotone ==
    ASSUME NEW V, NEW W, V \subseteq W, \A p \in W : p[1] \in Validators, NEW c, Complete(V, c)
    PROVE  Complete(W, c)
<1>1. ASSUME NEW w
      PROVE  EntryStake(V, w) \in Nat /\ EntryStake(W, w) \in Nat /\ EntryStake(V, w) <= EntryStake(W, w)
  <2>1. /\ Voters(V, w) \subseteq Voters(W, w)
        /\ Voters(V, w) \in SUBSET Validators /\ Voters(W, w) \in SUBSET Validators
    BY DEF Voters
  <2> QED
    BY <2>1, StakeMonotone DEF EntryStake
<1> DEFINE f == CHOOSE v \in CountedVotes(c) : TRUE
           g == CHOOSE v \in CountedVotes(c) : v # f
           A(X) == EntryStake(X, f) + IF CountedVotes(c) = {f} THEN 0 ELSE EntryStake(X, g)
<1>2. Accumulated(V, c) = A(V) /\ Accumulated(W, c) = A(W)
  BY DEF Accumulated
<1> HIDE DEF f, g
<1>3. A(V) \in Nat /\ A(W) \in Nat /\ A(V) <= A(W)
  <2>1. /\ EntryStake(V, f) \in Nat /\ EntryStake(W, f) \in Nat /\ EntryStake(V, f) <= EntryStake(W, f)
        /\ EntryStake(V, g) \in Nat /\ EntryStake(W, g) \in Nat /\ EntryStake(V, g) <= EntryStake(W, g)
    BY <1>1
  <2> QED
    BY <2>1
<1> HIDE DEF A
<1>4. Limit(c) \in {60, 80} /\ TotalStake \in Nat
  BY FaultyStake DEF Limit
<1>5. 100 * A(V) >= Limit(c) * TotalStake
  BY <1>2 DEF Complete, AtLeast
<1>6. 100 * A(W) >= Limit(c) * TotalStake
  <2>1. CASE Limit(c) = 60
    BY <2>1, <1>3, <1>4, <1>5
  <2>2. CASE Limit(c) = 80
    BY <2>2, <1>3, <1>4, <1>5
  <2> QED
    BY <2>1, <2>2, <1>4
<1> QED
  BY <1>2, <1>6 DEF Complete, AtLeast

\* A step that only adds votes and certificates keeps what the invariant says
\* of the ones there were.
LEMMA GrowthKeeps ==
    ASSUME ClusterTypeOK, cast \subseteq cast', certificates \subseteq certificates',
           \A p \in cast' : p[1] \in Correct
    PROVE  /\ \A c : Possible(c) => Possible(c)'
           /\ \A c : Complete(cast', c) => Possible(c)'
           /\ CertifiedBlocks \subseteq CertifiedBlocks'
           /\ \A s : ReadyParents(s) \subseteq ReadyParents(s)'
           /\ \A b : Against(b) \subseteq Against(b)'
           /\ \A b : Contested(b) => Contested(b)'
<1>1. \A lie : /\ Told(lie) \subseteq Told(lie)' /\ cast' \subseteq Told(lie)'
               /\ \A p \in Told(lie)' : p[1] \in Validators
  BY FaultyStake DEF Told
<1>2. ASSUME NEW c, Possible(c) PROVE Possible(c)'
  <2> DEFINE lie == CHOOSE vote \in CountedVotes(c) : TRUE
  <2>1. Complete(Told(lie), c)
    BY <1>2 DEF Possible
  <2> HIDE DEF lie
  <2>2. Complete(Told(lie)', c)
    BY <1>1, <2>1, CompleteMonotone
  <2>3. Complete(Told(lie), c)'
    BY <2>2 DEF Complete, Accumulated, EntryStake, Voters, AtLeast, TotalStake
  <2> QED
    BY <2>3 DEF Possible, lie
<1>3. ASSUME NEW c, Complete(cast', c) PROVE Possible(c)'
  <2> DEFINE lie == CHOOSE vote \in CountedVotes(c) : TRUE
  <2> HIDE DEF lie
  <2>2. Complete(Told(lie)', c)
    BY <1>1, <1>3, CompleteMonotone
  <2>3. Complete(Told(lie), c)'
    BY <2>2 DEF Complete, Accumulated, EntryStake, Voters, AtLeast, TotalStake
  <2> QED
    BY <2>3 DEF Possible, lie
<1>4. CertifiedBlocks \subseteq CertifiedBlocks'
  BY DEF CertifiedBlocks, BlocksOf
<1>5. CertifiedSkips \subseteq CertifiedSkips'
  BY DEF CertifiedSkips, SlotsOf, OfType
<1>6. ASSUME NEW s PROVE ReadyParents(s) \subseteq ReadyParents(s)'
  BY <1>4, <1>5 DEF ReadyParents, Ready, IsReady
<1>7. ASSUME NEW b PROVE Against(b) \subseteq Against(b)'
  BY DEF Against
<1>8. ASSUME NEW b, Contested(b) PROVE Contested(b)'
  <2>1. /\ Against(b) \union Faulty \in SUBSET Validators
        /\ Against(b)' \union Faulty \in SUBSET Validators
        /\ Against(b) \union Faulty \subseteq Against(b)' \union Faulty
    BY <1>7, FaultyStake DEF Against
  <2>2. /\ StakeOf[Against(b) \union Faulty] <= StakeOf[Against(b)' \union Faulty]
        /\ StakeOf[Against(b) \union Faulty] \in Nat /\ StakeOf[Against(b)' \union Faulty] \in Nat
    BY <2>1, StakeMonotone
  <2>3. AtLeast(StakeOf[Against(b)' \union Faulty], 40)
    BY <2>2, <1>8, FaultyStake DEF Contested, AtLeast
  <2> QED
    BY <2>3 DEF Contested, AtLeast, TotalStake
<1> QED
  BY <1>2, <1>3, <1>4, <1>6, <1>7, <1>8

-----------------------------------------------------------------------------
(* The steps of a correct validator                                          *)

\* v has cast no first vote in slot s.
Unvoted(v, s) ==
    \A w \in ProperVotes : ~ (<<v, w>> \in cast /\ w.slot = s /\ w.type \in FirstVoteTypes)

\* What every step of a correct validator ensures of the votes it casts.
SoundVotes(v, new) ==
    /\ new \subseteq ProperVotes
    /\ \A w, x \in new : w.slot = x.slot /\ w.type \in FirstVoteTypes /\ x.type \in FirstVoteTypes
            => w = x
    /\ \A w \in new : w.type \in FirstVoteTypes => Unvoted(v, w.slot)
    /\ \A w \in new : w.type # "Finalize" /\ w.type # "Notarize" =>
            <<v, SlotVote("Finalize", w.slot)>> \notin cast
    /\ \A s \in Nat : SlotVote("Finalize", s) \in new =>
            /\ new = {SlotVote("Finalize", s)}
            /\ \E b \in Blocks : /\ b.slot = s
                                 /\ <<v, BlockVote("Notarize", b)>> \in cast
                                 /\ BlockVote("Notarize", b) \in certificates
            /\ \A w \in ProperVotes : <<v, w>> \in cast /\ w.slot = s
                    => w.type \in {"Notarize", "Finalize"}
    /\ \A b \in Blocks : BlockVote("Notarize", b) \in new =>
            IF Announced(b.slot) THEN ParentOf[b] \in ReadyParents(b.slot)
            ELSE /\ ParentOf[b].slot + 1 = b.slot
                 /\ <<v, BlockVote("Notarize", ParentOf[b])>> \in cast
    /\ \A d \in Blocks : BlockVote("NotarizeFallback", d) \in new =>
            /\ v \in Against(d)
            /\ \E u \in Correct : <<u, BlockVote("Notarize", d)>> \in cast
            /\ ~ Immediate(d) => ParentOf[d] \in CertifiedBlocks
            /\ \A b \in Blocks : b.slot = d.slot /\ b # d => Contested(b)
    /\ \A s \in Nat : SlotVote("SkipFallback", s) \in new =>
            /\ \E b \in Blocks : b.slot = s /\ <<v, BlockVote("Notarize", b)>> \in cast
            /\ \A b \in Blocks : b.slot = s => Contested(b)

\* The certificates a proper vote counts for are proper.
LEMMA VoteToProperCerts ==
    ASSUME NEW w \in ProperVotes
    PROVE  VoteToCertTypes(w) \subseteq ProperCertificates
<1> SUFFICES ASSUME NEW c \in VoteToCertTypes(w) PROVE c \in ProperCertificates
  OBVIOUS
<1>1. ASSUME NEW b \in Blocks, w.type \in BlockVoteTypes, w = BlockVote(w.type, b)
      PROVE  c \in ProperCertificates
  <2>1. PICK t \in BlockCertTypes : c = [w EXCEPT !.type = t]
    BY <1>1 DEF VoteToCertTypes, BlockVoteTypes, BlockCertTypes
  <2>2. c = BlockVote(t, b)
    BY <1>1, <2>1 DEF BlockVote
  <2> QED
    BY <2>2 DEF ProperCertificates
<1>2. ASSUME NEW s \in Nat, w.type \in SlotVoteTypes, w = SlotVote(w.type, s)
      PROVE  c \in ProperCertificates
  <2>1. PICK t \in {"Finalize", "Skip"} : c = [w EXCEPT !.type = t]
    BY <1>2 DEF VoteToCertTypes, SlotVoteTypes
  <2>2. c = SlotVote(t, s)
    BY <1>2, <2>1 DEF SlotVote
  <2> QED
    BY <2>2 DEF ProperCertificates
<1> QED
  BY <1>1, <1>2, ProperVote

\* Sound votes preserve the invariant.
LEMMA SoundVotesKeep ==
    ASSUME ClusterInv, NEW v \in Correct, NEW new, SoundVotes(v, new), Cast(v, new)
    PROVE  ClusterInv'
<1>0. /\ ClusterTypeOK /\ OneFirstVote /\ FinalizeBacked /\ NotarizeExtends
      /\ NotarizeFallbackBacked /\ SkipFallbackBacked /\ CertificatesSound
      /\ new \subseteq ProperVotes
  BY DEF ClusterInv, SoundVotes
<1>1. \A u, w : <<u, w>> \in cast' <=> <<u, w>> \in cast \/ (u = v /\ w \in new)
  BY DEF Cast
<1>2. ClusterTypeOK'
  <2>1. cast' \subseteq Correct \X ProperVotes
    BY <1>0 DEF Cast, ClusterTypeOK
  <2>2. UNION {VoteToCertTypes(w) : w \in new} \subseteq ProperCertificates
    BY <1>0, VoteToProperCerts
  <2>3. certificates' \subseteq ProperCertificates
    BY <1>0, <2>2 DEF Cast, ClusterTypeOK
  <2>4. Correct' = Correct /\ ProperVotes' = ProperVotes /\ ProperCertificates' = ProperCertificates
    BY DEF Correct, ProperVotes, ProperCertificates, BlockVote, SlotVote, BlockVoteTypes,
           SlotVoteTypes, BlockCertTypes
  <2> QED
    BY <2>1, <2>3, <2>4 DEF ClusterTypeOK
<1>3. /\ cast \subseteq cast' /\ certificates \subseteq certificates'
      /\ \A p \in cast' : p[1] \in Correct
  BY <1>0 DEF Cast, ClusterTypeOK
<1>4. /\ \A c : Possible(c) => Possible(c)'
      /\ \A c : Complete(cast', c) => Possible(c)'
      /\ CertifiedBlocks \subseteq CertifiedBlocks'
      /\ \A s : ReadyParents(s) \subseteq ReadyParents(s)'
      /\ \A b : Against(b) \subseteq Against(b)'
      /\ \A b : Contested(b) => Contested(b)'
  BY <1>0, <1>3, GrowthKeeps
<1>5. OneFirstVote'
  <2> SUFFICES ASSUME NEW u \in Correct, NEW w \in ProperVotes, NEW x \in ProperVotes,
                      <<u, w>> \in cast', <<u, x>> \in cast', w.slot = x.slot,
                      w.type \in FirstVoteTypes, x.type \in FirstVoteTypes
               PROVE  w = x
    BY DEF OneFirstVote
  <2>1. CASE <<u, w>> \in cast /\ <<u, x>> \in cast
    BY <1>0, <2>1 DEF OneFirstVote
  <2>2. CASE u = v /\ w \in new
    BY <1>1, <2>2 DEF SoundVotes, Unvoted
  <2>3. CASE u = v /\ x \in new
    BY <1>1, <2>3 DEF SoundVotes, Unvoted
  <2> QED
    BY <1>1, <2>1, <2>2, <2>3
<1>6. FinalizeBacked'
  <2> SUFFICES ASSUME NEW u \in Correct, NEW s \in Nat, <<u, SlotVote("Finalize", s)>> \in cast'
               PROVE  /\ \E b \in Blocks : /\ b.slot = s
                                            /\ <<u, BlockVote("Notarize", b)>> \in cast'
                                            /\ BlockVote("Notarize", b) \in certificates'
                      /\ \A w \in ProperVotes : <<u, w>> \in cast' /\ w.slot = s
                              => w.type \in {"Notarize", "Finalize"}
    BY DEF FinalizeBacked
  <2>1. CASE <<u, SlotVote("Finalize", s)>> \in cast
    <3>1. PICK b \in Blocks : /\ b.slot = s /\ <<u, BlockVote("Notarize", b)>> \in cast
                              /\ BlockVote("Notarize", b) \in certificates
      BY <1>0, <2>1 DEF FinalizeBacked
    <3>2. ASSUME NEW w \in ProperVotes, <<u, w>> \in cast', w.slot = s
          PROVE  w.type \in {"Notarize", "Finalize"}
      <4>1. CASE <<u, w>> \in cast
        BY <1>0, <2>1, <3>2, <4>1 DEF FinalizeBacked
      <4>2. CASE u = v /\ w \in new
        BY <2>1, <3>2, <4>2 DEF SoundVotes
      <4> QED
        BY <1>1, <3>2, <4>1, <4>2
    <3> QED
      BY <1>3, <3>1, <3>2
  <2>2. CASE u = v /\ SlotVote("Finalize", s) \in new
    <3>1. /\ new = {SlotVote("Finalize", s)}
          /\ \E b \in Blocks : /\ b.slot = s
                               /\ <<v, BlockVote("Notarize", b)>> \in cast
                               /\ BlockVote("Notarize", b) \in certificates
          /\ \A w \in ProperVotes : <<v, w>> \in cast /\ w.slot = s
                  => w.type \in {"Notarize", "Finalize"}
      BY <2>2 DEF SoundVotes
    <3>2. \E b \in Blocks : /\ b.slot = s
                            /\ <<u, BlockVote("Notarize", b)>> \in cast'
                            /\ BlockVote("Notarize", b) \in certificates'
      BY <1>3, <2>2, <3>1
    <3>3. ASSUME NEW w \in ProperVotes, <<u, w>> \in cast', w.slot = s
          PROVE  w.type \in {"Notarize", "Finalize"}
      <4>1. CASE <<v, w>> \in cast
        BY <3>1, <3>3, <4>1
      <4>2. CASE w = SlotVote("Finalize", s)
        BY <4>2, VoteNames
      <4> QED
        BY <1>1, <2>2, <3>1, <3>3, <4>1, <4>2
    <3> QED
      BY <3>2, <3>3
  <2> QED
    BY <1>1, <2>1, <2>2
<1>7. NotarizeExtends'
  <2> SUFFICES ASSUME NEW u \in Correct, NEW b \in Blocks, <<u, BlockVote("Notarize", b)>> \in cast'
               PROVE  IF Announced(b.slot) THEN ParentOf[b] \in ReadyParents(b.slot)'
                      ELSE /\ ParentOf[b].slot + 1 = b.slot
                           /\ <<u, BlockVote("Notarize", ParentOf[b])>> \in cast'
    BY DEF NotarizeExtends
  <2>1. IF Announced(b.slot) THEN ParentOf[b] \in ReadyParents(b.slot)
        ELSE /\ ParentOf[b].slot + 1 = b.slot
             /\ <<u, BlockVote("Notarize", ParentOf[b])>> \in cast
    BY <1>0, <1>1 DEF NotarizeExtends, SoundVotes
  <2> QED
    BY <2>1, <1>3, <1>4
<1>8. NotarizeFallbackBacked'
  <2> SUFFICES ASSUME NEW u \in Correct, NEW d \in Blocks,
                      <<u, BlockVote("NotarizeFallback", d)>> \in cast'
               PROVE  /\ u \in Against(d)'
                      /\ \E t \in Correct : <<t, BlockVote("Notarize", d)>> \in cast'
                      /\ ~ Immediate(d) => ParentOf[d] \in CertifiedBlocks'
                      /\ \A b \in Blocks : b.slot = d.slot /\ b # d => Contested(b)'
    BY DEF NotarizeFallbackBacked
  <2>1. /\ u \in Against(d)
        /\ \E t \in Correct : <<t, BlockVote("Notarize", d)>> \in cast
        /\ ~ Immediate(d) => ParentOf[d] \in CertifiedBlocks
        /\ \A b \in Blocks : b.slot = d.slot /\ b # d => Contested(b)
    BY <1>0, <1>1 DEF NotarizeFallbackBacked, SoundVotes
  <2> QED
    BY <2>1, <1>3, <1>4
<1>9. SkipFallbackBacked'
  <2> SUFFICES ASSUME NEW u \in Correct, NEW s \in Nat, <<u, SlotVote("SkipFallback", s)>> \in cast'
               PROVE  /\ \E b \in Blocks : b.slot = s /\ <<u, BlockVote("Notarize", b)>> \in cast'
                      /\ \A b \in Blocks : b.slot = s => Contested(b)'
    BY DEF SkipFallbackBacked
  <2>1. /\ \E b \in Blocks : b.slot = s /\ <<u, BlockVote("Notarize", b)>> \in cast
        /\ \A b \in Blocks : b.slot = s => Contested(b)
    BY <1>0, <1>1 DEF SkipFallbackBacked, SoundVotes
  <2> QED
    BY <2>1, <1>3, <1>4
<1>10. CertificatesSound'
  BY <1>0, <1>4 DEF CertificatesSound, Cast
<1> QED
  BY <1>2, <1>5, <1>6, <1>7, <1>8, <1>9, <1>10 DEF ClusterInv

\* try_notar: a notarize vote for a block whose parent is ready is sound.
LEMMA NotarizeSound ==
    ASSUME ClusterInv, NEW v \in Correct, NEW b \in Blocks, CanNotar(History(v), {}, b)
    PROVE  SoundVotes(v, {BlockVote("Notarize", b)})
<1>0. ClusterTypeOK
  BY DEF ClusterInv
<1> DEFINE h == History(v)
<1>1. /\ b.slot \notin h.voted
      /\ IF Announced(b.slot) THEN <<b.slot, ParentOf[b]>> \in h.parent_ready
         ELSE ParentOf[b].slot + 1 = b.slot /\ ParentOf[b] \in h.voted_notar
  BY DEF CanNotar, Announced
<1>2. Unvoted(v, b.slot)
  BY <1>0, <1>1, HistoryIs DEF Unvoted
<1>3. IF Announced(b.slot) THEN ParentOf[b] \in ReadyParents(b.slot)
      ELSE /\ ParentOf[b].slot + 1 = b.slot
           /\ <<v, BlockVote("Notarize", ParentOf[b])>> \in cast
  BY <1>0, <1>1, HistoryIs
<1>4. b.slot > 0
  <2>1. b.slot \in Nat /\ ParentOf[b] \in Blocks /\ ParentOf[b].slot \in Nat
    BY BlocksAssumption, MaxSlotAssumption, ParentOfAssumption DEF Slots
  <2>2. ParentOf[b].slot < b.slot
    BY <1>3, <2>1 DEF ReadyParents, Ready, IsReady
  <2> QED
    BY <2>1, <2>2
<1>5. BlockVote("Notarize", b) \in ProperVotes
  BY <1>4 DEF ProperVotes, BlockVoteTypes
<1>6. /\ BlockVote("Notarize", b).type = "Notarize" /\ BlockVote("Notarize", b).slot = b.slot
      /\ \A d : BlockVote("Notarize", d) = BlockVote("Notarize", b) => d = b
      /\ \A d : BlockVote("NotarizeFallback", d) # BlockVote("Notarize", b)
      /\ \A t, s : SlotVote(t, s) # BlockVote("Notarize", b)
  BY DEF BlockVote, SlotVote
<1> QED
  BY <1>2, <1>3, <1>5, <1>6 DEF SoundVotes

\* try_final: a finalize vote for a notarized block that was voted for is sound.
LEMMA FinalizeSound ==
    ASSUME ClusterInv, NEW v \in Correct, NEW b \in Blocks, CanFinal(History(v), b)
    PROVE  SoundVotes(v, {SlotVote("Finalize", b.slot)})
<1>0. ClusterTypeOK
  BY DEF ClusterInv
<1> DEFINE h == History(v)
<1>1. b \in h.notarized_blocks /\ b.slot \notin h.skipped /\ b \in h.voted_notar
  BY DEF CanFinal, BadWindow
<1>2. BlockVote("Notarize", b) \in certificates /\ <<v, BlockVote("Notarize", b)>> \in cast
  BY <1>0, <1>1, HistoryIs
<1>3. b.slot \in Nat \ {0}
  BY <1>0, <1>2, CastIsProper, VoteNames
<1>4. ASSUME NEW w \in ProperVotes, <<v, w>> \in cast, w.slot = b.slot
      PROVE  w.type \in {"Notarize", "Finalize"}
  <2>1. w.type \notin {"Skip", "SkipFallback", "NotarizeFallback"}
    BY <1>0, <1>1, <1>4, HistoryIs
  <2> QED
    BY <2>1, ProperByType DEF BlockVoteTypes, SlotVoteTypes
<1>5. SlotVote("Finalize", b.slot) \in ProperVotes
  BY <1>3 DEF ProperVotes, SlotVoteTypes
<1>6. /\ SlotVote("Finalize", b.slot).type = "Finalize"
      /\ \A s : SlotVote("Finalize", s) = SlotVote("Finalize", b.slot) => s = b.slot
      /\ \A s : SlotVote("SkipFallback", s) # SlotVote("Finalize", b.slot)
      /\ \A t, d : BlockVote(t, d) # SlotVote("Finalize", b.slot)
  BY DEF BlockVote, SlotVote
<1> QED
  BY <1>2, <1>4, <1>5, <1>6 DEF SoundVotes, FirstVoteTypes

\* The slots a window is skipped in have no first vote.
LEMMA SkipsAre ==
    ASSUME ClusterInv, NEW v \in Correct, NEW s \in Nat, NEW w \in SkipVotes(History(v), s)
    PROVE  /\ w \in ProperVotes /\ w = SlotVote("Skip", w.slot)
           /\ w.type = "Skip" /\ Unvoted(v, w.slot)
           /\ <<v, SlotVote("Finalize", w.slot)>> \notin cast
<1>0. ClusterTypeOK /\ FinalizeBacked
  BY DEF ClusterInv
<1> DEFINE h == History(v)
<1>1. PICK t \in SkipSlots(h, 0, s) : w = SlotVote("Skip", t)
  BY DEF SkipVotes
<1>2. t \in Nat \ {0} /\ t \notin h.voted
  <2>1. FirstSlot(s) \in Int
    BY WindowSizeAssumption DEF FirstSlot
  <2> QED
    BY <1>1, <2>1, WindowSizeAssumption DEF SkipSlots, MaxOf, LastSlot
<1>3. w.slot = t /\ w.type = "Skip" /\ w = SlotVote("Skip", w.slot) /\ w \in ProperVotes
  BY <1>1, <1>2, VoteNames DEF ProperVotes, SlotVoteTypes
<1>4. Unvoted(v, t)
  BY <1>0, <1>2, HistoryIs DEF Unvoted
<1>5. <<v, SlotVote("Finalize", t)>> \notin cast
  <2> SUFFICES ASSUME <<v, SlotVote("Finalize", t)>> \in cast PROVE FALSE
    OBVIOUS
  <2>1. PICK b \in Blocks : b.slot = t /\ <<v, BlockVote("Notarize", b)>> \in cast
    BY <1>0, <1>2 DEF FinalizeBacked
  <2>2. BlockVote("Notarize", b) \in ProperVotes
    BY <1>0, <2>1, CastIsProper
  <2> QED
    BY <1>4, <2>1, <2>2, VoteNames DEF Unvoted, FirstVoteTypes
<1> QED
  BY <1>3, <1>4, <1>5

\* Skip votes with at most one fallback vote y are sound if y is.
LEMMA WithSkipsSound ==
    ASSUME ClusterInv, NEW v \in Correct, NEW s \in Nat, NEW F,
           \A y \in F : /\ y \in ProperVotes
                        /\ y.type \in {"SkipFallback", "NotarizeFallback"}
                        /\ <<v, SlotVote("Finalize", y.slot)>> \notin cast,
           \A d \in Blocks : BlockVote("NotarizeFallback", d) \in F =>
               /\ v \in Against(d)
               /\ \E u \in Correct : <<u, BlockVote("Notarize", d)>> \in cast
               /\ ~ Immediate(d) => ParentOf[d] \in CertifiedBlocks
               /\ \A b \in Blocks : b.slot = d.slot /\ b # d => Contested(b),
           \A t \in Nat : SlotVote("SkipFallback", t) \in F =>
               /\ \E b \in Blocks : b.slot = t /\ <<v, BlockVote("Notarize", b)>> \in cast
               /\ \A b \in Blocks : b.slot = t => Contested(b)
    PROVE  SoundVotes(v, SkipVotes(History(v), s) \union F)
<1> DEFINE new == SkipVotes(History(v), s) \union F
<1>1. \A w \in new : w \in ProperVotes /\ (w \in F \/ (w.type = "Skip" /\ w = SlotVote("Skip", w.slot)))
  BY SkipsAre
<1>2. \A w \in new : w.type \in FirstVoteTypes => w = SlotVote("Skip", w.slot) /\ Unvoted(v, w.slot)
  BY SkipsAre DEF FirstVoteTypes
<1>3. \A w \in new : w.type # "Finalize" /\ w.type # "Notarize"
  BY SkipsAre
<1>4. \A w \in new : <<v, SlotVote("Finalize", w.slot)>> \notin cast
  BY SkipsAre
<1>5. /\ \A t : SlotVote("Finalize", t) \notin new
      /\ \A d : BlockVote("Notarize", d) \notin new
      /\ \A d : BlockVote("NotarizeFallback", d) \in new => BlockVote("NotarizeFallback", d) \in F
      /\ \A t : SlotVote("SkipFallback", t) \in new => SlotVote("SkipFallback", t) \in F
  BY <1>1, <1>3, VoteNames
<1> HIDE DEF new
<1>6. SoundVotes(v, new)
  BY <1>1, <1>2, <1>3, <1>4, <1>5 DEF SoundVotes
<1> QED
  BY <1>6 DEF new

\* The validators behind a vote other than b's are against b.
LEMMA VotersAgainst ==
    ASSUME ClusterTypeOK, NEW b, NEW w, w.slot = b.slot, w.type \in FirstVoteTypes,
           w # BlockVote("Notarize", b)
    PROVE  Voters(cast, w) \subseteq Against(b)
<1>1. Voters(cast, w) \in SUBSET Correct /\ \A x : x \in Voters(cast, w) <=> <<x, w>> \in cast
  BY CastVoters
<1> QED
  BY <1>1, CastIsProper DEF Against

\* First votes for different things in a slot have different voters.
LEMMA FirstVotersApart ==
    ASSUME ClusterInv, NEW w, NEW x, w # x, w.slot = x.slot,
           w.type \in FirstVoteTypes, x.type \in FirstVoteTypes
    PROVE  Voters(cast, w) \intersect Voters(cast, x) = {}
<1>0. ClusterTypeOK /\ OneFirstVote
  BY DEF ClusterInv
<1> SUFFICES ASSUME NEW v, v \in Voters(cast, w), v \in Voters(cast, x) PROVE FALSE
  OBVIOUS
<1>1. <<v, w>> \in cast /\ <<v, x>> \in cast
  BY <1>0, CastVoters
<1>2. v \in Correct /\ w \in ProperVotes /\ x \in ProperVotes
  BY <1>0, <1>1, CastIsProper
<1> QED
  BY <1>0, <1>1, <1>2 DEF OneFirstVote

\* What the pool concludes for SafeToNotar, whatever the faulty validators tell it.
LEMMA SafeToNotarSound ==
    ASSUME ClusterInv, NEW v \in Correct, NEW b \in Blocks,
           SafeToNotar(v, History(v), b, Told(BlockVote("Notarize", b)))
    PROVE  ClusterInv'
<1>0. ClusterTypeOK /\ b.slot \in Nat
  BY BlocksAssumption, MaxSlotAssumption DEF ClusterInv, Slots
<1> DEFINE h == History(v)
           N == BlockVote("Notarize", b)
           K == SlotVote("Skip", b.slot)
           V == Told(N)
           y == BlockVote("NotarizeFallback", b)
<1>1. /\ b.slot \in h.voted /\ b.slot \notin h.its_over
      /\ N \notin FirstVotes(h)
      /\ \/ AtLeast(NotarizeStake(V, b), 40)
         \/ /\ AtLeast(NotarizeStake(V, b), 20)
            /\ AtLeast(SkipStake(V, b.slot) + NotarizeStake(V, b), 60)
      /\ ~ Immediate(b) => ParentOf[b] \in CertifiedBlocks
      /\ Cast(v, SkipVotes(h, b.slot) \union {y})
  BY DEF SafeToNotar, IsSafeToNotar
<1>2. /\ N.slot = b.slot /\ N.type = "Notarize" /\ K.slot = b.slot /\ K.type = "Skip" /\ K # N
      /\ y.slot = b.slot /\ y.type = "NotarizeFallback"
  BY DEF BlockVote, SlotVote
<1>3. PICK w \in ProperVotes : <<v, w>> \in cast /\ w.slot = b.slot /\ w.type \in FirstVoteTypes
  BY <1>0, <1>1, HistoryIs
<1>4. v \in Against(b)
  <2>1. w \in FirstVotes(h)
    BY <1>0, <1>3, HistoryIs DEF FirstVotes, FirstVoteTypes
  <2> QED
    BY <2>1, <1>1, <1>3 DEF Against
<1>5. b.slot > 0
  BY <1>0, <1>3, CastIsProper
<1>6. <<v, SlotVote("Finalize", b.slot)>> \notin cast
  BY <1>0, <1>1, HistoryIs
<1>7. /\ NotarizeStake(V, b) = Support(N) + StakeOf[Faulty]
      /\ SkipStake(V, b.slot) = Support(K)
      /\ Support(N) \in Nat /\ Support(K) \in Nat /\ StakeOf[Faulty] \in Nat /\ TotalStake \in Nat
  <2>1. Voters(V, N) = Voters(cast, N) \union Faulty /\ Voters(V, K) = Voters(cast, K)
    BY <1>0, <1>2, ToldVoters
  <2>2. /\ NotarizeStake(V, b) = StakeOf[Voters(cast, N) \union Faulty]
        /\ SkipStake(V, b.slot) = Support(K)
    BY <2>1 DEF NotarizeStake, SkipStake, EntryStake, Support
  <2> QED
    BY <1>0, <2>2, SupportIs, FaultyStake
<1> HIDE DEF V, N, K
<1>8. \E u \in Correct : <<u, N>> \in cast
  <2>1. AtLeast(Support(N) + StakeOf[Faulty], 20)
    BY <1>1, <1>7 DEF AtLeast
  <2>2. Support(N) # 0
    BY <2>1, <1>7, FaultyStake DEF AtLeast
  <2>3. Voters(cast, N) # {}
    BY <2>2, StakeAssumption DEF Support
  <2> QED
    BY <1>0, <2>3, CastVoters
<1>9. ASSUME NEW c \in Blocks, c.slot = b.slot, c # b PROVE Contested(c)
  <2> DEFINE S == Voters(cast, N)
             T == Voters(cast, K)
  <2>1. S \subseteq Against(c) /\ T \subseteq Against(c)
    <3>1. N # BlockVote("Notarize", c) /\ K # BlockVote("Notarize", c)
      BY <1>9, VoteNames DEF N, K
    <3> QED
      BY <3>1, <1>0, <1>2, <1>9, VotersAgainst DEF FirstVoteTypes
  <2>2. S \intersect T = {}
    BY <1>2, FirstVotersApart DEF FirstVoteTypes
  <2> DEFINE A == Against(c) \union Faulty
  <2>3. A \in SUBSET Validators
    BY FaultyStake DEF Against
  <2>4. StakeOf[S \union Faulty] = Support(N) + StakeOf[Faulty] /\ S \in SUBSET Validators
    BY <1>0, SupportIs
  <2>5. StakeOf[S \union T] = Support(N) + Support(K) /\ T \in SUBSET Validators
    BY <1>0, <2>2, SupportIs, StakeDisjoint DEF Support
  <2>6. StakeOf[S \union Faulty] <= StakeOf[A] /\ StakeOf[A] \in Nat
    BY <2>1, <2>3, <2>4, FaultyStake, StakeMonotone
  <2>7. (S \union T) \intersect Faulty = {} /\ S \union T \union Faulty \subseteq A
    BY <1>0, <2>1, SupportIs
  <2>8. StakeOf[S \union T \union Faulty] = Support(N) + Support(K) + StakeOf[Faulty]
    BY <2>4, <2>5, <2>7, FaultyStake, StakeDisjoint
  <2>9. StakeOf[S \union T \union Faulty] <= StakeOf[A]
    BY <2>3, <2>4, <2>5, <2>7, FaultyStake, StakeMonotone
  <2> HIDE DEF S, T, A
  <2>10. AtLeast(StakeOf[A], 40)
    BY <1>1, <1>7, <2>4, <2>6, <2>8, <2>9 DEF AtLeast
  <2> QED
    BY <2>10 DEF Contested, A
<1>10. y \in ProperVotes
  BY <1>5 DEF ProperVotes, BlockVoteTypes
<1>11. /\ \A d : BlockVote("NotarizeFallback", d) \in {y} => d = b
       /\ \A t : SlotVote("SkipFallback", t) \notin {y}
  BY DEF BlockVote, SlotVote
<1>12. SoundVotes(v, SkipVotes(h, b.slot) \union {y})
  <2> HIDE DEF y, h
  <2>1. \A x \in {y} : /\ x \in ProperVotes
                        /\ x.type \in {"SkipFallback", "NotarizeFallback"}
                        /\ <<v, SlotVote("Finalize", x.slot)>> \notin cast
    BY <1>2, <1>6, <1>10
  <2>2. \A d \in Blocks : BlockVote("NotarizeFallback", d) \in {y} =>
               /\ v \in Against(d)
               /\ \E u \in Correct : <<u, BlockVote("Notarize", d)>> \in cast
               /\ ~ Immediate(d) => ParentOf[d] \in CertifiedBlocks
               /\ \A c \in Blocks : c.slot = d.slot /\ c # d => Contested(c)
    BY <1>1, <1>4, <1>8, <1>9, <1>11 DEF N
  <2>3. \A t \in Nat : SlotVote("SkipFallback", t) \in {y} =>
               /\ \E d \in Blocks : d.slot = t /\ <<v, BlockVote("Notarize", d)>> \in cast
               /\ \A d \in Blocks : d.slot = t => Contested(d)
    BY <1>11
  <2> QED
    BY <1>0, <2>1, <2>2, <2>3, WithSkipsSound DEF h
<1> QED
  BY <1>1, <1>12, SoundVotesKeep

\* The top notarized stake is at least that of each block; it exists because
\* stakes are bounded by the total.
LEMMA TopNotarizedIs ==
    ASSUME ClusterTypeOK, NEW lie, NEW s
    PROVE  /\ TopNotarized(Told(lie), s) \in Nat
           /\ \A b \in Blocks : b.slot = s => NotarizeStake(Told(lie), b) <= TopNotarized(Told(lie), s)
<1> DEFINE stakes == {NotarizeStake(Told(lie), b) : b \in {d \in Blocks : d.slot = s}} \union {0}
           T == {n \in Nat : TotalStake - n \in stakes}
<1>1. \A m \in stakes : m \in Nat /\ m <= TotalStake
  <2>1. \A p \in Told(lie) : p[1] \in Validators
    BY FaultyStake DEF Told, ClusterTypeOK
  <2>2. ASSUME NEW b
        PROVE  NotarizeStake(Told(lie), b) \in Nat /\ NotarizeStake(Told(lie), b) <= TotalStake
    <3>1. Voters(Told(lie), BlockVote("Notarize", b)) \in SUBSET Validators
      BY <2>1 DEF Voters
    <3> QED
      BY <3>1, StakeMonotone DEF NotarizeStake, EntryStake, TotalStake
  <2> QED
    BY <2>2, FaultyStake
<1>2. TotalStake \in Nat /\ TotalStake \in T /\ T \subseteq Nat
  BY FaultyStake
<1>3. PICK n \in T : \A m \in T : n <= m
  <2> HIDE DEF T
  <2> QED
    BY <1>2, LeastNat
<1>4. TotalStake - n \in stakes
  BY <1>3
<1>5. \A m \in stakes : m <= TotalStake - n
  <2> SUFFICES ASSUME NEW m \in stakes PROVE m <= TotalStake - n
    OBVIOUS
  <2> HIDE DEF stakes
  <2>1. m \in Nat /\ m <= TotalStake /\ n \in Nat
    BY <1>1, <1>3
  <2>2. TotalStake - m \in T
    BY <2>1, <1>2
  <2>3. n <= TotalStake - m
    BY <2>2, <1>3
  <2> QED
    BY <2>1, <2>3, <1>2
<1>6. TopNotarized(Told(lie), s) \in stakes /\ \A m \in stakes : m <= TopNotarized(Told(lie), s)
  <2>1. TopNotarized(Told(lie), s) = CHOOSE m \in stakes : \A k \in stakes : k <= m
    BY DEF TopNotarized
  <2> HIDE DEF stakes
  <2> QED
    BY <2>1, <1>4, <1>5
<1> QED
  BY <1>1, <1>6

\* What the pool concludes for SafeToSkip.
LEMMA SafeToSkipSound ==
    ASSUME ClusterInv, NEW v \in Correct, NEW s \in Nat \ {0},
           SafeToSkip(v, History(v), s, Told(SlotVote("Skip", s)))
    PROVE  ClusterInv'
<1>0. ClusterTypeOK
  BY DEF ClusterInv
<1> DEFINE h == History(v)
           K == SlotVote("Skip", s)
           V == Told(K)
           y == SlotVote("SkipFallback", s)
           M == {p[1] : p \in {q \in V : q[2].type = "Notarize" /\ q[2].slot = s}}
<1>1. /\ s \notin h.its_over
      /\ \E w \in FirstVotes(h) : w.slot = s /\ w.type = "Notarize"
      /\ AtLeast(SkipStake(V, s) + (NotarizeTotal(V, s) - TopNotarized(V, s)), 40)
      /\ Cast(v, SkipVotes(h, s) \union {y})
  BY DEF SafeToSkip, IsSafeToSkip
<1>2. K.slot = s /\ K.type = "Skip" /\ y.slot = s /\ y.type = "SkipFallback"
  BY DEF SlotVote
<1>3. PICK b \in Blocks : b.slot = s /\ <<v, BlockVote("Notarize", b)>> \in cast
  <2>1. PICK w \in FirstVotes(h) : w.slot = s /\ w.type = "Notarize"
    BY <1>1
  <2>2. <<v, w>> \in cast
    BY <1>0, HistoryIs DEF FirstVotes
  <2>3. w \in ProperVotes
    BY <1>0, <2>2, CastIsProper
  <2>4. PICK b \in Blocks : w = BlockVote("Notarize", b)
    BY <2>1, <2>3, ProperVote DEF SlotVoteTypes
  <2> QED
    BY <2>1, <2>2, <2>4, VoteNames
<1>4. <<v, SlotVote("Finalize", s)>> \notin cast
  BY <1>0, <1>1, HistoryIs
<1>5. /\ M \in SUBSET Correct
      /\ \A u : u \in M <=> \E w \in ProperVotes : <<u, w>> \in cast /\ w.type = "Notarize" /\ w.slot = s
  <2>1. \A q \in cast : q = <<q[1], q[2]>> /\ q[1] \in Correct /\ q[2] \in ProperVotes
    BY <1>0 DEF ClusterTypeOK
  <2>2. \A q \in V : q[2].type = "Notarize" => q \in cast
    BY <1>2 DEF Told
  <2>3. \A q \in cast : q \in V
    BY DEF Told
  <2> HIDE DEF V
  <2> QED
    BY <2>1, <2>2, <2>3
<1>6. /\ SkipStake(V, s) = Support(K) + StakeOf[Faulty]
      /\ NotarizeTotal(V, s) = StakeOf[M]
      /\ Support(K) \in Nat /\ StakeOf[Faulty] \in Nat /\ TotalStake \in Nat
  <2>1. Voters(V, K) = Voters(cast, K) \union Faulty
    BY <1>0, ToldVoters
  <2>2. SkipStake(V, s) = StakeOf[Voters(cast, K) \union Faulty]
    BY <2>1 DEF SkipStake, EntryStake
  <2>3. NotarizeTotal(V, s) = StakeOf[M]
    BY DEF NotarizeTotal
  <2> QED
    BY <1>0, <2>2, <2>3, SupportIs, FaultyStake
<1>7. ASSUME NEW c \in Blocks, c.slot = s PROVE Contested(c)
  <2> DEFINE N == BlockVote("Notarize", c)
             C == Voters(cast, N)
             S == Voters(cast, K)
             D == M \ C
             A == Against(c) \union Faulty
  <2>1. N.slot = s /\ N.type = "Notarize" /\ N # K
    BY <1>2, <1>7, VoteNames
  <2>2. /\ S \in SUBSET Correct /\ \A x : x \in S <=> <<x, K>> \in cast
        /\ C \in SUBSET Correct /\ \A x : x \in C <=> <<x, N>> \in cast
    BY <1>0, CastVoters
  <2>3. NotarizeStake(V, c) = StakeOf[C]
    <3>1. Voters(V, N) = C
      BY <1>0, <2>1, ToldVoters
    <3> QED
      BY <3>1 DEF NotarizeStake, EntryStake
  <2>4. StakeOf[C] <= TopNotarized(V, s) /\ TopNotarized(V, s) \in Nat
    BY <1>0, <1>7, <2>3, TopNotarizedIs
  <2> HIDE DEF V, K, M, N
  <2>5. C \subseteq M
    <3> SUFFICES ASSUME NEW x \in C PROVE x \in M
      OBVIOUS
    <3>1. <<x, N>> \in cast /\ N \in ProperVotes
      BY <1>0, <2>2, CastIsProper
    <3> QED
      BY <3>1, <1>5, <2>1
  <2>6. StakeOf[M] = StakeOf[C] + StakeOf[D] /\ StakeOf[C] \in Nat /\ StakeOf[D] \in Nat
    <3>1. C \in SUBSET Validators /\ D \in SUBSET Validators /\ C \intersect D = {} /\ M = C \union D
      BY <1>5, <2>2, <2>5, FaultyStake
    <3> QED
      BY <3>1, StakeDisjoint
  <2>7. S \subseteq Against(c)
    BY <1>0, <1>2, <1>7, <2>1, VotersAgainst DEF FirstVoteTypes, N
  <2>8. D \subseteq Against(c)
    <3> SUFFICES ASSUME NEW x \in M, x \notin C PROVE x \in Against(c)
      OBVIOUS
    <3>1. PICK w \in ProperVotes : <<x, w>> \in cast /\ w.type = "Notarize" /\ w.slot = s
      BY <1>5
    <3>2. w # N
      BY <3>1, <2>2
    <3> QED
      BY <3>1, <3>2, <1>5, <1>7 DEF Against, FirstVoteTypes, N
  <2>9. S \intersect D = {}
    <3> SUFFICES ASSUME NEW x \in S, x \in M PROVE FALSE
      OBVIOUS
    <3>1. PICK w \in ProperVotes : <<x, w>> \in cast /\ w.type = "Notarize" /\ w.slot = s
      BY <1>5
    <3>2. <<x, K>> \in cast /\ x \in Correct /\ K \in ProperVotes
      BY <1>0, <2>2, CastIsProper
    <3> QED
      BY <3>1, <3>2, <1>2 DEF ClusterInv, OneFirstVote, FirstVoteTypes
  <2> HIDE DEF C, D, S
  <2>10. /\ S \in SUBSET Validators /\ D \in SUBSET Validators /\ S \union D \in SUBSET Validators
         /\ (S \union D) \intersect Faulty = {} /\ S \union D \union Faulty \subseteq A
         /\ A \in SUBSET Validators
    BY <2>2, <2>7, <2>8, FaultyStake DEF Against
  <2>11. StakeOf[S \union D] = StakeOf[S] + StakeOf[D]
    BY <2>9, <2>10, StakeDisjoint
  <2>12. StakeOf[S \union D \union Faulty] = StakeOf[S] + StakeOf[D] + StakeOf[Faulty]
    BY <2>10, <2>11, FaultyStake, StakeDisjoint
  <2>13. StakeOf[S \union D \union Faulty] <= StakeOf[A] /\ StakeOf[A] \in Nat
    BY <2>10, FaultyStake, StakeMonotone
  <2>14. Support(K) = StakeOf[S]
    BY DEF Support, S
  <2> HIDE DEF A
  <2>15. AtLeast(StakeOf[A], 40)
    BY <1>1, <1>6, <2>4, <2>6, <2>12, <2>13, <2>14 DEF AtLeast
  <2> QED
    BY <2>15 DEF Contested, A
<1>8. y \in ProperVotes
  BY DEF ProperVotes, SlotVoteTypes
<1>9. /\ \A d : BlockVote("NotarizeFallback", d) \notin {y}
      /\ \A t : SlotVote("SkipFallback", t) \in {y} => t = s
  BY DEF BlockVote, SlotVote
<1> HIDE DEF y, h, V, K, M
<1>10. SoundVotes(v, SkipVotes(h, s) \union {y})
  <2>1. \A x \in {y} : /\ x \in ProperVotes
                        /\ x.type \in {"SkipFallback", "NotarizeFallback"}
                        /\ <<v, SlotVote("Finalize", x.slot)>> \notin cast
    BY <1>2, <1>4, <1>8
  <2>2. \A t \in Nat : SlotVote("SkipFallback", t) \in {y} =>
               /\ \E d \in Blocks : d.slot = t /\ <<v, BlockVote("Notarize", d)>> \in cast
               /\ \A d \in Blocks : d.slot = t => Contested(d)
    BY <1>3, <1>7, <1>9
  <2> QED
    BY <1>9, <2>1, <2>2, WithSkipsSound DEF h
<1> QED
  BY <1>1, <1>10, SoundVotesKeep

-----------------------------------------------------------------------------
(* The theorems                                                              *)

\* Before any vote the invariant holds.
LEMMA InitClusterInv == Init => ClusterInv
  BY DEF Init, ClusterInv, ClusterTypeOK, OneFirstVote, FinalizeBacked, NotarizeExtends,
         NotarizeFallbackBacked, SkipFallbackBacked, CertificatesSound

\* Every vote of a correct validator, and every certificate that the faulty ones
\* help to complete, preserves the invariant.
LEMMA NextClusterInv == ClusterInv /\ [Next]_clusterVars => ClusterInv'
<1> SUFFICES ASSUME ClusterInv, [Next]_clusterVars PROVE ClusterInv'
  OBVIOUS
<1>0. ClusterTypeOK /\ \A s \in Slots : s \in Nat
  BY MaxSlotAssumption DEF ClusterInv, Slots
<1>1. ASSUME NEW v \in Correct, NEW b \in Blocks, Notarize(v, History(v), b) PROVE ClusterInv'
  BY <1>1, NotarizeSound, SoundVotesKeep DEF Notarize
<1>2. ASSUME NEW v \in Correct, NEW b \in Blocks, Finalize(v, History(v), b) PROVE ClusterInv'
  BY <1>2, FinalizeSound, SoundVotesKeep DEF Finalize
<1>3. ASSUME NEW v \in Correct, NEW b \in Blocks,
             SafeToNotar(v, History(v), b, Told(BlockVote("Notarize", b)))
      PROVE  ClusterInv'
  BY <1>3, SafeToNotarSound
<1>4. ASSUME NEW v \in Correct, NEW s \in Slots \ {0}, Timeout(v, History(v), s) PROVE ClusterInv'
  <2>1. SkipVotes(History(v), s) = SkipVotes(History(v), s) \union {}
    OBVIOUS
  <2>2. SoundVotes(v, SkipVotes(History(v), s) \union {})
    BY <1>0, WithSkipsSound
  <2> QED
    BY <1>4, <2>1, <2>2, SoundVotesKeep DEF Timeout
<1>5. ASSUME NEW v \in Correct, NEW s \in Slots \ {0},
             SafeToSkip(v, History(v), s, Told(SlotVote("Skip", s)))
      PROVE  ClusterInv'
  BY <1>0, <1>5, SafeToSkipSound
<1>6. ASSUME cast' = cast, certificates \subseteq certificates',
             \A c \in certificates' : c \in ProperCertificates /\ Possible(c)
      PROVE  ClusterInv'
  <2>1. \A p \in cast' : p[1] \in Correct
    BY <1>0, <1>6 DEF ClusterTypeOK
  <2>2. /\ \A d : Possible(d) => Possible(d)'
        /\ CertifiedBlocks \subseteq CertifiedBlocks'
        /\ \A s : ReadyParents(s) \subseteq ReadyParents(s)'
        /\ \A b : Against(b) \subseteq Against(b)'
        /\ \A b : Contested(b) => Contested(b)'
    BY <1>0, <1>6, <2>1, GrowthKeeps
  <2>3. ClusterTypeOK'
    BY <1>0, <1>6 DEF ClusterTypeOK
  <2>4. OneFirstVote' /\ FinalizeBacked'
    BY <1>6 DEF ClusterInv, OneFirstVote, FinalizeBacked
  <2>5. NotarizeExtends'
    BY <1>6, <2>2 DEF ClusterInv, NotarizeExtends
  <2>6. NotarizeFallbackBacked'
    BY <1>6, <2>2 DEF ClusterInv, NotarizeFallbackBacked
  <2>7. SkipFallbackBacked'
    BY <1>6, <2>2 DEF ClusterInv, SkipFallbackBacked
  <2>8. CertificatesSound'
    BY <1>6, <2>2 DEF CertificatesSound
  <2> QED
    BY <2>3, <2>4, <2>5, <2>6, <2>7, <2>8 DEF ClusterInv
<1>7. \A c \in certificates : c \in ProperCertificates /\ Possible(c)
  BY <1>0 DEF ClusterInv, ClusterTypeOK, CertificatesSound
<1>8. ASSUME NEW c \in Certificates, Help(c) PROVE ClusterInv'
  <2>1. c \in ProperCertificates
    BY <1>0 DEF Certificates, ProperCertificates, BlockCertTypes
  <2>2. cast' = cast /\ certificates' = certificates \union {c} /\ Possible(c)
    BY <1>8 DEF Help
  <2> QED
    BY <1>6, <1>7, <2>1, <2>2
<1>9. CASE UNCHANGED clusterVars
  BY <1>6, <1>7, <1>9 DEF clusterVars
<1> QED
  BY <1>1, <1>2, <1>3, <1>4, <1>5, <1>8, <1>9 DEF Next, Step

\* The votes of correct validators keep to the rules whatever the faulty ones
\* do, at every moment of every run.
THEOREM ClusterInvariance == Spec => []ClusterInv
  BY InitClusterInv, NextClusterInv, PTL DEF Spec

\* Agreement of Cluster holds for every set of validators, every stake
\* distribution with less than 20% faulty, every block tree and window length.
THEOREM ClusterAgreement == Spec => []Agreement
  BY ClusterInvariance, InvAgreement, PTL

\* No two votes of a correct validator exclude each other, so that every pool
\* accepts all of them: this is why a pool may be taken to have seen any of the
\* votes there are (Told).
NoCorrectEquivocation ==
    \A v \in Correct, w, x \in ProperVotes :
        <<v, w>> \in cast /\ <<v, x>> \in cast => ~ Equivocation(w, x)

\* The invariant excludes two votes of a correct validator that exclude each other.
LEMMA InvNoEquivocation == ClusterInv => NoCorrectEquivocation
<1> SUFFICES ASSUME ClusterInv, NEW v \in Correct, NEW w \in ProperVotes, NEW x \in ProperVotes,
                    <<v, w>> \in cast, <<v, x>> \in cast, Equivocation(w, x)
             PROVE  FALSE
  BY DEF NoCorrectEquivocation
<1>0. ClusterTypeOK /\ OneFirstVote /\ FinalizeBacked
  BY DEF ClusterInv
<1>1. w.slot = x.slot /\ w.slot \in Nat
  BY ProperVote DEF Equivocation, Conflicting
<1>2. w.type \notin FirstVoteTypes \/ x.type \notin FirstVoteTypes
  <2> SUFFICES ASSUME w.type \in FirstVoteTypes, x.type \in FirstVoteTypes PROVE FALSE
    OBVIOUS
  <2>1. w = x
    BY <1>0, <1>1 DEF OneFirstVote
  <2> QED
    BY <2>1 DEF Equivocation, Conflicting, ConflictingTypes, FirstVoteTypes
<1>3. Conflicting(w, x) /\ x.type \in ConflictingTypes(w.type)
  BY <1>2 DEF Equivocation, Conflicting, FirstVoteTypes
<1>4. w.type # "Finalize" /\ x.type # "Finalize"
  <2>1. ASSUME NEW y \in ProperVotes, NEW z \in ProperVotes, <<v, y>> \in cast, <<v, z>> \in cast,
               y.slot = z.slot, y.type = "Finalize"
        PROVE  z.type \in {"Notarize", "Finalize"}
    <3>1. y = SlotVote("Finalize", y.slot) /\ y.slot \in Nat
      BY <2>1, ProperByType, ProperVote DEF SlotVoteTypes
    <3> QED
      BY <2>1, <3>1, <1>0 DEF FinalizeBacked
  <2>2. ASSUME w.type = "Finalize" PROVE FALSE
    BY <1>1, <1>3, <2>1, <2>2 DEF ConflictingTypes
  <2>3. ASSUME x.type = "Finalize" PROVE FALSE
    <3>1. w.type \in {"Notarize", "Finalize"}
      BY <1>1, <2>1, <2>3
    <3> QED
      BY <1>3, <2>3, <3>1 DEF ConflictingTypes
  <2> QED
    BY <2>2, <2>3
<1>5. \/ {w.type, x.type} = {"Notarize", "NotarizeFallback"}
      \/ {w.type, x.type} = {"Skip", "SkipFallback"}
  BY <1>2, <1>3, <1>4, ProperByType DEF ConflictingTypes, FirstVoteTypes, BlockVoteTypes, SlotVoteTypes
<1>6. CASE {w.type, x.type} = {"Notarize", "NotarizeFallback"}
  <2>1. PICK b \in Blocks : w = BlockVote(w.type, b)
    BY <1>6, ProperVote DEF SlotVoteTypes
  <2>2. PICK d \in Blocks : x = BlockVote(x.type, d)
    BY <1>6, ProperVote DEF SlotVoteTypes
  <2>3. w.block = {b} /\ x.block = {d}
    BY <2>1, <2>2, VoteNames
  <2>4. b = d
    BY <1>3, <2>3 DEF Conflicting
  <2>5. <<v, BlockVote("Notarize", b)>> \in cast /\ <<v, BlockVote("NotarizeFallback", b)>> \in cast
    BY <1>6, <2>1, <2>2, <2>4
  <2> QED
    BY <1>0, <2>5, CountedApart, CastVoters
<1>7. CASE {w.type, x.type} = {"Skip", "SkipFallback"}
  <2>1. w = SlotVote(w.type, w.slot) /\ x = SlotVote(x.type, x.slot)
    BY <1>7, ProperByType DEF SlotVoteTypes
  <2>2. <<v, SlotVote("Skip", w.slot)>> \in cast /\ <<v, SlotVote("SkipFallback", w.slot)>> \in cast
    BY <1>1, <1>7, <2>1
  <2> QED
    BY <1>0, <1>1, <2>2, CountedApart, CastVoters
<1> QED
  BY <1>5, <1>6, <1>7

\* The event handlers of correct validators never cast two votes that exclude
\* each other, for any number of validators and blocks.
THEOREM CorrectNeverEquivocate == Spec => []NoCorrectEquivocation
  BY ClusterInvariance, InvNoEquivocation, PTL
=============================================================================
