------------------------- MODULE ConsensusPoolProofs -------------------------
(***************************************************************************)
(* What the consensus pool concludes is right for every set of validators, *)
(* every distribution of stake, all blocks and any order of votes,         *)
(* certificates, roots and passes of the service.                          *)
(***************************************************************************)
EXTENDS ConsensusPool, FiniteSetTheorems, WellFoundedInduction, TLAPS

(***************************************************************************)
(* The inductive invariant                                                 *)
(***************************************************************************)
EventKinds == {"SafeToNotar", "SafeToSkip", "BlockNotarized", "Finalized", "ParentReady",
               "ProduceWindow"}
Events == [kind : EventKinds, slot : Slots, block : SUBSET Blocks]

Finalizations == {BlockVote(t, b) : t \in {"Finalize", "FinalizeFast"}, b \in Blocks}

PoolTypeOK ==
    /\ votes \subseteq Validators \X Votes /\ IsFiniteSet(votes)
    /\ completed_certificates \subseteq Certificates
    /\ my_first_vote \subseteq Votes
    /\ safe_to_notar_sent \subseteq Blocks /\ safe_to_skip_sent \subseteq Slots
    /\ pending_safe_to_notar \subseteq Blocks /\ waiting \subseteq Blocks
    /\ certified_blocks \subseteq Blocks /\ certified_skips \subseteq Slots
    /\ highest_finalized \in {NoCertificate} \union Finalizations
    /\ last_pruned_slot \in Slots /\ bank_root \in Slots /\ highest_parent_ready \in Slots
    /\ events \subseteq Events /\ sent \subseteq Events
    /\ \A e \in events : e.kind # "ProduceWindow"
    /\ received \subseteq Blocks

\* The pool has pruned no further than the root, and kept all above.
PruneBounds ==
    /\ last_pruned_slot <= bank_root
    /\ \A p \in votes : p[2].slot >= last_pruned_slot
    /\ \A c \in completed_certificates : c.slot >= last_pruned_slot
    /\ \A b \in safe_to_notar_sent : b.slot >= last_pruned_slot
    /\ \A s \in safe_to_skip_sent : s >= last_pruned_slot

\* No validator has two votes in the pools that exclude each other.
Apart(V) ==
    \A v \in Validators, w, x \in Votes :
        <<v, w>> \in V /\ <<v, x>> \in V => ~ Equivocation(w, x)

\* The votes on which a block was found safe to notarize, and a slot safe to skip.
NotarReason(V, b) ==
    \/ AtLeast(NotarizeStake(V, b), 40)
    \/ /\ AtLeast(NotarizeStake(V, b), 20)
       /\ AtLeast(SkipStake(V, b.slot) + NotarizeStake(V, b), 60)

SkipReason(V, s) ==
    \A b \in Blocks : b.slot = s =>
        AtLeast(SkipStake(V, s) + (NotarizeTotal(V, s) - NotarizeStake(V, b)), 40)

SafeForReason ==
    /\ \A b \in safe_to_notar_sent : NotarReason(votes, b)
    /\ \A s \in safe_to_skip_sent : SkipReason(votes, s)

\* SafeToNotarBacked, for the events that are still to be sent too.
RaisedBacked ==
    \A e \in Raised : e.kind = "SafeToNotar" =>
        \A b \in e.block : Immediate(b) \/ ParentOf[b] \in certified_blocks

\* Only blocks inside a window wait for their parent.
WaitInside == \A b \in pending_safe_to_notar \union waiting : ~ Immediate(b)

HasReady(s) == Ready(certified_blocks, certified_skips, s) # {}
Made == {e \in sent : e.kind = "ProduceWindow"}

\* What the service knows of the windows: highest_parent_ready is a ready slot that
\* no ParentReady it has seen exceeds, and it was produced if this node leads it
\* and it was not too late.
WindowsInv ==
    /\ \A e \in Raised : e.kind = "ParentReady" => HasReady(e.slot)
    /\ \A e \in sent : e.kind = "ParentReady" => e.slot <= highest_parent_ready
    /\ highest_parent_ready # 0 => HasReady(highest_parent_ready)
    /\ highest_parent_ready \in LeaderSlots /\ highest_parent_ready # 0 =>
          \/ \E f \in Made : f.slot = highest_parent_ready
          \/ \E t \in Slots : t > highest_parent_ready /\ HasReady(t)
    /\ \A e \in Made : /\ e.slot <= highest_parent_ready
                       /\ e.block \subseteq Ready(certified_blocks, certified_skips, e.slot)
    /\ \A e, f \in Made : e.slot = f.slot => e = f

PoolInv ==
    /\ PoolTypeOK
    /\ PruneBounds
    /\ Apart(votes)
    /\ CertificatesExact
    /\ SafeEventsComplete
    /\ SafeForReason
    /\ FinalizationExact
    /\ NoSafeBlockLost
    /\ RaisedBacked
    /\ WaitInside
    /\ WindowsInv

-----------------------------------------------------------------------------
(* Slots and stake                                                           *)

\* A non-empty set of naturals has a least element.
LEMMA LeastNat ==
    ASSUME NEW X \in SUBSET Nat, X # {}
    PROVE  \E m \in X : \A n \in X : m <= n
<1>1. PICK m \in X : \A n \in X : ~ (<<n, m>> \in OpToRel(<, Nat))
  BY WFMin, NatLessThanWellFounded
<1>2. ASSUME NEW n \in X, ~ (m <= n) PROVE FALSE
  <2>1. n \in Nat /\ m \in Nat /\ n < m
    BY <1>2
  <2>2. <<n, m>> \in OpToRel(<, Nat)
    BY <2>1, Zenon DEF OpToRel
  <2> QED
    BY <1>1, <2>2
<1> QED
  BY <1>2

\* One below a bound has a greatest element.
LEMMA GreatestBelow ==
    ASSUME NEW bound \in Nat, NEW X \in SUBSET (0..bound), X # {}
    PROVE  \E m \in X : \A n \in X : n <= m
<1> DEFINE D == {n \in Nat : bound - n \in X}
<1>1. D \in SUBSET Nat /\ D # {}
  <2>1. PICK n \in X : n \in 0..bound
    OBVIOUS
  <2>2. bound - n \in D
    BY <2>1
  <2> QED
    BY <2>2
<1>2. PICK d \in D : \A e \in D : d <= e
  <2> HIDE DEF D
  <2> QED
    BY <1>1, LeastNat
<1>3. ASSUME NEW n \in X PROVE n <= bound - d
  <2>1. bound - n \in D
    BY <1>3
  <2> QED
    BY <1>2, <2>1
<1> QED
  BY <1>2, <1>3

\* More validators have no less stake.
LEMMA StakeMonotone ==
    ASSUME NEW S \in SUBSET Validators, NEW T \in SUBSET Validators, S \subseteq T
    PROVE  StakeOf[S] \in Nat /\ StakeOf[T] \in Nat /\ StakeOf[S] <= StakeOf[T]
<1>1. T = S \union (T \ S) /\ S \intersect (T \ S) = {} /\ T \ S \in SUBSET Validators
  OBVIOUS
<1>2. StakeOf[T] = StakeOf[S] + StakeOf[T \ S]
  BY <1>1, StakeAssumption
<1>3. StakeOf[S] \in Nat /\ StakeOf[T] \in Nat /\ StakeOf[T \ S] \in Nat
  BY <1>1, StakeAssumption
<1> QED
  BY <1>2, <1>3

\* The stakes of disjoint sets add up, and to no more than everything.
LEMMA StakeDisjoint ==
    ASSUME NEW S \in SUBSET Validators, NEW T \in SUBSET Validators, S \intersect T = {}
    PROVE  /\ StakeOf[S \union T] = StakeOf[S] + StakeOf[T]
           /\ StakeOf[S] \in Nat /\ StakeOf[T] \in Nat
           /\ StakeOf[S] + StakeOf[T] <= TotalStake
<1>1. StakeOf[S \union T] = StakeOf[S] + StakeOf[T]
  BY StakeAssumption
<1>2. StakeOf[S \union T] <= StakeOf[Validators]
  BY StakeMonotone
<1> QED
  BY <1>1, <1>2, StakeAssumption DEF TotalStake

\* There is stake: nothing of nothing reaches a threshold.
LEMMA StakePositive == TotalStake \in Nat /\ TotalStake > 0
<1>1. {Me} \in SUBSET Validators /\ Validators \in SUBSET Validators /\ {Me} \subseteq Validators
  BY MeAssumption
<1>2. StakeOf[{Me}] <= StakeOf[Validators] /\ StakeOf[Validators] \in Nat /\ StakeOf[{Me}] \in Nat
  BY <1>1, StakeMonotone
<1>3. StakeOf[{Me}] > 0
  BY MeAssumption, StakeAssumption
<1> QED
  BY <1>2, <1>3 DEF TotalStake

\* More stake reaches every threshold that less stake reaches.
LEMMA AtLeastMonotone ==
    ASSUME NEW m \in Int, NEW n \in Int, m <= n, NEW percent \in Nat, AtLeast(m, percent)
    PROVE  AtLeast(n, percent)
  BY StakePositive DEF AtLeast

-----------------------------------------------------------------------------
(* Votes, certificates and who voted                                         *)

\* The parts of a vote and of an event.
LEMMA Names ==
    /\ \A t, b : BlockVote(t, b).type = t /\ BlockVote(t, b).slot = b.slot /\ BlockVote(t, b).block = {b}
    /\ \A t, s : SlotVote(t, s).type = t /\ SlotVote(t, s).slot = s /\ SlotVote(t, s).block = {}
    /\ \A t, u, b, d : BlockVote(t, b) = BlockVote(u, d) => t = u /\ b = d
    /\ \A k, s, x : Event(k, s, x).kind = k /\ Event(k, s, x).slot = s /\ Event(k, s, x).block = x
  BY DEF BlockVote, SlotVote, Event

\* Slots and blocks are what they should be; slot and id identify a block.
LEMMA BlockFacts ==
    /\ \A b \in Blocks : b.slot \in Slots /\ b.slot \in Nat /\ b.id \in Nat
    /\ \A b, d \in Blocks : b.slot = d.slot /\ b.id = d.id => b = d
    /\ Slots \subseteq Nat /\ 0 \in Slots /\ 1 \in Slots
    /\ Genesis \in Blocks /\ Genesis.slot = 0
<1>1. Genesis \in Blocks /\ Genesis.slot = 0
  BY PoolAssumption DEF Genesis
<1>2. Slots \subseteq Nat /\ 0 \in Slots /\ 1 \in Slots
  BY MaxSlotAssumption DEF Slots
<1>3. \A b \in Blocks : b.slot \in Slots /\ b.slot \in Nat /\ b.id \in Nat
  BY <1>2, PoolAssumption
<1>4. \A b, d \in Blocks : b.slot = d.slot /\ b.id = d.id => b = d
  <2> SUFFICES ASSUME NEW b \in Blocks, NEW d \in Blocks, b.slot = d.slot, b.id = d.id
               PROVE  b = d
    OBVIOUS
  <2>1. b \in [slot : Slots, id : Nat] /\ d \in [slot : Slots, id : Nat]
    BY PoolAssumption
  <2> QED
    BY <2>1
<1> QED
  BY <1>1, <1>2, <1>3, <1>4

\* A vote is a vote for a block or for a slot.
LEMMA VoteIs ==
    ASSUME NEW w \in Votes
    PROVE  /\ \/ \E b \in Blocks : w.type \in BlockVoteTypes /\ w = BlockVote(w.type, b)
              \/ \E s \in Slots : w.type \in SlotVoteTypes /\ w = SlotVote(w.type, s)
           /\ w.slot \in Slots
<1>1. ASSUME NEW t \in BlockVoteTypes, NEW b \in Blocks, w = BlockVote(t, b)
      PROVE  w.type \in BlockVoteTypes /\ w = BlockVote(w.type, b) /\ w.slot \in Slots
  BY <1>1, BlockFacts, Names
<1>2. ASSUME NEW t \in SlotVoteTypes, NEW s \in Slots, w = SlotVote(t, s)
      PROVE  w.type \in SlotVoteTypes /\ w = SlotVote(w.type, s) /\ w.slot \in Slots
  BY <1>2, Names
<1> QED
  BY <1>1, <1>2 DEF Votes

\* The same for a certificate.
LEMMA CertificateIs ==
    ASSUME NEW c \in Certificates
    PROVE  /\ \/ \E b \in Blocks : /\ c.type \in {"Notarize", "NotarizeFallback", "FinalizeFast"}
                                   /\ c = BlockVote(c.type, b)
              \/ \E s \in Slots : c.type \in {"Finalize", "Skip"} /\ c = SlotVote(c.type, s)
           /\ c.slot \in Slots /\ c.block \subseteq Blocks
<1>1. ASSUME NEW t \in {"Notarize", "NotarizeFallback", "FinalizeFast"}, NEW b \in Blocks,
             c = BlockVote(t, b)
      PROVE  /\ c.type \in {"Notarize", "NotarizeFallback", "FinalizeFast"}
             /\ c = BlockVote(c.type, b) /\ c.slot \in Slots /\ c.block \subseteq Blocks
  BY <1>1, BlockFacts, Names
<1>2. ASSUME NEW t \in {"Finalize", "Skip"}, NEW s \in Slots, c = SlotVote(t, s)
      PROVE  /\ c.type \in {"Finalize", "Skip"} /\ c = SlotVote(c.type, s)
             /\ c.slot \in Slots /\ c.block \subseteq Blocks
  BY <1>2, Names
<1> QED
  BY <1>1, <1>2 DEF Certificates

\* The voters of a vote.
LEMMA VotersAre ==
    ASSUME NEW V \in SUBSET (Validators \X Votes), NEW w
    PROVE  /\ \A x : x \in Voters(V, w) <=> <<x, w>> \in V
           /\ Voters(V, w) \in SUBSET Validators
           /\ EntryStake(V, w) \in Nat
<1>1. \A p \in V : p = <<p[1], p[2]>> /\ p[1] \in Validators
  OBVIOUS
<1>2. \A x : x \in Voters(V, w) <=> <<x, w>> \in V
  BY <1>1 DEF Voters
<1>3. Voters(V, w) \in SUBSET Validators
  BY <1>1 DEF Voters
<1> QED
  BY <1>2, <1>3, StakeAssumption DEF EntryStake

\* The validators that notarized some block of slot s.
Notarizers(V, s) == {p[1] : p \in {q \in V : q[2].type = "Notarize" /\ q[2].slot = s}}

\* The validators that notarized in a slot, block by block.
LEMMA NotarizersAre ==
    ASSUME NEW V \in SUBSET (Validators \X Votes), NEW s
    PROVE  /\ \A x : x \in Notarizers(V, s) <=>
                        \E b \in Blocks : b.slot = s /\ <<x, BlockVote("Notarize", b)>> \in V
           /\ Notarizers(V, s) \in SUBSET Validators
           /\ NotarizeTotal(V, s) = StakeOf[Notarizers(V, s)] /\ NotarizeTotal(V, s) \in Nat
<1>1. \A p \in V : p = <<p[1], p[2]>> /\ p[1] \in Validators /\ p[2] \in Votes
  OBVIOUS
<1>2. ASSUME NEW x, x \in Notarizers(V, s)
      PROVE  \E b \in Blocks : b.slot = s /\ <<x, BlockVote("Notarize", b)>> \in V
  <2>1. PICK p \in V : x = p[1] /\ p[2].type = "Notarize" /\ p[2].slot = s
    BY <1>2 DEF Notarizers
  <2>2. PICK b \in Blocks : p[2] = BlockVote("Notarize", b)
    BY <1>1, <2>1, VoteIs DEF SlotVoteTypes
  <2>3. b.slot = s
    BY <2>1, <2>2, Names
  <2> QED
    BY <1>1, <2>1, <2>2, <2>3
<1>3. ASSUME NEW x, NEW b \in Blocks, b.slot = s, <<x, BlockVote("Notarize", b)>> \in V
      PROVE  x \in Notarizers(V, s)
  BY <1>3, Names DEF Notarizers
<1>4. Notarizers(V, s) \in SUBSET Validators
  BY <1>1 DEF Notarizers
<1>5. NotarizeTotal(V, s) = StakeOf[Notarizers(V, s)]
  BY DEF NotarizeTotal, Notarizers
<1> QED
  BY <1>2, <1>3, <1>4, <1>5, StakeAssumption

\* The votes that pruning below `keep` leaves.
Pruned(V, keep) == {p \in V : p[2].slot >= keep}

\* Pruning below a slot takes no vote of that slot or a later one.
LEMMA PrunedVoters ==
    ASSUME NEW V \in SUBSET (Validators \X Votes), NEW keep \in Nat
    PROVE  /\ Pruned(V, keep) \in SUBSET (Validators \X Votes)
           /\ \A w : w.slot >= keep => Voters(Pruned(V, keep), w) = Voters(V, w)
           /\ \A w : ~ (w.slot >= keep) => Voters(Pruned(V, keep), w) = {}
           /\ \A s : s >= keep => Notarizers(Pruned(V, keep), s) = Notarizers(V, s)
  BY DEF Pruned, Voters, Notarizers

\* The votes that count for a certificate: one, or two that exclude each other.
LEMMA CountedAre ==
    ASSUME NEW c \in Certificates
    PROVE  /\ CountedVotes(c) \subseteq Votes
           /\ \A w \in CountedVotes(c) : w.slot = c.slot
           /\ \/ \E w : CountedVotes(c) = {w}
              \/ \E w, x : CountedVotes(c) = {w, x} /\ w # x /\ Conflicting(w, x)
           /\ Limit(c) \in {60, 80}
<1>1. ASSUME NEW b \in Blocks, NEW t \in {"Notarize", "FinalizeFast"}, c = BlockVote(t, b)
      PROVE  CountedVotes(c) = {BlockVote("Notarize", b)} /\ BlockVote("Notarize", b) \in Votes
  <2>1. BlockVote("Notarize", b) \in Votes
    BY DEF Votes, BlockVoteTypes
  <2>2. CountedVotes(c) = {BlockVote("Notarize", b)}
    BY <1>1 DEF CountedVotes, BlockVote
  <2> QED
    BY <2>1, <2>2
<1>2. ASSUME NEW b \in Blocks, c = BlockVote("NotarizeFallback", b)
      PROVE  /\ CountedVotes(c) = {BlockVote("Notarize", b), BlockVote("NotarizeFallback", b)}
             /\ BlockVote("Notarize", b) \in Votes /\ BlockVote("NotarizeFallback", b) \in Votes
             /\ BlockVote("Notarize", b) # BlockVote("NotarizeFallback", b)
             /\ Conflicting(BlockVote("Notarize", b), BlockVote("NotarizeFallback", b))
  <2>1. CountedVotes(c) = {BlockVote("Notarize", b), BlockVote("NotarizeFallback", b)}
    BY <1>2 DEF CountedVotes, BlockVote, BlockVoteTypes
  <2>2. BlockVote("Notarize", b) \in Votes /\ BlockVote("NotarizeFallback", b) \in Votes
    BY DEF Votes, BlockVoteTypes
  <2> QED
    BY <2>1, <2>2 DEF BlockVote, Conflicting, ConflictingTypes
<1>3. ASSUME NEW s \in Slots, c = SlotVote("Finalize", s)
      PROVE  CountedVotes(c) = {SlotVote("Finalize", s)} /\ SlotVote("Finalize", s) \in Votes
  <2>1. SlotVote("Finalize", s) \in Votes
    BY DEF Votes, SlotVoteTypes
  <2>2. CountedVotes(c) = {SlotVote("Finalize", s)}
    BY <1>3 DEF CountedVotes, SlotVote
  <2> QED
    BY <2>1, <2>2
<1>4. ASSUME NEW s \in Slots, c = SlotVote("Skip", s)
      PROVE  /\ CountedVotes(c) = {SlotVote("Skip", s), SlotVote("SkipFallback", s)}
             /\ SlotVote("Skip", s) \in Votes /\ SlotVote("SkipFallback", s) \in Votes
             /\ SlotVote("Skip", s) # SlotVote("SkipFallback", s)
             /\ Conflicting(SlotVote("Skip", s), SlotVote("SkipFallback", s))
  <2>1. CountedVotes(c) = {SlotVote("Skip", s), SlotVote("SkipFallback", s)}
    BY <1>4 DEF CountedVotes, SlotVote
  <2>2. SlotVote("Skip", s) \in Votes /\ SlotVote("SkipFallback", s) \in Votes
    BY DEF Votes, SlotVoteTypes
  <2> QED
    BY <2>1, <2>2 DEF SlotVote, Conflicting, ConflictingTypes
<1>5. Limit(c) \in {60, 80}
  BY DEF Limit
<1>6. CASE \E b \in Blocks : /\ c.type \in {"Notarize", "NotarizeFallback", "FinalizeFast"}
                             /\ c = BlockVote(c.type, b)
  <2> PICK b \in Blocks : /\ c.type \in {"Notarize", "NotarizeFallback", "FinalizeFast"}
                          /\ c = BlockVote(c.type, b)
    BY <1>6
  <2>1. CASE c.type = "NotarizeFallback"
    BY <2>1, <1>2, <1>5, Names
  <2>2. CASE c.type # "NotarizeFallback"
    <3>1. CountedVotes(c) = {BlockVote("Notarize", b)} /\ BlockVote("Notarize", b) \in Votes
      BY <2>2, <1>1
    <3>2. BlockVote("Notarize", b).slot = c.slot
      BY Names
    <3> QED
      BY <3>1, <3>2, <1>5
  <2> QED
    BY <2>1, <2>2
<1>7. CASE \E s \in Slots : c.type \in {"Finalize", "Skip"} /\ c = SlotVote(c.type, s)
  <2> PICK s \in Slots : c.type \in {"Finalize", "Skip"} /\ c = SlotVote(c.type, s)
    BY <1>7
  <2>1. CASE c.type = "Skip"
    BY <2>1, <1>4, <1>5, Names
  <2>2. CASE c.type = "Finalize"
    <3>1. CountedVotes(c) = {SlotVote("Finalize", s)} /\ SlotVote("Finalize", s) \in Votes
      BY <2>2, <1>3
    <3>2. SlotVote("Finalize", s).slot = c.slot
      BY Names
    <3> QED
      BY <3>1, <3>2, <1>5
  <2> QED
    BY <2>1, <2>2
<1> QED
  BY <1>6, <1>7, CertificateIs

\* Who supports a certificate.
Backers(V, c) == UNION {Voters(V, v) : v \in CountedVotes(c)}

\* The sum that update_certificates forms is the stake of the supporters: no
\* validator is counted twice.
LEMMA AccumulatedIs ==
    ASSUME NEW V \in SUBSET (Validators \X Votes), Apart(V), NEW c \in Certificates
    PROVE  /\ Backers(V, c) \in SUBSET Validators
           /\ Accumulated(V, c) = StakeOf[Backers(V, c)]
<1> DEFINE first  == CHOOSE v \in CountedVotes(c) : TRUE
           second == CHOOSE v \in CountedVotes(c) : v # first
<1>1. Backers(V, c) \in SUBSET Validators
  BY VotersAre DEF Backers
<1>2. CASE \E w : CountedVotes(c) = {w}
  <2> PICK w : CountedVotes(c) = {w}
    BY <1>2
  <2>1. first = w
    OBVIOUS
  <2>2. Accumulated(V, c) = EntryStake(V, w) + 0
    BY <2>1 DEF Accumulated
  <2>3. Backers(V, c) = Voters(V, w)
    BY DEF Backers
  <2>4. EntryStake(V, w) \in Nat
    BY VotersAre
  <2>5. Accumulated(V, c) = EntryStake(V, w)
    BY <2>2, <2>4
  <2> QED
    BY <1>1, <2>3, <2>5 DEF EntryStake
<1>3. CASE \E w, x : CountedVotes(c) = {w, x} /\ w # x /\ Conflicting(w, x)
  <2> PICK w, x : CountedVotes(c) = {w, x} /\ w # x /\ Conflicting(w, x)
    BY <1>3
  <2>1. first \in {w, x}
    OBVIOUS
  <2>2. second \in {w, x} /\ second # first
    BY <2>1
  <2>3. CountedVotes(c) # {first}
    BY <2>1
  <2>4. Accumulated(V, c) = EntryStake(V, first) + EntryStake(V, second)
    BY <2>3 DEF Accumulated
  <2> HIDE DEF first, second
  <2>5. EntryStake(V, w) \in Nat /\ EntryStake(V, x) \in Nat
    BY VotersAre
  <2>6. Accumulated(V, c) = EntryStake(V, w) + EntryStake(V, x)
    BY <2>1, <2>2, <2>4, <2>5
  <2>7. Voters(V, w) \in SUBSET Validators /\ Voters(V, x) \in SUBSET Validators
    BY VotersAre
  <2>8. Voters(V, w) \intersect Voters(V, x) = {}
    <3> SUFFICES ASSUME NEW v, v \in Voters(V, w), v \in Voters(V, x) PROVE FALSE
      OBVIOUS
    <3>1. <<v, w>> \in V /\ <<v, x>> \in V /\ v \in Validators /\ w \in Votes /\ x \in Votes
      BY VotersAre, CountedAre, <2>7
    <3> QED
      BY <3>1 DEF Apart, Equivocation
  <2>9. Backers(V, c) = Voters(V, w) \union Voters(V, x)
    BY DEF Backers
  <2> QED
    BY <1>1, <2>6, <2>7, <2>8, <2>9, StakeDisjoint DEF EntryStake
<1> QED
  BY <1>2, <1>3, CountedAre

\* Votes that agree on what counts for a certificate complete it alike.
LEMMA CompleteSame ==
    ASSUME NEW V \in SUBSET (Validators \X Votes), Apart(V),
           NEW W \in SUBSET (Validators \X Votes), Apart(W), NEW c \in Certificates,
           \A w \in CountedVotes(c) : Voters(V, w) = Voters(W, w)
    PROVE  Complete(V, c) <=> Complete(W, c)
<1>1. Backers(V, c) = Backers(W, c)
  BY DEF Backers
<1> QED
  BY <1>1, AccumulatedIs DEF Complete

\* No certificate is complete without votes.
LEMMA CompleteHasVotes ==
    ASSUME NEW V \in SUBSET (Validators \X Votes), Apart(V), NEW c \in Certificates,
           \A w \in CountedVotes(c) : Voters(V, w) = {}
    PROVE  ~ Complete(V, c)
<1>1. Backers(V, c) = {}
  BY DEF Backers
<1>2. Accumulated(V, c) = 0
  BY <1>1, AccumulatedIs, StakeAssumption
<1> QED
  BY <1>2, CountedAre, StakePositive DEF Complete, AtLeast

\* vote_to_cert_types and limits_and_vote_types are in sync.
LEMMA CountedInSync ==
    ASSUME NEW vote \in Votes, NEW c \in Certificates, vote \in CountedVotes(c)
    PROVE  c \in VoteToCertTypes(vote)
<1>1. CASE \E b \in Blocks : /\ c.type \in {"Notarize", "NotarizeFallback", "FinalizeFast"}
                             /\ c = BlockVote(c.type, b)
  <2> PICK b \in Blocks : /\ c.type \in {"Notarize", "NotarizeFallback", "FinalizeFast"}
                          /\ c = BlockVote(c.type, b)
    BY <1>1
  <2>1. vote \in {BlockVote("Notarize", b), BlockVote("NotarizeFallback", b)}
    BY DEF CountedVotes, BlockVote, BlockVoteTypes
  <2>2. CASE vote = BlockVote("Notarize", b)
    BY <2>2 DEF VoteToCertTypes, BlockVote
  <2>3. CASE vote = BlockVote("NotarizeFallback", b)
    <3>1. c.type = "NotarizeFallback"
      BY <2>3 DEF CountedVotes, BlockVote, BlockVoteTypes
    <3> QED
      BY <2>3, <3>1 DEF VoteToCertTypes, BlockVote
  <2> QED
    BY <2>1, <2>2, <2>3
<1>2. CASE \E s \in Slots : c.type \in {"Finalize", "Skip"} /\ c = SlotVote(c.type, s)
  <2> PICK s \in Slots : c.type \in {"Finalize", "Skip"} /\ c = SlotVote(c.type, s)
    BY <1>2
  <2>1. CASE c.type = "Finalize"
    <3>1. vote = SlotVote("Finalize", s)
      BY <2>1 DEF CountedVotes, SlotVote
    <3> QED
      BY <2>1, <3>1 DEF VoteToCertTypes, SlotVote
  <2>2. CASE c.type = "Skip"
    <3>1. vote \in {SlotVote("Skip", s), SlotVote("SkipFallback", s)}
      BY <2>2 DEF CountedVotes, SlotVote
    <3> QED
      BY <2>2, <3>1 DEF VoteToCertTypes, SlotVote
  <2> QED
    BY <2>1, <2>2
<1> QED
  BY <1>1, <1>2, CertificateIs

\* The certificates of a vote are certificates of its slot.
LEMMA VoteCertificates ==
    ASSUME NEW vote \in Votes
    PROVE  VoteToCertTypes(vote) \subseteq Certificates
           /\ \A c \in VoteToCertTypes(vote) : c.slot = vote.slot
<1>1. CASE \E b \in Blocks : vote.type \in BlockVoteTypes /\ vote = BlockVote(vote.type, b)
  BY <1>1 DEF VoteToCertTypes, BlockVote, BlockVoteTypes, Certificates
<1>2. CASE \E s \in Slots : vote.type \in SlotVoteTypes /\ vote = SlotVote(vote.type, s)
  BY <1>2 DEF VoteToCertTypes, SlotVote, SlotVoteTypes, Certificates
<1> QED
  BY <1>1, <1>2, VoteIs

-----------------------------------------------------------------------------
(* The reasons of the safe-to events                                         *)

\* The validators that notarized another block of b's slot.
Elsewhere(V, b) == Notarizers(V, b.slot) \ Voters(V, BlockVote("Notarize", b))

\* The stakes of slot_stake_counters, in terms of groups of validators.
LEMMA CountersAre ==
    ASSUME NEW V \in SUBSET (Validators \X Votes), NEW b \in Blocks
    PROVE  /\ NotarizeStake(V, b) \in Nat /\ SkipStake(V, b.slot) \in Nat
           /\ NotarizeTotal(V, b.slot) \in Nat
           /\ Elsewhere(V, b) \in SUBSET Validators /\ StakeOf[Elsewhere(V, b)] \in Nat
           /\ NotarizeTotal(V, b.slot) = NotarizeStake(V, b) + StakeOf[Elsewhere(V, b)]
<1> DEFINE B == Voters(V, BlockVote("Notarize", b))
           N == Notarizers(V, b.slot)
<1>1. B \in SUBSET Validators /\ N \in SUBSET Validators
  BY VotersAre, NotarizersAre
<1>2. B \subseteq N
  BY VotersAre, NotarizersAre
<1>3. N = B \union (N \ B) /\ B \intersect (N \ B) = {} /\ N \ B \in SUBSET Validators
  BY <1>1, <1>2
<1>4. StakeOf[N] = StakeOf[B] + StakeOf[N \ B] /\ StakeOf[B] \in Nat /\ StakeOf[N \ B] \in Nat
  BY <1>1, <1>3, StakeDisjoint
<1>5. NotarizeStake(V, b) = StakeOf[B]
  BY DEF NotarizeStake, EntryStake
<1>6. NotarizeTotal(V, b.slot) = StakeOf[N] /\ NotarizeTotal(V, b.slot) \in Nat
  BY NotarizersAre
<1>7. SkipStake(V, b.slot) \in Nat
  BY VotersAre DEF SkipStake
<1>8. Elsewhere(V, b) = N \ B
  BY DEF Elsewhere
<1> HIDE DEF B, N
<1> QED
  BY <1>3, <1>4, <1>5, <1>6, <1>7, <1>8

\* Votes that exclude each other come from different validators.
LEMMA GroupsApart ==
    ASSUME NEW V \in SUBSET (Validators \X Votes), Apart(V), NEW b \in Blocks
    PROVE  /\ Voters(V, SlotVote("Skip", b.slot)) \intersect Notarizers(V, b.slot) = {}
           /\ \A d \in Blocks : d.slot = b.slot /\ d # b =>
                 Voters(V, BlockVote("Notarize", d)) \subseteq Elsewhere(V, b)
<1>1. \A v, w : <<v, w>> \in V => v \in Validators /\ w \in Votes
  OBVIOUS
<1>2. ASSUME NEW v, v \in Voters(V, SlotVote("Skip", b.slot)), v \in Notarizers(V, b.slot)
      PROVE  FALSE
  <2>1. <<v, SlotVote("Skip", b.slot)>> \in V
    BY <1>2, VotersAre
  <2>2. PICK d \in Blocks : d.slot = b.slot /\ <<v, BlockVote("Notarize", d)>> \in V
    BY <1>2, NotarizersAre
  <2>3. Conflicting(SlotVote("Skip", b.slot), BlockVote("Notarize", d))
    BY <2>2 DEF Conflicting, ConflictingTypes, SlotVote, BlockVote
  <2> QED
    BY <1>1, <2>1, <2>2, <2>3 DEF Apart, Equivocation
<1>3. ASSUME NEW d \in Blocks, d.slot = b.slot, d # b, NEW v, v \in Voters(V, BlockVote("Notarize", d))
      PROVE  v \in Elsewhere(V, b)
  <2>1. <<v, BlockVote("Notarize", d)>> \in V
    BY <1>3, VotersAre
  <2>2. v \in Notarizers(V, b.slot)
    BY <1>3, <2>1, NotarizersAre
  <2>3. ASSUME v \in Voters(V, BlockVote("Notarize", b)) PROVE FALSE
    <3>1. <<v, BlockVote("Notarize", b)>> \in V
      BY <2>3, VotersAre
    <3>2. BlockVote("Notarize", d) # BlockVote("Notarize", b)
      BY <1>3, Names
    <3>3. Equivocation(BlockVote("Notarize", d), BlockVote("Notarize", b))
      BY <1>3, <3>2, Names DEF Equivocation
    <3> QED
      BY <1>1, <2>1, <3>1, <3>3 DEF Apart
  <2> QED
    BY <2>2, <2>3 DEF Elsewhere
<1> QED
  BY <1>2, <1>3

\* More votes only add to the reasons.
LEMMA ReasonsGrow ==
    ASSUME NEW W \in SUBSET (Validators \X Votes), Apart(W), NEW V \in SUBSET W, NEW b \in Blocks
    PROVE  /\ NotarizeStake(V, b) <= NotarizeStake(W, b)
           /\ SkipStake(V, b.slot) <= SkipStake(W, b.slot)
           /\ StakeOf[Elsewhere(V, b)] <= StakeOf[Elsewhere(W, b)]
           /\ NotarReason(V, b) => NotarReason(W, b)
           /\ SkipReason(V, b.slot) => 
                 AtLeast(SkipStake(W, b.slot) + (NotarizeTotal(W, b.slot) - NotarizeStake(W, b)), 40)
<1>0. V \in SUBSET (Validators \X Votes)
  OBVIOUS
<1>1. NotarizeStake(V, b) <= NotarizeStake(W, b)
  <2>1. Voters(V, BlockVote("Notarize", b)) \subseteq Voters(W, BlockVote("Notarize", b))
    BY <1>0, VotersAre
  <2> QED
    BY <1>0, <2>1, VotersAre, StakeMonotone DEF NotarizeStake, EntryStake
<1>2. SkipStake(V, b.slot) <= SkipStake(W, b.slot)
  <2>1. Voters(V, SlotVote("Skip", b.slot)) \subseteq Voters(W, SlotVote("Skip", b.slot))
    BY <1>0, VotersAre
  <2> QED
    BY <1>0, <2>1, VotersAre, StakeMonotone DEF SkipStake, EntryStake
<1>3. StakeOf[Elsewhere(V, b)] <= StakeOf[Elsewhere(W, b)]
  <2>1. ASSUME NEW v \in Elsewhere(V, b) PROVE v \in Elsewhere(W, b)
    <3>1. v \in Notarizers(V, b.slot) /\ v \notin Voters(V, BlockVote("Notarize", b))
      BY DEF Elsewhere
    <3>2. PICK d \in Blocks : d.slot = b.slot /\ <<v, BlockVote("Notarize", d)>> \in V
      BY <1>0, <3>1, NotarizersAre
    <3>3. d # b
      BY <1>0, <3>1, <3>2, VotersAre
    <3>4. v \in Voters(W, BlockVote("Notarize", d))
      BY <3>2, VotersAre
    <3> QED
      BY <3>2, <3>3, <3>4, GroupsApart
  <2>2. Elsewhere(V, b) \subseteq Elsewhere(W, b)
    BY <2>1
  <2>3. Elsewhere(V, b) \in SUBSET Validators /\ Elsewhere(W, b) \in SUBSET Validators
    BY <1>0, CountersAre
  <2> QED
    BY <2>2, <2>3, StakeMonotone
<1>4. /\ NotarizeStake(V, b) \in Nat /\ SkipStake(V, b.slot) \in Nat
      /\ NotarizeTotal(V, b.slot) = NotarizeStake(V, b) + StakeOf[Elsewhere(V, b)]
      /\ StakeOf[Elsewhere(V, b)] \in Nat
  BY <1>0, CountersAre
<1>5. /\ NotarizeStake(W, b) \in Nat /\ SkipStake(W, b.slot) \in Nat
      /\ NotarizeTotal(W, b.slot) = NotarizeStake(W, b) + StakeOf[Elsewhere(W, b)]
      /\ StakeOf[Elsewhere(W, b)] \in Nat
  BY CountersAre
<1>6. ASSUME NotarReason(V, b) PROVE NotarReason(W, b)
  BY <1>1, <1>2, <1>4, <1>5, <1>6, StakePositive DEF NotarReason, AtLeast
<1>7. ASSUME SkipReason(V, b.slot)
      PROVE  AtLeast(SkipStake(W, b.slot) + (NotarizeTotal(W, b.slot) - NotarizeStake(W, b)), 40)
  <2>1. AtLeast(SkipStake(V, b.slot) + (NotarizeTotal(V, b.slot) - NotarizeStake(V, b)), 40)
    BY <1>7 DEF SkipReason
  <2> QED
    BY <2>1, <1>2, <1>3, <1>4, <1>5, StakePositive DEF AtLeast
<1> QED
  BY <1>1, <1>2, <1>3, <1>6, <1>7

\* Pruning keeps the counters of the slots it keeps.
LEMMA CountersKept ==
    ASSUME NEW V \in SUBSET (Validators \X Votes), NEW keep \in Nat, NEW s, s >= keep
    PROVE  /\ \A b \in Blocks : b.slot = s => NotarizeStake(Pruned(V, keep), b) = NotarizeStake(V, b)
           /\ SkipStake(Pruned(V, keep), s) = SkipStake(V, s)
           /\ NotarizeTotal(Pruned(V, keep), s) = NotarizeTotal(V, s)
<1>1. \A b \in Blocks : b.slot = s => NotarizeStake(Pruned(V, keep), b) = NotarizeStake(V, b)
  BY PrunedVoters, Names DEF NotarizeStake, EntryStake
<1>2. SkipStake(Pruned(V, keep), s) = SkipStake(V, s)
  BY PrunedVoters, Names DEF SkipStake, EntryStake
<1>3. NotarizeTotal(Pruned(V, keep), s) = NotarizeTotal(V, s)
  <2>1. /\ Pruned(V, keep) \in SUBSET (Validators \X Votes)
        /\ Notarizers(Pruned(V, keep), s) = Notarizers(V, s)
    BY PrunedVoters
  <2>2. /\ NotarizeTotal(Pruned(V, keep), s) = StakeOf[Notarizers(Pruned(V, keep), s)]
        /\ NotarizeTotal(V, s) = StakeOf[Notarizers(V, s)]
    BY <2>1, NotarizersAre
  <2> QED
    BY <2>1, <2>2
<1> QED
  BY <1>1, <1>2, <1>3

\* What is decided on the counters of a slot only.
SameCounters(V, W, s) ==
    /\ \A b \in Blocks : b.slot = s => NotarizeStake(V, b) = NotarizeStake(W, b)
    /\ SkipStake(V, s) = SkipStake(W, s)
    /\ NotarizeTotal(V, s) = NotarizeTotal(W, s)

\* Whether a block or a slot is safe depends only on the counters of the slot.
LEMMA CountersDecide ==
    ASSUME NEW V, NEW W, NEW s, SameCounters(V, W, s), NEW F
    PROVE  /\ \A b \in Blocks : b.slot = s => (IsSafeToNotar(V, F, b) <=> IsSafeToNotar(W, F, b))
           /\ IsSafeToSkip(V, F, s) <=> IsSafeToSkip(W, F, s)
           /\ \A b \in Blocks : b.slot = s => (NotarReason(V, b) <=> NotarReason(W, b))
           /\ SkipReason(V, s) <=> SkipReason(W, s)
<1>1. TopNotarized(V, s) = TopNotarized(W, s)
  <2>1. {NotarizeStake(V, b) : b \in {d \in Blocks : d.slot = s}}
            = {NotarizeStake(W, b) : b \in {d \in Blocks : d.slot = s}}
    BY DEF SameCounters
  <2> QED
    BY <2>1 DEF TopNotarized
<1> QED
  BY <1>1 DEF SameCounters, IsSafeToNotar, IsSafeToSkip, NotarReason, SkipReason

\* No block of the slot has more notarize votes than the top one.
LEMMA TopIsTop ==
    ASSUME NEW V \in SUBSET (Validators \X Votes), NEW s
    PROVE  /\ TopNotarized(V, s) \in Nat
           /\ \A b \in Blocks : b.slot = s => NotarizeStake(V, b) <= TopNotarized(V, s)
<1> DEFINE stakes == {NotarizeStake(V, b) : b \in {d \in Blocks : d.slot = s}} \union {0}
<1>1. \A b \in Blocks : NotarizeStake(V, b) \in 0..TotalStake
  <2> SUFFICES ASSUME NEW b \in Blocks PROVE NotarizeStake(V, b) \in 0..TotalStake
    OBVIOUS
  <2>1. Voters(V, BlockVote("Notarize", b)) \in SUBSET Validators
    BY VotersAre
  <2>2. /\ StakeOf[Voters(V, BlockVote("Notarize", b))] <= StakeOf[Validators]
        /\ StakeOf[Voters(V, BlockVote("Notarize", b))] \in Nat
    BY <2>1, StakeMonotone
  <2> QED
    BY <2>2, StakePositive DEF NotarizeStake, EntryStake, TotalStake
<1>2. stakes \in SUBSET (0..TotalStake) /\ stakes # {}
  BY <1>1, StakePositive
<1>3. \E m \in stakes : \A n \in stakes : n <= m
  <2> HIDE DEF stakes
  <2> QED
    BY <1>2, StakePositive, GreatestBelow
<1>4. TopNotarized(V, s) = CHOOSE m \in stakes : \A n \in stakes : n <= m
  BY DEF TopNotarized
<1>5. TopNotarized(V, s) \in stakes /\ \A n \in stakes : n <= TopNotarized(V, s)
  <2> HIDE DEF stakes
  <2> QED
    BY <1>3, <1>4
<1>6. TopNotarized(V, s) \in Nat
  <2> HIDE DEF stakes
  <2>1. TopNotarized(V, s) \in 0..TotalStake
    BY <1>2, <1>5
  <2> QED
    BY <2>1, StakePositive
<1>7. \A b \in Blocks : b.slot = s => NotarizeStake(V, b) \in stakes
  OBVIOUS
<1> QED
  BY <1>5, <1>6, <1>7

\* is_safe_to_notar and is_safe_to_skip find the reasons.
LEMMA SafeHasReason ==
    ASSUME NEW V \in SUBSET (Validators \X Votes), NEW F
    PROVE  /\ \A b \in Blocks : IsSafeToNotar(V, F, b) => NotarReason(V, b)
           /\ \A s : IsSafeToSkip(V, F, s) => SkipReason(V, s)
<1>1. \A b \in Blocks : IsSafeToNotar(V, F, b) => NotarReason(V, b)
  BY DEF IsSafeToNotar, NotarReason
<1>2. ASSUME NEW s, IsSafeToSkip(V, F, s), NEW b \in Blocks, b.slot = s
      PROVE  AtLeast(SkipStake(V, s) + (NotarizeTotal(V, s) - NotarizeStake(V, b)), 40)
  <2>1. AtLeast(SkipStake(V, s) + (NotarizeTotal(V, s) - TopNotarized(V, s)), 40)
    BY <1>2 DEF IsSafeToSkip
  <2>2. TopNotarized(V, s) \in Nat /\ NotarizeStake(V, b) <= TopNotarized(V, s)
    BY <1>2, TopIsTop
  <2>3. NotarizeStake(V, b) \in Nat /\ SkipStake(V, s) \in Nat /\ NotarizeTotal(V, s) \in Nat
    BY <1>2, CountersAre
  <2> QED
    BY <2>1, <2>2, <2>3, StakePositive DEF AtLeast
<1> QED
  BY <1>1, <1>2 DEF SkipReason

\* A block with a fast-finalization certificate leaves no reason for another block
\* or for a skip.
LEMMA FastExcludes ==
    ASSUME NEW V \in SUBSET (Validators \X Votes), Apart(V), NEW b \in Blocks,
           Complete(V, BlockVote("FinalizeFast", b))
    PROVE  /\ ~ SkipReason(V, b.slot)
           /\ \A d \in Blocks : d.slot = b.slot /\ d # b => ~ NotarReason(V, d)
<1> DEFINE cert == BlockVote("FinalizeFast", b)
           K == Voters(V, SlotVote("Skip", b.slot))
           N == Notarizers(V, b.slot)
<1>1. 100 * NotarizeStake(V, b) >= 80 * TotalStake
  <2>1. cert \in Certificates /\ CountedVotes(cert) = {BlockVote("Notarize", b)} /\ Limit(cert) = 80
    <3>1. cert \in Certificates
      BY DEF Certificates
    <3>2. CountedVotes(cert) = {BlockVote("Notarize", b)}
      BY DEF CountedVotes, BlockVote
    <3>3. Limit(cert) = 80
      BY DEF Limit, BlockVote
    <3> QED
      BY <3>1, <3>2, <3>3
  <2>2. Backers(V, cert) = Voters(V, BlockVote("Notarize", b))
    BY <2>1 DEF Backers
  <2>3. Accumulated(V, cert) = NotarizeStake(V, b)
    BY <2>1, <2>2, AccumulatedIs DEF NotarizeStake, EntryStake
  <2> QED
    BY <2>1, <2>3 DEF Complete, AtLeast
<1>2. K \in SUBSET Validators /\ N \in SUBSET Validators /\ K \intersect N = {}
  <2>1. K \in SUBSET Validators
    BY VotersAre
  <2>2. N \in SUBSET Validators
    BY NotarizersAre
  <2>3. K \intersect N = {}
    BY GroupsApart
  <2> QED
    BY <2>1, <2>2, <2>3
<1>3. SkipStake(V, b.slot) + NotarizeTotal(V, b.slot) <= TotalStake
  <2>1. StakeOf[K] + StakeOf[N] <= TotalStake
    <3> HIDE DEF K, N
    <3> QED
      BY <1>2, StakeDisjoint
  <2>2. SkipStake(V, b.slot) = StakeOf[K] /\ NotarizeTotal(V, b.slot) = StakeOf[N]
    BY NotarizersAre DEF SkipStake, EntryStake
  <2> QED
    BY <2>1, <2>2
<1>4. /\ NotarizeStake(V, b) \in Nat /\ SkipStake(V, b.slot) \in Nat
      /\ StakeOf[Elsewhere(V, b)] \in Nat /\ Elsewhere(V, b) \in SUBSET Validators
      /\ NotarizeTotal(V, b.slot) = NotarizeStake(V, b) + StakeOf[Elsewhere(V, b)]
  BY CountersAre
<1>5. ~ SkipReason(V, b.slot)
  BY <1>1, <1>3, <1>4, StakePositive DEF SkipReason, AtLeast
<1>6. ASSUME NEW d \in Blocks, d.slot = b.slot, d # b, NotarReason(V, d)
      PROVE  FALSE
  <2>1. Voters(V, BlockVote("Notarize", d)) \subseteq Elsewhere(V, b)
    BY <1>6, GroupsApart
  <2>2. NotarizeStake(V, d) <= StakeOf[Elsewhere(V, b)]
    BY <2>1, <1>4, VotersAre, StakeMonotone DEF NotarizeStake, EntryStake
  <2>3. NotarizeStake(V, d) \in Nat
    BY CountersAre
  <2> QED
    BY <1>1, <1>3, <1>4, <1>6, <2>2, <2>3, StakePositive DEF NotarReason, AtLeast
<1> QED
  BY <1>5, <1>6

\* Four blocks of a slot are never safe to notarize.
LEMMA NeverFourSafe ==
    ASSUME NEW V \in SUBSET (Validators \X Votes), Apart(V),
           NEW b1 \in Blocks, NEW b2 \in Blocks, NEW b3 \in Blocks, NEW b4 \in Blocks,
           b2.slot = b1.slot, b3.slot = b1.slot, b4.slot = b1.slot,
           b1 # b2, b1 # b3, b1 # b4, b2 # b3, b2 # b4, b3 # b4,
           NotarReason(V, b1), NotarReason(V, b2), NotarReason(V, b3), NotarReason(V, b4)
    PROVE  FALSE
<1> DEFINE N(b) == Voters(V, BlockVote("Notarize", b))
           K == Voters(V, SlotVote("Skip", b1.slot))
<1>0. \A w : Voters(V, w) \in SUBSET Validators
  BY VotersAre
<1>1. /\ N(b1) \in SUBSET Validators /\ N(b2) \in SUBSET Validators
      /\ N(b3) \in SUBSET Validators /\ N(b4) \in SUBSET Validators /\ K \in SUBSET Validators
  BY <1>0
<1>2. ASSUME NEW b \in Blocks, NEW d \in Blocks, b.slot = d.slot, b # d
      PROVE  N(b) \intersect N(d) = {}
  BY <1>2, GroupsApart DEF Elsewhere
<1>3. ASSUME NEW b \in Blocks, b.slot = b1.slot PROVE N(b) \intersect K = {}
  <2>1. N(b) \subseteq Notarizers(V, b1.slot)
    BY <1>3, VotersAre, NotarizersAre
  <2> QED
    BY <2>1, GroupsApart
<1>4. /\ NotarizeStake(V, b1) = StakeOf[N(b1)] /\ NotarizeStake(V, b2) = StakeOf[N(b2)]
      /\ NotarizeStake(V, b3) = StakeOf[N(b3)] /\ NotarizeStake(V, b4) = StakeOf[N(b4)]
      /\ SkipStake(V, b1.slot) = StakeOf[K]
  BY DEF NotarizeStake, SkipStake, EntryStake
<1>5. /\ N(b1) \intersect N(b2) = {} /\ N(b1) \intersect N(b3) = {} /\ N(b1) \intersect N(b4) = {}
      /\ N(b2) \intersect N(b3) = {} /\ N(b2) \intersect N(b4) = {} /\ N(b3) \intersect N(b4) = {}
  BY <1>2
<1>6. /\ N(b1) \intersect K = {} /\ N(b2) \intersect K = {}
      /\ N(b3) \intersect K = {} /\ N(b4) \intersect K = {}
  BY <1>3
<1> HIDE DEF N, K
<1> DEFINE A == N(b1) \union N(b2)
           B == N(b3) \union N(b4)
<1>7. /\ A \in SUBSET Validators /\ B \in SUBSET Validators /\ A \union B \in SUBSET Validators
      /\ A \intersect B = {} /\ (A \union B) \intersect K = {}
  BY <1>1, <1>5, <1>6
<1>8. StakeOf[A] = StakeOf[N(b1)] + StakeOf[N(b2)] /\ StakeOf[N(b1)] \in Nat /\ StakeOf[N(b2)] \in Nat
  BY <1>1, <1>5, StakeDisjoint
<1>9. StakeOf[B] = StakeOf[N(b3)] + StakeOf[N(b4)] /\ StakeOf[N(b3)] \in Nat /\ StakeOf[N(b4)] \in Nat
  BY <1>1, <1>5, StakeDisjoint
<1> HIDE DEF A, B
<1>10. StakeOf[A \union B] = StakeOf[A] + StakeOf[B]
  BY <1>7, StakeDisjoint
<1>11. StakeOf[A \union B] + StakeOf[K] <= TotalStake /\ StakeOf[K] \in Nat
  BY <1>1, <1>7, StakeDisjoint
<1> QED
  BY <1>4, <1>8, <1>9, <1>10, <1>11, StakePositive DEF NotarReason, AtLeast

\* A set without four different elements has at most three.
LEMMA AtMostThree ==
    ASSUME NEW S, \A a, b, c, d \in S : a = b \/ a = c \/ a = d \/ b = c \/ b = d \/ c = d
    PROVE  Cardinality(S) <= 3
<1>0. IsFiniteSet({}) /\ Cardinality({}) = 0
  BY FS_EmptySet
<1>1. CASE S = {}
  BY <1>0, <1>1
<1>2. CASE S # {}
  <2>1. PICK a \in S : TRUE
    BY <1>2
  <2>2. IsFiniteSet({a}) /\ Cardinality({a}) = 1
    BY FS_Singleton
  <2>3. CASE S = {a}
    BY <2>2, <2>3
  <2>4. CASE S # {a}
    <3>1. PICK b \in S : b # a
      BY <2>4
    <3>2. IsFiniteSet({a} \union {b}) /\ Cardinality({a} \union {b}) = 2
      BY <2>2, <3>1, FS_AddElement
    <3>3. CASE S = {a} \union {b}
      BY <3>2, <3>3
    <3>4. CASE S # {a} \union {b}
      <4>1. PICK c \in S : c # a /\ c # b
        BY <3>4
      <4>2. Cardinality(({a} \union {b}) \union {c}) = 3
        <5>1. c \notin {a} \union {b}
          BY <4>1
        <5>2. Cardinality(({a} \union {b}) \union {c}) = Cardinality({a} \union {b}) + 1
          BY <3>2, <5>1, FS_AddElement
        <5> QED
          BY <3>2, <5>2
      <4>3. S = ({a} \union {b}) \union {c}
        BY <3>1, <4>1
      <4> QED
        BY <4>2, <4>3
    <3> QED
      BY <3>3, <3>4
  <2> QED
    BY <2>3, <2>4
<1> QED
  BY <1>1, <1>2

\* The reasons keep fallback votes clear of a fast finalization, and few.
LEMMA ReasonsSuffice ==
    ASSUME PoolTypeOK, Apart(votes), SafeForReason
    PROVE  FallbacksSafe
<1>0. votes \in SUBSET (Validators \X Votes) /\ safe_to_notar_sent \subseteq Blocks
  BY DEF PoolTypeOK
<1>1. FastFinalExcluded
  BY <1>0, FastExcludes DEF FastFinalExcluded, SafeForReason
<1>2. ASSUME NEW s \in Slots
      PROVE  Cardinality({b \in safe_to_notar_sent : b.slot = s}) <= MaxEntries("NotarizeFallback")
  <2> DEFINE S == {b \in safe_to_notar_sent : b.slot = s}
  <2>1. ASSUME NEW a \in S, NEW b \in S, NEW c \in S, NEW d \in S
        PROVE  a = b \/ a = c \/ a = d \/ b = c \/ b = d \/ c = d
    <3>1. /\ a \in Blocks /\ b \in Blocks /\ c \in Blocks /\ d \in Blocks
          /\ b.slot = a.slot /\ c.slot = a.slot /\ d.slot = a.slot
          /\ NotarReason(votes, a) /\ NotarReason(votes, b)
          /\ NotarReason(votes, c) /\ NotarReason(votes, d)
      BY <1>0 DEF SafeForReason
    <3> QED
      BY <1>0, <3>1, NeverFourSafe
  <2>2. Cardinality(S) <= 3
    <3> HIDE DEF S
    <3> QED
      BY <2>1, AtMostThree
  <2> QED
    BY <2>2 DEF MaxEntries
<1> QED
  BY <1>1, <1>2 DEF FallbacksSafe, OwnFallbackFits

-----------------------------------------------------------------------------
(* One message.  MessageOK says what a vote or a certificate hands to Absorb; *)
(* the lemmas after it show that Absorb then keeps every part of PoolInv.     *)

MessageOK(V, F, safe, new) ==
    /\ V \in SUBSET (Validators \X Votes) /\ IsFiniteSet(V) /\ Apart(V) /\ votes \subseteq V
    /\ F \in SUBSET Votes /\ safe.notar \in SUBSET Blocks /\ safe.skip \in SUBSET Slots
    /\ new \in SUBSET Certificates
    /\ \E at \in Slots : \A c \in new : c.slot = at
    /\ \A c \in new \ CertInputs : Complete(V, c)
    /\ \A c \in Certificates : Complete(V, c) => c \in completed_certificates \union new
    /\ \A v \in F :
          /\ \A b \in Blocks : b.slot = v.slot /\ IsSafeToNotar(V, F, b)
                => b \in safe_to_notar_sent \union safe.notar
          /\ IsSafeToSkip(V, F, v.slot) => v.slot \in safe_to_skip_sent \union safe.skip
    /\ \A b \in safe.notar : NotarReason(V, b)
    /\ \A s \in safe.skip : SkipReason(V, s)

Absorbed(V, F, safe, new, root) ==
    /\ root \in NextRoots /\ bank_root' = root
    /\ Absorb(V, F, safe, new, root)
    /\ UNCHANGED <<waiting, highest_parent_ready, sent, received>>

NowCertified(new) == certified_blocks \union {b \in BlocksOf(new) : b.slot > last_pruned_slot}
NowSkipped(new) ==
    certified_skips \union {s \in SlotsOf(OfType(new, "Skip")) : s > last_pruned_slot}
Slow(new) == SlowFinalized(completed_certificates \union new, new)

\* A root is never below the one before it, nor below what was pruned.
LEMMA RootsGrow ==
    ASSUME PoolTypeOK, PruneBounds, NEW root \in NextRoots
    PROVE  /\ root \in Slots /\ root \in Nat /\ root >= bank_root /\ root >= last_pruned_slot
           /\ MaxOf(last_pruned_slot, root) = root
<1>1. /\ bank_root \in Nat /\ last_pruned_slot \in Nat /\ bank_root \in Slots
      /\ last_pruned_slot <= bank_root
  BY BlockFacts DEF PoolTypeOK, PruneBounds
<1>2. \A e \in sent : e.slot \in Slots
  BY DEF PoolTypeOK, Events
<1>3. root = bank_root \/ \E e \in sent : root = e.slot /\ e.slot > bank_root
  BY DEF NextRoots
<1>4. root \in Slots /\ root \in Nat
  BY <1>1, <1>2, <1>3, BlockFacts
<1> QED
  BY <1>1, <1>3, <1>4 DEF MaxOf

\* What a message leaves.
LEMMA AbsorbEffect ==
    ASSUME PoolTypeOK, PruneBounds, NEW V, NEW F, NEW safe, NEW new, NEW root,
           Absorbed(V, F, safe, new, root)
    PROVE  /\ root \in Slots /\ root \in Nat /\ root >= bank_root /\ root >= last_pruned_slot
           /\ votes' = Pruned(V, root)
           /\ my_first_vote' = {v \in F : v.slot >= root}
           /\ safe_to_notar_sent' = {b \in safe_to_notar_sent \union safe.notar : b.slot >= root}
           /\ safe_to_skip_sent' = {s \in safe_to_skip_sent \union safe.skip : s >= root}
           /\ pending_safe_to_notar' =
                 {b \in pending_safe_to_notar \union {d \in safe.notar : ~ Immediate(d)} : b.slot >= root}
           /\ completed_certificates' = {c \in completed_certificates \union new : c.slot >= root}
           /\ highest_finalized' = HighestFinalization(Slow(new), FastFinalized(new))
           /\ certified_blocks' = NowCertified(new) /\ certified_skips' = NowSkipped(new)
           /\ last_pruned_slot' = root /\ bank_root' = root
           /\ UNCHANGED <<waiting, highest_parent_ready, sent, received>>
<1>1. /\ root \in Slots /\ root \in Nat /\ root >= bank_root /\ root >= last_pruned_slot
      /\ MaxOf(last_pruned_slot, root) = root
  BY RootsGrow DEF Absorbed
<1>2. Absorb(V, F, safe, new, root)
  BY DEF Absorbed
<1>3. /\ votes' = Pruned(V, root)
      /\ my_first_vote' = {v \in F : v.slot >= root}
      /\ safe_to_notar_sent' = {b \in safe_to_notar_sent \union safe.notar : b.slot >= root}
      /\ safe_to_skip_sent' = {s \in safe_to_skip_sent \union safe.skip : s >= root}
      /\ last_pruned_slot' = root
  BY <1>1, <1>2 DEF Absorb, Pruned
<1>4. pending_safe_to_notar' =
         {b \in pending_safe_to_notar \union {d \in safe.notar : ~ Immediate(d)} : b.slot >= root}
  BY <1>1, <1>2 DEF Absorb
<1>5. completed_certificates' = {c \in completed_certificates \union new : c.slot >= root}
  BY <1>1, <1>2 DEF Absorb
<1>6. highest_finalized' = HighestFinalization(Slow(new), FastFinalized(new))
  BY <1>2 DEF Absorb, Slow
<1>7. certified_blocks' = NowCertified(new) /\ certified_skips' = NowSkipped(new)
  BY <1>2 DEF Absorb, NowCertified, NowSkipped
<1> QED
  BY <1>1, <1>3, <1>4, <1>5, <1>6, <1>7 DEF Absorbed

\* The blocks that a message finalizes.
LEMMA FinalizedAre ==
    ASSUME NEW V, NEW F, NEW safe, NEW new, MessageOK(V, F, safe, new)
    PROVE  /\ Slow(new) \subseteq Blocks /\ FastFinalized(new) \subseteq Blocks
           /\ \A b \in Blocks : b \in FastFinalized(new) <=> BlockVote("FinalizeFast", b) \in new
           /\ \A b \in Blocks : b \in Slow(new) <=>
                 /\ BlockVote("Notarize", b) \in completed_certificates \union new
                 /\ SlotVote("Finalize", b.slot) \in completed_certificates \union new
                 /\ BlockVote("Notarize", b) \in new \/ SlotVote("Finalize", b.slot) \in new
           /\ \E at \in Slots : \A b \in Slow(new) \union FastFinalized(new) : b.slot = at
<1>1. new \in SUBSET Certificates /\ \E at \in Slots : \A c \in new : c.slot = at
  BY DEF MessageOK
<1>2. ASSUME NEW b, b \in FastFinalized(new) PROVE b \in Blocks /\ BlockVote("FinalizeFast", b) \in new
  <2>1. PICK c \in new : c.type = "FinalizeFast" /\ b \in c.block
    BY <1>2 DEF FastFinalized, BlocksOf, OfType
  <2>2. PICK d \in Blocks : c = BlockVote("FinalizeFast", d)
    BY <1>1, <2>1, CertificateIs
  <2>3. b = d
    BY <2>1, <2>2, Names
  <2> QED
    BY <2>1, <2>2, <2>3
<1>3. ASSUME NEW b \in Blocks, BlockVote("FinalizeFast", b) \in new PROVE b \in FastFinalized(new)
  BY <1>3, Names DEF FastFinalized, BlocksOf, OfType
<1>4. Slow(new) \subseteq Blocks
  BY DEF Slow, SlowFinalized
<1>5. \A b \in Blocks : b \in Slow(new) <=>
          /\ BlockVote("Notarize", b) \in completed_certificates \union new
          /\ SlotVote("Finalize", b.slot) \in completed_certificates \union new
          /\ BlockVote("Notarize", b) \in new \/ SlotVote("Finalize", b.slot) \in new
  BY DEF Slow, SlowFinalized
<1>6. \E at \in Slots : \A b \in Slow(new) \union FastFinalized(new) : b.slot = at
  <2>1. PICK at \in Slots : \A c \in new : c.slot = at
    BY <1>1
  <2>2. ASSUME NEW b \in Slow(new) \union FastFinalized(new) PROVE b.slot = at
    <3>1. CASE b \in FastFinalized(new)
      BY <1>2, <2>1, <3>1, Names
    <3>2. CASE b \in Slow(new)
      BY <1>4, <1>5, <2>1, <3>2, Names
    <3> QED
      BY <3>1, <3>2
  <2> QED
    BY <2>2
<1> QED
  BY <1>2, <1>3, <1>4, <1>5, <1>6

\* An event after a message: an earlier one, or one that the message raises.
RaisedBy(e, safe, new) ==
    \/ e \in events
    \/ \E b \in safe.notar : Immediate(b) /\ e = Event("SafeToNotar", b.slot, {b})
    \/ \E s \in safe.skip : e = Event("SafeToSkip", s, {})
    \/ \E b \in Blocks : e = Event("BlockNotarized", b.slot, {b})
    \/ \E b \in Slow(new) \union FastFinalized(new) : e = Event("Finalized", b.slot, {b})
    \/ \E s \in Slots : \E b \in Ready(NowCertified(new), NowSkipped(new), s) :
          e = Event("ParentReady", s, {b})

\* The events that a message raises.
LEMMA AbsorbedEvents ==
    ASSUME PoolTypeOK, PruneBounds, NEW V, NEW F, NEW safe, NEW new, NEW root,
           MessageOK(V, F, safe, new), Absorbed(V, F, safe, new, root)
    PROVE  /\ events \subseteq events'
           /\ \A b \in safe.notar : Immediate(b) => Event("SafeToNotar", b.slot, {b}) \in events'
           /\ \A b \in Slow(new) \union FastFinalized(new) : Event("Finalized", b.slot, {b}) \in events'
           /\ \A e \in events' : RaisedBy(e, safe, new)
<1> DEFINE Made1 == {Event("SafeToNotar", b.slot, {b}) : b \in {d \in safe.notar : Immediate(d)}}
           Made2 == {Event("SafeToSkip", s, {}) : s \in safe.skip}
           Made3 == {Event("BlockNotarized", b.slot, {b}) : b \in BlocksOf(OfType(new, "Notarize"))}
           Made4 == {Event("Finalized", b.slot, {b}) : b \in Slow(new) \union FastFinalized(new)}
           Made5 == ParentReadyEvents(NowCertified(new), NowSkipped(new))
<1>1. events' = events \union Made1 \union Made2 \union Made3 \union Made4 \union Made5
  BY DEF Absorbed, Absorb, Slow, NowCertified, NowSkipped
<1>2. \A e \in Made1 : \E b \in safe.notar : Immediate(b) /\ e = Event("SafeToNotar", b.slot, {b})
  OBVIOUS
<1>3. \A b \in safe.notar : Immediate(b) => Event("SafeToNotar", b.slot, {b}) \in Made1
  OBVIOUS
<1>4. \A e \in Made3 : \E b \in Blocks : e = Event("BlockNotarized", b.slot, {b})
  <2>1. BlocksOf(OfType(new, "Notarize")) \subseteq Blocks
    BY CertificateIs DEF MessageOK, BlocksOf, OfType
  <2> QED
    BY <2>1
<1>5. \A e \in Made5 : \E s \in Slots : \E b \in Ready(NowCertified(new), NowSkipped(new), s) :
          e = Event("ParentReady", s, {b})
  BY DEF ParentReadyEvents
<1>6. \A e \in Made2 : \E s \in safe.skip : e = Event("SafeToSkip", s, {})
  OBVIOUS
<1>7. /\ \A e \in Made4 : \E b \in Slow(new) \union FastFinalized(new) : e = Event("Finalized", b.slot, {b})
      /\ \A b \in Slow(new) \union FastFinalized(new) : Event("Finalized", b.slot, {b}) \in Made4
  OBVIOUS
<1> HIDE DEF Made1, Made2, Made3, Made4, Made5
<1>8. \A e \in events' : RaisedBy(e, safe, new)
  BY <1>1, <1>2, <1>4, <1>5, <1>6, <1>7 DEF RaisedBy
<1> QED
  BY <1>1, <1>3, <1>7, <1>8

-----------------------------------------------------------------------------
(* A message keeps the invariant                                             *)

\* The certificate kept for block footers only moves up.
LEMMA HighestIs ==
    ASSUME PoolTypeOK, NEW slow \in SUBSET Blocks, NEW fast \in SUBSET Blocks,
           NEW at \in Slots, \A b \in slow \union fast : b.slot = at
    PROVE  LET hf == HighestFinalization(slow, fast)
           IN  \/ /\ \E b \in fast : hf = BlockVote("FinalizeFast", b)
                  /\ highest_finalized.slot <= at
               \/ /\ \E b \in slow : hf = BlockVote("Finalize", b)
                  /\ highest_finalized.slot < at /\ fast = {}
               \/ /\ hf = highest_finalized
                  /\ slow # {} => at <= highest_finalized.slot
                  /\ fast # {} => at < highest_finalized.slot
<1> DEFINE slower == {b \in slow : highest_finalized.slot < b.slot}
           faster == {b \in fast : highest_finalized.slot <= b.slot}
           hf == HighestFinalization(slow, fast)
<1>0. highest_finalized.slot \in Int /\ at \in Int
  BY BlockFacts, Names DEF PoolTypeOK, NoCertificate, Finalizations
<1>1. hf = IF faster # {} THEN BlockVote("FinalizeFast", CHOOSE b \in faster : TRUE)
           ELSE IF slower # {} THEN BlockVote("Finalize", CHOOSE b \in slower : TRUE)
           ELSE highest_finalized
  BY DEF HighestFinalization
<1>2. CASE faster # {}
  <2>1. hf = BlockVote("FinalizeFast", CHOOSE b \in faster : TRUE)
    <3> HIDE DEF faster, slower, hf
    <3> QED
      BY <1>1, <1>2
  <2>2. (CHOOSE b \in faster : TRUE) \in faster
    BY <1>2
  <2> QED
    BY <2>1, <2>2
<1>3. CASE faster = {} /\ slower # {}
  <2>1. hf = BlockVote("Finalize", CHOOSE b \in slower : TRUE)
    <3> HIDE DEF faster, slower, hf
    <3> QED
      BY <1>1, <1>3
  <2>2. (CHOOSE b \in slower : TRUE) \in slower
    BY <1>3
  <2>3. highest_finalized.slot < at
    BY <2>2
  <2>4. fast = {}
    BY <1>0, <1>3, <2>3
  <2> QED
    BY <2>1, <2>2, <2>3, <2>4
<1>4. CASE faster = {} /\ slower = {}
  <2>1. hf = highest_finalized
    <3> HIDE DEF faster, slower, hf
    <3> QED
      BY <1>1, <1>4
  <2>2. slow # {} => at <= highest_finalized.slot
    BY <1>0, <1>4
  <2>3. fast # {} => at < highest_finalized.slot
    BY <1>0, <1>4
  <2> QED
    BY <2>1, <2>2, <2>3
<1> QED
  BY <1>2, <1>3, <1>4

\* Absorbing a message keeps the types and the pruning bounds.
LEMMA AbsorbTypes ==
    ASSUME PoolInv, NEW V, NEW F, NEW safe, NEW new, NEW root,
           MessageOK(V, F, safe, new), Absorbed(V, F, safe, new, root)
    PROVE  PoolTypeOK' /\ PruneBounds' /\ Apart(votes')
<1>0. PoolTypeOK /\ PruneBounds
  BY DEF PoolInv
<1>1. /\ root \in Slots /\ root \in Nat
      /\ votes' = Pruned(V, root)
      /\ my_first_vote' = {v \in F : v.slot >= root}
      /\ safe_to_notar_sent' = {b \in safe_to_notar_sent \union safe.notar : b.slot >= root}
      /\ safe_to_skip_sent' = {s \in safe_to_skip_sent \union safe.skip : s >= root}
      /\ pending_safe_to_notar' =
            {b \in pending_safe_to_notar \union {d \in safe.notar : ~ Immediate(d)} : b.slot >= root}
      /\ completed_certificates' = {c \in completed_certificates \union new : c.slot >= root}
      /\ highest_finalized' = HighestFinalization(Slow(new), FastFinalized(new))
      /\ certified_blocks' = NowCertified(new) /\ certified_skips' = NowSkipped(new)
      /\ last_pruned_slot' = root /\ bank_root' = root
      /\ waiting' = waiting /\ highest_parent_ready' = highest_parent_ready
      /\ sent' = sent /\ received' = received
  BY <1>0, AbsorbEffect
<1>2. /\ V \in SUBSET (Validators \X Votes) /\ IsFiniteSet(V) /\ Apart(V)
      /\ F \in SUBSET Votes /\ safe.notar \in SUBSET Blocks /\ safe.skip \in SUBSET Slots
      /\ new \in SUBSET Certificates
  BY DEF MessageOK
<1>3. votes' \subseteq V
  BY <1>1 DEF Pruned
<1>4. votes' \subseteq Validators \X Votes /\ IsFiniteSet(votes') /\ Apart(votes')
  <2>1. IsFiniteSet(votes')
    BY <1>2, <1>3, FS_Subset
  <2> QED
    BY <1>2, <1>3, <2>1 DEF Apart
<1>5. completed_certificates' \subseteq Certificates /\ my_first_vote' \subseteq Votes
  BY <1>0, <1>1, <1>2 DEF PoolTypeOK
<1>6. /\ safe_to_notar_sent' \subseteq Blocks /\ safe_to_skip_sent' \subseteq Slots
      /\ pending_safe_to_notar' \subseteq Blocks /\ waiting' \subseteq Blocks
  BY <1>0, <1>1, <1>2 DEF PoolTypeOK
<1>7. certified_blocks' \subseteq Blocks /\ certified_skips' \subseteq Slots
  <2>1. \A c \in new : c.block \subseteq Blocks /\ c.slot \in Slots
    BY <1>2, CertificateIs
  <2> QED
    BY <1>0, <1>1, <2>1 DEF PoolTypeOK, NowCertified, NowSkipped, BlocksOf, SlotsOf, OfType
<1>8. highest_finalized' \in {NoCertificate} \union Finalizations
  <2>1. /\ Slow(new) \subseteq Blocks /\ FastFinalized(new) \subseteq Blocks
        /\ \E at \in Slots : \A b \in Slow(new) \union FastFinalized(new) : b.slot = at
    BY FinalizedAre
  <2>2. PICK at \in Slots : \A b \in Slow(new) \union FastFinalized(new) : b.slot = at
    BY <2>1
  <2>3. \/ highest_finalized' = highest_finalized
        \/ \E b \in Blocks : highest_finalized' = BlockVote("Finalize", b)
        \/ \E b \in Blocks : highest_finalized' = BlockVote("FinalizeFast", b)
    BY <1>0, <1>1, <2>1, <2>2, HighestIs
  <2> QED
    BY <1>0, <2>3 DEF PoolTypeOK, Finalizations
<1>9. events' \subseteq Events /\ \A e \in events' : e.kind # "ProduceWindow"
  <2> SUFFICES ASSUME NEW e \in events' PROVE e \in Events /\ e.kind # "ProduceWindow"
    OBVIOUS
  <2>1. CASE e \in events
    BY <1>0, <2>1 DEF PoolTypeOK
  <2>2. ASSUME NEW k \in EventKinds \ {"ProduceWindow"}, NEW s \in Slots, NEW x \in SUBSET Blocks,
               e = Event(k, s, x)
        PROVE  e \in Events /\ e.kind # "ProduceWindow"
    BY <2>2 DEF Event, Events
  <2>3. CASE \E b \in safe.notar : Immediate(b) /\ e = Event("SafeToNotar", b.slot, {b})
    <3>1. PICK b \in Blocks : e = Event("SafeToNotar", b.slot, {b})
      BY <1>2, <2>3
    <3>2. b.slot \in Slots
      BY BlockFacts
    <3> QED
      BY <2>2, <3>1, <3>2 DEF EventKinds
  <2>4. CASE \E s \in safe.skip : e = Event("SafeToSkip", s, {})
    BY <1>2, <2>2, <2>4 DEF EventKinds
  <2>5. CASE \E b \in Blocks : e = Event("BlockNotarized", b.slot, {b})
    BY <2>2, <2>5, BlockFacts DEF EventKinds
  <2>6. CASE \E b \in Slow(new) \union FastFinalized(new) : e = Event("Finalized", b.slot, {b})
    <3>1. Slow(new) \union FastFinalized(new) \subseteq Blocks
      BY FinalizedAre
    <3>2. PICK b \in Blocks : e = Event("Finalized", b.slot, {b})
      BY <2>6, <3>1
    <3>3. b.slot \in Slots
      BY BlockFacts
    <3> QED
      BY <2>2, <3>2, <3>3 DEF EventKinds
  <2>7. CASE \E s \in Slots : \E b \in Ready(NowCertified(new), NowSkipped(new), s) :
                e = Event("ParentReady", s, {b})
    <3>1. PICK s \in Slots : \E b \in Ready(NowCertified(new), NowSkipped(new), s) :
                e = Event("ParentReady", s, {b})
      BY <2>7
    <3>2. PICK b \in Ready(NowCertified(new), NowSkipped(new), s) : e = Event("ParentReady", s, {b})
      BY <3>1
    <3>3. b \in Blocks
      BY <1>1, <1>7 DEF Ready
    <3> QED
      BY <2>2, <3>2, <3>3 DEF EventKinds
  <2>8. RaisedBy(e, safe, new)
    BY <1>0, AbsorbedEvents
  <2> QED
    BY <2>1, <2>3, <2>4, <2>5, <2>6, <2>7, <2>8 DEF RaisedBy
<1>10. PoolTypeOK'
  <2>1. /\ last_pruned_slot' \in Slots /\ bank_root' \in Slots /\ highest_parent_ready' \in Slots
        /\ sent' \subseteq Events /\ received' \subseteq Blocks
    BY <1>0, <1>1 DEF PoolTypeOK
  <2> QED
    BY <1>4, <1>5, <1>6, <1>7, <1>8, <1>9, <2>1 DEF PoolTypeOK
<1>11. PruneBounds'
  <2>1. \A p \in votes' : p[2].slot >= last_pruned_slot'
    BY <1>1 DEF Pruned
  <2>2. \A c \in completed_certificates' : c.slot >= last_pruned_slot'
    BY <1>1
  <2>3. /\ \A b \in safe_to_notar_sent' : b.slot >= last_pruned_slot'
        /\ \A s \in safe_to_skip_sent' : s >= last_pruned_slot'
    BY <1>1
  <2>4. last_pruned_slot' <= bank_root'
    BY <1>1
  <2> QED
    BY <2>1, <2>2, <2>3, <2>4 DEF PruneBounds
<1> QED
  BY <1>4, <1>10, <1>11

\* Absorbing a message keeps the certificates exact.
LEMMA AbsorbCertificates ==
    ASSUME PoolInv, NEW V, NEW F, NEW safe, NEW new, NEW root,
           MessageOK(V, F, safe, new), Absorbed(V, F, safe, new, root)
    PROVE  CertificatesExact'
<1>0. PoolTypeOK /\ PruneBounds
  BY DEF PoolInv
<1>1. /\ root \in Nat /\ votes' = Pruned(V, root)
      /\ completed_certificates' = {c \in completed_certificates \union new : c.slot >= root}
  BY <1>0, AbsorbEffect
<1>2. /\ V \in SUBSET (Validators \X Votes) /\ Apart(V) /\ votes \subseteq V
      /\ new \in SUBSET Certificates /\ completed_certificates \subseteq Certificates
  BY <1>0 DEF MessageOK, PoolTypeOK
<1>3. votes' \in SUBSET (Validators \X Votes) /\ Apart(votes')
  <2>1. votes' \in SUBSET (Validators \X Votes)
    BY <1>1, <1>2, PrunedVoters
  <2> QED
    BY <2>1, AbsorbTypes
<1>4. ASSUME NEW c \in Certificates, c.slot >= root
      PROVE  Backers(votes', c) = Backers(V, c) /\ (Complete(votes', c) <=> Complete(V, c))
  <2>1. \A w \in CountedVotes(c) : Voters(votes', w) = Voters(V, w)
    BY <1>1, <1>2, <1>4, CountedAre, PrunedVoters
  <2> QED
    BY <1>2, <1>3, <2>1, CompleteSame DEF Backers
<1>5. NoDoubleCount'
  <2> SUFFICES ASSUME NEW c \in completed_certificates' \ CertInputs
               PROVE  AtLeast(StakeOf[Backers(votes', c)], Limit(c))
    BY DEF NoDoubleCount, Backers
  <2>1. c \in Certificates /\ c.slot >= root /\ c \in completed_certificates \union new
    BY <1>1, <1>2
  <2>2. Backers(V, c) \in SUBSET Validators /\ Limit(c) \in Nat
    BY <1>2, <2>1, AccumulatedIs, CountedAre
  <2>3. CASE c \in new
    <3>1. Complete(V, c)
      BY <2>3 DEF MessageOK
    <3> QED
      BY <1>2, <1>4, <2>1, <3>1, AccumulatedIs DEF Complete
  <2>4. CASE c \in completed_certificates
    <3>1. AtLeast(StakeOf[Backers(votes, c)], Limit(c))
      BY <2>4 DEF PoolInv, CertificatesExact, NoDoubleCount, Backers
    <3>2. Backers(votes, c) \subseteq Backers(V, c)
      <4>1. \A w : Voters(votes, w) \subseteq Voters(V, w)
        BY <1>2 DEF Voters
      <4> QED
        BY <4>1 DEF Backers
    <3>3. /\ StakeOf[Backers(votes, c)] <= StakeOf[Backers(V, c)]
          /\ StakeOf[Backers(votes, c)] \in Nat /\ StakeOf[Backers(V, c)] \in Nat
      BY <2>2, <3>2, StakeMonotone
    <3> QED
      BY <1>4, <2>1, <2>2, <3>1, <3>3, AtLeastMonotone
  <2> QED
    BY <2>1, <2>3, <2>4
<1>6. NoCertificateMissed'
  <2> SUFFICES ASSUME NEW c \in Certificates, Complete(votes', c)
               PROVE  c \in completed_certificates'
    BY DEF NoCertificateMissed
  <2>1. c.slot >= root
    <3> SUFFICES ASSUME ~ (c.slot >= root) PROVE FALSE
      OBVIOUS
    <3>1. \A w \in CountedVotes(c) : Voters(votes', w) = {}
      <4>1. \A w : ~ (w.slot >= root) => Voters(votes', w) = {}
        BY <1>1, <1>2, PrunedVoters
      <4>2. \A w \in CountedVotes(c) : w.slot = c.slot
        BY CountedAre
      <4> QED
        BY <4>1, <4>2
    <3> QED
      BY <1>3, <3>1, CompleteHasVotes
  <2>2. Complete(V, c)
    BY <1>4, <2>1
  <2> QED
    BY <1>1, <2>1, <2>2 DEF MessageOK
<1> QED
  BY <1>5, <1>6 DEF CertificatesExact

\* Absorbing a message keeps a reason for all that was found safe, and finds the rest.
LEMMA AbsorbReasons ==
    ASSUME PoolInv, NEW V, NEW F, NEW safe, NEW new, NEW root,
           MessageOK(V, F, safe, new), Absorbed(V, F, safe, new, root)
    PROVE  SafeEventsComplete' /\ SafeForReason'
<1>0. PoolTypeOK /\ PruneBounds
  BY DEF PoolInv
<1>1. /\ root \in Nat /\ votes' = Pruned(V, root)
      /\ my_first_vote' = {v \in F : v.slot >= root}
      /\ safe_to_notar_sent' = {b \in safe_to_notar_sent \union safe.notar : b.slot >= root}
      /\ safe_to_skip_sent' = {s \in safe_to_skip_sent \union safe.skip : s >= root}
  BY <1>0, AbsorbEffect
<1>2. /\ V \in SUBSET (Validators \X Votes) /\ Apart(V) /\ votes \in SUBSET V
      /\ safe.notar \in SUBSET Blocks /\ safe.skip \in SUBSET Slots
      /\ safe_to_notar_sent \subseteq Blocks /\ safe_to_skip_sent \subseteq Slots
  BY <1>0 DEF MessageOK, PoolTypeOK
<1>3. ASSUME NEW s, s >= root PROVE SameCounters(votes', V, s)
  BY <1>1, <1>2, <1>3, CountersKept DEF SameCounters
<1>4. SafeEventsComplete'
  <2> SUFFICES ASSUME NEW v \in my_first_vote'
               PROVE  /\ \A b \in Blocks : b.slot = v.slot /\ IsSafeToNotar(votes', my_first_vote', b)
                              => b \in safe_to_notar_sent'
                      /\ IsSafeToSkip(votes', my_first_vote', v.slot) => v.slot \in safe_to_skip_sent'
    BY DEF SafeEventsComplete
  <2>1. v \in F /\ v.slot >= root
    BY <1>1
  <2>2. ASSUME NEW b \in Blocks, b.slot = v.slot, IsSafeToNotar(votes', my_first_vote', b)
        PROVE  b \in safe_to_notar_sent'
    <3>1. IsSafeToNotar(V, my_first_vote', b)
      BY <1>3, <2>1, <2>2, CountersDecide
    <3>2. BlockVote("Notarize", b) \notin F
      BY <1>1, <2>1, <2>2, <3>1, Names DEF IsSafeToNotar
    <3>3. IsSafeToNotar(V, F, b)
      BY <3>1, <3>2 DEF IsSafeToNotar
    <3>4. b \in safe_to_notar_sent \union safe.notar
      BY <2>1, <2>2, <3>3 DEF MessageOK
    <3> QED
      BY <1>1, <2>1, <2>2, <3>4
  <2>3. ASSUME IsSafeToSkip(votes', my_first_vote', v.slot)
        PROVE  v.slot \in safe_to_skip_sent'
    <3>1. IsSafeToSkip(V, my_first_vote', v.slot)
      BY <1>3, <2>1, <2>3, CountersDecide
    <3>2. IsSafeToSkip(V, F, v.slot)
      BY <1>1, <3>1 DEF IsSafeToSkip
    <3>3. v.slot \in safe_to_skip_sent \union safe.skip
      BY <2>1, <3>2 DEF MessageOK
    <3> QED
      BY <1>1, <2>1, <3>3
  <2> QED
    BY <2>2, <2>3
<1>5. ASSUME NEW b \in safe_to_notar_sent' PROVE NotarReason(votes', b)
  <2>1. b \in Blocks /\ b.slot >= root /\ b \in safe_to_notar_sent \union safe.notar
    BY <1>1, <1>2
  <2>2. NotarReason(V, b)
    <3>1. CASE b \in safe.notar
      BY <3>1 DEF MessageOK
    <3>2. CASE b \in safe_to_notar_sent
      <4>1. NotarReason(votes, b)
        BY <3>2 DEF PoolInv, SafeForReason
      <4> QED
        BY <1>2, <2>1, <4>1, ReasonsGrow
    <3> QED
      BY <2>1, <3>1, <3>2
  <2> QED
    BY <1>3, <2>1, <2>2, CountersDecide
<1>6. ASSUME NEW s \in safe_to_skip_sent' PROVE SkipReason(votes', s)
  <2>1. s >= root /\ s \in safe_to_skip_sent \union safe.skip
    BY <1>1
  <2>2. SkipReason(V, s)
    <3>1. CASE s \in safe.skip
      BY <3>1 DEF MessageOK
    <3>2. CASE s \in safe_to_skip_sent
      <4>1. SkipReason(votes, s)
        BY <3>2 DEF PoolInv, SafeForReason
      <4> SUFFICES ASSUME NEW b \in Blocks, b.slot = s
                   PROVE  AtLeast(SkipStake(V, s) + (NotarizeTotal(V, s) - NotarizeStake(V, b)), 40)
        BY DEF SkipReason
      <4> QED
        BY <1>2, <4>1, ReasonsGrow
    <3> QED
      BY <2>1, <3>1, <3>2
  <2> QED
    BY <1>3, <2>1, <2>2, CountersDecide
<1> QED
  BY <1>4, <1>5, <1>6 DEF SafeForReason

\* Absorbing a message keeps Finalized exact and the best certificate of the highest slot.
LEMMA AbsorbFinalization ==
    ASSUME PoolInv, NEW V, NEW F, NEW safe, NEW new, NEW root,
           MessageOK(V, F, safe, new), Absorbed(V, F, safe, new, root)
    PROVE  FinalizationExact' /\ highest_finalized.slot <= highest_finalized'.slot
<1>0. PoolTypeOK /\ PruneBounds /\ FinalizationExact
  BY DEF PoolInv
<1> DEFINE fin == Slow(new) \union FastFinalized(new)
           hf == highest_finalized'
           ev(b) == Event("Finalized", b.slot, {b})
<1>1. /\ root \in Nat /\ root >= last_pruned_slot /\ last_pruned_slot' = root
      /\ completed_certificates' = {c \in completed_certificates \union new : c.slot >= root}
      /\ hf = HighestFinalization(Slow(new), FastFinalized(new))
      /\ sent' = sent
  BY <1>0, AbsorbEffect
<1>2. /\ Slow(new) \in SUBSET Blocks /\ FastFinalized(new) \in SUBSET Blocks
      /\ \A b \in Blocks : b \in FastFinalized(new) <=> BlockVote("FinalizeFast", b) \in new
      /\ \A b \in Blocks : b \in Slow(new) <=>
            /\ BlockVote("Notarize", b) \in completed_certificates \union new
            /\ SlotVote("Finalize", b.slot) \in completed_certificates \union new
            /\ BlockVote("Notarize", b) \in new \/ SlotVote("Finalize", b.slot) \in new
  BY FinalizedAre
<1>3. PICK at \in Slots : \A b \in fin : b.slot = at
  BY FinalizedAre
<1>4. /\ \A b \in fin : ev(b) \in Raised'
      /\ \A e \in Raised : e \in Raised'
      /\ \A e \in Raised' : e.kind = "Finalized" => e \in Raised \/ \E b \in fin : e = ev(b)
  <2>1. /\ events \subseteq events' /\ \A b \in fin : ev(b) \in events'
        /\ \A e \in events' : RaisedBy(e, safe, new)
    BY <1>0, AbsorbedEvents
  <2>2. ASSUME NEW e \in events', e.kind = "Finalized" PROVE e \in events \/ \E b \in fin : e = ev(b)
    <3>1. RaisedBy(e, safe, new)
      BY <2>1
    <3>2. \A k, s, x : k # "Finalized" => e # Event(k, s, x)
      BY <2>2, Names
    <3> QED
      BY <3>1, <3>2 DEF RaisedBy
  <2> QED
    BY <1>1, <2>1, <2>2 DEF Raised
<1>5. /\ highest_finalized.slot \in Int /\ at \in Int
      /\ last_pruned_slot \in Nat /\ last_pruned_slot \in Int
  BY <1>0, BlockFacts, Names DEF PoolTypeOK, NoCertificate, Finalizations
<1>6. \/ /\ \E b \in FastFinalized(new) : hf = BlockVote("FinalizeFast", b)
         /\ highest_finalized.slot <= at
      \/ /\ \E b \in Slow(new) : hf = BlockVote("Finalize", b)
         /\ highest_finalized.slot < at /\ FastFinalized(new) = {}
      \/ /\ hf = highest_finalized
         /\ Slow(new) # {} => at <= highest_finalized.slot
         /\ FastFinalized(new) # {} => at < highest_finalized.slot
  BY <1>0, <1>1, <1>2, <1>3, HighestIs
<1>7. hf.slot \in Int /\ highest_finalized.slot <= hf.slot /\ (fin # {} => at <= hf.slot)
  <2>1. CASE \E b \in FastFinalized(new) : hf = BlockVote("FinalizeFast", b)
                /\ highest_finalized.slot <= at
    BY <1>3, <1>5, <2>1, Names
  <2>2. CASE \E b \in Slow(new) : hf = BlockVote("Finalize", b) /\ highest_finalized.slot < at
    BY <1>3, <1>5, <2>2, Names
  <2>3. CASE /\ hf = highest_finalized
             /\ Slow(new) # {} => at <= highest_finalized.slot
             /\ FastFinalized(new) # {} => at < highest_finalized.slot
    BY <1>5, <2>3
  <2> QED
    BY <1>6, <2>1, <2>2, <2>3
<1>8. ASSUME NEW b \in Blocks, b.slot >= root
      PROVE  ev(b) \in Raised' <=>
                \/ BlockVote("FinalizeFast", b) \in completed_certificates'
                \/ {BlockVote("Notarize", b), SlotVote("Finalize", b.slot)} \subseteq completed_certificates'
  <2>1. b.slot >= last_pruned_slot
    BY <1>1, <1>5, <1>8, BlockFacts
  <2>2. ev(b) \in Raised <=>
            \/ BlockVote("FinalizeFast", b) \in completed_certificates
            \/ {BlockVote("Notarize", b), SlotVote("Finalize", b.slot)} \subseteq completed_certificates
    BY <1>0, <2>1 DEF FinalizationExact
  <2>3. /\ BlockVote("FinalizeFast", b).slot >= root /\ BlockVote("Notarize", b).slot >= root
        /\ SlotVote("Finalize", b.slot).slot >= root
    BY <1>8, Names
  <2>4. ev(b) \in Raised' <=> ev(b) \in Raised \/ b \in fin
    <3>1. ASSUME NEW d \in fin, ev(b) = ev(d) PROVE b = d
      <4>1. {b} = {d}
        BY <3>1, Names
      <4> QED
        BY <4>1
    <3>2. ev(b).kind = "Finalized"
      BY Names
    <3> HIDE DEF ev
    <3> QED
      BY <1>4, <3>1, <3>2
  <2> HIDE DEF ev
  <2> QED
    BY <1>1, <1>2, <2>2, <2>3, <2>4
<1>9. ASSUME NEW e \in Raised', e.kind = "Finalized" PROVE e.slot <= hf.slot
  <2>1. CASE e \in Raised
    <3>1. e.slot <= highest_finalized.slot
      BY <1>0, <1>9, <2>1 DEF FinalizationExact
    <3>2. e.slot \in Int
      <4>1. e \in Events
        BY <1>0, <2>1 DEF PoolTypeOK, Raised
      <4>2. e.slot \in Slots
        BY <4>1 DEF Events
      <4> QED
        BY <4>2, MaxSlotAssumption DEF Slots
    <3> QED
      BY <1>5, <1>7, <3>1, <3>2
  <2>2. CASE \E b \in fin : e = ev(b)
    BY <1>3, <1>7, <2>2, Names
  <2> QED
    BY <1>4, <1>9, <2>1, <2>2
<1>10. ASSUME hf # NoCertificate
       PROVE  /\ Event("Finalized", hf.slot, hf.block) \in Raised'
              /\ [hf EXCEPT !.type = "FinalizeFast"] \in completed_certificates'
                    => hf.type = "FinalizeFast"
  <2>1. CASE \E b \in FastFinalized(new) : hf = BlockVote("FinalizeFast", b)
    <3>1. PICK b \in FastFinalized(new) : hf = BlockVote("FinalizeFast", b)
      BY <2>1
    <3>2. ev(b) \in Raised'
      BY <1>4
    <3>3. hf.slot = b.slot /\ hf.block = {b} /\ hf.type = "FinalizeFast"
      BY <3>1, Names
    <3> QED
      BY <3>2, <3>3
  <2>2. CASE /\ \E b \in Slow(new) : hf = BlockVote("Finalize", b)
             /\ highest_finalized.slot < at /\ FastFinalized(new) = {}
    <3>1. PICK b \in Slow(new) : hf = BlockVote("Finalize", b)
      BY <2>2
    <3>2. b \in Blocks /\ b.slot = at /\ ev(b) \in Raised' /\ b.slot \in Int
      BY <1>2, <1>3, <1>4, <1>5
    <3>3. Event("Finalized", hf.slot, hf.block) \in Raised'
      BY <3>1, <3>2, Names
    <3>4. [hf EXCEPT !.type = "FinalizeFast"] = BlockVote("FinalizeFast", b)
      BY <3>1 DEF BlockVote
    <3>5. BlockVote("FinalizeFast", b) \notin new
      BY <1>2, <2>2, <3>2
    <3>6. ASSUME BlockVote("FinalizeFast", b) \in completed_certificates PROVE FALSE
      <4>1. b.slot >= last_pruned_slot
        BY <1>0, <3>6, Names DEF PruneBounds
      <4>2. ev(b) \in Raised
        BY <1>0, <3>2, <3>6, <4>1 DEF FinalizationExact
      <4>3. b.slot <= highest_finalized.slot
        BY <1>0, <4>2, Names DEF FinalizationExact
      <4> QED
        BY <1>5, <2>2, <3>2, <4>3
    <3>7. BlockVote("FinalizeFast", b) \notin completed_certificates'
      BY <1>1, <3>5, <3>6
    <3> QED
      BY <3>3, <3>4, <3>7
  <2>3. CASE /\ hf = highest_finalized
             /\ FastFinalized(new) # {} => at < highest_finalized.slot
    <3>1. highest_finalized # NoCertificate
      BY <1>10, <2>3
    <3>2. PICK t \in {"Finalize", "FinalizeFast"}, b \in Blocks : highest_finalized = BlockVote(t, b)
      BY <1>0, <3>1 DEF PoolTypeOK, Finalizations
    <3>3. [hf EXCEPT !.type = "FinalizeFast"] = BlockVote("FinalizeFast", b)
      BY <2>3, <3>2 DEF BlockVote
    <3>4. Event("Finalized", hf.slot, hf.block) \in Raised'
      BY <1>0, <1>4, <2>3, <3>1 DEF FinalizationExact
    <3>5. BlockVote("FinalizeFast", b) \notin new
      <4> SUFFICES ASSUME BlockVote("FinalizeFast", b) \in new PROVE FALSE
        OBVIOUS
      <4>1. b \in FastFinalized(new)
        BY <1>2
      <4>2. b.slot = at /\ highest_finalized.slot = at
        BY <1>3, <3>2, <4>1, Names
      <4> QED
        BY <1>5, <2>3, <4>1, <4>2
    <3>6. ASSUME BlockVote("FinalizeFast", b) \in completed_certificates
          PROVE  hf.type = "FinalizeFast"
      <4>1. [highest_finalized EXCEPT !.type = "FinalizeFast"] \in completed_certificates
        BY <2>3, <3>3, <3>6
      <4> QED
        BY <1>0, <2>3, <3>1, <4>1 DEF FinalizationExact
    <3> QED
      BY <1>1, <3>3, <3>4, <3>5, <3>6
  <2> QED
    BY <1>6, <2>1, <2>2, <2>3
<1>11. FinalizationExact'
  BY <1>1, <1>8, <1>9, <1>10 DEF FinalizationExact
<1> QED
  BY <1>7, <1>11

\* A parent once ready stays ready.
LEMMA ReadyGrows ==
    ASSUME NEW B, NEW S, NEW C, NEW T, B \subseteq C, S \subseteq T, NEW s
    PROVE  Ready(B, S, s) \subseteq Ready(C, T, s)
  BY DEF Ready, IsReady

\* Absorbing a message loses no safe block and announces none too early.
LEMMA AbsorbWaiting ==
    ASSUME PoolInv, NEW V, NEW F, NEW safe, NEW new, NEW root,
           MessageOK(V, F, safe, new), Absorbed(V, F, safe, new, root)
    PROVE  NoSafeBlockLost' /\ RaisedBacked' /\ WaitInside'
<1>0. PoolTypeOK /\ PruneBounds
  BY DEF PoolInv
<1>1. /\ root \in Nat
      /\ safe_to_notar_sent' = {b \in safe_to_notar_sent \union safe.notar : b.slot >= root}
      /\ pending_safe_to_notar' =
            {b \in pending_safe_to_notar \union {d \in safe.notar : ~ Immediate(d)} : b.slot >= root}
      /\ certified_blocks' = NowCertified(new)
      /\ waiting' = waiting /\ sent' = sent
  BY <1>0, AbsorbEffect
<1>2. /\ events \subseteq events'
      /\ \A b \in safe.notar : Immediate(b) => Event("SafeToNotar", b.slot, {b}) \in events'
      /\ \A e \in events' : RaisedBy(e, safe, new)
  BY <1>0, AbsorbedEvents
<1>3. /\ highest_finalized.slot <= highest_finalized'.slot
      /\ highest_finalized.slot \in Int /\ highest_finalized'.slot \in Int
  <2>1. PoolTypeOK'
    BY AbsorbTypes
  <2>2. highest_finalized.slot \in Int
    BY <1>0, BlockFacts, Names DEF PoolTypeOK, NoCertificate, Finalizations
  <2>3. highest_finalized'.slot \in Int
    BY <2>1, BlockFacts, Names DEF PoolTypeOK, NoCertificate, Finalizations
  <2> QED
    BY <2>2, <2>3, AbsorbFinalization
<1>4. ASSUME NEW b \in safe_to_notar_sent'
      PROVE  \/ Event("SafeToNotar", b.slot, {b}) \in Raised'
             \/ b \in pending_safe_to_notar' \union waiting'
             \/ b.slot <= highest_finalized'.slot
  <2>1. b \in safe_to_notar_sent \union safe.notar /\ b.slot >= root
    BY <1>1
  <2>2. CASE b \in safe.notar
    BY <1>1, <1>2, <2>1, <2>2 DEF Raised
  <2>3. CASE b \in safe_to_notar_sent
    <3>1. \/ Event("SafeToNotar", b.slot, {b}) \in Raised
          \/ b \in pending_safe_to_notar \union waiting
          \/ b.slot <= highest_finalized.slot
      BY <2>3 DEF PoolInv, NoSafeBlockLost
    <3>2. b.slot \in Int
      BY <1>0, <2>3, BlockFacts DEF PoolTypeOK
    <3>3. CASE Event("SafeToNotar", b.slot, {b}) \in Raised
      BY <1>1, <1>2, <3>3 DEF Raised
    <3>4. CASE b \in pending_safe_to_notar \union waiting
      BY <1>1, <2>1, <3>4
    <3>5. CASE b.slot <= highest_finalized.slot
      BY <1>3, <3>2, <3>5
    <3> QED
      BY <3>1, <3>3, <3>4, <3>5
  <2> QED
    BY <2>1, <2>2, <2>3
<1>5. ASSUME NEW e \in Raised', e.kind = "SafeToNotar", NEW b \in e.block
      PROVE  Immediate(b) \/ ParentOf[b] \in certified_blocks'
  <2>1. CASE e \in Raised
    <3>1. Immediate(b) \/ ParentOf[b] \in certified_blocks
      BY <1>5, <2>1 DEF PoolInv, RaisedBacked
    <3> QED
      BY <1>1, <3>1 DEF NowCertified
  <2>2. CASE e \notin Raised
    <3>1. RaisedBy(e, safe, new) /\ e \notin events
      BY <1>1, <1>2, <1>5, <2>2 DEF Raised
    <3>2. \A k, s, x : k # "SafeToNotar" => e # Event(k, s, x)
      BY <1>5, Names
    <3>3. PICK d \in safe.notar : Immediate(d) /\ e = Event("SafeToNotar", d.slot, {d})
      BY <3>1, <3>2 DEF RaisedBy
    <3>4. b = d
      BY <1>5, <3>3, Names
    <3> QED
      BY <3>3, <3>4
  <2> QED
    BY <2>1, <2>2
<1>6. WaitInside'
  BY <1>1 DEF PoolInv, WaitInside
<1> QED
  BY <1>4, <1>5, <1>6 DEF NoSafeBlockLost, RaisedBacked

\* Absorbing a message announces only ready slots.
LEMMA AbsorbWindows ==
    ASSUME PoolInv, NEW V, NEW F, NEW safe, NEW new, NEW root,
           MessageOK(V, F, safe, new), Absorbed(V, F, safe, new, root)
    PROVE  WindowsInv'
<1>0. PoolTypeOK /\ PruneBounds /\ WindowsInv
  BY DEF PoolInv
<1>1. /\ certified_blocks' = NowCertified(new) /\ certified_skips' = NowSkipped(new)
      /\ sent' = sent /\ highest_parent_ready' = highest_parent_ready
  BY <1>0, AbsorbEffect
<1>2. \A e \in events' : RaisedBy(e, safe, new)
  BY <1>0, AbsorbedEvents
<1>3. \A s : Ready(certified_blocks, certified_skips, s) \subseteq Ready(certified_blocks', certified_skips', s)
  BY <1>1, ReadyGrows DEF NowCertified, NowSkipped
<1>4. \A s : HasReady(s) => HasReady(s)'
  BY <1>3 DEF HasReady
<1>5. Made' = Made
  BY <1>1 DEF Made
<1>6. ASSUME NEW e \in Raised', e.kind = "ParentReady" PROVE HasReady(e.slot)'
  <2>1. CASE e \in Raised
    BY <1>0, <1>4, <1>6, <2>1 DEF WindowsInv
  <2>2. CASE e \notin Raised
    <3>1. RaisedBy(e, safe, new) /\ e \notin events
      BY <1>1, <1>2, <1>6, <2>2 DEF Raised
    <3>2. \A k, s, x : k # "ParentReady" => e # Event(k, s, x)
      BY <1>6, Names
    <3>3. PICK s \in Slots : \E b \in Ready(NowCertified(new), NowSkipped(new), s) :
                e = Event("ParentReady", s, {b})
      BY <3>1, <3>2 DEF RaisedBy
    <3>4. e.slot = s
      BY <3>3, Names
    <3> QED
      BY <1>1, <3>3, <3>4 DEF HasReady
  <2> QED
    BY <2>1, <2>2
<1>7. \A e \in sent' : e.kind = "ParentReady" => e.slot <= highest_parent_ready'
  BY <1>0, <1>1 DEF WindowsInv
<1>8. highest_parent_ready' # 0 => HasReady(highest_parent_ready)'
  BY <1>0, <1>1, <1>4 DEF WindowsInv, HasReady
<1>9. highest_parent_ready' \in LeaderSlots /\ highest_parent_ready' # 0 =>
          \/ \E f \in Made' : f.slot = highest_parent_ready'
          \/ \E t \in Slots : t > highest_parent_ready' /\ HasReady(t)'
  BY <1>0, <1>1, <1>4, <1>5 DEF WindowsInv
<1>10. \A e \in Made' : /\ e.slot <= highest_parent_ready'
                        /\ e.block \subseteq Ready(certified_blocks', certified_skips', e.slot)
  BY <1>0, <1>1, <1>3, <1>5 DEF WindowsInv
<1>11. \A e, f \in Made' : e.slot = f.slot => e = f
  BY <1>0, <1>5 DEF WindowsInv
<1> QED
  BY <1>6, <1>7, <1>8, <1>9, <1>10, <1>11 DEF WindowsInv

\* A message of which MessageOK holds keeps the invariant.
LEMMA AbsorbKeeps ==
    ASSUME PoolInv, NEW V, NEW F, NEW safe, NEW new, NEW root,
           MessageOK(V, F, safe, new), Absorbed(V, F, safe, new, root)
    PROVE  PoolInv'
<1>1. PoolTypeOK' /\ PruneBounds' /\ Apart(votes')
  BY AbsorbTypes
<1>2. CertificatesExact'
  BY AbsorbCertificates
<1>3. SafeEventsComplete' /\ SafeForReason'
  BY AbsorbReasons
<1>4. FinalizationExact'
  BY AbsorbFinalization
<1>5. NoSafeBlockLost' /\ RaisedBacked' /\ WaitInside'
  BY AbsorbWaiting
<1>6. WindowsInv'
  BY AbsorbWindows
<1> QED
  BY <1>1, <1>2, <1>3, <1>4, <1>5, <1>6 DEF PoolInv

-----------------------------------------------------------------------------
(* Votes and certificates are such messages                                  *)

\* Votes conflict both ways, and none with itself.
LEMMA ConflictsBothWays ==
    ASSUME NEW w \in Votes, NEW x \in Votes
    PROVE  /\ Conflicting(w, x) => Conflicting(x, w)
           /\ ~ Conflicting(w, w)
<1>1. ASSUME NEW y \in Votes PROVE y.type \in BlockVoteTypes \union SlotVoteTypes
  BY VoteIs
<1>2. ASSUME x.type \in ConflictingTypes(w.type) PROVE w.type \in ConflictingTypes(x.type)
  BY <1>1, <1>2 DEF ConflictingTypes, BlockVoteTypes, SlotVoteTypes
<1>3. w.type \notin ConflictingTypes(w.type)
  BY <1>1 DEF ConflictingTypes, BlockVoteTypes, SlotVoteTypes
<1> QED
  BY <1>2, <1>3 DEF Conflicting

\* A vote that has_conflicting_vote and the pools accept keeps the votes apart.
LEMMA AcceptedApart ==
    ASSUME PoolTypeOK, Apart(votes), NEW v \in Validators, NEW vote \in Votes, Acceptable(v, vote)
    PROVE  Apart(votes \union {<<v, vote>>})
<1> DEFINE Same == {w \in VotesOf(v) : w.type = vote.type /\ w.slot = vote.slot}
<1>0. votes \in SUBSET (Validators \X Votes) /\ IsFiniteSet(votes)
  BY DEF PoolTypeOK
<1>1. \A w : <<v, w>> \in votes => w \in VotesOf(v)
  BY DEF VotesOf
<1>2. IsFiniteSet(Same)
  <2>1. IsFiniteSet({q \in votes : q[1] = v})
    BY <1>0, FS_Subset
  <2>2. IsFiniteSet(VotesOf(v))
    <3> DEFINE Q == {q \in votes : q[1] = v}
    <3>1. VotesOf(v) = {p[2] : p \in Q}
      BY DEF VotesOf
    <3>2. IsFiniteSet({p[2] : p \in Q})
      <4> DEFINE f == [p \in Q |-> p[2]]
      <4>1. f \in Surjection(Q, {p[2] : p \in Q})
        BY DEF Surjection
      <4> HIDE DEF f, Q
      <4> QED
        BY <2>1, <4>1, FS_Surjection DEF Q
    <3> QED
      BY <3>1, <3>2
  <2>3. Same \subseteq VotesOf(v)
    OBVIOUS
  <2> HIDE DEF Same
  <2> QED
    BY <2>2, <2>3, FS_Subset
<1>3. ASSUME vote.type = "Notarize" PROVE Same = {}
  <2>1. Cardinality(Same) < 1
    BY <1>3 DEF Acceptable, MaxEntries
  <2>2. Cardinality(Same) \in Nat /\ (Cardinality(Same) = 0 <=> Same = {})
    BY <1>2, FS_CardinalityType, FS_EmptySet
  <2> HIDE DEF Same
  <2> QED
    BY <2>1, <2>2
<1>4. ASSUME NEW w \in Votes, <<v, w>> \in votes
      PROVE  ~ Equivocation(vote, w) /\ ~ Equivocation(w, vote)
  <2>1. w \in VotesOf(v)
    BY <1>1, <1>4
  <2>2. ~ Conflicting(vote, w) /\ ~ Conflicting(w, vote)
    BY <2>1, ConflictsBothWays DEF Acceptable
  <2>3. ~ (vote.type = "Notarize" /\ w.type = "Notarize" /\ w.slot = vote.slot)
    BY <1>3, <2>1
  <2> QED
    BY <2>2, <2>3 DEF Equivocation
<1>5. ~ Equivocation(vote, vote)
  BY ConflictsBothWays DEF Equivocation
<1> SUFFICES ASSUME NEW u \in Validators, NEW w \in Votes, NEW x \in Votes,
                    <<u, w>> \in votes \union {<<v, vote>>}, <<u, x>> \in votes \union {<<v, vote>>}
             PROVE  ~ Equivocation(w, x)
  BY DEF Apart
<1>6. CASE <<u, w>> \in votes /\ <<u, x>> \in votes
  BY <1>6 DEF Apart
<1>7. CASE <<u, w>> \in votes /\ <<u, x>> = <<v, vote>>
  BY <1>4, <1>7
<1>8. CASE <<u, w>> = <<v, vote>> /\ <<u, x>> \in votes
  BY <1>4, <1>8
<1>9. CASE <<u, w>> = <<v, vote>> /\ <<u, x>> = <<v, vote>>
  BY <1>5, <1>9
<1> QED
  BY <1>6, <1>7, <1>8, <1>9

\* A vote changes the counters of its own slot only, and only as a first vote.
LEMMA OtherCounters ==
    ASSUME NEW V \in SUBSET (Validators \X Votes), NEW v \in Validators, NEW vote \in Votes,
           NEW s, vote.type \notin FirstVoteKinds \/ vote.slot # s
    PROVE  SameCounters(V \union {<<v, vote>>}, V, s)
<1> DEFINE W == V \union {<<v, vote>>}
<1>1. W \in SUBSET (Validators \X Votes)
  OBVIOUS
<1>2. ASSUME NEW w, w # vote PROVE Voters(W, w) = Voters(V, w)
  BY <1>2 DEF Voters
<1>3. \A b \in Blocks : b.slot = s => NotarizeStake(W, b) = NotarizeStake(V, b)
  <2>1. \A b \in Blocks : b.slot = s => BlockVote("Notarize", b) # vote
    BY Names DEF FirstVoteKinds
  <2> HIDE DEF W
  <2> QED
    BY <1>2, <2>1 DEF NotarizeStake, EntryStake
<1>4. SkipStake(W, s) = SkipStake(V, s)
  <2>1. SlotVote("Skip", s) # vote
    BY Names DEF FirstVoteKinds
  <2> HIDE DEF W
  <2> QED
    BY <1>2, <2>1 DEF SkipStake, EntryStake
<1>5. Notarizers(W, s) = Notarizers(V, s)
  BY DEF Notarizers, FirstVoteKinds
<1>6. NotarizeTotal(W, s) = StakeOf[Notarizers(W, s)] /\ NotarizeTotal(V, s) = StakeOf[Notarizers(V, s)]
  BY <1>1, NotarizersAre
<1> QED
  BY <1>3, <1>4, <1>5, <1>6 DEF SameCounters

\* Received certificates, and nothing at all, are messages that MessageOK allows.
LEMMA QuietMessage ==
    ASSUME PoolInv, NEW new \in SUBSET CertInputs, NEW at \in Slots, \A c \in new : c.slot = at
    PROVE  MessageOK(votes, my_first_vote, NothingSafe, new)
<1>1. NothingSafe.notar = {} /\ NothingSafe.skip = {}
  BY DEF NothingSafe
<1>2. new \in SUBSET Certificates /\ new \ CertInputs = {}
  BY PoolAssumption
<1>3. \A c \in Certificates : Complete(votes, c) => c \in completed_certificates \union new
  BY DEF PoolInv, CertificatesExact, NoCertificateMissed
<1>4. \A w \in my_first_vote :
          /\ \A b \in Blocks : b.slot = w.slot /\ IsSafeToNotar(votes, my_first_vote, b)
                => b \in safe_to_notar_sent \union NothingSafe.notar
          /\ IsSafeToSkip(votes, my_first_vote, w.slot)
                => w.slot \in safe_to_skip_sent \union NothingSafe.skip
  BY DEF PoolInv, SafeEventsComplete
<1>5. /\ votes \in SUBSET (Validators \X Votes) /\ IsFiniteSet(votes) /\ Apart(votes)
      /\ my_first_vote \in SUBSET Votes
  BY DEF PoolInv, PoolTypeOK
<1> QED
  BY <1>1, <1>2, <1>3, <1>4, <1>5 DEF MessageOK

\* An accepted vote is one too.
LEMMA VoteMessage ==
    ASSUME PoolInv, NEW v \in Validators, NEW vote \in Votes, Acceptable(v, vote),
           NEW F, F = my_first_vote \union
                        {w \in {vote} : /\ v = Me /\ w.type \in FirstVoteKinds
                                        /\ \A x \in my_first_vote : x.slot # w.slot}
    PROVE  LET V == votes \union {<<v, vote>>}
           IN  MessageOK(V, F, NewlySafe(V, F, vote),
                         {c \in VoteToCertTypes(vote) \ completed_certificates : Complete(V, c)})
<1> DEFINE V == votes \union {<<v, vote>>}
           safe == NewlySafe(V, F, vote)
           new == {c \in VoteToCertTypes(vote) \ completed_certificates : Complete(V, c)}
<1>0. /\ votes \in SUBSET (Validators \X Votes) /\ IsFiniteSet(votes) /\ my_first_vote \subseteq Votes
      /\ Apart(votes) /\ PoolTypeOK /\ NoCertificateMissed /\ SafeEventsComplete
  BY DEF PoolInv, PoolTypeOK, CertificatesExact
<1>1. V \in SUBSET (Validators \X Votes) /\ votes \subseteq V /\ IsFiniteSet(V) /\ Apart(V)
  <2>1. V \in SUBSET (Validators \X Votes) /\ votes \subseteq V
    BY <1>0
  <2>2. IsFiniteSet(V)
    BY <1>0, FS_AddElement
  <2>3. Apart(V)
    BY <1>0, AcceptedApart
  <2> QED
    BY <2>1, <2>2, <2>3
<1>2. /\ F \in SUBSET Votes /\ my_first_vote \subseteq F
      /\ \A w \in F \ my_first_vote : w = vote /\ vote.type \in FirstVoteKinds
  BY <1>0
<1>3. new \in SUBSET Certificates /\ vote.slot \in Slots /\ \A c \in new : c.slot = vote.slot /\ Complete(V, c)
  BY VoteCertificates, VoteIs
<1>4. ASSUME NEW c \in Certificates, Complete(V, c) PROVE c \in completed_certificates \union new
  <2>1. CASE c \in VoteToCertTypes(vote)
    BY <1>4, <2>1
  <2>2. CASE c \notin VoteToCertTypes(vote)
    <3>1. vote \notin CountedVotes(c)
      BY <2>2, CountedInSync
    <3>2. \A w \in CountedVotes(c) : Voters(V, w) = Voters(votes, w)
      BY <3>1 DEF Voters
    <3>3. Complete(votes, c)
      BY <1>0, <1>1, <1>4, <3>2, CompleteSame
    <3> QED
      BY <1>0, <3>3 DEF NoCertificateMissed
  <2> QED
    BY <2>1, <2>2
<1>5. /\ safe.notar \in SUBSET Blocks /\ safe.skip \in SUBSET Slots
      /\ \A b \in safe.notar : IsSafeToNotar(V, F, b)
      /\ \A s \in safe.skip : IsSafeToSkip(V, F, s)
  BY VoteIs DEF NewlySafe
<1>6. (\A b \in safe.notar : NotarReason(V, b)) /\ (\A s \in safe.skip : SkipReason(V, s))
  <2> HIDE DEF V, safe
  <2> QED
    BY <1>1, <1>5, SafeHasReason
<1>7. ASSUME NEW u \in F
      PROVE  /\ \A b \in Blocks : b.slot = u.slot /\ IsSafeToNotar(V, F, b)
                    => b \in safe_to_notar_sent \union safe.notar
             /\ IsSafeToSkip(V, F, u.slot) => u.slot \in safe_to_skip_sent \union safe.skip
  <2>1. CASE vote.type \in FirstVoteKinds /\ u.slot = vote.slot
    <3>1. ~ (vote.type \notin FirstVoteKinds \/ \A w \in F : w.slot # vote.slot)
      BY <2>1
    <3>2. safe = [notar |-> {b \in Blocks : /\ b.slot = vote.slot /\ b \notin safe_to_notar_sent
                                            /\ IsSafeToNotar(V, F, b)},
                  skip  |-> {s \in {vote.slot} : s \notin safe_to_skip_sent /\ IsSafeToSkip(V, F, s)}]
      BY <3>1 DEF NewlySafe
    <3> HIDE DEF safe, V
    <3>3. /\ safe.notar = {b \in Blocks : /\ b.slot = vote.slot /\ b \notin safe_to_notar_sent
                                          /\ IsSafeToNotar(V, F, b)}
          /\ safe.skip = {s \in {vote.slot} : s \notin safe_to_skip_sent /\ IsSafeToSkip(V, F, s)}
      BY <3>2
    <3> QED
      BY <2>1, <3>3
  <2>2. CASE vote.type \notin FirstVoteKinds \/ u.slot # vote.slot
    <3>1. SameCounters(V, votes, u.slot)
      BY <1>0, <2>2, OtherCounters
    <3>2. u \in my_first_vote
      BY <1>2, <2>2
    <3>3. ASSUME NEW b \in Blocks, b.slot = u.slot, IsSafeToNotar(V, F, b)
          PROVE  b \in safe_to_notar_sent
      <4>1. IsSafeToNotar(votes, F, b)
        BY <3>1, <3>3, CountersDecide
      <4>2. IsSafeToNotar(votes, my_first_vote, b)
        BY <1>2, <4>1 DEF IsSafeToNotar
      <4> QED
        BY <1>0, <3>2, <3>3, <4>2 DEF SafeEventsComplete
    <3>4. ASSUME IsSafeToSkip(V, F, u.slot) PROVE u.slot \in safe_to_skip_sent
      <4>1. IsSafeToSkip(votes, F, u.slot)
        BY <3>1, <3>4, CountersDecide
      <4>2. \A w \in F : w.slot = u.slot => w \in my_first_vote
        BY <1>2, <2>2
      <4>3. IsSafeToSkip(votes, my_first_vote, u.slot)
        BY <4>1, <4>2 DEF IsSafeToSkip
      <4> QED
        BY <1>0, <3>2, <4>3 DEF SafeEventsComplete
    <3> QED
      BY <3>3, <3>4
  <2> QED
    BY <2>1, <2>2
<1> HIDE DEF V, safe, new
<1>8. MessageOK(V, F, safe, new)
  BY <1>1, <1>2, <1>3, <1>4, <1>5, <1>6, <1>7 DEF MessageOK
<1> QED
  BY <1>8 DEF V, safe, new

\* add_vote, with all that it leads to.
LEMMA AddVoteKeeps ==
    ASSUME PoolInv, NEW v \in Validators, NEW vote \in Votes, AddVote(v, vote)
    PROVE  PoolInv'
<1> DEFINE mine == {w \in {vote} : /\ Acceptable(v, vote) /\ v = Me /\ w.type \in FirstVoteKinds
                                   /\ \A x \in my_first_vote : x.slot # w.slot}
           F == my_first_vote \union mine
           V == votes \union {<<v, vote>>}
           new == {c \in VoteToCertTypes(vote) \ completed_certificates : Complete(V, c)}
<1>1. CASE Acceptable(v, vote)
  <2>1. \E root \in NextRoots : /\ bank_root' = root
                                /\ Absorb(V, F, NewlySafe(V, F, vote), new, root)
    BY <1>1 DEF AddVote
  <2>2. PICK root \in NextRoots : /\ bank_root' = root
                                  /\ Absorb(V, F, NewlySafe(V, F, vote), new, root)
    BY <2>1
  <2>3. F = my_first_vote \union
                {w \in {vote} : /\ v = Me /\ w.type \in FirstVoteKinds
                                /\ \A x \in my_first_vote : x.slot # w.slot}
    BY <1>1
  <2>4. MessageOK(V, F, NewlySafe(V, F, vote), new)
    <3> HIDE DEF F
    <3> QED
      BY <1>1, <2>3, VoteMessage
  <2>5. UNCHANGED <<waiting, highest_parent_ready, sent, received>>
    BY DEF AddVote
  <2>6. Absorbed(V, F, NewlySafe(V, F, vote), new, root)
    BY <2>2, <2>5 DEF Absorbed
  <2> QED
    BY <2>4, <2>6, AbsorbKeeps
<1>2. CASE ~ Acceptable(v, vote)
  <2>1. \E root \in NextRoots : /\ bank_root' = root
                                /\ Absorb(votes, my_first_vote, NothingSafe, {}, root)
    BY <1>2 DEF AddVote
  <2>2. PICK root \in NextRoots : /\ bank_root' = root
                                  /\ Absorb(votes, my_first_vote, NothingSafe, {}, root)
    BY <2>1
  <2>3. UNCHANGED <<waiting, highest_parent_ready, sent, received>>
    BY DEF AddVote
  <2>4. Absorbed(votes, my_first_vote, NothingSafe, {}, root)
    BY <2>2, <2>3 DEF Absorbed
  <2>5. MessageOK(votes, my_first_vote, NothingSafe, {})
    <3>1. {} \in SUBSET CertInputs /\ \A c \in {} : c.slot = 0
      OBVIOUS
    <3> QED
      BY <3>1, BlockFacts, QuietMessage
  <2> QED
    BY <2>4, <2>5, AbsorbKeeps
<1> QED
  BY <1>1, <1>2

\* add_certificate
LEMMA AddCertificateKeeps ==
    ASSUME PoolInv, NEW cert \in CertInputs, AddCertificate(cert)
    PROVE  PoolInv'
<1> DEFINE new == {cert} \ completed_certificates
<1>1. PICK root \in NextRoots : /\ bank_root' = root
                                /\ Absorb(votes, my_first_vote, NothingSafe, new, root)
  BY DEF AddCertificate
<1>2. Absorbed(votes, my_first_vote, NothingSafe, new, root)
  BY <1>1 DEF AddCertificate, Absorbed
<1>3. cert.slot \in Slots /\ new \in SUBSET CertInputs /\ \A c \in new : c.slot = cert.slot
  BY PoolAssumption, CertificateIs
<1>4. MessageOK(votes, my_first_vote, NothingSafe, new)
  <2> HIDE DEF new
  <2> QED
    BY <1>3, QuietMessage
<1> QED
  BY <1>2, <1>4, AbsorbKeeps

-----------------------------------------------------------------------------
(* The service loop                                                          *)

\* highest_parent_ready takes the latest of the slots announced.
LEMMA NewHighestIs ==
    ASSUME PoolTypeOK
    PROVE  /\ NewHighestReady \in Slots /\ NewHighestReady >= highest_parent_ready
           /\ \A s \in ReadySlots : s <= NewHighestReady
           /\ NewHighestReady = highest_parent_ready \/ NewHighestReady \in ReadySlots
<1>0. highest_parent_ready \in Slots /\ events \subseteq Events
  BY DEF PoolTypeOK
<1>1. ReadySlots \in SUBSET Slots
  <2>1. \A e \in events : e.slot \in Slots
    BY <1>0 DEF Events
  <2> QED
    BY <2>1 DEF ReadySlots
<1>2. CASE ReadySlots = {}
  <2>1. NewHighestReady = highest_parent_ready
    BY <1>2 DEF NewHighestReady
  <2>2. highest_parent_ready \in Int
    BY <1>0, BlockFacts
  <2> QED
    BY <1>0, <1>2, <2>1, <2>2
<1>3. CASE ReadySlots # {}
  <2> DEFINE m == CHOOSE t \in ReadySlots : \A u \in ReadySlots : t >= u
  <2>1. \E t \in ReadySlots : \A u \in ReadySlots : u <= t
    BY <1>1, <1>3, MaxSlotAssumption, GreatestBelow DEF Slots
  <2>2. \E t \in ReadySlots : \A u \in ReadySlots : t >= u
    BY <2>1
  <2>3. m \in ReadySlots /\ \A u \in ReadySlots : m >= u
    BY <2>2
  <2>4. NewHighestReady = MaxOf(m, highest_parent_ready)
    BY <1>3 DEF NewHighestReady
  <2> HIDE DEF m
  <2>5. m \in Slots /\ m \in Int /\ highest_parent_ready \in Int /\ ReadySlots \subseteq Int
    BY <1>0, <1>1, <2>3, BlockFacts
  <2> QED
    BY <1>0, <2>3, <2>4, <2>5 DEF MaxOf
<1> QED
  BY <1>2, <1>3

\* A ready slot has a least ready parent, and only one.
LEMMA LeastParent ==
    ASSUME PoolTypeOK, NEW s
    PROVE  LET R == Ready(certified_blocks, certified_skips, s)
           IN  /\ R # {} => \E d \in R : \A e \in R : BlockLeq(d, e)
               /\ \A d, e \in R : (\A x \in R : BlockLeq(d, x)) /\ (\A x \in R : BlockLeq(e, x)) => d = e
<1> DEFINE R == Ready(certified_blocks, certified_skips, s)
<1>0. R \subseteq Blocks
  BY DEF PoolTypeOK, Ready
<1> HIDE DEF R
<1>1. ASSUME R # {} PROVE \E d \in R : \A e \in R : BlockLeq(d, e)
  <2> DEFINE X == {b.slot : b \in R}
  <2>1. X \in SUBSET Nat /\ X # {}
    BY <1>0, <1>1, BlockFacts
  <2>2. \E m \in X : \A n \in X : m <= n
    <3> HIDE DEF X
    <3> QED
      BY <2>1, LeastNat
  <2>3. PICK low \in R : \A b \in R : low.slot <= b.slot
    BY <2>2
  <2> DEFINE Y == {b.id : b \in {d \in R : d.slot = low.slot}}
  <2>4. Y \in SUBSET Nat /\ Y # {}
    BY <1>0, <2>3, BlockFacts
  <2>5. \E m \in Y : \A n \in Y : m <= n
    <3> HIDE DEF Y
    <3> QED
      BY <2>4, LeastNat
  <2>6. PICK d \in R : d.slot = low.slot /\ \A b \in R : b.slot = low.slot => d.id <= b.id
    BY <2>5
  <2>7. ASSUME NEW e \in R PROVE BlockLeq(d, e)
    <3>1. low.slot <= e.slot /\ low.slot \in Nat /\ e.slot \in Nat
      BY <1>0, <2>3, BlockFacts
    <3> QED
      BY <2>6, <3>1 DEF BlockLeq
  <2> QED
    BY <2>7
<1>2. ASSUME NEW d \in R, NEW e \in R, \A x \in R : BlockLeq(d, x), \A x \in R : BlockLeq(e, x)
      PROVE  d = e
  <2>1. BlockLeq(d, e) /\ BlockLeq(e, d)
    BY <1>2
  <2>2. d \in Blocks /\ e \in Blocks
    BY <1>0
  <2>3. d.slot \in Nat /\ e.slot \in Nat /\ d.id \in Nat /\ e.id \in Nat
    BY <2>2, BlockFacts
  <2>4. d.slot = e.slot /\ d.id = e.id
    BY <2>1, <2>3 DEF BlockLeq
  <2> QED
    BY <2>2, <2>4, BlockFacts
<1> QED
  BY <1>1, <1>2 DEF R

\* The blocks a pass keeps waiting or announces, and those it announces.
Live(accepted) == {b \in waiting \union accepted : b.slot > MaxOf(highest_finalized.slot, 0)}
Resolved(accepted) == {b \in Live(accepted) : b \in received /\ HasNotarFallback(ParentOf[b])}

\* What a pass does.
LEMMA PassEffect ==
    ASSUME PoolTypeOK, NEW accepted \in SUBSET pending_safe_to_notar, Pass(accepted)
    PROVE  /\ pending_safe_to_notar' = pending_safe_to_notar \ (waiting \union accepted)
           /\ waiting' = Live(accepted) \ Resolved(accepted)
           /\ highest_parent_ready' = NewHighestReady /\ events' = {} /\ Raised' = sent'
           /\ Raised \subseteq sent' /\ ProduceEvents \subseteq sent'
           /\ \A b \in Resolved(accepted) : Event("SafeToNotar", b.slot, {b}) \in sent'
           /\ \A e \in sent' : \/ e \in Raised \/ e \in ProduceEvents
                               \/ \E b \in Resolved(accepted) : e = Event("SafeToNotar", b.slot, {b})
           /\ Resolved(accepted) \subseteq Blocks /\ Live(accepted) \subseteq Blocks
           /\ UNCHANGED <<votes, completed_certificates, my_first_vote, safe_to_notar_sent,
                          safe_to_skip_sent, highest_finalized, certified_blocks,
                          certified_skips, last_pruned_slot, bank_root, received>>
<1>1. /\ pending_safe_to_notar' = pending_safe_to_notar \ (waiting \union accepted)
      /\ highest_parent_ready' = NewHighestReady /\ events' = {}
      /\ UNCHANGED <<votes, completed_certificates, my_first_vote, safe_to_notar_sent,
                     safe_to_skip_sent, highest_finalized, certified_blocks,
                     certified_skips, last_pruned_slot, bank_root, received>>
  BY DEF Pass, Returned
<1>2. waiting' = Live(accepted) \ Resolved(accepted)
  BY DEF Pass, Live, Resolved
<1>3. sent' = sent \union events \union ProduceEvents
                \union {Event("SafeToNotar", b.slot, {b}) : b \in Resolved(accepted)}
  BY DEF Pass, Live, Resolved
<1>4. Resolved(accepted) \subseteq Blocks /\ Live(accepted) \subseteq Blocks
  BY DEF PoolTypeOK, Live, Resolved
<1> QED
  BY <1>1, <1>2, <1>3, <1>4 DEF Raised

\* The window that a pass starts.
LEMMA ProducedIs ==
    ASSUME NEW e \in ProduceEvents
    PROVE  /\ e.kind = "ProduceWindow" /\ e.slot = NewHighestReady
           /\ e.slot > highest_parent_ready /\ e.slot \in LeaderSlots
           /\ \E b \in Ready(certified_blocks, certified_skips, NewHighestReady) :
                 /\ e = Event("ProduceWindow", NewHighestReady, {b})
                 /\ \A d \in Ready(certified_blocks, certified_skips, NewHighestReady) : BlockLeq(b, d)
<1> DEFINE R == Ready(certified_blocks, certified_skips, NewHighestReady)
<1>1. PICK s \in {t \in {NewHighestReady} \intersect LeaderSlots : t > highest_parent_ready /\ CanProduce(t)},
           b \in {d \in R : \A x \in R : BlockLeq(d, x)} : e = Event("ProduceWindow", s, {b})
  BY DEF ProduceEvents
<1>2. s = NewHighestReady /\ s \in LeaderSlots /\ s > highest_parent_ready
  OBVIOUS
<1>3. b \in R /\ \A x \in R : BlockLeq(b, x)
  OBVIOUS
<1>4. e = Event("ProduceWindow", NewHighestReady, {b})
  BY <1>1, <1>2
<1>5. e.kind = "ProduceWindow" /\ e.slot = NewHighestReady
  BY <1>4 DEF Event
<1>6. e.slot > highest_parent_ready /\ e.slot \in LeaderSlots
  BY <1>2, <1>5
<1>7. \E d \in R : e = Event("ProduceWindow", NewHighestReady, {d}) /\ \A x \in R : BlockLeq(d, x)
  <2> HIDE DEF R
  <2> QED
    BY <1>3, <1>4
<1> QED
  BY <1>5, <1>6, <1>7

\* A pass of the service keeps the types.
LEMMA PassTypes ==
    ASSUME PoolInv, NEW accepted \in SUBSET pending_safe_to_notar, Pass(accepted)
    PROVE  PoolTypeOK'
<1>0. PoolTypeOK
  BY DEF PoolInv
<1>1. /\ pending_safe_to_notar' \subseteq Blocks /\ waiting' \subseteq Blocks
      /\ highest_parent_ready' \in Slots /\ events' = {}
      /\ \A e \in sent' : \/ e \in Raised \/ e \in ProduceEvents
                          \/ \E b \in Resolved(accepted) : e = Event("SafeToNotar", b.slot, {b})
      /\ Resolved(accepted) \subseteq Blocks
  <2>1. NewHighestReady \in Slots
    BY <1>0, NewHighestIs
  <2>2. pending_safe_to_notar' \subseteq pending_safe_to_notar /\ waiting' \subseteq Live(accepted)
    BY <1>0, PassEffect
  <2>3. pending_safe_to_notar \subseteq Blocks
    BY <1>0 DEF PoolTypeOK
  <2> QED
    BY <1>0, <2>1, <2>2, <2>3, PassEffect
<1>2. UNCHANGED <<votes, completed_certificates, my_first_vote, safe_to_notar_sent,
                  safe_to_skip_sent, highest_finalized, certified_blocks,
                  certified_skips, last_pruned_slot, bank_root, received>>
  BY <1>0, PassEffect
<1>3. sent' \subseteq Events
  <2> SUFFICES ASSUME NEW e \in sent' PROVE e \in Events
    OBVIOUS
  <2>1. CASE e \in Raised
    BY <1>0, <2>1 DEF PoolTypeOK, Raised
  <2>2. CASE e \in ProduceEvents
    <3>1. PICK b \in Ready(certified_blocks, certified_skips, NewHighestReady) :
                e = Event("ProduceWindow", NewHighestReady, {b})
      BY <2>2, ProducedIs
    <3>2. b \in Blocks
      BY <1>0 DEF PoolTypeOK, Ready
    <3>3. NewHighestReady \in Slots
      BY <1>0, NewHighestIs
    <3> QED
      BY <3>1, <3>2, <3>3 DEF Event, Events, EventKinds
  <2>3. CASE \E b \in Resolved(accepted) : e = Event("SafeToNotar", b.slot, {b})
    <3>1. PICK b \in Blocks : e = Event("SafeToNotar", b.slot, {b})
      BY <1>1, <2>3
    <3>2. b.slot \in Slots
      BY BlockFacts
    <3> QED
      BY <3>1, <3>2 DEF Event, Events, EventKinds
  <2> QED
    BY <1>1, <2>1, <2>2, <2>3
<1>4. /\ votes' \subseteq Validators \X Votes /\ IsFiniteSet(votes')
      /\ completed_certificates' \subseteq Certificates /\ my_first_vote' \subseteq Votes
      /\ safe_to_notar_sent' \subseteq Blocks /\ safe_to_skip_sent' \subseteq Slots
      /\ certified_blocks' \subseteq Blocks /\ certified_skips' \subseteq Slots
      /\ highest_finalized' \in {NoCertificate} \union Finalizations
      /\ last_pruned_slot' \in Slots /\ bank_root' \in Slots /\ received' \subseteq Blocks
  BY <1>0, <1>2 DEF PoolTypeOK
<1>5. events' \subseteq Events /\ \A e \in events' : e.kind # "ProduceWindow"
  BY <1>1
<1> QED
  BY <1>1, <1>3, <1>4, <1>5 DEF PoolTypeOK

\* A pass loses no block between the pool and the service.
LEMMA PassWaiting ==
    ASSUME PoolInv, NEW accepted \in SUBSET pending_safe_to_notar, Pass(accepted)
    PROVE  NoSafeBlockLost' /\ RaisedBacked' /\ WaitInside'
<1>0. PoolTypeOK /\ NoSafeBlockLost /\ RaisedBacked /\ WaitInside
  BY DEF PoolInv
<1>1. /\ pending_safe_to_notar' = pending_safe_to_notar \ (waiting \union accepted)
      /\ waiting' = Live(accepted) \ Resolved(accepted)
      /\ Raised' = sent' /\ Raised \subseteq sent'
      /\ \A b \in Resolved(accepted) : Event("SafeToNotar", b.slot, {b}) \in sent'
      /\ \A e \in sent' : \/ e \in Raised \/ e \in ProduceEvents
                          \/ \E b \in Resolved(accepted) : e = Event("SafeToNotar", b.slot, {b})
      /\ safe_to_notar_sent' = safe_to_notar_sent /\ highest_finalized' = highest_finalized
      /\ certified_blocks' = certified_blocks
  BY <1>0, PassEffect
<1>2. ASSUME NEW b \in safe_to_notar_sent
      PROVE  \/ Event("SafeToNotar", b.slot, {b}) \in Raised'
             \/ b \in pending_safe_to_notar' \union waiting'
             \/ b.slot <= highest_finalized'.slot
  <2>0. b \in Blocks /\ b.slot \in Nat /\ b.slot \in Int
    BY <1>0, BlockFacts DEF PoolTypeOK
  <2>1. CASE Event("SafeToNotar", b.slot, {b}) \in Raised
    BY <1>1, <2>1
  <2>2. CASE b.slot <= highest_finalized.slot
    BY <1>1, <2>2
  <2>3. CASE b \in (pending_safe_to_notar \union waiting) \ (waiting \union accepted)
    BY <1>1, <2>3
  <2>4. CASE b \in waiting \union accepted /\ Event("SafeToNotar", b.slot, {b}) \notin Raised
    <3>1. CASE b \in Resolved(accepted)
      BY <1>1, <3>1
    <3>2. CASE b \in Live(accepted) \ Resolved(accepted)
      BY <1>1, <3>2
    <3>3. CASE b \notin Live(accepted)
      <4>1. highest_finalized.slot \in Int
        BY <1>0, BlockFacts, Names DEF PoolTypeOK, NoCertificate, Finalizations
      <4>2. ~ (b.slot > MaxOf(highest_finalized.slot, 0))
        BY <2>4, <3>3 DEF Live
      <4>3. CASE highest_finalized.slot >= 0
        BY <1>1, <2>0, <4>1, <4>2, <4>3 DEF MaxOf
      <4>4. CASE ~ (highest_finalized.slot >= 0)
        <5>1. b.slot = 0
          BY <2>0, <4>1, <4>2, <4>4 DEF MaxOf
        <5>2. 0 % WindowSize = 0
          BY WindowSizeAssumption
        <5>3. Immediate(b)
          BY <5>1, <5>2 DEF Immediate, FirstOfWindow
        <5> QED
          BY <1>0, <2>4, <5>3 DEF WaitInside
      <4> QED
        BY <4>3, <4>4
    <3> QED
      BY <3>1, <3>2, <3>3
  <2> QED
    BY <1>0, <2>1, <2>2, <2>3, <2>4 DEF NoSafeBlockLost
<1>3. ASSUME NEW e \in Raised', e.kind = "SafeToNotar", NEW b \in e.block
      PROVE  Immediate(b) \/ ParentOf[b] \in certified_blocks'
  <2>1. CASE e \in Raised
    BY <1>0, <1>1, <1>3, <2>1 DEF RaisedBacked
  <2>2. CASE e \in ProduceEvents
    BY <1>3, <2>2, ProducedIs
  <2>3. CASE \E d \in Resolved(accepted) : e = Event("SafeToNotar", d.slot, {d})
    <3>1. PICK d \in Resolved(accepted) : e = Event("SafeToNotar", d.slot, {d})
      BY <2>3
    <3>2. b = d
      BY <1>3, <3>1, Names
    <3> QED
      BY <1>1, <3>2 DEF Resolved, HasNotarFallback
  <2> QED
    BY <1>1, <1>3, <2>1, <2>2, <2>3
<1>4. NoSafeBlockLost'
  BY <1>1, <1>2 DEF NoSafeBlockLost
<1>5. RaisedBacked'
  BY <1>3 DEF RaisedBacked
<1>6. WaitInside'
  BY <1>0, <1>1 DEF WaitInside, Live
<1> QED
  BY <1>4, <1>5, <1>6

\* A pass raises no Finalized event.
LEMMA PassFinalization ==
    ASSUME PoolInv, NEW accepted \in SUBSET pending_safe_to_notar, Pass(accepted)
    PROVE  FinalizationExact'
<1>0. PoolTypeOK /\ FinalizationExact
  BY DEF PoolInv
<1>1. /\ Raised' = sent' /\ Raised \subseteq sent'
      /\ \A e \in sent' : \/ e \in Raised \/ e \in ProduceEvents
                          \/ \E b \in Resolved(accepted) : e = Event("SafeToNotar", b.slot, {b})
      /\ highest_finalized' = highest_finalized /\ last_pruned_slot' = last_pruned_slot
      /\ completed_certificates' = completed_certificates
  BY <1>0, PassEffect
<1>2. \A e \in Raised' : e.kind = "Finalized" => e \in Raised
  <2> SUFFICES ASSUME NEW e \in Raised', e.kind = "Finalized", e \notin Raised PROVE FALSE
    OBVIOUS
  <2>1. e \in ProduceEvents \/ \E b \in Resolved(accepted) : e = Event("SafeToNotar", b.slot, {b})
    BY <1>1
  <2>2. e \notin ProduceEvents
    BY ProducedIs
  <2>3. PICK b \in Resolved(accepted) : e = Event("SafeToNotar", b.slot, {b})
    BY <2>1, <2>2
  <2> QED
    BY <2>3 DEF Event
<1>3. \A s, x : Event("Finalized", s, x) \in Raised' <=> Event("Finalized", s, x) \in Raised
  BY <1>1, <1>2, Names
<1>4. \A e \in Raised' : e.kind = "Finalized" => e.slot <= highest_finalized'.slot
  BY <1>0, <1>1, <1>2 DEF FinalizationExact
<1>5. \A b \in Blocks : b.slot >= last_pruned_slot' =>
          (Event("Finalized", b.slot, {b}) \in Raised' <=>
              \/ BlockVote("FinalizeFast", b) \in completed_certificates'
              \/ {BlockVote("Notarize", b), SlotVote("Finalize", b.slot)}
                        \subseteq completed_certificates')
  BY <1>0, <1>1, <1>3 DEF FinalizationExact
<1>6. highest_finalized' # NoCertificate =>
          /\ Event("Finalized", highest_finalized'.slot, highest_finalized'.block) \in Raised'
          /\ [highest_finalized' EXCEPT !.type = "FinalizeFast"] \in completed_certificates'
                => highest_finalized'.type = "FinalizeFast"
  BY <1>0, <1>1, <1>3 DEF FinalizationExact
<1> QED
  BY <1>4, <1>5, <1>6 DEF FinalizationExact

\* A pass produces the highest ready window if it is led and not too late.
LEMMA PassWindows ==
    ASSUME PoolInv, NEW accepted \in SUBSET pending_safe_to_notar, Pass(accepted)
    PROVE  WindowsInv'
<1> DEFINE h == NewHighestReady
           R == Ready(certified_blocks, certified_skips, h)
<1>0. PoolTypeOK /\ WindowsInv
  BY DEF PoolInv
<1>1. /\ highest_parent_ready' = h /\ Raised' = sent' /\ Raised \subseteq sent'
      /\ ProduceEvents \subseteq sent'
      /\ \A e \in sent' : \/ e \in Raised \/ e \in ProduceEvents
                          \/ \E b \in Resolved(accepted) : e = Event("SafeToNotar", b.slot, {b})
      /\ certified_blocks' = certified_blocks /\ certified_skips' = certified_skips
  BY <1>0, PassEffect
<1>2. /\ h \in Slots /\ h >= highest_parent_ready /\ \A s \in ReadySlots : s <= h
      /\ h = highest_parent_ready \/ h \in ReadySlots
  BY <1>0, NewHighestIs
<1>3. h \in Int /\ highest_parent_ready \in Int
  BY <1>0, <1>2, BlockFacts DEF PoolTypeOK
<1>4. \A s : HasReady(s)' <=> HasReady(s)
  BY <1>1 DEF HasReady
<1>5. \A e \in sent' : e.kind = "ParentReady" => e \in Raised
  <2> SUFFICES ASSUME NEW e \in sent', e.kind = "ParentReady", e \notin Raised PROVE FALSE
    OBVIOUS
  <2>1. e \in ProduceEvents \/ \E b \in Resolved(accepted) : e = Event("SafeToNotar", b.slot, {b})
    BY <1>1
  <2>2. e \notin ProduceEvents
    BY ProducedIs
  <2>3. PICK b \in Resolved(accepted) : e = Event("SafeToNotar", b.slot, {b})
    BY <2>1, <2>2
  <2> QED
    BY <2>3 DEF Event
<1>6. Made' = Made \union ProduceEvents
  <2>1. ASSUME NEW e \in Made' PROVE e \in Made \union ProduceEvents
    <3>1. e \in sent' /\ e.kind = "ProduceWindow"
      BY <2>1 DEF Made
    <3>2. e \in Raised \/ e \in ProduceEvents
      <4> SUFFICES ASSUME e \notin Raised, e \notin ProduceEvents PROVE FALSE
        OBVIOUS
      <4>1. PICK b \in Resolved(accepted) : e = Event("SafeToNotar", b.slot, {b})
        BY <1>1, <3>1
      <4> QED
        BY <3>1, <4>1 DEF Event
    <3> QED
      BY <1>0, <3>1, <3>2 DEF PoolTypeOK, Raised, Made
  <2>2. ASSUME NEW e \in Made \union ProduceEvents PROVE e \in Made'
    <3>1. CASE e \in Made
      BY <1>1, <3>1 DEF Made, Raised
    <3>2. CASE e \in ProduceEvents
      BY <1>1, <3>2, ProducedIs DEF Made
    <3> QED
      BY <3>1, <3>2
  <2> QED
    BY <2>1, <2>2
<1>7. \A e \in sent' : e.kind = "ParentReady" => HasReady(e.slot)' /\ e.slot <= h
  <2> SUFFICES ASSUME NEW e \in sent', e.kind = "ParentReady" PROVE HasReady(e.slot)' /\ e.slot <= h
    OBVIOUS
  <2>1. e \in Raised
    BY <1>5
  <2>2. HasReady(e.slot)'
    BY <1>0, <1>4, <2>1 DEF WindowsInv
  <2>3. CASE e \in events
    <3>1. e.slot \in ReadySlots
      BY <2>3 DEF ReadySlots
    <3> QED
      BY <1>2, <2>2, <3>1
  <2>4. CASE e \in sent
    <3>1. e.slot \in Slots
      BY <1>0, <2>4 DEF PoolTypeOK, Events
    <3>2. e.slot \in Int
      BY <3>1, MaxSlotAssumption DEF Slots
    <3>3. e.slot <= highest_parent_ready
      BY <1>0, <2>4 DEF WindowsInv
    <3> QED
      BY <1>2, <1>3, <2>2, <3>2, <3>3
  <2> QED
    BY <2>1, <2>2, <2>3, <2>4 DEF Raised
<1>8. h # 0 => HasReady(h)
  <2>1. ASSUME h \in ReadySlots PROVE HasReady(h)
    <3>1. PICK e \in events : e.kind = "ParentReady" /\ e.slot = h
      BY <2>1 DEF ReadySlots
    <3> QED
      BY <1>0, <3>1 DEF WindowsInv, Raised
  <2> QED
    BY <1>0, <1>2, <2>1 DEF WindowsInv
<1>9. ASSUME h \in LeaderSlots, h # 0
      PROVE  (\E f \in Made' : f.slot = h) \/ (\E t \in Slots : t > h /\ HasReady(t))
  <2>1. CASE h = highest_parent_ready
    BY <1>0, <1>6, <1>9, <2>1 DEF WindowsInv
  <2>2. CASE h # highest_parent_ready /\ CanProduce(h)
    <3>1. h > highest_parent_ready
      BY <1>2, <1>3, <2>2
    <3>2. R # {}
      BY <1>8, <1>9 DEF HasReady
    <3>3. PICK b \in R : \A d \in R : BlockLeq(b, d)
      BY <1>0, <3>2, LeastParent
    <3>4. Event("ProduceWindow", h, {b}) \in ProduceEvents
      BY <1>9, <2>2, <3>1, <3>3 DEF ProduceEvents
    <3>5. Event("ProduceWindow", h, {b}).slot = h
      BY Names
    <3> QED
      BY <1>6, <3>4, <3>5
  <2>3. CASE ~ CanProduce(h)
    BY <2>3 DEF CanProduce, HasReady
  <2> QED
    BY <2>1, <2>2, <2>3
<1>10. ASSUME NEW e \in Made'
       PROVE  e.slot <= h /\ e.block \subseteq Ready(certified_blocks', certified_skips', e.slot)
  <2>1. CASE e \in Made
    <3>1. e.slot <= highest_parent_ready
      BY <1>0, <2>1 DEF WindowsInv
    <3>2. e.slot \in Slots
      BY <1>0, <2>1 DEF PoolTypeOK, Events, Made
    <3>3. e.slot \in Int
      BY <3>2, MaxSlotAssumption DEF Slots
    <3>4. e.block \subseteq Ready(certified_blocks', certified_skips', e.slot)
      BY <1>0, <1>1, <2>1 DEF WindowsInv
    <3> QED
      BY <1>2, <1>3, <3>1, <3>3, <3>4
  <2>2. CASE e \in ProduceEvents
    <3>1. PICK b \in R : e = Event("ProduceWindow", h, {b})
      BY <2>2, ProducedIs
    <3>2. e.slot = h /\ e.block = {b}
      BY <3>1, Names
    <3> QED
      BY <1>1, <1>3, <3>2
  <2> QED
    BY <1>6, <2>1, <2>2
<1>11. ASSUME NEW e \in Made', NEW f \in Made', e.slot = f.slot PROVE e = f
  <2>1. ASSUME NEW x \in Made, NEW y \in ProduceEvents PROVE x.slot # y.slot
    <3>1. x.slot <= highest_parent_ready /\ y.slot > highest_parent_ready
      BY <1>0, ProducedIs DEF WindowsInv
    <3>2. x.slot \in Slots
      BY <1>0 DEF PoolTypeOK, Events, Made
    <3>3. x.slot \in Int
      BY <3>2, MaxSlotAssumption DEF Slots
    <3> QED
      BY <1>3, <3>1, <3>3
  <2>2. CASE e \in Made /\ f \in Made
    BY <1>0, <1>11, <2>2 DEF WindowsInv
  <2>3. CASE e \in ProduceEvents /\ f \in ProduceEvents
    <3>1. PICK b \in R : e = Event("ProduceWindow", h, {b}) /\ \A d \in R : BlockLeq(b, d)
      BY <2>3, ProducedIs
    <3>2. PICK c \in R : f = Event("ProduceWindow", h, {c}) /\ \A d \in R : BlockLeq(c, d)
      BY <2>3, ProducedIs
    <3>3. b = c
      BY <1>0, <3>1, <3>2, LeastParent
    <3> QED
      BY <3>1, <3>2, <3>3
  <2> QED
    BY <1>6, <1>11, <2>1, <2>2, <2>3
<1>12. /\ highest_parent_ready' # 0 => HasReady(highest_parent_ready)'
       /\ highest_parent_ready' \in LeaderSlots /\ highest_parent_ready' # 0 =>
             \/ \E f \in Made' : f.slot = highest_parent_ready'
             \/ \E t \in Slots : t > highest_parent_ready' /\ HasReady(t)'
  <2> HIDE DEF h
  <2>1. highest_parent_ready' # 0 => HasReady(highest_parent_ready)'
    BY <1>1, <1>8 DEF HasReady
  <2>2. highest_parent_ready' \in LeaderSlots /\ highest_parent_ready' # 0 =>
             \/ \E f \in Made' : f.slot = highest_parent_ready'
             \/ \E t \in Slots : t > highest_parent_ready' /\ HasReady(t)'
    BY <1>1, <1>4, <1>9
  <2> QED
    BY <2>1, <2>2
<1> HIDE DEF h, R
<1>13. \A e \in Raised' : e.kind = "ParentReady" => HasReady(e.slot)'
  BY <1>1, <1>7
<1>14. \A e \in sent' : e.kind = "ParentReady" => e.slot <= highest_parent_ready'
  BY <1>1, <1>7
<1>15. \A e \in Made' : /\ e.slot <= highest_parent_ready'
                        /\ e.block \subseteq Ready(certified_blocks', certified_skips', e.slot)
  BY <1>1, <1>10
<1>16. \A e, f \in Made' : e.slot = f.slot => e = f
  BY <1>11
<1> QED
  BY <1>12, <1>13, <1>14, <1>15, <1>16 DEF WindowsInv

\* A pass of the service keeps the invariant: it leaves votes and certificates.
LEMMA PassKeeps ==
    ASSUME PoolInv, NEW accepted \in SUBSET pending_safe_to_notar, Pass(accepted)
    PROVE  PoolInv'
<1>1. UNCHANGED <<votes, completed_certificates, my_first_vote, safe_to_notar_sent,
                  safe_to_skip_sent, last_pruned_slot, bank_root>>
  BY PassEffect DEF PoolInv
<1>2. PruneBounds' /\ Apart(votes') /\ SafeForReason'
  BY <1>1 DEF PoolInv, PruneBounds, SafeForReason
<1>3. CertificatesExact'
  BY <1>1 DEF PoolInv, CertificatesExact, NoDoubleCount, NoCertificateMissed
<1>4. SafeEventsComplete'
  BY <1>1 DEF PoolInv, SafeEventsComplete
<1>5. PoolTypeOK' /\ FinalizationExact' /\ NoSafeBlockLost' /\ RaisedBacked' /\ WaitInside' /\ WindowsInv'
  BY PassTypes, PassFinalization, PassWaiting, PassWindows
<1> QED
  BY <1>2, <1>3, <1>4, <1>5 DEF PoolInv

-----------------------------------------------------------------------------
(* The other steps, and the theorems                                         *)

\* A root that moves and a block that arrives change nothing the pool relies on.
LEMMA QuietKeeps ==
    ASSUME PoolInv,
           UNCHANGED <<poolVars, waiting, highest_parent_ready, events, sent>>,
           bank_root' \in NextRoots, received' \subseteq Blocks
    PROVE  PoolInv'
<1>0. PoolTypeOK /\ PruneBounds
  BY DEF PoolInv
<1>1. bank_root' \in Slots /\ last_pruned_slot <= bank_root'
  <2>1. bank_root' \in Nat /\ last_pruned_slot \in Nat /\ bank_root' >= last_pruned_slot
    BY <1>0, RootsGrow, BlockFacts DEF PoolTypeOK
  <2> QED
    BY <1>0, <2>1, RootsGrow
<1>2. /\ votes' = votes /\ completed_certificates' = completed_certificates
      /\ my_first_vote' = my_first_vote /\ safe_to_notar_sent' = safe_to_notar_sent
      /\ safe_to_skip_sent' = safe_to_skip_sent
      /\ pending_safe_to_notar' = pending_safe_to_notar
      /\ highest_finalized' = highest_finalized
      /\ certified_blocks' = certified_blocks /\ certified_skips' = certified_skips
      /\ last_pruned_slot' = last_pruned_slot
      /\ waiting' = waiting /\ highest_parent_ready' = highest_parent_ready
      /\ events' = events /\ sent' = sent
  BY DEF poolVars
<1>3. PoolTypeOK'
  BY <1>0, <1>1, <1>2 DEF PoolTypeOK
<1>4. PruneBounds'
  BY <1>0, <1>1, <1>2 DEF PruneBounds
<1>5. Apart(votes')
  BY <1>2 DEF PoolInv
<1>6. CertificatesExact'
  BY <1>2 DEF PoolInv, CertificatesExact, NoDoubleCount, NoCertificateMissed
<1>7. SafeEventsComplete' /\ SafeForReason'
  BY <1>2 DEF PoolInv, SafeEventsComplete, SafeForReason
<1>8. Raised' = Raised /\ Made' = Made /\ \A s : HasReady(s)' <=> HasReady(s)
  BY <1>2 DEF Raised, Made, HasReady
<1>9. FinalizationExact'
  BY <1>2, <1>8 DEF PoolInv, FinalizationExact
<1>10. NoSafeBlockLost' /\ RaisedBacked' /\ WaitInside'
  BY <1>2, <1>8 DEF PoolInv, NoSafeBlockLost, RaisedBacked, WaitInside
<1>11. WindowsInv'
  BY <1>2, <1>8 DEF PoolInv, WindowsInv, HasReady
<1> QED
  BY <1>3, <1>4, <1>5, <1>6, <1>7, <1>9, <1>10, <1>11 DEF PoolInv

\* The invariant holds at genesis.
LEMMA InitPoolInv == Init => PoolInv
<1> SUFFICES ASSUME Init PROVE PoolInv
  OBVIOUS
<1> DEFINE start == Event("ParentReady", 1, {Genesis})
<1>1. start \in Events /\ start.kind = "ParentReady" /\ start.slot = 1
  BY BlockFacts DEF Event, Events, EventKinds
<1>2. Raised = {start} /\ Made = {}
  BY DEF Init, Raised, Made
<1>3. PoolTypeOK
  <2>1. IsFiniteSet(votes)
    BY FS_EmptySet DEF Init
  <2>2. events \subseteq Events /\ \A e \in events : e.kind # "ProduceWindow"
    BY <1>1 DEF Init
  <2> QED
    BY <2>1, <2>2, BlockFacts DEF Init, PoolTypeOK
<1>4. PruneBounds /\ Apart(votes) /\ SafeForReason
  BY DEF Init, PruneBounds, Apart, SafeForReason
<1>5. CertificatesExact
  <2>1. NoDoubleCount
    BY DEF Init, NoDoubleCount
  <2>2. NoCertificateMissed
    <3>1. votes = {} /\ votes \in SUBSET (Validators \X Votes)
      BY DEF Init
    <3>2. \A w : Voters(votes, w) = {}
      BY <3>1 DEF Voters
    <3>3. \A c \in Certificates : ~ Complete(votes, c)
      BY <1>4, <3>1, <3>2, CompleteHasVotes
    <3> QED
      BY <3>3 DEF NoCertificateMissed
  <2> QED
    BY <2>1, <2>2 DEF CertificatesExact
<1>6. SafeEventsComplete
  BY DEF Init, SafeEventsComplete
<1>7. FinalizationExact
  <2>1. \A e \in Raised : e.kind # "Finalized"
    BY <1>1, <1>2
  <2>2. \A s, x : Event("Finalized", s, x) \notin Raised
    BY <2>1, Names
  <2> QED
    BY <2>1, <2>2 DEF Init, FinalizationExact
<1>8. NoSafeBlockLost /\ WaitInside
  BY DEF Init, NoSafeBlockLost, WaitInside
<1>9. RaisedBacked
  BY <1>1, <1>2 DEF RaisedBacked
<1>10. WindowsInv
  <2>1. HasReady(1)
    <3>1. Genesis \in certified_blocks /\ Genesis.slot < 1 /\ (Genesis.slot + 1)..(1 - 1) = {}
      BY BlockFacts DEF Init
    <3> QED
      BY <3>1 DEF HasReady, Ready, IsReady
  <2> HIDE DEF start
  <2>2. \A e \in Raised : HasReady(e.slot)
    BY <1>1, <1>2, <2>1
  <2> QED
    BY <1>2, <2>2 DEF Init, WindowsInv
<1> QED
  BY <1>3, <1>4, <1>5, <1>6, <1>7, <1>8, <1>9, <1>10 DEF PoolInv

\* Every step keeps the invariant.
LEMMA NextPoolInv == PoolInv /\ [Next]_vars => PoolInv'
<1> SUFFICES ASSUME PoolInv, [Next]_vars PROVE PoolInv'
  OBVIOUS
<1>0. PoolTypeOK /\ bank_root \in NextRoots
  BY DEF PoolInv, NextRoots
<1>1. ASSUME NEW p \in VoteInputs, AddVote(p[1], p[2]) PROVE PoolInv'
  <2>1. p[1] \in Validators /\ p[2] \in Votes
    BY PoolAssumption
  <2> QED
    BY <1>1, <2>1, AddVoteKeeps
<1>2. ASSUME NEW c \in CertInputs, AddCertificate(c) PROVE PoolInv'
  BY <1>2, AddCertificateKeeps
<1>3. CASE ServiceLoop
  <2>1. PICK accepted \in SUBSET pending_safe_to_notar : Pass(accepted)
    BY <1>3 DEF ServiceLoop
  <2> QED
    BY <2>1, PassKeeps
<1>4. CASE AdvanceRoot
  <2>1. /\ UNCHANGED <<poolVars, waiting, highest_parent_ready, events, sent>>
        /\ bank_root' \in NextRoots /\ received' = received
    BY <1>4 DEF AdvanceRoot
  <2> QED
    BY <1>0, <2>1, QuietKeeps DEF PoolTypeOK
<1>5. ASSUME NEW b \in Receivable, ReceiveBlock(b) PROVE PoolInv'
  <2>1. /\ UNCHANGED <<poolVars, waiting, highest_parent_ready, events, sent>>
        /\ bank_root' = bank_root /\ received' = received \union {b}
    BY <1>5 DEF ReceiveBlock
  <2>2. received' \subseteq Blocks
    BY <1>0, <2>1, PoolAssumption DEF PoolTypeOK
  <2> QED
    BY <1>0, <2>1, <2>2, QuietKeeps
<1>6. CASE UNCHANGED vars
  <2>1. /\ UNCHANGED <<poolVars, waiting, highest_parent_ready, events, sent>>
        /\ bank_root' = bank_root /\ received' = received
    BY <1>6 DEF vars
  <2> QED
    BY <1>0, <2>1, QuietKeeps DEF PoolTypeOK
<1> QED
  BY <1>1, <1>2, <1>3, <1>4, <1>5, <1>6 DEF Next

\* The inductive invariant of the pool and the service loop holds in every state.
THEOREM PoolInvariance == Spec => []PoolInv
  BY InitPoolInv, NextPoolInv, PTL DEF Spec

\* consensus_pool.rs update_certificates: the certificates held are those the votes
\* suffice for and those received; adding up two vote pools counts nobody twice.
THEOREM CertificatesCorrect == Spec => []CertificatesExact
<1>1. PoolInv => CertificatesExact
  BY DEF PoolInv
<1> QED
  BY <1>1, PoolInvariance, PTL

\* slot_stake_counters.rs add_vote: once this node has voted in a slot, everything
\* the votes make safe has been recorded, in whatever order the votes came.
THEOREM SafeEventsNeverMissed == Spec => []SafeEventsComplete
<1>1. PoolInv => SafeEventsComplete
  BY DEF PoolInv
<1> QED
  BY <1>1, PoolInvariance, PTL

\* slot_stake_counters.rs is_safe_to_notar and is_safe_to_skip: the thresholds rule out
\* a fast finalization of another block, and at most three blocks of a slot become safe.
THEOREM FallbacksNeverHarm == Spec => []FallbacksSafe
<1>1. PoolInv => FallbacksSafe
  BY ReasonsSuffice DEF PoolInv
<1> QED
  BY <1>1, PoolInvariance, PTL

\* consensus_pool.rs insert_certificate: Finalized is raised exactly when the
\* certificates suffice, and the best certificate of the highest slot is kept.
THEOREM FinalizationCorrect == Spec => []FinalizationExact
<1>1. PoolInv => FinalizationExact
  BY DEF PoolInv
<1> QED
  BY <1>1, PoolInvariance, PTL

\* consensus_pool_service.rs process_pending_safe_to_notar: no block that waits for
\* its parent is lost, and none is announced before its parent is certified.
THEOREM SafeBlocksNeverLost == Spec => []SafeBlocksHandled
<1>1. PoolInv => SafeBlocksHandled
  <2> SUFFICES ASSUME NoSafeBlockLost, RaisedBacked PROVE SafeToNotarBacked
    BY DEF PoolInv, SafeBlocksHandled
  <2> QED
    BY DEF RaisedBacked, SafeToNotarBacked, Raised, Immediate
<1> QED
  BY <1>1, PoolInvariance, PTL

\* consensus_pool_service.rs add_produce_block_event: every window of this leader that
\* was announced is produced, once and on a ready parent, or a later slot is ready.
THEOREM WindowsAlwaysProduced == Spec => []LeaderWindowsProduced
<1>1. PoolInv => LeaderWindowsProduced
  <2> SUFFICES ASSUME PoolTypeOK, WindowsInv PROVE LeaderWindowsProduced
    BY DEF PoolInv
  <2>1. ASSUME NEW e \in sent, e.kind = "ParentReady", e.slot \in LeaderSlots
        PROVE  \/ \E f \in Made : f.slot = e.slot
               \/ \E t \in Slots : t > e.slot /\ HasReady(t)
    <3>1. /\ HasReady(e.slot) /\ e.slot <= highest_parent_ready
          /\ highest_parent_ready # 0 => HasReady(highest_parent_ready)
          /\ highest_parent_ready \in LeaderSlots /\ highest_parent_ready # 0 =>
                \/ \E f \in Made : f.slot = highest_parent_ready
                \/ \E t \in Slots : t > highest_parent_ready /\ HasReady(t)
      BY <2>1 DEF WindowsInv, Raised
    <3>2. e \in Events
      BY <2>1 DEF PoolTypeOK
    <3>3. e.slot \in Slots /\ highest_parent_ready \in Slots
      BY <3>2 DEF Events, PoolTypeOK
    <3>4. e.slot \in Nat /\ highest_parent_ready \in Nat
      BY <3>3, BlockFacts
    <3>5. e.slot # 0
      <4>1. PICK b \in certified_blocks : b.slot < e.slot
        BY <3>1 DEF HasReady, Ready, IsReady
      <4>2. b.slot \in Nat
        BY BlockFacts DEF PoolTypeOK
      <4> QED
        BY <3>4, <4>1, <4>2
    <3>6. CASE e.slot = highest_parent_ready
      BY <2>1, <3>1, <3>5, <3>6
    <3>7. CASE e.slot < highest_parent_ready
      <4>1. highest_parent_ready # 0
        BY <3>4, <3>7
      <4> QED
        BY <3>1, <3>3, <3>4, <3>7, <4>1
    <3> QED
      BY <3>1, <3>4, <3>6, <3>7
  <2>2. \A e, f \in Made : e.slot = f.slot => e = f
    BY DEF WindowsInv
  <2>3. \A e \in Made : e.block \subseteq Ready(certified_blocks, certified_skips, e.slot)
    BY DEF WindowsInv
  <2> QED
    BY <2>1, <2>2, <2>3 DEF LeaderWindowsProduced, Made, HasReady
<1> QED
  BY <1>1, PoolInvariance, PTL

=============================================================================
