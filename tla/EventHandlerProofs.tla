------------------------- MODULE EventHandlerProofs -------------------------
(***************************************************************************)
(* The votes of one validator never exclude each other and each of them is *)
(* backed, the asserts of its handler hold, and it leaves no block behind  *)
(* that it has made votable: for every block tree, every number of slots,  *)
(* every size of a window and every order of the events.  The histories    *)
(* the node starts with or switches to are only asked to be consistent in  *)
(* themselves, and may have any root.                                      *)
(***************************************************************************)
EXTENDS EventHandler, WellFoundedInduction, TLAPS

\* The votes of all slots: try_skip_window may go past MaxSlot in the last window.
AllVotes == {BlockVote(t, b) : t \in BlockVoteTypes, b \in Blocks}
                \union {SlotVote(t, s) : t \in SlotVoteTypes, s \in Nat}

HistoryRecords ==
    [voted                : SUBSET Nat,
     voted_notar          : SUBSET Blocks,
     voted_notar_fallback : SUBSET Blocks,
     voted_skip_fallback  : SUBSET Nat,
     skipped              : SUBSET Nat,
     its_over             : SUBSET Nat,
     votes_cast           : SUBSET AllVotes,
     notarized_blocks     : SUBSET Blocks,
     parent_ready         : SUBSET (Nat \X Blocks),
     root                 : Nat]

\* The record a handler works on.
Locals ==
    [h         : HistoryRecords,
     pending   : SUBSET Blocks,
     finalized : SUBSET Blocks,
     received  : SUBSET Nat,
     timeouts  : SUBSET Nat,
     highest   : Nat \X (Blocks \union {Genesis}),
     switch    : SUBSET Blocks,
     root      : Nat \union {None},
     votes     : SUBSET AllVotes,
     failed    : Failures \union {Nothing}]

HandlerTypeOK ==
    /\ vote_history \in HistoryRecords
    /\ pending_blocks \subseteq Blocks /\ finalized_blocks \subseteq Blocks
    /\ received_shred \subseteq Nat /\ timeouts \subseteq Nat
    /\ highest_parent_ready \in Nat \X (Blocks \union {Genesis})
    /\ switch_request \subseteq Blocks
    /\ root_request \in Nat \union {None}
    /\ cast \subseteq AllVotes
    /\ block_events \subseteq Blocks
    /\ bank_root \in Nat
    /\ finalized \subseteq Blocks \union {Genesis} /\ Genesis \in finalized
    /\ standstill_slot \in Nat \union {None}
    /\ failed \in Failures \union {Nothing} /\ restored \in BOOLEAN

\* The maps of a history hold exactly what its votes say.
Tallied(h) ==
    /\ \A s \in Nat : s \in h.voted <=>
          \E v \in h.votes_cast : v.slot = s /\ v.type \in {"Notarize", "Skip"}
    /\ \A s \in Nat : s \in h.its_over <=>
          \E v \in h.votes_cast : v.slot = s /\ v.type = "Finalize"
    /\ \A s \in Nat : s \in h.skipped <=>
          \E v \in h.votes_cast : v.slot = s /\ v.type \in {"Skip", "SkipFallback", "NotarizeFallback"}
    /\ \A b \in Blocks : b \in h.voted_notar <=> BlockVote("Notarize", b) \in h.votes_cast

\* History h belongs to a validator that has cast the votes V: it holds those at
\* or above its root, no two votes exclude each other, and the first vote in a
\* slot was Notarize or Skip.
Sound(h, V) ==
    /\ V \subseteq AllVotes
    /\ Tallied(h)
    /\ h.votes_cast = {v \in V : v.slot >= h.root}
    /\ \A v, w \in V : ~ Equivocation(v, w)
    /\ \A v \in V : \E w \in V : w.slot = v.slot /\ w.type \in {"Notarize", "Skip"}

\* Votes in such a slot extend a block that is ready as a parent.
OpensChain(s) == FirstOfWindow(s) \/ s = 1

\* What a history knows to be certified is in C, and the votes V are backed.
Backed(h, V, C) ==
    /\ h.notarized_blocks \subseteq C
    /\ \A p \in h.parent_ready : OpensChain(p[1]) => p[2] \in C
    /\ \A v \in V : v.type = "Finalize" =>
          \E b \in C : BlockVote("Notarize", b) \in V /\ b.slot = v.slot
    /\ \A b \in Blocks : BlockVote("Notarize", b) \in V =>
          IF OpensChain(b.slot)
          THEN ParentOf[b] \in C
          ELSE ParentOf[b].slot + 1 = b.slot /\ BlockVote("Notarize", ParentOf[b]) \in V

\* The root of history h was voted on, and unless a later root was loaded under
\* them, the pending blocks P are not below it.
Anchored(h, P) ==
    /\ h.root = 0 \/ h.root \in h.voted
    /\ ~ restored => \A b \in P : b.slot >= h.root

\* Hypotheses on the histories that are loaded.  VoteHistory::set_root keeps all
\* votes of a slot or none and the root was voted on, so saved histories are
\* consistent; they are grounded if the root is not in the middle of a window.
Loaded == InitialHistories \union SwitchHistories
ConsistentHistories == \A h \in Loaded : Sound(h, h.votes_cast) /\ (h.root = 0 \/ h.root \in h.voted)
GroundedHistories   == \A h \in Loaded : Backed(h, h.votes_cast, Justifying(h))

\* Roots are finalized blocks, and a standstill is at the highest of them, not
\* below any root.
StandstillOk ==
    /\ finalized_blocks \subseteq finalized
    /\ root_request # None => \E f \in finalized : f.slot >= root_request
    /\ standstill_slot # None /\ ~ restored =>
          /\ \E f \in finalized : f.slot = standstill_slot
          /\ \A f \in finalized : f.slot <= standstill_slot
          /\ vote_history.root <= standstill_slot /\ bank_root <= standstill_slot

\* The inductive invariants.
HandlerInv ==
    /\ HandlerTypeOK
    /\ Sound(vote_history, cast) /\ Anchored(vote_history, pending_blocks)
    /\ StandstillOk
    /\ AssertsHold
BackedInv == Backed(vote_history, cast, certified)
InputsInv == inputs \in Inputs

\* The finalized blocks and roots in the middle of a handler come from the blocks F.
Follows(c, F) ==
    /\ c.finalized \subseteq F
    /\ c.root # None => \E f \in F : f.slot >= c.root
    /\ c.h.root # vote_history.root => \E f \in F : f.slot = c.h.root

\* The same in the middle of a handler, as long as no assert has failed.
SoundAt(c) ==
    /\ c.failed # "AddVote" /\ c.failed # "Standstill" /\ (c.failed = "BelowRoot" => restored)
    /\ Ok(c) => /\ Sound(c.h, cast \union c.votes)
                /\ Anchored(c.h, c.pending)
                /\ Follows(c, finalized')
BackedAt(c, C) == Ok(c) => Backed(c.h, cast \union c.votes, C)

\* A pending block that can be voted on could be before the handler ran.
SettledAt(c) ==
    Ok(c) => \A b \in c.pending : CanNotar(c.h, {}, b) =>
                b \in pending_blocks /\ CanNotar(vote_history, {}, b)

-----------------------------------------------------------------------------
(* Votes and histories                                                       *)

\* What a vote is.
LEMMA VoteIs ==
    /\ \A b \in Blocks : b.slot \in Nat /\ ParentOf[b] \in Blocks
    /\ \A v \in AllVotes : /\ v.slot \in Nat
                           /\ v.type \in {"Notarize", "NotarizeFallback", "Finalize", "Skip", "SkipFallback"}
                           /\ v.type \in BlockVoteTypes => \E b \in Blocks : v = BlockVote(v.type, b)
    /\ \A t \in BlockVoteTypes, b \in Blocks :
          /\ BlockVote(t, b) \in AllVotes /\ BlockVote(t, b).slot = b.slot
          /\ BlockVote(t, b).type = t /\ BlockVote(t, b).block = {b}
    /\ \A t \in SlotVoteTypes, s \in Nat :
          /\ SlotVote(t, s) \in AllVotes /\ SlotVote(t, s).slot = s
          /\ SlotVote(t, s).type = t /\ SlotVote(t, s).block = {}
<1>1. \A b \in Blocks : b.slot \in Nat /\ ParentOf[b] \in Blocks
  BY BlocksAssumption, MaxSlotAssumption, ParentOfAssumption DEF Slots
<1>2. \A t, b : BlockVote(t, b).slot = b.slot /\ BlockVote(t, b).type = t /\ BlockVote(t, b).block = {b}
  BY DEF BlockVote
<1>3. \A t, s : SlotVote(t, s).slot = s /\ SlotVote(t, s).type = t /\ SlotVote(t, s).block = {}
  BY DEF SlotVote
<1>4. ASSUME NEW v \in AllVotes
      PROVE  /\ v.slot \in Nat
             /\ v.type \in {"Notarize", "NotarizeFallback", "Finalize", "Skip", "SkipFallback"}
             /\ v.type \in BlockVoteTypes => \E b \in Blocks : v = BlockVote(v.type, b)
  <2>1. CASE \E t \in BlockVoteTypes, b \in Blocks : v = BlockVote(t, b)
    BY <1>1, <1>2, <2>1 DEF BlockVoteTypes
  <2>2. CASE \E t \in SlotVoteTypes, s \in Nat : v = SlotVote(t, s)
    BY <1>3, <2>2 DEF SlotVoteTypes, BlockVoteTypes
  <2> QED
    BY <2>1, <2>2 DEF AllVotes
<1>5. /\ \A t \in BlockVoteTypes, b \in Blocks : BlockVote(t, b) \in AllVotes
      /\ \A t \in SlotVoteTypes, s \in Nat : SlotVote(t, s) \in AllVotes
  BY DEF AllVotes
<1> QED
  BY <1>1, <1>2, <1>3, <1>4, <1>5

\* Votes exclude each other mutually, in one slot only, and never themselves.
LEMMA EquivocationIs ==
    ASSUME NEW v \in AllVotes, NEW w \in AllVotes
    PROVE  /\ Equivocation(v, w) => v.slot = w.slot
           /\ Equivocation(v, w) => Equivocation(w, v)
           /\ ~ Equivocation(v, v)
           /\ v.type = "Finalize" => (Equivocation(v, w) =>
                                        w.type \in {"NotarizeFallback", "Skip", "SkipFallback"})
           /\ v.type = "SkipFallback" => (Equivocation(v, w) => w.type \in {"Finalize", "Skip"})
           /\ v.type = "NotarizeFallback" =>
                (Equivocation(v, w) => w.type = "Finalize" \/ (w.type = "Notarize" /\ v.block = w.block))
           /\ v.type = "Notarize" /\ w.type = "Skip" /\ v.slot = w.slot /\ w.block = {} => Equivocation(v, w)
<1>1. /\ v.type \in {"Notarize", "NotarizeFallback", "Finalize", "Skip", "SkipFallback"}
      /\ w.type \in {"Notarize", "NotarizeFallback", "Finalize", "Skip", "SkipFallback"}
  BY VoteIs
<1>2. w.type \in ConflictingTypes(v.type) <=> v.type \in ConflictingTypes(w.type)
  BY <1>1 DEF ConflictingTypes
<1>3. v.type \notin ConflictingTypes(v.type)
  BY <1>1 DEF ConflictingTypes
<1>4. /\ v.type = "Finalize" => ConflictingTypes(v.type) = {"NotarizeFallback", "Skip", "SkipFallback"}
      /\ v.type = "SkipFallback" => ConflictingTypes(v.type) = {"Skip", "Finalize"}
      /\ v.type = "NotarizeFallback" => ConflictingTypes(v.type) = {"Finalize", "Notarize"}
      /\ v.type = "Notarize" => ConflictingTypes(v.type) = {"Skip", "NotarizeFallback"}
  BY DEF ConflictingTypes
<1>5. v.type = "NotarizeFallback" /\ w.type = "Notarize" => v.block # {} /\ w.block # {}
  <2>1. \A t, b : BlockVote(t, b).block # {}
    BY DEF BlockVote
  <2>2. /\ v.type = "NotarizeFallback" => \E b \in Blocks : v = BlockVote(v.type, b)
        /\ w.type = "Notarize" => \E b \in Blocks : w = BlockVote(w.type, b)
    BY VoteIs DEF BlockVoteTypes
  <2> QED
    BY <2>1, <2>2
<1> QED
  BY <1>1, <1>2, <1>3, <1>4, <1>5 DEF Equivocation, Conflicting

\* What a history holds after votes were added.
LEMMA AddVotesIs ==
    ASSUME NEW h \in HistoryRecords, NEW W, W \subseteq AllVotes
    PROVE  /\ AddVotes(h, W) \in HistoryRecords
           /\ AddVotes(h, W).votes_cast = h.votes_cast \union W
           /\ AddVotes(h, W).root = h.root
           /\ AddVotes(h, W).notarized_blocks = h.notarized_blocks
           /\ AddVotes(h, W).parent_ready = h.parent_ready
           /\ \A s \in Nat : s \in AddVotes(h, W).voted <=>
                s \in h.voted \/ \E w \in W : w.slot = s /\ w.type \in {"Notarize", "Skip"}
           /\ \A s \in Nat : s \in AddVotes(h, W).its_over <=>
                s \in h.its_over \/ \E w \in W : w.slot = s /\ w.type = "Finalize"
           /\ \A s \in Nat : s \in AddVotes(h, W).skipped <=>
                \/ s \in h.skipped
                \/ \E w \in W : w.slot = s /\ w.type \in {"Skip", "SkipFallback", "NotarizeFallback"}
           /\ \A b \in Blocks : b \in AddVotes(h, W).voted_notar <=>
                b \in h.voted_notar \/ BlockVote("Notarize", b) \in W
<1> DEFINE A == SlotsOf(OfType(W, "Notarize") \union OfType(W, "Skip"))
           B == BlocksOf(OfType(W, "Notarize"))
           F == SlotsOf(OfType(W, "Finalize"))
           S == SlotsOf(OfType(W, "Skip") \union OfType(W, "SkipFallback") \union OfType(W, "NotarizeFallback"))
           N == BlocksOf(OfType(W, "NotarizeFallback"))
           K == SlotsOf(OfType(W, "SkipFallback"))
<1>1. \A s : /\ s \in A <=> \E w \in W : w.slot = s /\ w.type \in {"Notarize", "Skip"}
             /\ s \in F <=> \E w \in W : w.slot = s /\ w.type = "Finalize"
             /\ s \in K <=> \E w \in W : w.slot = s /\ w.type = "SkipFallback"
             /\ s \in S <=> \E w \in W : w.slot = s /\ w.type \in {"Skip", "SkipFallback", "NotarizeFallback"}
  BY DEF SlotsOf, OfType
<1>2. \A b : /\ b \in B <=> \E w \in W : w.type = "Notarize" /\ b \in w.block
             /\ b \in N <=> \E w \in W : w.type = "NotarizeFallback" /\ b \in w.block
  BY DEF BlocksOf, OfType
<1>3. AddVotes(h, W) = [h EXCEPT !.voted = @ \union A, !.voted_notar = @ \union B, !.its_over = @ \union F,
                                 !.skipped = @ \union S, !.voted_notar_fallback = @ \union N,
                                 !.voted_skip_fallback = @ \union K, !.votes_cast = @ \union W]
  BY DEF AddVotes
<1> HIDE DEF A, B, F, S, N, K
<1>4. /\ A \subseteq Nat /\ F \subseteq Nat /\ K \subseteq Nat /\ S \subseteq Nat
  <2>1. \A w \in W : w.slot \in Nat
    BY VoteIs
  <2> QED
    BY <1>1, <2>1
<1>5. \A w \in W : w.type \in BlockVoteTypes => \E b \in Blocks : w = BlockVote(w.type, b) /\ w.block = {b}
  BY VoteIs
<1>6. B \subseteq Blocks /\ N \subseteq Blocks
  BY <1>2, <1>5 DEF BlockVoteTypes
<1>7. \A b \in Blocks : b \in B <=> BlockVote("Notarize", b) \in W
  <2>1. ASSUME NEW b \in Blocks, b \in B PROVE BlockVote("Notarize", b) \in W
    <3>1. PICK w \in W : w.type = "Notarize" /\ b \in w.block
      BY <1>2, <2>1
    <3> QED
      BY <1>5, <3>1 DEF BlockVoteTypes
  <2>2. ASSUME NEW b \in Blocks, BlockVote("Notarize", b) \in W PROVE b \in B
    <3>1. BlockVote("Notarize", b).type = "Notarize" /\ b \in BlockVote("Notarize", b).block
      BY DEF BlockVote
    <3> QED
      BY <1>2, <2>2, <3>1
  <2> QED
    BY <2>1, <2>2
<1>8. AddVotes(h, W) \in HistoryRecords
  <2>1. /\ h.voted \union A \in SUBSET Nat /\ h.voted_notar \union B \in SUBSET Blocks
        /\ h.its_over \union F \in SUBSET Nat /\ h.skipped \union S \in SUBSET Nat
        /\ h.voted_notar_fallback \union N \in SUBSET Blocks
        /\ h.voted_skip_fallback \union K \in SUBSET Nat
        /\ h.votes_cast \union W \in SUBSET AllVotes
        /\ h.notarized_blocks \in SUBSET Blocks /\ h.root \in Nat
        /\ h.parent_ready \in SUBSET (Nat \X Blocks)
    BY <1>4, <1>6 DEF HistoryRecords
  <2>2. AddVotes(h, W) = [voted |-> h.voted \union A, voted_notar |-> h.voted_notar \union B,
                          voted_notar_fallback |-> h.voted_notar_fallback \union N,
                          voted_skip_fallback |-> h.voted_skip_fallback \union K,
                          skipped |-> h.skipped \union S, its_over |-> h.its_over \union F,
                          votes_cast |-> h.votes_cast \union W,
                          notarized_blocks |-> h.notarized_blocks,
                          parent_ready |-> h.parent_ready, root |-> h.root]
    BY <1>3 DEF HistoryRecords
  <2> QED
    BY <2>1, <2>2 DEF HistoryRecords
<1>9. /\ AddVotes(h, W).voted = h.voted \union A
      /\ AddVotes(h, W).voted_notar = h.voted_notar \union B
      /\ AddVotes(h, W).its_over = h.its_over \union F
      /\ AddVotes(h, W).skipped = h.skipped \union S
      /\ AddVotes(h, W).votes_cast = h.votes_cast \union W
      /\ AddVotes(h, W).root = h.root
      /\ AddVotes(h, W).notarized_blocks = h.notarized_blocks
      /\ AddVotes(h, W).parent_ready = h.parent_ready
  BY <1>3 DEF HistoryRecords
<1> QED
  BY <1>1, <1>7, <1>8, <1>9

\* Votes at or above the root that exclude none of the others may be added.
LEMMA AddSound ==
    ASSUME NEW h \in HistoryRecords, NEW V, Sound(h, V), NEW W, W \subseteq AllVotes,
           \A w \in W : w.slot >= h.root,
           \A w \in W : \A v \in V \union W : ~ Equivocation(w, v),
           \A w \in W : \E u \in V \union W : u.slot = w.slot /\ u.type \in {"Notarize", "Skip"}
    PROVE  Sound(AddVotes(h, W), V \union W)
<1> DEFINE g == AddVotes(h, W)
<1>1. /\ g.votes_cast = h.votes_cast \union W /\ g.root = h.root
      /\ \A s \in Nat : s \in g.voted <=>
                s \in h.voted \/ \E w \in W : w.slot = s /\ w.type \in {"Notarize", "Skip"}
      /\ \A s \in Nat : s \in g.its_over <=>
                s \in h.its_over \/ \E w \in W : w.slot = s /\ w.type = "Finalize"
      /\ \A s \in Nat : s \in g.skipped <=>
                \/ s \in h.skipped
                \/ \E w \in W : w.slot = s /\ w.type \in {"Skip", "SkipFallback", "NotarizeFallback"}
      /\ \A b \in Blocks : b \in g.voted_notar <=>
                b \in h.voted_notar \/ BlockVote("Notarize", b) \in W
  BY AddVotesIs
<1> HIDE DEF g
<1>2. /\ V \subseteq AllVotes /\ Tallied(h) /\ h.votes_cast = {v \in V : v.slot >= h.root}
      /\ \A v, w \in V : ~ Equivocation(v, w)
      /\ \A v \in V : \E w \in V : w.slot = v.slot /\ w.type \in {"Notarize", "Skip"}
  BY DEF Sound
<1>3. Tallied(g)
  <2>1. \A s \in Nat : s \in g.voted <=>
          \E v \in g.votes_cast : v.slot = s /\ v.type \in {"Notarize", "Skip"}
    BY <1>1, <1>2 DEF Tallied
  <2>2. \A s \in Nat : s \in g.its_over <=> \E v \in g.votes_cast : v.slot = s /\ v.type = "Finalize"
    BY <1>1, <1>2 DEF Tallied
  <2>3. \A s \in Nat : s \in g.skipped <=>
          \E v \in g.votes_cast : v.slot = s /\ v.type \in {"Skip", "SkipFallback", "NotarizeFallback"}
    BY <1>1, <1>2 DEF Tallied
  <2>4. \A b \in Blocks : b \in g.voted_notar <=> BlockVote("Notarize", b) \in g.votes_cast
    BY <1>1, <1>2 DEF Tallied
  <2> QED
    BY <2>1, <2>2, <2>3, <2>4 DEF Tallied
<1>4. g.votes_cast = {v \in V \union W : v.slot >= g.root}
  BY <1>1, <1>2
<1>5. \A v, w \in V \union W : ~ Equivocation(v, w)
  <2>1. \A v \in V, w \in W : ~ Equivocation(v, w)
    <3>1. \A v \in V, w \in W : Equivocation(v, w) => Equivocation(w, v)
      BY <1>2, EquivocationIs
    <3> QED
      BY <3>1
  <2> QED
    BY <1>2, <2>1
<1>6. \A v \in V \union W : \E w \in V \union W : w.slot = v.slot /\ w.type \in {"Notarize", "Skip"}
  BY <1>2
<1> QED
  BY <1>2, <1>3, <1>4, <1>5, <1>6 DEF Sound, g

\* What the maps of a sound history say about the votes cast.
LEMMA SoundReads ==
    ASSUME NEW h, NEW V, Sound(h, V), NEW s \in Nat
    PROVE  /\ s >= h.root /\ s \notin h.voted => \A v \in V : v.slot # s
           /\ s \in h.voted => \E w \in V : w.slot = s /\ w.type \in {"Notarize", "Skip"}
           /\ s >= h.root /\ s \notin h.its_over => \A v \in V : v.slot = s => v.type # "Finalize"
           /\ s >= h.root /\ s \notin h.skipped =>
                \A v \in V : v.slot = s => v.type \notin {"Skip", "SkipFallback", "NotarizeFallback"}
           /\ \A b \in Blocks : b \in h.voted_notar => BlockVote("Notarize", b) \in V
<1>1. /\ V \subseteq AllVotes /\ Tallied(h) /\ h.votes_cast = {v \in V : v.slot >= h.root}
      /\ \A v \in V : \E w \in V : w.slot = v.slot /\ w.type \in {"Notarize", "Skip"}
  BY DEF Sound
<1>2. s >= h.root /\ s \notin h.voted => \A v \in V : v.slot # s
  BY <1>1 DEF Tallied
<1>3. s \in h.voted => \E w \in V : w.slot = s /\ w.type \in {"Notarize", "Skip"}
  BY <1>1 DEF Tallied
<1>4. s >= h.root /\ s \notin h.its_over => \A v \in V : v.slot = s => v.type # "Finalize"
  BY <1>1 DEF Tallied
<1>5. s >= h.root /\ s \notin h.skipped =>
        \A v \in V : v.slot = s => v.type \notin {"Skip", "SkipFallback", "NotarizeFallback"}
  BY <1>1 DEF Tallied
<1>6. \A b \in Blocks : b \in h.voted_notar => BlockVote("Notarize", b) \in V
  BY <1>1 DEF Tallied
<1> QED
  BY <1>2, <1>3, <1>4, <1>5, <1>6

-----------------------------------------------------------------------------
(* The calls of a handler                                                    *)

\* An assert on the way only stops the handler.
LEMMA CheckIs ==
    ASSUME NEW c \in Locals, NEW kind \in Failures, NEW a \in BOOLEAN
    PROVE  /\ Check(c, kind, a) \in Locals
           /\ Check(c, kind, a).failed = IF c.failed = Nothing /\ ~ a THEN kind ELSE c.failed
           /\ Check(c, kind, a).h = c.h /\ Check(c, kind, a).votes = c.votes
           /\ Check(c, kind, a).pending = c.pending /\ Check(c, kind, a).finalized = c.finalized
           /\ Check(c, kind, a).root = c.root
           /\ Ok(Check(c, kind, a)) <=> Ok(c) /\ a
           /\ kind # Nothing
<1> DEFINE x == IF c.failed = Nothing /\ ~ a THEN kind ELSE c.failed
           d == [c EXCEPT !.failed = x]
<1>1. x \in Failures \union {Nothing}
  BY DEF Locals
<1>2. Check(c, kind, a) = d
  BY DEF Check
<1>3. kind # Nothing
  BY DEF Failures, Nothing
<1> HIDE DEF x
<1>4. /\ d \in Locals /\ d.failed = x /\ d.h = c.h /\ d.votes = c.votes /\ d.pending = c.pending
      /\ d.finalized = c.finalized /\ d.root = c.root
  BY <1>1 DEF Locals
<1>5. x = Nothing <=> c.failed = Nothing /\ a
  BY <1>3 DEF x
<1> HIDE DEF d
<1> QED
  BY <1>2, <1>3, <1>4, <1>5 DEF Ok, x

\* insert_vote_and_create_bls_message touches the history and the votes.
LEMMA InsertIs ==
    ASSUME NEW c \in Locals, NEW W, W \subseteq AllVotes, NEW a \in BOOLEAN
    PROVE  /\ Insert(c, W, a) \in Locals
           /\ Insert(c, W, a).h = AddVotes(c.h, W)
           /\ Insert(c, W, a).votes = c.votes \union W
           /\ Insert(c, W, a).failed = IF c.failed = Nothing /\ ~ a THEN "AddVote" ELSE c.failed
           /\ Ok(Insert(c, W, a)) <=> Ok(c) /\ a
           /\ Insert(c, W, a).pending = c.pending
           /\ Insert(c, W, a).finalized = c.finalized
           /\ Insert(c, W, a).root = c.root
<1> DEFINE k  == Check(c, "AddVote", a)
           g  == AddVotes(c.h, W)
           W1 == c.votes \union W
           d  == [k EXCEPT !.h = g, !.votes = W1]
<1>1. /\ k \in Locals /\ k.h = c.h /\ k.votes = c.votes /\ k.pending = c.pending
      /\ k.finalized = c.finalized /\ k.root = c.root
      /\ k.failed = IF c.failed = Nothing /\ ~ a THEN "AddVote" ELSE c.failed
      /\ Ok(k) <=> Ok(c) /\ a
  <2>1. "AddVote" \in Failures
    BY DEF Failures
  <2> QED
    BY <2>1, CheckIs
<1>2. Insert(c, W, a) = d
  BY <1>1 DEF Insert
<1>3. g \in HistoryRecords /\ W1 \in SUBSET AllVotes
  <2>1. c.h \in HistoryRecords /\ c.votes \in SUBSET AllVotes
    BY DEF Locals
  <2> QED
    BY <2>1, AddVotesIs
<1> HIDE DEF k, g, W1
<1>4. /\ d \in Locals /\ d.h = g /\ d.votes = W1 /\ d.pending = k.pending
      /\ d.finalized = k.finalized /\ d.root = k.root /\ d.failed = k.failed
  BY <1>1, <1>3 DEF Locals
<1> HIDE DEF d
<1> QED
  BY <1>1, <1>2, <1>4 DEF g, W1, Ok

\* Votes that extend sound and backed ones, put in by Insert.
LEMMA InsertKeeps ==
    ASSUME NEW c \in Locals, NEW W, W \subseteq AllVotes, NEW a \in BOOLEAN, SoundAt(c), NEW C,
           ASSUME Ok(c), Sound(c.h, cast \union c.votes)
           PROVE  /\ a
                  /\ \A w \in W : w.slot >= c.h.root
                  /\ \A w \in W : \A v \in cast \union c.votes \union W : ~ Equivocation(w, v)
                  /\ \A w \in W : \E u \in cast \union c.votes \union W :
                        u.slot = w.slot /\ u.type \in {"Notarize", "Skip"},
           \A w \in W : w.type # "Notarize",
           ASSUME Ok(c), BackedAt(c, C)
           PROVE  \A w \in W : w.type = "Finalize" =>
                    \E b \in c.h.notarized_blocks : BlockVote("Notarize", b) \in cast \union c.votes
                                                    /\ b.slot = w.slot
    PROVE  /\ Insert(c, W, a) \in Locals
           /\ SoundAt(Insert(c, W, a))
           /\ BackedAt(c, C) => BackedAt(Insert(c, W, a), C)
           /\ SettledAt(c) => SettledAt(Insert(c, W, a))
<1> DEFINE d == Insert(c, W, a)
           V == cast \union c.votes
<1>0. c.h \in HistoryRecords
  BY DEF Locals
<1>1. /\ d \in Locals /\ d.h = AddVotes(c.h, W) /\ d.votes = c.votes \union W
      /\ Ok(d) <=> Ok(c) /\ a
      /\ d.failed = IF c.failed = Nothing /\ ~ a THEN "AddVote" ELSE c.failed
      /\ d.pending = c.pending /\ d.finalized = c.finalized /\ d.root = c.root
  BY InsertIs
<1>2. cast \union d.votes = V \union W
  BY <1>1
<1>3. /\ d.h.notarized_blocks = c.h.notarized_blocks /\ d.h.parent_ready = c.h.parent_ready
      /\ d.h.root = c.h.root
      /\ \A s \in Nat : s \in c.h.voted => s \in d.h.voted
      /\ \A b \in Blocks : b \in d.h.voted_notar => b \in c.h.voted_notar \/ BlockVote("Notarize", b) \in W
  BY <1>0, <1>1, AddVotesIs
<1>4. \A b \in Blocks : BlockVote("Notarize", b) \notin W
  BY DEF BlockVote
<1> HIDE DEF d
<1>5. SoundAt(d)
  <2>1. CASE ~ Ok(c)
    BY <1>1, <2>1 DEF SoundAt, Ok
  <2>2. CASE Ok(c)
    <3>1. Sound(c.h, V) /\ Anchored(c.h, c.pending) /\ Follows(c, finalized')
      BY <2>2 DEF SoundAt
    <3>2. /\ a
          /\ \A w \in W : w.slot >= c.h.root
          /\ \A w \in W : \A v \in V \union W : ~ Equivocation(w, v)
          /\ \A w \in W : \E u \in V \union W : u.slot = w.slot /\ u.type \in {"Notarize", "Skip"}
      BY <2>2, <3>1
    <3>3. Ok(d) /\ d.failed = c.failed
      BY <1>1, <2>2, <3>2
    <3>4. Anchored(d.h, d.pending)
      <4>1. c.h.root \in Nat
        BY <1>0 DEF HistoryRecords
      <4> QED
        BY <1>1, <1>3, <3>1, <4>1 DEF Anchored
    <3>5. Follows(d, finalized')
      BY <1>1, <1>3, <3>1 DEF Follows
    <3> HIDE DEF V
    <3>6. Sound(d.h, cast \union d.votes)
      BY <1>0, <1>1, <1>2, <3>1, <3>2, AddSound
    <3> QED
      BY <3>3, <3>4, <3>5, <3>6 DEF SoundAt
  <2> QED
    BY <2>1, <2>2
<1>6. ASSUME BackedAt(c, C) PROVE BackedAt(d, C)
  <2> SUFFICES ASSUME Ok(d) PROVE Backed(d.h, V \union W, C)
    BY <1>2 DEF BackedAt
  <2>1. Ok(c) /\ a /\ Backed(c.h, V, C)
    BY <1>1, <1>6 DEF BackedAt
  <2>2. \A w \in W : w.type = "Finalize" =>
          \E b \in c.h.notarized_blocks : BlockVote("Notarize", b) \in V /\ b.slot = w.slot
    BY <1>6, <2>1
  <2> HIDE DEF V
  <2> QED
    BY <1>3, <1>4, <2>1, <2>2 DEF Backed
<1>7. ASSUME SettledAt(c) PROVE SettledAt(d)
  <2> SUFFICES ASSUME Ok(d), NEW b \in d.pending, CanNotar(d.h, {}, b)
               PROVE  b \in pending_blocks /\ CanNotar(vote_history, {}, b)
    BY DEF SettledAt
  <2>1. Ok(c) /\ b \in c.pending /\ b \in Blocks
    BY <1>1 DEF Locals
  <2>2. b.slot \in Nat /\ ParentOf[b] \in Blocks
    BY <2>1, VoteIs
  <2>3. CanNotar(c.h, {}, b)
    BY <1>3, <1>4, <2>1, <2>2 DEF CanNotar
  <2> QED
    BY <1>7, <2>1, <2>3 DEF SettledAt
<1> QED
  BY <1>1, <1>5, <1>6, <1>7 DEF d

\* Notarize votes with the finalize votes they make possible: try_notar, try_final.
LEMMA NotarizeKeeps ==
    ASSUME NEW c \in Locals, SoundAt(c), NEW C, NEW N \in SUBSET Blocks,
           \A b, d \in N : b.slot = d.slot => b = d,
           \A b \in N : CanNotar(c.h, N, b),
           Ok(c) => \A b \in N : Readable(c.h, b.slot)
    PROVE  /\ Notarize(c, N) \in Locals
           /\ SoundAt(Notarize(c, N))
           /\ BackedAt(c, C) => BackedAt(Notarize(c, N), C)
           /\ (\A b \in c.pending : CanNotar(c.h, N, b) => \E d \in N : d.slot = b.slot)
                => SettledAt(Notarize(c, N))
           /\ Notarize(c, N).pending \subseteq c.pending
<1> DEFINE notars == {BlockVote("Notarize", b) : b \in N}
           h1     == AddVotes(c.h, notars)
           finals == {SlotVote("Finalize", b.slot) : b \in {d \in N : CanFinal(h1, d)}}
           W      == notars \union finals
           a      == /\ \A b \in N : NotarizeAssert(c.h, b.slot)
                     /\ \A v \in finals : FinalizeAssert(h1, v.slot)
           e      == Insert(c, W, a)
           r      == Notarize(c, N)
           V      == cast \union c.votes
<1>0. c.h \in HistoryRecords /\ c.h.root \in Nat /\ c.pending \subseteq Blocks
  BY DEF Locals, HistoryRecords
<1>1. \A b \in N : b \in Blocks /\ b.slot \in Nat /\ ParentOf[b] \in Blocks
  BY VoteIs
<1>2. \A v : v \in notars <=> \E b \in N : v = BlockVote("Notarize", b)
  OBVIOUS
<1>3. \A v : v \in finals <=> \E b \in N : CanFinal(h1, b) /\ v = SlotVote("Finalize", b.slot)
  OBVIOUS
<1>4. \A b \in N : /\ BlockVote("Notarize", b) \in AllVotes /\ BlockVote("Notarize", b).slot = b.slot
                   /\ BlockVote("Notarize", b).type = "Notarize"
                   /\ SlotVote("Finalize", b.slot) \in AllVotes /\ SlotVote("Finalize", b.slot).slot = b.slot
                   /\ SlotVote("Finalize", b.slot).type = "Finalize"
  BY <1>1, VoteIs DEF BlockVoteTypes, SlotVoteTypes
<1>5. a \in BOOLEAN
  OBVIOUS
<1>6. r = [e EXCEPT !.pending = {b \in @ : \A d \in N : d.slot # b.slot}]
  BY DEF Notarize
<1>7. /\ \A b \in N : NotarizeAssert(c.h, b.slot)
      /\ \A b \in N : CanFinal(h1, b) => FinalizeAssert(h1, b.slot)
      => a
  BY DEF SlotVote
<1> HIDE DEF a, notars, finals
<1>8. notars \subseteq AllVotes /\ W \subseteq AllVotes
  BY <1>2, <1>3, <1>4
<1>9. /\ e \in Locals /\ e.h = AddVotes(c.h, W) /\ e.votes = c.votes \union W
      /\ Ok(e) <=> Ok(c) /\ a
      /\ e.failed = IF c.failed = Nothing /\ ~ a THEN "AddVote" ELSE c.failed
      /\ e.pending = c.pending /\ e.finalized = c.finalized /\ e.root = c.root
  <2> HIDE DEF W
  <2> QED
    BY <1>5, <1>8, InsertIs
<1>10. /\ h1.notarized_blocks = c.h.notarized_blocks /\ h1.root = c.h.root
       /\ e.h \in HistoryRecords /\ e.h.root = c.h.root
       /\ e.h.notarized_blocks = c.h.notarized_blocks /\ e.h.parent_ready = c.h.parent_ready
       /\ \A s \in Nat : s \in e.h.voted <=>
                s \in c.h.voted \/ \E w \in W : w.slot = s /\ w.type \in {"Notarize", "Skip"}
       /\ \A b \in Blocks : b \in e.h.voted_notar <=> b \in c.h.voted_notar \/ BlockVote("Notarize", b) \in W
  <2> HIDE DEF W, e
  <2>1. h1.notarized_blocks = c.h.notarized_blocks /\ h1.root = c.h.root
    BY <1>0, <1>8, AddVotesIs
  <2> HIDE DEF h1
  <2> QED
    BY <1>0, <1>8, <1>9, <2>1, AddVotesIs
<1>11. ASSUME NEW b \in Blocks, BlockVote("Notarize", b) \in W PROVE b \in N
  <2>1. BlockVote("Notarize", b).type = "Notarize" /\ BlockVote("Notarize", b).block = {b}
    BY DEF BlockVote
  <2>2. BlockVote("Notarize", b) \in notars
    BY <1>3, <1>4, <1>11, <2>1
  <2>3. PICK d \in N : BlockVote("Notarize", b) = BlockVote("Notarize", d)
    BY <1>2, <2>2
  <2>4. {b} = {d}
    BY <2>3 DEF BlockVote
  <2> QED
    BY <2>4
<1> HIDE DEF e, h1
<1>12. /\ r \in Locals /\ r.h = e.h /\ r.votes = e.votes /\ r.failed = e.failed /\ (Ok(r) <=> Ok(e))
       /\ r.finalized = e.finalized /\ r.root = e.root
       /\ r.pending = {b \in c.pending : \A d \in N : d.slot # b.slot}
  <2>1. {b \in c.pending : \A d \in N : d.slot # b.slot} \in SUBSET Blocks
    BY <1>0
  <2> HIDE DEF r
  <2> QED
    BY <1>6, <1>9, <2>1 DEF Locals, Ok
<1> HIDE DEF r
<1>17. ASSUME Ok(c), Sound(c.h, V) PROVE a
  <2>1. \A b \in N : b.slot >= c.h.root /\ b.slot \notin c.h.voted
    BY <1>17 DEF Readable, CanNotar
  <2>2. \A d \in c.h.voted_notar : d \in Blocks /\ d.slot \in Nat /\ d.slot \in c.h.voted
    <3>1. \A d \in c.h.voted_notar : d \in Blocks
      BY <1>0 DEF HistoryRecords
    <3>2. ASSUME NEW d \in Blocks, d \in c.h.voted_notar PROVE d.slot \in Nat /\ d.slot \in c.h.voted
      <4>1. BlockVote("Notarize", d) \in c.h.votes_cast
        BY <1>17, <3>2 DEF Sound, Tallied
      <4>2. d.slot \in Nat /\ BlockVote("Notarize", d).slot = d.slot /\ BlockVote("Notarize", d).type = "Notarize"
        BY VoteIs DEF BlockVote
      <4> QED
        BY <1>17, <4>1, <4>2 DEF Sound, Tallied
    <3> QED
      BY <3>1, <3>2
  <2>3. \A b \in N : NotarizeAssert(c.h, b.slot)
    BY <2>1, <2>2 DEF NotarizeAssert
  <2>4. \A b \in N : CanFinal(h1, b) => FinalizeAssert(h1, b.slot)
    BY <1>10, <2>1 DEF CanFinal, BadWindow, FinalizeAssert
  <2> QED
    BY <1>7, <2>3, <2>4
<1>18. ASSUME Ok(c) PROVE Sound(r.h, V \union W)
  <2>1. Sound(c.h, V)
    BY <1>18 DEF SoundAt
  <2>2. \A b \in N : b.slot >= c.h.root /\ b.slot \notin c.h.voted
    BY <1>18 DEF Readable, CanNotar
  <2>3. V \subseteq AllVotes
    BY <2>1 DEF Sound
  <2> HIDE DEF V, W
  <2>4. \A b \in N : \A v \in V : v.slot # b.slot
    BY <1>1, <2>1, <2>2, SoundReads
  <2>5. \A w \in W : (\E b \in N : w.slot = b.slot /\ (w = BlockVote("Notarize", b) \/ w.type = "Finalize"))
                     /\ w.type \in {"Notarize", "Finalize"} /\ w \in AllVotes
    BY <1>2, <1>3, <1>4, <1>8 DEF W
  <2>6. \A w \in W : w.slot >= c.h.root
    BY <2>2, <2>5
  <2>7. ASSUME NEW w \in W, NEW v \in V \union W, Equivocation(w, v) PROVE FALSE
    <3>1. w \in AllVotes /\ v \in AllVotes
      BY <2>3, <2>5
    <3>2. w.slot = v.slot /\ Equivocation(v, w)
      BY <2>7, <3>1, EquivocationIs
    <3>3. v \in W
      BY <2>4, <2>5, <2>7, <3>2
    <3>4. w.type # "Finalize" /\ v.type # "Finalize"
      BY <2>5, <2>7, <3>1, <3>2, <3>3, EquivocationIs
    <3>5. w = v
      BY <2>5, <3>2, <3>3, <3>4
    <3> QED
      BY <2>7, <3>1, <3>5, EquivocationIs
  <2>8. ASSUME NEW w \in W
        PROVE  \E u \in V \union W : u.slot = w.slot /\ u.type \in {"Notarize", "Skip"}
    <3>1. PICK b \in N : w.slot = b.slot
      BY <2>5
    <3>2. BlockVote("Notarize", b) \in W
      BY <1>2 DEF W
    <3> QED
      BY <1>4, <3>1, <3>2
  <2>9. Sound(AddVotes(c.h, W), V \union W)
    BY <1>0, <1>8, <2>1, <2>6, <2>7, <2>8, AddSound
  <2> QED
    BY <1>9, <1>12, <2>9
<1>13. SoundAt(r)
  <2>1. CASE ~ Ok(c)
    BY <1>9, <1>12, <2>1 DEF SoundAt, Ok
  <2>2. CASE Ok(c)
    <3>1. Sound(c.h, V) /\ Anchored(c.h, c.pending) /\ Follows(c, finalized')
      BY <2>2 DEF SoundAt
    <3>2. a
      BY <1>17, <2>2, <3>1
    <3>3. Ok(r) /\ r.failed = c.failed /\ Sound(r.h, cast \union r.votes)
      <4>1. cast \union r.votes = V \union W
        BY <1>9, <1>12
      <4> HIDE DEF V, W
      <4> QED
        BY <1>9, <1>12, <1>18, <2>2, <3>2, <4>1
    <3>4. Anchored(r.h, r.pending)
      BY <1>0, <1>10, <1>12, <3>1 DEF Anchored
    <3>5. Follows(r, finalized')
      BY <1>9, <1>10, <1>12, <3>1 DEF Follows
    <3> QED
      BY <2>2, <3>3, <3>4, <3>5 DEF SoundAt
  <2> QED
    BY <2>1, <2>2
<1>14. ASSUME BackedAt(c, C) PROVE BackedAt(r, C)
  <2> SUFFICES ASSUME Ok(r) PROVE Backed(r.h, V \union W, C)
    BY <1>9, <1>12 DEF BackedAt
  <2>1. Ok(c) /\ Backed(c.h, V, C) /\ Sound(c.h, V)
    BY <1>9, <1>12, <1>14 DEF BackedAt, SoundAt
  <2> HIDE DEF V
  <2>2. r.h.notarized_blocks \subseteq C /\ \A p \in r.h.parent_ready : OpensChain(p[1]) => p[2] \in C
    BY <1>10, <1>12, <2>1 DEF Backed
  <2>3. ASSUME NEW v \in V \union W, v.type = "Finalize"
        PROVE  \E b \in C : BlockVote("Notarize", b) \in V \union W /\ b.slot = v.slot
    <3>1. CASE v \in V
      BY <2>1, <2>3, <3>1 DEF Backed
    <3>2. CASE v \in W
      <4>1. v \in finals
        BY <1>2, <1>4, <2>3, <3>2
      <4>2. PICK b \in N : CanFinal(h1, b) /\ v = SlotVote("Finalize", b.slot)
        BY <1>3, <4>1
      <4>3. b \in C
        BY <1>10, <2>1, <4>2 DEF CanFinal, Backed
      <4>4. BlockVote("Notarize", b) \in W /\ b.slot = v.slot
        BY <1>2, <1>4, <4>2
      <4> QED
        BY <4>3, <4>4
    <3> QED
      BY <3>1, <3>2
  <2>4. ASSUME NEW b \in Blocks, BlockVote("Notarize", b) \in V \union W
        PROVE  IF OpensChain(b.slot) THEN ParentOf[b] \in C
               ELSE ParentOf[b].slot + 1 = b.slot /\ BlockVote("Notarize", ParentOf[b]) \in V \union W
    <3>1. CASE BlockVote("Notarize", b) \in V
      BY <2>1, <3>1 DEF Backed
    <3>2. CASE BlockVote("Notarize", b) \in W
      <4>1. b \in N /\ CanNotar(c.h, N, b) /\ ParentOf[b] \in Blocks
        BY <1>1, <1>11, <3>2
      <4>2. CASE OpensChain(b.slot)
        <5>1. <<b.slot, ParentOf[b]>> \in c.h.parent_ready
          BY <4>1, <4>2 DEF CanNotar, OpensChain
        <5>2. \A p \in c.h.parent_ready : OpensChain(p[1]) => p[2] \in C
          BY <2>1 DEF Backed
        <5> QED
          BY <4>2, <5>1, <5>2
      <4>3. CASE ~ OpensChain(b.slot)
        <5>1. ParentOf[b].slot + 1 = b.slot /\ (ParentOf[b] \in c.h.voted_notar \/ ParentOf[b] \in N)
          BY <4>1, <4>3 DEF CanNotar, OpensChain
        <5>2. CASE ParentOf[b] \in N
          BY <1>2, <4>3, <5>1, <5>2
        <5>3. CASE ParentOf[b] \in c.h.voted_notar
          <6>1. BlockVote("Notarize", ParentOf[b]) \in V
            BY <1>1, <2>1, <4>1, <5>3, SoundReads
          <6> QED
            BY <4>3, <5>1, <6>1
        <5> QED
          BY <5>1, <5>2, <5>3
      <4> QED
        BY <4>2, <4>3
    <3> QED
      BY <2>4, <3>1, <3>2
  <2> QED
    BY <2>2, <2>3, <2>4 DEF Backed
<1>15. ASSUME \A b \in c.pending : CanNotar(c.h, N, b) => \E d \in N : d.slot = b.slot
       PROVE  SettledAt(r)
  <2> SUFFICES ASSUME Ok(r), NEW b \in r.pending, CanNotar(r.h, {}, b)
               PROVE  b \in pending_blocks /\ CanNotar(vote_history, {}, b)
    BY DEF SettledAt
  <2>1. b \in c.pending /\ b \in Blocks /\ ~ \E d \in N : d.slot = b.slot
    BY <1>0, <1>12
  <2>2. b.slot \in Nat /\ ParentOf[b] \in Blocks
    BY <2>1, VoteIs
  <2>3. b.slot \notin c.h.voted
    BY <1>10, <1>12, <2>2 DEF CanNotar
  <2>4. ParentOf[b] \in r.h.voted_notar => ParentOf[b] \in c.h.voted_notar \union N
    BY <1>10, <1>11, <1>12, <2>2
  <2>5. CanNotar(c.h, N, b)
    BY <1>10, <1>12, <2>3, <2>4 DEF CanNotar
  <2> QED
    BY <1>15, <2>1, <2>5
<1>16. r.pending \subseteq c.pending
  BY <1>12
<1> QED
  BY <1>12, <1>13, <1>14, <1>15, <1>16 DEF r

\* A failed assert only matters at the end.
LEMMA AssertKeeps ==
    ASSUME NEW c \in Locals, NEW kind \in {"BelowRoot", "RootBank"}, NEW a \in BOOLEAN,
           kind = "BelowRoot" /\ SoundAt(c) /\ Ok(c) /\ ~ restored => a,
           NEW d, d = Check(c, kind, a)
    PROVE  /\ d \in Locals /\ d.h = c.h /\ d.pending = c.pending /\ d.votes = c.votes
           /\ d.finalized = c.finalized /\ d.root = c.root
           /\ Ok(d) <=> Ok(c) /\ a
           /\ SoundAt(c) => SoundAt(d)
           /\ \A C : BackedAt(c, C) => BackedAt(d, C)
           /\ SettledAt(c) => SettledAt(d)
<1>1. /\ d \in Locals /\ d.h = c.h /\ d.pending = c.pending /\ d.votes = c.votes
      /\ d.finalized = c.finalized /\ d.root = c.root
      /\ d.failed = IF c.failed = Nothing /\ ~ a THEN kind ELSE c.failed
      /\ Ok(d) <=> Ok(c) /\ a
  <2>1. kind \in Failures
    BY DEF Failures
  <2> QED
    BY <2>1, CheckIs
<1>2. ASSUME SoundAt(c) PROVE SoundAt(d)
  <2>1. d.failed # "AddVote" /\ d.failed # "Standstill" /\ (d.failed = "BelowRoot" => restored)
    BY <1>1, <1>2 DEF SoundAt, Ok
  <2>2. Follows(c, finalized') => Follows(d, finalized')
    BY <1>1 DEF Follows
  <2> QED
    BY <1>1, <1>2, <2>1, <2>2 DEF SoundAt
<1> QED
  BY <1>1, <1>2 DEF BackedAt, SettledAt

\* Reading the history for a block above its root trips no assert.
LEMMA ReadableAbove ==
    ASSUME NEW h \in HistoryRecords, NEW b \in Blocks, b.slot >= h.root,
           b.slot > h.root \/ h.root = 0 \/ h.root \in h.voted
    PROVE  NotarReadable(h, b)
<1>1. b.slot \in Nat /\ ParentOf[b] \in Blocks /\ h.root \in Nat
  BY VoteIs DEF HistoryRecords
<1>2. ParentOf[b].slot \in Nat
  BY <1>1, VoteIs
<1>3. ASSUME b.slot \notin h.voted, ParentOf[b].slot + 1 = b.slot PROVE ParentOf[b].slot >= h.root
  BY <1>1, <1>2, <1>3
<1> QED
  BY <1>3 DEF NotarReadable, Readable

\* check_pending_blocks leaves no block behind that could be voted on.
LEMMA CheckPendingKeeps ==
    ASSUME NEW c \in Locals, SoundAt(c), NEW C, NEW d \in CheckPendingBlocks(c)
    PROVE  /\ d \in Locals /\ SoundAt(d) /\ SettledAt(d)
           /\ BackedAt(c, C) => BackedAt(d, C)
           /\ d.pending \subseteq c.pending
<1> DEFINE a == \A b \in c.pending : NotarReadable(c.h, b)
           e == Check(c, "BelowRoot", a)
<1>1. PICK N \in NotarPasses(c.h, c.pending) : d = Notarize(e, N)
  BY DEF CheckPendingBlocks
<1>2. /\ N \subseteq c.pending /\ \A b1, b2 \in N : b1.slot = b2.slot => b1 = b2
      /\ \A b \in N : CanNotar(c.h, N, b)
      /\ \A b \in c.pending : CanNotar(c.h, N, b) => \E b2 \in N : b2.slot = b.slot
  BY DEF NotarPasses
<1>3. a \in BOOLEAN /\ (a => \A b \in N : Readable(c.h, b.slot))
  BY <1>2 DEF NotarReadable
<1>6. ASSUME Ok(c), ~ restored PROVE a
  <2>1. Anchored(c.h, c.pending)
    BY <1>6 DEF SoundAt
  <2>2. c.h \in HistoryRecords /\ c.pending \subseteq Blocks
    BY DEF Locals
  <2> QED
    BY <1>6, <2>1, <2>2, ReadableAbove DEF Anchored
<1> HIDE DEF a
<1>4. /\ e \in Locals /\ e.h = c.h /\ e.pending = c.pending /\ SoundAt(e)
      /\ BackedAt(c, C) => BackedAt(e, C)
      /\ Ok(e) => a
  BY <1>3, <1>6, AssertKeeps
<1> HIDE DEF e
<1>5. N \in SUBSET Blocks
  BY <1>2 DEF Locals
<1> QED
  BY <1>1, <1>2, <1>3, <1>4, <1>5, NotarizeKeeps

\* Histories with the same votes and maps.
LEMMA SameSound ==
    ASSUME NEW h, NEW g, NEW V, Sound(h, V), g.votes_cast = h.votes_cast, g.root = h.root,
           g.voted = h.voted, g.voted_notar = h.voted_notar, g.its_over = h.its_over,
           g.skipped = h.skipped
    PROVE  Sound(g, V)
<1>1. Tallied(g) <=> Tallied(h)
  BY DEF Tallied
<1> QED
  BY <1>1 DEF Sound

\* handle_parent_ready_event: announce the parent, then look at the pending blocks.
LEMMA ParentReadyEventKeeps ==
    ASSUME NEW c \in Locals, SoundAt(c), NEW C, NEW slot \in Nat, NEW parent \in Blocks,
           OpensChain(slot) => parent \in C,
           NEW d \in ParentReadyEvent(c, slot, parent)
    PROVE  /\ d \in Locals /\ SoundAt(d) /\ SettledAt(d)
           /\ BackedAt(c, C) => BackedAt(d, C)
<1> DEFINE e == RequestSwitch(c, parent)
           g == AddParentReady(e.h, slot, parent)
           f == [e EXCEPT !.h = g]
<1>1. /\ e \in Locals /\ e.h = c.h /\ e.votes = c.votes /\ e.failed = c.failed /\ e.pending = c.pending
      /\ e.finalized = c.finalized /\ e.root = c.root
  BY DEF RequestSwitch, Locals
<1>2. PICK k \in CheckPendingBlocks(f) :
          d = [k EXCEPT !.timeouts = @ \union {slot},
                        !.highest = IF slot > @[1] THEN <<slot, parent>> ELSE @]
  BY DEF ParentReadyEvent
<1> HIDE DEF e
<1>3. e.h \in HistoryRecords
  BY <1>1 DEF Locals
<1>4. /\ g \in HistoryRecords /\ g.votes_cast = e.h.votes_cast /\ g.root = e.h.root
      /\ g.voted = e.h.voted /\ g.voted_notar = e.h.voted_notar /\ g.its_over = e.h.its_over
      /\ g.skipped = e.h.skipped /\ g.notarized_blocks = e.h.notarized_blocks
      /\ \A p \in g.parent_ready : p \in e.h.parent_ready \/ p = <<slot, parent>>
  <2>1. CASE slot < e.h.root
    BY <1>3, <2>1 DEF AddParentReady
  <2>2. CASE ~ (slot < e.h.root)
    <3>1. g = [e.h EXCEPT !.parent_ready = e.h.parent_ready \union {<<slot, parent>>}]
      BY <2>2 DEF AddParentReady
    <3>2. e.h.parent_ready \union {<<slot, parent>>} \in SUBSET (Nat \X Blocks)
      BY <1>3 DEF HistoryRecords
    <3> HIDE DEF g
    <3> QED
      BY <1>3, <3>1, <3>2 DEF HistoryRecords
  <2> QED
    BY <2>1, <2>2
<1> HIDE DEF g
<1>5. /\ f \in Locals /\ f.h = g /\ f.votes = c.votes /\ f.failed = c.failed /\ f.pending = c.pending
      /\ f.finalized = c.finalized /\ f.root = c.root
  BY <1>1, <1>4 DEF Locals
<1> HIDE DEF f
<1>6. SoundAt(f)
  <2>1. Ok(f) <=> Ok(c)
    BY <1>5 DEF Ok
  <2>2. Sound(c.h, cast \union c.votes) => Sound(f.h, cast \union f.votes)
    BY <1>1, <1>4, <1>5, SameSound
  <2>3. Anchored(c.h, c.pending) => Anchored(f.h, f.pending)
    BY <1>1, <1>4, <1>5 DEF Anchored
  <2>4. Follows(c, finalized') => Follows(f, finalized')
    BY <1>1, <1>4, <1>5 DEF Follows
  <2> QED
    BY <1>5, <2>1, <2>2, <2>3, <2>4 DEF SoundAt
<1>7. BackedAt(c, C) => BackedAt(f, C)
  BY <1>1, <1>4, <1>5 DEF BackedAt, Backed, Ok
<1>8. /\ k \in Locals /\ SoundAt(k) /\ SettledAt(k)
      /\ BackedAt(f, C) => BackedAt(k, C)
  BY <1>2, <1>5, <1>6, CheckPendingKeeps
<1>9. /\ d \in Locals /\ d.h = k.h /\ d.votes = k.votes /\ d.failed = k.failed /\ d.pending = k.pending
      /\ d.finalized = k.finalized /\ d.root = k.root
  <2>1. k.timeouts \union {slot} \in SUBSET Nat
    BY <1>8 DEF Locals
  <2>2. (IF slot > k.highest[1] THEN <<slot, parent>> ELSE k.highest) \in Nat \X (Blocks \union {Genesis})
    BY <1>8 DEF Locals
  <2> DEFINE x == IF slot > k.highest[1] THEN <<slot, parent>> ELSE k.highest
             y == k.timeouts \union {slot}
  <2>3. d = [k EXCEPT !.timeouts = y, !.highest = x]
    BY <1>2
  <2> HIDE DEF x, y
  <2>4. x \in Nat \X (Blocks \union {Genesis}) /\ y \in SUBSET Nat
    BY <2>1, <2>2 DEF x, y
  <2> QED
    BY <1>8, <2>3, <2>4 DEF Locals
<1> QED
  BY <1>7, <1>8, <1>9 DEF SoundAt, BackedAt, SettledAt, Ok, Follows

\* A non-empty set of slots has a greatest element.
LEMMA HighestSlot ==
    ASSUME NEW S, S \subseteq Slots, S # {}
    PROVE  \E h \in S : \A s \in S : s <= h
<1> DEFINE T == {n \in Nat : MaxSlot - n \in S}
<1>0. MaxSlot \in Nat
  BY MaxSlotAssumption
<1>1. PICK s0 \in S : s0 \in 0..MaxSlot
  BY DEF Slots
<1>2. T # {} /\ T \subseteq Nat
  <2>1. MaxSlot - s0 \in T
    BY <1>0, <1>1
  <2> QED
    BY <2>1
<1>3. PICK x \in T : \A y \in T : ~ (<<y, x>> \in OpToRel(<, Nat))
  <2> HIDE DEF T
  <2> QED
    BY <1>2, WFMin, NatLessThanWellFounded
<1>4. \A y \in T : x <= y
  <2> SUFFICES ASSUME NEW y \in T, ~ (x <= y) PROVE FALSE
    OBVIOUS
  <2>1. x \in Nat /\ y \in Nat /\ y < x
    OBVIOUS
  <2>2. <<y, x>> \in OpToRel(<, Nat)
    BY <2>1, Zenon DEF OpToRel
  <2> QED
    BY <1>3, <2>2
<1>5. ASSUME NEW s \in S PROVE s <= MaxSlot - x
  <2>1. s \in 0..MaxSlot /\ s \in Int
    BY <1>0 DEF Slots
  <2>2. MaxSlot - s \in T
    BY <1>0, <2>1
  <2>3. x <= MaxSlot - s
    BY <1>4, <2>2
  <2> QED
    BY <1>0, <2>1, <2>3
<1> QED
  BY <1>5

\* set_root forgets what lies below the new root and nothing else.
LEMMA SetRootSound ==
    ASSUME NEW h \in HistoryRecords, NEW V, NEW r \in Nat, r > h.root
    PROVE  /\ SetHistoryRoot(h, r) \in HistoryRecords
           /\ Sound(h, V) => Sound(SetHistoryRoot(h, r), V)
<1> DEFINE g == SetHistoryRoot(h, r)
<1>0. /\ h.voted \subseteq Nat /\ h.voted_notar \subseteq Blocks /\ h.voted_notar_fallback \subseteq Blocks
      /\ h.voted_skip_fallback \subseteq Nat /\ h.skipped \subseteq Nat /\ h.its_over \subseteq Nat
      /\ h.votes_cast \subseteq AllVotes /\ h.notarized_blocks \subseteq Blocks
      /\ h.parent_ready \subseteq Nat \X Blocks /\ h.root \in Nat
  BY DEF HistoryRecords
<1>1. /\ g.voted = {s \in h.voted : s >= r} /\ g.voted_notar = {b \in h.voted_notar : b.slot >= r}
      /\ g.its_over = {s \in h.its_over : s >= r} /\ g.skipped = {s \in h.skipped : s >= r}
      /\ g.votes_cast = {v \in h.votes_cast : v.slot >= r} /\ g.root = r
  BY DEF SetHistoryRoot
<1>2. g \in HistoryRecords
  BY <1>0 DEF SetHistoryRoot, HistoryRecords
<1> HIDE DEF g
<1>3. ASSUME Sound(h, V) PROVE Sound(g, V)
  <2>1. V \subseteq AllVotes /\ Tallied(h) /\ h.votes_cast = {v \in V : v.slot >= h.root}
    BY <1>3 DEF Sound
  <2>2. \A v \in V : v.slot \in Nat
    BY <2>1, VoteIs
  <2>3. \A v \in V : v.slot >= r => v.slot >= h.root
    BY <1>0, <2>2
  <2>4. g.votes_cast = {v \in V : v.slot >= g.root}
    BY <1>1, <2>1, <2>3
  <2>5. \A b \in Blocks : BlockVote("Notarize", b).slot = b.slot
    BY DEF BlockVote
  <2>6. \A s \in Nat : s \in g.voted <=>
          \E v \in g.votes_cast : v.slot = s /\ v.type \in {"Notarize", "Skip"}
    BY <1>1, <2>1 DEF Tallied
  <2>7. \A s \in Nat : s \in g.its_over <=> \E v \in g.votes_cast : v.slot = s /\ v.type = "Finalize"
    BY <1>1, <2>1 DEF Tallied
  <2>8. \A s \in Nat : s \in g.skipped <=>
          \E v \in g.votes_cast : v.slot = s /\ v.type \in {"Skip", "SkipFallback", "NotarizeFallback"}
    BY <1>1, <2>1 DEF Tallied
  <2>9. \A b \in Blocks : b \in g.voted_notar <=> BlockVote("Notarize", b) \in g.votes_cast
    BY <1>1, <2>1, <2>5 DEF Tallied
  <2> QED
    BY <1>3, <2>1, <2>4, <2>6, <2>7, <2>8, <2>9 DEF Sound, Tallied
<1> QED
  BY <1>2, <1>3 DEF g

\* check_rootable_blocks: the new root is above the old one, and the pending blocks
\* below it go with the votes that speak about them.
LEMMA CheckRootableKeeps ==
    ASSUME HandlerTypeOK, NEW c \in Locals, SoundAt(c), NEW C, NEW k \in CheckRootable(c)
    PROVE  /\ k \in Locals /\ SoundAt(k)
           /\ BackedAt(c, C) => BackedAt(k, C)
           /\ SettledAt(c) => SettledAt(k)
<1>1. CASE Rootable(c) = {}
  BY <1>1 DEF CheckRootable
<1>2. CASE Rootable(c) # {}
  <2> DEFINE r == CHOOSE s \in Rootable(c) : \A t \in Rootable(c) : t <= s
             g == SetHistoryRoot(c.h, r)
             P == {b \in c.pending : b.slot >= r}
             F == {b \in c.finalized : b.slot >= r}
             R == {s \in c.received : s >= r}
             q == EnqueueSetRoot(c.root, r)
             d == [c EXCEPT !.h = g, !.pending = P, !.finalized = F, !.received = R, !.root = q]
  <2>0. /\ c.h \in HistoryRecords /\ c.h.root \in Nat /\ bank_root \in Nat /\ c.pending \subseteq Blocks
        /\ c.finalized \subseteq Blocks /\ c.received \subseteq Nat /\ c.root \in Nat \union {None}
    BY DEF Locals, HistoryRecords, HandlerTypeOK
  <2>1. \A s \in Rootable(c) : s \in Slots /\ s \in Nat /\ s > c.h.root
    <3>1. \A b \in c.finalized : b.slot \in Slots /\ b.slot \in Nat
      BY <2>0, BlocksAssumption, VoteIs
    <3>2. \A n \in Nat : n > MaxOf(bank_root, c.h.root) => n > c.h.root
      BY <2>0 DEF MaxOf
    <3> QED
      BY <3>1, <3>2 DEF Rootable
  <2>2. \E s \in Rootable(c) : \A t \in Rootable(c) : t <= s
    BY <1>2, <2>1, HighestSlot
  <2>3. r \in Rootable(c)
    BY <2>2
  <2>4. \E there \in BOOLEAN : k = Check(d, "RootBank", there)
    <3>1. SetRoot(c, r) = d
      BY DEF SetRoot
    <3>2. (~ MayClear(r)) \in BOOLEAN
      BY DEF MayClear
    <3> HIDE DEF d, r
    <3>3. \E there \in {TRUE, ~ MayClear(r)} : k = Check(SetRoot(c, r), "RootBank", there)
      BY <1>2 DEF CheckRootable, r
    <3> QED
      BY <3>1, <3>2, <3>3
  <2>15. \E b \in c.finalized : b.slot = r /\ r \in c.h.voted
    BY <2>3 DEF Rootable
  <2> HIDE DEF r
  <2>5. r \in Nat /\ r > c.h.root
    BY <2>1, <2>3
  <2>6. g \in HistoryRecords /\ \A V : Sound(c.h, V) => Sound(g, V)
    BY <2>0, <2>5, SetRootSound
  <2>7. P \in SUBSET Blocks /\ F \in SUBSET Blocks /\ R \in SUBSET Nat
    BY <2>0
  <2>8. q \in Nat \union {None}
    BY <2>0, <2>5 DEF EnqueueSetRoot, MaxOf
  <2>9. /\ g.voted = {s \in c.h.voted : s >= r} /\ g.voted_notar \subseteq c.h.voted_notar
        /\ g.notarized_blocks \subseteq c.h.notarized_blocks /\ g.parent_ready \subseteq c.h.parent_ready
    BY DEF SetHistoryRoot
  <2>10. \A b \in P : b \in c.pending /\ b.slot >= r
    OBVIOUS
  <2> HIDE DEF g, P, F, R, q
  <2>11. /\ d \in Locals /\ d.h = g /\ d.pending = P /\ d.votes = c.votes /\ d.failed = c.failed
         /\ d.finalized = F /\ d.root = q
    BY <2>6, <2>7, <2>8 DEF Locals
  <2>17. F \subseteq c.finalized /\ (q = c.root \/ q = r)
    BY DEF F, q, EnqueueSetRoot, MaxOf
  <2> HIDE DEF d
  <2>18. Ok(d) <=> Ok(c)
    BY <2>11 DEF Ok
  <2>12. SoundAt(d)
    <3>1. Sound(c.h, cast \union c.votes) => Sound(d.h, cast \union d.votes)
      BY <2>6, <2>11
    <3>2. Anchored(d.h, d.pending)
      <4>1. g.root = r
        BY DEF g, SetHistoryRoot
      <4>2. r \in g.voted
        BY <2>5, <2>9, <2>15
      <4> QED
        BY <2>10, <2>11, <4>1, <4>2 DEF Anchored
    <3>3. ASSUME Follows(c, finalized') PROVE Follows(d, finalized')
      <4>1. g.root = r
        BY DEF g, SetHistoryRoot
      <4>2. PICK f \in c.finalized : f.slot = r
        BY <2>15
      <4>3. f \in finalized' /\ f.slot >= r
        BY <2>5, <3>3, <4>2 DEF Follows
      <4> QED
        BY <2>11, <2>17, <3>3, <4>1, <4>2, <4>3 DEF Follows
    <3> QED
      BY <2>11, <2>18, <3>1, <3>2, <3>3 DEF SoundAt
  <2>13. BackedAt(c, C) => BackedAt(d, C)
    BY <2>9, <2>11, <2>18 DEF BackedAt, Backed
  <2>14. ASSUME SettledAt(c) PROVE SettledAt(d)
    <3> SUFFICES ASSUME Ok(d), NEW b \in P, CanNotar(g, {}, b)
                 PROVE  b \in pending_blocks /\ CanNotar(vote_history, {}, b)
      BY <2>11 DEF SettledAt
    <3>1. CanNotar(c.h, {}, b)
      BY <2>9, <2>10 DEF CanNotar
    <3> QED
      BY <2>10, <2>11, <2>14, <2>18, <3>1 DEF SettledAt
  <2>16. PICK there \in BOOLEAN : k = Check(d, "RootBank", there)
    BY <2>4
  <2> QED
    BY <2>11, <2>12, <2>13, <2>14, <2>16, AssertKeeps
<1> QED
  BY <1>1, <1>2

\* add_missing_parent_ready only concerns slots in the middle of a window.
LEMMA AddMissingKeeps ==
    ASSUME NEW c \in Locals, SoundAt(c), NEW C, NEW b \in Blocks, NEW d \in AddMissingParentReady(c, b)
    PROVE  /\ d \in Locals /\ SoundAt(d)
           /\ BackedAt(c, C) => BackedAt(d, C)
           /\ SettledAt(c) => SettledAt(d)
<1>1. b.slot \in Nat /\ ParentOf[b] \in Blocks
  BY VoteIs
<1>2. CASE MissingParentReady(c, b)
  <2>1. ~ OpensChain(b.slot)
    <3>1. ~ FirstOfWindow(b.slot) /\ FirstSlot(b.slot) # 0
      BY <1>2 DEF MissingParentReady
    <3>2. WindowSize # 1 => 1 \div WindowSize = 0
      BY WindowSizeAssumption
    <3>3. WindowSize = 1 => 1 % WindowSize = 0
      OBVIOUS
    <3>4. b.slot # 1
      BY <3>1, <3>2, <3>3, WindowSizeAssumption DEF FirstOfWindow, FirstSlot
    <3> QED
      BY <3>1, <3>4 DEF OpensChain
  <2>2. d \in ParentReadyEvent(c, b.slot, ParentOf[b])
    BY <1>2 DEF AddMissingParentReady
  <2> QED
    BY <1>1, <2>1, <2>2, ParentReadyEventKeeps
<1>3. CASE ~ MissingParentReady(c, b)
  BY <1>3 DEF AddMissingParentReady
<1> QED
  BY <1>2, <1>3

\* try_skip_window votes in slots without a vote, at or above the root.
LEMMA TrySkipKeeps ==
    ASSUME HandlerTypeOK, NEW c \in Locals, SoundAt(c), NEW C, NEW slot \in Nat
    PROVE  /\ TrySkipWindow(c, slot) \in Locals /\ SoundAt(TrySkipWindow(c, slot))
           /\ BackedAt(c, C) => BackedAt(TrySkipWindow(c, slot), C)
           /\ SettledAt(c) => SettledAt(TrySkipWindow(c, slot))
           /\ TrySkipWindow(c, slot).h.notarized_blocks = c.h.notarized_blocks
           /\ TrySkipWindow(c, slot).h.root = c.h.root
           /\ slot > MaxOf(bank_root, c.h.root) => slot \in TrySkipWindow(c, slot).h.voted
           /\ c.votes \subseteq TrySkipWindow(c, slot).votes
           /\ \A v \in TrySkipWindow(c, slot).votes : v \in c.votes \/ v.type = "Skip"
<1> DEFINE skips == SkipSlots(c.h, MaxOf(bank_root, c.h.root), slot)
           W == {SlotVote("Skip", s) : s \in skips}
           a == \A s \in skips : SkipAssert(c.h, s)
           V == cast \union c.votes
<1>0. c.h \in HistoryRecords /\ c.h.root \in Nat /\ bank_root \in Nat
  BY DEF Locals, HistoryRecords, HandlerTypeOK
<1>1. /\ \A s \in skips : s \in Nat /\ s \notin c.h.voted /\ s >= c.h.root
      /\ slot > MaxOf(bank_root, c.h.root) => slot \in skips \/ slot \in c.h.voted
  <2>1. FirstSlot(slot) \in Int /\ LastSlot(slot) \in Int
    BY WindowSizeAssumption DEF FirstSlot, LastSlot
  <2> DEFINE low == MaxOf(MaxOf(FirstSlot(slot), MaxOf(bank_root, c.h.root)), 1)
  <2>2. low \in Nat /\ low >= c.h.root
    BY <1>0, <2>1 DEF MaxOf
  <2>4. FirstSlot(slot) <= slot /\ slot <= LastSlot(slot)
    BY WindowSizeAssumption DEF FirstSlot, LastSlot
  <2>5. slot > MaxOf(bank_root, c.h.root) => low <= slot
    BY <1>0, <2>1, <2>4 DEF MaxOf
  <2>6. skips = {s \in low..LastSlot(slot) : s \notin c.h.voted}
    BY DEF SkipSlots
  <2> HIDE DEF low, skips
  <2>3. \A s \in low..LastSlot(slot) : s \in Nat /\ s >= c.h.root
    BY <1>0, <2>1, <2>2
  <2>7. slot > MaxOf(bank_root, c.h.root) => slot \in low..LastSlot(slot)
    BY <2>1, <2>2, <2>4, <2>5
  <2> QED
    BY <2>3, <2>6, <2>7
<1>2. a
  BY <1>1 DEF SkipAssert
<1>3. TrySkipWindow(c, slot) = Insert(c, W, a)
  BY DEF TrySkipWindow
<1>4. \A w : w \in W <=> \E s \in skips : w = SlotVote("Skip", s)
  OBVIOUS
<1>12. a \in BOOLEAN
  OBVIOUS
<1> HIDE DEF a, W, skips
<1>5. \A w \in W : /\ w \in AllVotes /\ w.slot \in skips /\ w.type = "Skip" /\ w = SlotVote("Skip", w.slot)
  BY <1>1, <1>4, VoteIs DEF SlotVoteTypes
<1>6. W \subseteq AllVotes /\ \A w \in W : w.type # "Notarize" /\ w.type # "Finalize"
  BY <1>5
<1>7. ASSUME Ok(c), Sound(c.h, V)
      PROVE  /\ a
             /\ \A w \in W : w.slot >= c.h.root
             /\ \A w \in W : \A v \in V \union W : ~ Equivocation(w, v)
             /\ \A w \in W : \E u \in V \union W : u.slot = w.slot /\ u.type \in {"Notarize", "Skip"}
  <2>1. \A w \in W : w.slot >= c.h.root /\ w.slot \in Nat /\ w.slot \notin c.h.voted
    BY <1>1, <1>5
  <2> HIDE DEF V
  <2>2. \A w \in W : \A v \in V : v.slot # w.slot
    BY <1>7, <2>1, SoundReads
  <2>3. ASSUME NEW w \in W, NEW v \in V \union W, Equivocation(w, v) PROVE FALSE
    <3>1. w \in AllVotes /\ v \in AllVotes
      BY <1>5, <1>7 DEF Sound
    <3>2. w.slot = v.slot
      BY <2>3, <3>1, EquivocationIs
    <3>3. w = v
      BY <1>5, <2>2, <2>3, <3>2
    <3> QED
      BY <2>3, <3>1, <3>3, EquivocationIs
  <2> QED
    BY <1>2, <1>5, <2>1, <2>3
<1>8. ASSUME Ok(c), BackedAt(c, C)
      PROVE  \A w \in W : w.type = "Finalize" =>
                \E b \in c.h.notarized_blocks : BlockVote("Notarize", b) \in V /\ b.slot = w.slot
  BY <1>6
<1>9. /\ Insert(c, W, a) \in Locals /\ SoundAt(Insert(c, W, a))
      /\ BackedAt(c, C) => BackedAt(Insert(c, W, a), C)
      /\ SettledAt(c) => SettledAt(Insert(c, W, a))
  BY <1>6, <1>7, <1>8, <1>12, InsertKeeps
<1>10. Insert(c, W, a).votes = c.votes \union W /\ Insert(c, W, a).h = AddVotes(c.h, W)
  BY <1>6, <1>12, InsertIs
<1>11. /\ AddVotes(c.h, W).notarized_blocks = c.h.notarized_blocks /\ AddVotes(c.h, W).root = c.h.root
       /\ \A s \in Nat : s \in AddVotes(c.h, W).voted <=>
            s \in c.h.voted \/ \E w \in W : w.slot = s /\ w.type \in {"Notarize", "Skip"}
  BY <1>0, <1>6, AddVotesIs
<1>13. ASSUME slot > MaxOf(bank_root, c.h.root) PROVE slot \in AddVotes(c.h, W).voted
  <2>1. CASE slot \in c.h.voted
    BY <1>11, <2>1
  <2>2. CASE slot \in skips
    <3>1. SlotVote("Skip", slot) \in W
      BY <1>4, <2>2
    <3>2. SlotVote("Skip", slot).slot = slot /\ SlotVote("Skip", slot).type = "Skip"
      BY DEF SlotVote
    <3> QED
      BY <1>11, <3>1, <3>2
  <2> QED
    BY <1>1, <1>13, <2>1, <2>2
<1> QED
  BY <1>3, <1>5, <1>9, <1>10, <1>11, <1>13

-----------------------------------------------------------------------------
(* The steps                                                                 *)

\* No handler has made a pending block votable and left it behind.
Settled ==
    \A b \in pending_blocks' : CanNotar(vote_history', {}, b) =>
        b \in pending_blocks /\ CanNotar(vote_history, {}, b)

\* What a step keeps.
Kept == HandlerInv' /\ (BackedInv => BackedInv') /\ Settled

\* What a handler leaves alone, and what the pool may have announced to it.
Handled ==
    /\ bank_root' = bank_root /\ block_events' \subseteq block_events /\ restored' = restored
    /\ certified \subseteq certified'
    /\ finalized \subseteq finalized' /\ finalized' \subseteq Blocks \union {Genesis}
    /\ \/ standstill_slot' = None
       \/ /\ standstill_slot' = standstill_slot
          /\ standstill_slot # None /\ ~ restored =>
                \A f \in finalized' : f \in finalized \/ f.slot <= standstill_slot

\* More certificates back no less.
LEMMA BackedMore ==
    ASSUME NEW h, NEW V, NEW C, NEW D, Backed(h, V, C), C \subseteq D
    PROVE  Backed(h, V, D)
  BY DEF Backed

\* The root below which events are ignored.
LEMMA IgnoreRootIs ==
    ASSUME HandlerTypeOK
    PROVE  /\ vote_history.root \in Nat /\ bank_root \in Nat /\ IgnoreRoot \in Nat
           /\ IgnoreRoot >= vote_history.root /\ IgnoreRoot >= bank_root
           /\ IgnoreRoot = vote_history.root \/ IgnoreRoot = bank_root
           /\ \A s \in Nat : ~ Ignored(s) <=> s > IgnoreRoot
<1>1. vote_history.root \in Nat /\ bank_root \in Nat
  BY DEF HandlerTypeOK, HistoryRecords
<1>2. /\ IgnoreRoot \in Nat /\ IgnoreRoot >= vote_history.root /\ IgnoreRoot >= bank_root
      /\ IgnoreRoot = vote_history.root \/ IgnoreRoot = bank_root
  BY <1>1 DEF IgnoreRoot, MaxOf
<1>3. \A s \in Nat : ~ Ignored(s) <=> s > IgnoreRoot
  BY <1>2 DEF Ignored
<1> QED
  BY <1>1, <1>2, <1>3

\* The slots of finalized blocks.
LEMMA FinalizedSlots ==
    ASSUME NEW F, F \subseteq Blocks \union {Genesis}
    PROVE  \A f \in F : f.slot \in Slots /\ f.slot \in Nat
<1>1. 0 \in Slots /\ Slots \subseteq Nat
  BY MaxSlotAssumption DEF Slots
<1>2. Genesis.slot = 0
  BY GenesisAssumption DEF Genesis
<1>3. \A f \in F : f \in Blocks \/ f = Genesis
  OBVIOUS
<1>4. \A f \in F : f.slot \in Slots
  BY <1>1, <1>2, <1>3, BlocksAssumption
<1> QED
  BY <1>1, <1>4

\* What a handler starts with.
LEMMA LocalIs ==
    ASSUME HandlerInv, Handled
    PROVE  /\ Local \in Locals /\ SoundAt(Local) /\ SettledAt(Local)
           /\ BackedInv => BackedAt(Local, certified')
           /\ Local.h = vote_history /\ Local.votes = {} /\ Ok(Local)
           /\ Local.pending = pending_blocks /\ Local.finalized = finalized_blocks
           /\ Local.root = root_request
<1>1. Local \in Locals
  BY DEF Local, Locals, HandlerInv, HandlerTypeOK
<1>2. /\ Local.h = vote_history /\ Local.votes = {} /\ Ok(Local) /\ Local.failed = Nothing
      /\ Local.pending = pending_blocks /\ Local.finalized = finalized_blocks
      /\ Local.root = root_request
  BY DEF Local, Ok
<1>3. cast \union {} = cast
  OBVIOUS
<1>4. SoundAt(Local)
  <2>1. Follows(Local, finalized')
    BY <1>2 DEF Follows, HandlerInv, StandstillOk, Handled
  <2>2. Nothing # "AddVote" /\ Nothing # "Standstill" /\ Nothing # "BelowRoot"
    BY DEF Nothing
  <2> QED
    BY <1>2, <1>3, <2>1, <2>2 DEF SoundAt, HandlerInv
<1>5. BackedInv => BackedAt(Local, certified')
  BY <1>2, <1>3, BackedMore DEF BackedAt, BackedInv, Handled
<1>6. SettledAt(Local)
  BY <1>2 DEF SettledAt
<1> QED
  BY <1>1, <1>2, <1>4, <1>5, <1>6

\* A step that changes no vote and no history; the root may move to a requested one.
LEMMA QuietKeeps ==
    ASSUME HandlerInv,
           UNCHANGED <<vote_history, pending_blocks, finalized_blocks, received_shred,
                       timeouts, highest_parent_ready, cast, restored>>,
           certified \subseteq certified', finalized \subseteq finalized',
           finalized' \subseteq Blocks \union {Genesis},
           \/ standstill_slot' = None
           \/ /\ standstill_slot' = standstill_slot
              /\ standstill_slot # None /\ ~ restored =>
                    \A f \in finalized' : f \in finalized \/ f.slot <= standstill_slot,
           AssertsHold', failed' \in Failures \union {Nothing},
           switch_request' \subseteq Blocks, block_events' \subseteq Blocks,
           root_request' \in {root_request, None},
           bank_root' = bank_root \/ (bank_root' = root_request /\ root_request # None)
    PROVE  Kept
<1>1. bank_root \in Nat /\ bank_root' \in Nat /\ root_request \in Nat \union {None}
      /\ standstill_slot \in Nat \union {None} /\ vote_history.root \in Nat
  BY DEF HandlerInv, HandlerTypeOK, HistoryRecords
<1>2. HandlerTypeOK'
  BY <1>1 DEF HandlerInv, HandlerTypeOK
<1>3. Sound(vote_history', cast')
  BY DEF HandlerInv
<1>4. Anchored(vote_history, pending_blocks)'
  BY DEF HandlerInv, Anchored
<1>5. StandstillOk'
  <2>1. finalized_blocks' \subseteq finalized'
    BY DEF HandlerInv, StandstillOk
  <2>2. root_request' # None => \E f \in finalized' : f.slot >= root_request'
    BY DEF HandlerInv, StandstillOk
  <2>3. ASSUME standstill_slot' # None, ~ restored'
        PROVE  /\ \E f \in finalized' : f.slot = standstill_slot'
               /\ \A f \in finalized' : f.slot <= standstill_slot'
               /\ vote_history'.root <= standstill_slot' /\ bank_root' <= standstill_slot'
    <3>1. /\ standstill_slot' = standstill_slot /\ standstill_slot # None /\ ~ restored
          /\ standstill_slot \in Nat
      BY <1>1, <2>3
    <3>2. /\ \E f \in finalized : f.slot = standstill_slot
          /\ \A f \in finalized : f.slot <= standstill_slot
          /\ vote_history.root <= standstill_slot /\ bank_root <= standstill_slot
      BY <3>1 DEF HandlerInv, StandstillOk
    <3>3. \A f \in finalized' : f.slot <= standstill_slot
      BY <3>1, <3>2
    <3>4. bank_root' <= standstill_slot
      <4>1. CASE bank_root' = bank_root
        BY <3>2, <4>1
      <4>2. CASE bank_root' = root_request /\ root_request # None
        <5>1. PICK f \in finalized : f.slot >= root_request
          BY <4>2 DEF HandlerInv, StandstillOk
        <5>2. f.slot \in Nat /\ f.slot <= standstill_slot
          BY <3>2, FinalizedSlots DEF HandlerInv, HandlerTypeOK
        <5> QED
          BY <1>1, <3>1, <4>2, <5>1, <5>2
      <4> QED
        BY <4>1, <4>2
    <3>5. \E f \in finalized' : f.slot = standstill_slot
      BY <3>2
    <3> QED
      BY <3>1, <3>2, <3>3, <3>4, <3>5
  <2> QED
    BY <2>1, <2>2, <2>3 DEF StandstillOk
<1>6. BackedInv => BackedInv'
  BY BackedMore DEF BackedInv
<1>7. Settled
  BY DEF Settled
<1> QED
  BY <1>2, <1>3, <1>4, <1>5, <1>6, <1>7 DEF Kept, HandlerInv

\* The end of a handler: what holds of its record holds of the state.
LEMMA CommitKeeps ==
    ASSUME HandlerInv, Handled, NEW d \in Locals, SoundAt(d), SettledAt(d), Commit(d),
           BackedInv => BackedAt(d, certified')
    PROVE  Kept
<1>1. CASE Ok(d)
  <2>1. /\ vote_history' = d.h /\ cast' = cast \union d.votes /\ pending_blocks' = d.pending
        /\ finalized_blocks' = d.finalized /\ received_shred' = d.received /\ timeouts' = d.timeouts
        /\ highest_parent_ready' = d.highest /\ switch_request' = d.switch /\ root_request' = d.root
        /\ failed' = failed
    BY <1>1 DEF Commit
  <2>0. /\ bank_root' = bank_root /\ block_events' \subseteq block_events /\ restored' = restored
        /\ finalized \subseteq finalized' /\ finalized' \subseteq Blocks \union {Genesis}
        /\ bank_root \in Nat /\ standstill_slot \in Nat \union {None} /\ vote_history.root \in Nat
        /\ Sound(d.h, cast \union d.votes) /\ Anchored(d.h, d.pending) /\ Follows(d, finalized')
    BY <1>1 DEF Handled, HandlerInv, HandlerTypeOK, HistoryRecords, SoundAt
  <2>2. HandlerTypeOK'
    <3>1. vote_history' \in HistoryRecords /\ pending_blocks' \subseteq Blocks /\ finalized_blocks' \subseteq Blocks
          /\ received_shred' \subseteq Nat /\ timeouts' \subseteq Nat
          /\ highest_parent_ready' \in Nat \X (Blocks \union {Genesis})
          /\ switch_request' \subseteq Blocks /\ root_request' \in Nat \union {None}
      BY <2>1 DEF Locals
    <3>2. cast' \subseteq AllVotes
      BY <2>0, <2>1 DEF Sound
    <3>3. /\ block_events' \subseteq Blocks /\ bank_root' \in Nat /\ Genesis \in finalized'
          /\ standstill_slot' \in Nat \union {None}
          /\ failed' \in Failures \union {Nothing} /\ restored' \in BOOLEAN
      BY <2>0, <2>1 DEF Handled, HandlerInv, HandlerTypeOK
    <3> QED
      BY <2>0, <3>1, <3>2, <3>3 DEF HandlerTypeOK
  <2>3. Sound(vote_history', cast')
    BY <2>0, <2>1
  <2>6. Anchored(vote_history, pending_blocks)'
    BY <2>0, <2>1 DEF Anchored
  <2>7. StandstillOk'
    <3>1. /\ finalized_blocks' \subseteq finalized'
          /\ root_request' # None => \E f \in finalized' : f.slot >= root_request'
      BY <2>0, <2>1 DEF Follows
    <3>2. ASSUME standstill_slot' # None, ~ restored'
          PROVE  /\ \E f \in finalized' : f.slot = standstill_slot'
                 /\ \A f \in finalized' : f.slot <= standstill_slot'
                 /\ vote_history'.root <= standstill_slot' /\ bank_root' <= standstill_slot'
      <4>1. /\ standstill_slot' = standstill_slot /\ standstill_slot # None /\ ~ restored
            /\ \A f \in finalized' : f \in finalized \/ f.slot <= standstill_slot
        BY <2>0, <3>2 DEF Handled
      <4>2. /\ \E f \in finalized : f.slot = standstill_slot
            /\ \A f \in finalized : f.slot <= standstill_slot
            /\ vote_history.root <= standstill_slot /\ bank_root <= standstill_slot
        BY <4>1 DEF HandlerInv, StandstillOk
      <4>3. \A f \in finalized' : f.slot <= standstill_slot
        BY <4>1, <4>2
      <4>4. d.h.root <= standstill_slot
        <5>1. CASE d.h.root = vote_history.root
          BY <4>2, <5>1
        <5>2. CASE d.h.root # vote_history.root
          BY <2>0, <4>3, <5>2 DEF Follows
        <5> QED
          BY <5>1, <5>2
      <4>5. \E f \in finalized' : f.slot = standstill_slot
        BY <2>0, <4>2
      <4> QED
        BY <2>0, <2>1, <4>1, <4>2, <4>3, <4>4, <4>5
    <3> QED
      BY <3>1, <3>2 DEF StandstillOk
  <2>8. AssertsHold'
    BY <2>0, <2>1 DEF HandlerInv, AssertsHold
  <2>4. BackedInv => BackedInv'
    BY <1>1, <2>1 DEF BackedAt, BackedInv
  <2>5. Settled
    BY <1>1, <2>1 DEF SettledAt, Settled
  <2> QED
    BY <2>2, <2>3, <2>4, <2>5, <2>6, <2>7, <2>8 DEF Kept, HandlerInv
<1>2. CASE ~ Ok(d)
  <2>1. UNCHANGED votorVars /\ failed' = d.failed
    BY <1>2 DEF Commit
  <2>2. failed' \in Failures \union {Nothing}
    BY <2>1 DEF Locals
  <2>3. AssertsHold'
    BY <2>1 DEF SoundAt, AssertsHold, Handled
  <2>4. switch_request' \subseteq Blocks /\ block_events' \subseteq Blocks /\ root_request' = root_request
    BY <2>1 DEF votorVars, Handled, HandlerInv, HandlerTypeOK
  <2>5. UNCHANGED <<vote_history, pending_blocks, finalized_blocks, received_shred,
                    timeouts, highest_parent_ready, cast, restored>>
    BY <2>1 DEF votorVars, Handled
  <2> QED
    BY <2>2, <2>3, <2>4, <2>5, QuietKeeps DEF Handled
<1> QED
  BY <1>1, <1>2

\* An event that the handler ignores.
LEMMA IgnoredKeeps ==
    ASSUME HandlerInv, Handled, UNCHANGED <<votorVars, failed>>
    PROVE  Kept
<1>1. /\ UNCHANGED <<vote_history, pending_blocks, finalized_blocks, received_shred,
                     timeouts, highest_parent_ready, cast, restored>>
      /\ switch_request' = switch_request /\ root_request' = root_request
  BY DEF votorVars, Handled
<1>2. AssertsHold' /\ failed' \in Failures \union {Nothing}
  BY DEF Handled, HandlerInv, HandlerTypeOK, AssertsHold
<1>3. switch_request' \subseteq Blocks /\ block_events' \subseteq Blocks
  BY <1>1 DEF Handled, HandlerInv, HandlerTypeOK
<1> QED
  BY <1>1, <1>2, <1>3, QuietKeeps DEF Handled

\* An event that comes with no announcement of the pool.
LEMMA UnannouncedIs ==
    ASSUME HandlerInv, UNCHANGED <<standstill_slot, bank_root, certified, finalized, restored>>,
           block_events' \subseteq block_events
    PROVE  Handled
  BY DEF HandlerInv, HandlerTypeOK, Handled

\* try_notar on a replayed block, and what it unlocks.
LEMMA NotarOrPendKeeps ==
    ASSUME NEW c \in Locals, SoundAt(c), SettledAt(c), NEW C, NEW b \in Blocks, b.slot > c.h.root,
           NEW f \in NotarOrPend(c, b)
    PROVE  /\ f \in Locals /\ SoundAt(f) /\ SettledAt(f)
           /\ BackedAt(c, C) => BackedAt(f, C)
<1> DEFINE a == NotarReadable(c.h, b)
           d == Check(c, "BelowRoot", a)
<1>0. c.h \in HistoryRecords /\ b.slot \in Nat /\ c.h.root \in Nat
  BY VoteIs DEF Locals, HistoryRecords
<1>1. a \in BOOLEAN /\ a
  <2>1. a \in BOOLEAN
    BY DEF NotarReadable
  <2>2. a
    BY <1>0, ReadableAbove
  <2> QED
    BY <2>1, <2>2
<1>4. b.slot >= c.h.root
  BY <1>0
<1>5. ~ CanNotar(c.h, {}, b) => f = d \/ f = [d EXCEPT !.pending = @ \union {b}]
  BY DEF NotarOrPend
<1>6. CanNotar(c.h, {}, b) => f \in CheckPendingBlocks(Notarize(d, {b}))
  BY DEF NotarOrPend
<1> HIDE DEF a
<1>7. /\ d \in Locals /\ d.h = c.h /\ d.pending = c.pending /\ SoundAt(d) /\ SettledAt(d)
      /\ BackedAt(c, C) => BackedAt(d, C)
  BY <1>1, AssertKeeps
<1> HIDE DEF d
<1>2. CASE CanNotar(c.h, {}, b)
  <2>3. CanNotar(d.h, {b}, b)
    BY <1>2, <1>7 DEF CanNotar
  <2>4. Readable(d.h, b.slot)
    BY <1>4, <1>7 DEF Readable
  <2>5. /\ Notarize(d, {b}) \in Locals /\ SoundAt(Notarize(d, {b}))
        /\ BackedAt(d, C) => BackedAt(Notarize(d, {b}), C)
    BY <1>7, <2>3, <2>4, NotarizeKeeps
  <2> QED
    BY <1>2, <1>6, <1>7, <2>5, CheckPendingKeeps
<1>3. CASE ~ CanNotar(c.h, {}, b)
  <2>1. f = d \/ f = [d EXCEPT !.pending = @ \union {b}]
    BY <1>3, <1>5
  <2>3. CASE f = [d EXCEPT !.pending = @ \union {b}]
    <3>1. d.pending \union {b} \in SUBSET Blocks
      BY <1>7 DEF Locals
    <3>2. /\ f \in Locals /\ f.h = d.h /\ f.votes = d.votes /\ f.failed = d.failed
          /\ f.pending = d.pending \union {b} /\ f.finalized = d.finalized /\ f.root = d.root
      BY <1>7, <2>3, <3>1 DEF Locals
    <3>3. Ok(f) <=> Ok(d)
      BY <3>2 DEF Ok
    <3>4. SoundAt(f)
      <4>1. Anchored(d.h, d.pending) => Anchored(f.h, f.pending)
        BY <1>4, <1>7, <3>2 DEF Anchored
      <4>2. Follows(d, finalized') => Follows(f, finalized')
        BY <3>2 DEF Follows
      <4> QED
        BY <1>7, <3>2, <3>3, <4>1, <4>2 DEF SoundAt
    <3>5. SettledAt(f)
      BY <1>3, <1>7, <3>2, <3>3 DEF SettledAt
    <3>6. BackedAt(d, C) => BackedAt(f, C)
      BY <3>2, <3>3 DEF BackedAt
    <3> QED
      BY <1>7, <3>2, <3>4, <3>5, <3>6
  <2> QED
    BY <1>7, <2>1, <2>3
<1> QED
  BY <1>2, <1>3

\* handle_event on Block.
LEMMA HandleBlockKeeps ==
    ASSUME HandlerInv, NEW b \in Blocks, HandleBlock(b)
    PROVE  Kept
<1>1. Handled
  <2>1. UNCHANGED <<standstill_slot, bank_root, certified, finalized, restored>> /\ block_events' \subseteq block_events
    BY DEF HandleBlock, poolVars
  <2> QED
    BY <2>1, UnannouncedIs
<1>2. CASE UNCHANGED <<votorVars, failed>>
  BY <1>1, <1>2, IgnoredKeeps
<1>3. CASE /\ ~ Ignored(b.slot)
           /\ \E c \in NotarOrPend(Local, b) : \E d \in CheckRootable(c) :
                \E e \in AddMissingParentReady(d, b) : Commit(e)
  <2>0. PICK c \in NotarOrPend(Local, b) : \E d \in CheckRootable(c) :
                \E e \in AddMissingParentReady(d, b) : Commit(e)
    BY <1>3
  <2>1. PICK d \in CheckRootable(c) : \E e \in AddMissingParentReady(d, b) : Commit(e)
    BY <2>0
  <2>2. PICK e \in AddMissingParentReady(d, b) : Commit(e)
    BY <2>1
  <2>3. /\ Local \in Locals /\ SoundAt(Local) /\ SettledAt(Local) /\ (BackedInv => BackedAt(Local, certified'))
        /\ Local.h = vote_history
    BY <1>1, LocalIs
  <2>4. b.slot > Local.h.root
    BY <1>3, <2>3, IgnoreRootIs, VoteIs DEF HandlerInv
  <2>5. c \in Locals /\ SoundAt(c) /\ SettledAt(c) /\ (BackedInv => BackedAt(c, certified'))
    BY <2>3, <2>4, NotarOrPendKeeps
  <2>6. d \in Locals /\ SoundAt(d) /\ SettledAt(d) /\ (BackedInv => BackedAt(d, certified'))
    BY <2>5, CheckRootableKeeps DEF HandlerInv
  <2>7. e \in Locals /\ SoundAt(e) /\ SettledAt(e) /\ (BackedInv => BackedAt(e, certified'))
    BY <2>2, <2>6, AddMissingKeeps
  <2> QED
    BY <1>1, <2>2, <2>7, CommitKeeps
<1> QED
  BY <1>2, <1>3 DEF HandleBlock

\* An event of the pool that announces no finalization.
LEMMA AnnouncedIs ==
    ASSUME HandlerInv, NEW b \in Blocks, Announce({b}, {}), UNCHANGED <<standstill_slot, replayVars, restored>>
    PROVE  Handled /\ b \in certified'
  BY DEF HandlerInv, HandlerTypeOK, Handled, Announce, replayVars

\* handle_event on BlockNotarized: a certificate may make a finalize vote possible.
LEMMA BlockNotarizedKeeps ==
    ASSUME HandlerInv, NEW b \in Blocks, BlockNotarized(b)
    PROVE  Kept
<1> DEFINE C == certified'
           g == AddBlockNotarized(vote_history, b)
           c == [Local EXCEPT !.h = g]
           w == SlotVote("Finalize", b.slot)
           a == FinalizeAssert(c.h, b.slot)
<1>1. Handled /\ b \in C
  BY AnnouncedIs DEF BlockNotarized
<1>2. /\ Local \in Locals /\ SoundAt(Local) /\ SettledAt(Local) /\ (BackedInv => BackedAt(Local, C))
      /\ Local.h = vote_history
  BY <1>1, LocalIs
<1>3. \/ UNCHANGED <<votorVars, failed>>
      \/ ~ Ignored(b.slot) /\ Commit(IF CanFinal(c.h, b) THEN Insert(c, {w}, a) ELSE c)
  BY <1>2 DEF BlockNotarized
<1>4. /\ g \in HistoryRecords /\ g.votes_cast = vote_history.votes_cast /\ g.root = vote_history.root
      /\ g.voted = vote_history.voted /\ g.voted_notar = vote_history.voted_notar
      /\ g.its_over = vote_history.its_over /\ g.skipped = vote_history.skipped
      /\ g.notarized_blocks \subseteq vote_history.notarized_blocks \union {b}
      /\ g.parent_ready = vote_history.parent_ready
  <2>1. vote_history \in HistoryRecords
    BY DEF HandlerInv, HandlerTypeOK
  <2>2. CASE b.slot < vote_history.root
    BY <2>1, <2>2 DEF AddBlockNotarized
  <2>3. CASE ~ (b.slot < vote_history.root)
    <3>1. g = [vote_history EXCEPT !.notarized_blocks = vote_history.notarized_blocks \union {b}]
      BY <2>3 DEF AddBlockNotarized
    <3>2. vote_history.notarized_blocks \union {b} \in SUBSET Blocks
      BY <2>1 DEF HistoryRecords
    <3> HIDE DEF g
    <3> QED
      BY <2>1, <3>1, <3>2 DEF HistoryRecords
  <2> QED
    BY <2>2, <2>3
<1> HIDE DEF g
<1>5. /\ c \in Locals /\ c.h = g /\ c.votes = Local.votes /\ c.failed = Local.failed /\ c.pending = Local.pending
      /\ c.finalized = Local.finalized /\ c.root = Local.root
  BY <1>2, <1>4 DEF Locals
<1> HIDE DEF c
<1>6. /\ SoundAt(c) /\ SettledAt(c) /\ (BackedInv => BackedAt(c, C))
  <2>0. Ok(c) <=> Ok(Local)
    BY <1>5 DEF Ok
  <2>1. SoundAt(c)
    <3>1. Sound(Local.h, cast \union Local.votes) => Sound(c.h, cast \union c.votes)
      BY <1>2, <1>4, <1>5, SameSound
    <3>2. Anchored(Local.h, Local.pending) => Anchored(c.h, c.pending)
      BY <1>2, <1>4, <1>5 DEF Anchored
    <3>3. Follows(Local, finalized') => Follows(c, finalized')
      BY <1>2, <1>4, <1>5 DEF Follows
    <3> QED
      BY <1>2, <1>5, <2>0, <3>1, <3>2, <3>3 DEF SoundAt
  <2>2. BackedInv => BackedAt(c, C)
    BY <1>1, <1>2, <1>4, <1>5, <2>0 DEF BackedAt, Backed
  <2>3. \A d \in Local.pending : CanNotar(c.h, {}, d) => CanNotar(Local.h, {}, d)
    BY <1>2, <1>4, <1>5 DEF CanNotar
  <2>4. SettledAt(c)
    BY <1>2, <1>5, <2>0, <2>3 DEF SettledAt
  <2> QED
    BY <2>1, <2>2, <2>4
<1>9. CASE UNCHANGED <<votorVars, failed>>
  BY <1>1, <1>9, IgnoredKeeps
<1>7. CASE ~ CanFinal(c.h, b) /\ Commit(c)
  BY <1>1, <1>5, <1>6, <1>7, CommitKeeps
<1>8. CASE CanFinal(c.h, b) /\ ~ Ignored(b.slot) /\ Commit(Insert(c, {w}, a))
  <2> DEFINE V == cast \union c.votes
  <2>1. /\ w \in AllVotes /\ w.slot = b.slot /\ w.type = "Finalize" /\ b.slot \in Nat
    BY VoteIs DEF SlotVoteTypes
  <2>2. /\ BlockVote("Notarize", b).slot = b.slot /\ BlockVote("Notarize", b).type = "Notarize"
    BY DEF BlockVote
  <2>3. b \in c.h.notarized_blocks /\ b.slot \notin c.h.skipped /\ b \in c.h.voted_notar
    BY <1>8 DEF CanFinal, BadWindow
  <2>11. b.slot >= c.h.root
    BY <1>4, <1>5, <1>8, <2>1, IgnoreRootIs DEF HandlerInv
  <2>4. a \in BOOLEAN /\ a
    BY <2>3, <2>11 DEF FinalizeAssert
  <2> HIDE DEF w, a
  <2>5. ASSUME Ok(c), Sound(c.h, V) PROVE BlockVote("Notarize", b) \in V
    BY <2>1, <2>3, <2>5, SoundReads
  <2>6. ASSUME Ok(c), Sound(c.h, V)
        PROVE  /\ a
               /\ \A u \in {w} : u.slot >= c.h.root
               /\ \A u \in {w} : \A v \in V \union {w} : ~ Equivocation(u, v)
               /\ \A u \in {w} : \E x \in V \union {w} : x.slot = u.slot /\ x.type \in {"Notarize", "Skip"}
    <3> HIDE DEF V
    <3>0. V \subseteq AllVotes
      BY <2>6 DEF Sound
    <3>1. \A v \in V : v.slot = b.slot => v.type \notin {"Skip", "SkipFallback", "NotarizeFallback"}
      BY <2>1, <2>3, <2>6, <2>11, SoundReads
    <3>2. \A v \in V \union {w} : ~ Equivocation(w, v)
      BY <2>1, <3>0, <3>1, EquivocationIs
    <3> QED
      BY <2>1, <2>2, <2>4, <2>5, <2>6, <2>11, <3>2
  <2>7. ASSUME Ok(c), BackedAt(c, C)
        PROVE  \A u \in {w} : u.type = "Finalize" =>
                 \E d \in c.h.notarized_blocks : BlockVote("Notarize", d) \in V /\ d.slot = u.slot
    <3>1. BlockVote("Notarize", b) \in V
      BY <1>6, <2>5, <2>7 DEF SoundAt
    <3> QED
      BY <2>1, <2>3, <3>1
  <2>8. \A u \in {w} : u.type # "Notarize"
    BY <2>1
  <2>9. {w} \subseteq AllVotes
    BY <2>1
  <2>10. /\ Insert(c, {w}, a) \in Locals /\ SoundAt(Insert(c, {w}, a))
         /\ BackedAt(c, C) => BackedAt(Insert(c, {w}, a), C)
         /\ SettledAt(c) => SettledAt(Insert(c, {w}, a))
    BY <1>5, <1>6, <2>4, <2>6, <2>7, <2>8, <2>9, InsertKeeps
  <2> QED
    BY <1>1, <1>6, <1>8, <2>10, CommitKeeps
<1> QED
  BY <1>3, <1>7, <1>8, <1>9

\* handle_event on FirstShred.
LEMMA FirstShredKeeps ==
    ASSUME HandlerInv, NEW s \in Slots, FirstShred(s)
    PROVE  Kept
<1> DEFINE x == Local.received \union {s}
           d == [Local EXCEPT !.received = x]
<1>0. Handled
  BY UnannouncedIs DEF FirstShred, replayVars, poolVars
<1>1. /\ Local \in Locals /\ SoundAt(Local) /\ SettledAt(Local) /\ (BackedInv => BackedAt(Local, certified'))
  BY <1>0, LocalIs
<1>2. Commit(d)
  BY DEF FirstShred
<1>3. x \in SUBSET Nat
  BY <1>1, MaxSlotAssumption DEF Locals, Slots
<1> HIDE DEF x
<1>4. /\ d \in Locals /\ d.h = Local.h /\ d.votes = Local.votes /\ d.failed = Local.failed
      /\ d.pending = Local.pending /\ d.finalized = Local.finalized /\ d.root = Local.root
  BY <1>1, <1>3 DEF Locals
<1> HIDE DEF d
<1>5. SoundAt(d) /\ SettledAt(d) /\ (BackedInv => BackedAt(d, certified'))
  BY <1>1, <1>4 DEF SoundAt, BackedAt, SettledAt, Ok, Follows
<1> QED
  BY <1>0, <1>2, <1>4, <1>5, CommitKeeps

\* handle_event on ParentReady.
LEMMA ParentReadyKeeps ==
    ASSUME HandlerInv, NEW s \in Slots, NEW parent \in Blocks, ParentReady(s, parent)
    PROVE  Kept
<1>1. Handled /\ parent \in certified'
  BY AnnouncedIs DEF ParentReady
<1>0. s \in Nat
  BY MaxSlotAssumption DEF Slots
<1>2. /\ Local \in Locals /\ SoundAt(Local) /\ (BackedInv => BackedAt(Local, certified'))
  BY <1>1, LocalIs
<1>5. CASE UNCHANGED <<votorVars, failed>>
  BY <1>1, <1>5, IgnoredKeeps
<1>6. CASE \E d \in ParentReadyEvent(Local, s, parent) : Commit(d)
  <2>1. PICK d \in ParentReadyEvent(Local, s, parent) : Commit(d)
    BY <1>6
  <2>2. d \in Locals /\ SoundAt(d) /\ SettledAt(d) /\ (BackedAt(Local, certified') => BackedAt(d, certified'))
    BY <1>0, <1>1, <1>2, <2>1, ParentReadyEventKeeps
  <2> QED
    BY <1>1, <1>2, <2>1, <2>2, CommitKeeps
<1> QED
  BY <1>5, <1>6 DEF ParentReady

\* handle_event on Timeout and TimeoutCrashedLeader.
LEMMA TimeoutKeeps ==
    ASSUME HandlerInv, NEW s \in Slots, Timeout(s) \/ TimeoutCrashedLeader(s)
    PROVE  Kept
<1>0. Handled
  BY UnannouncedIs DEF Timeout, TimeoutCrashedLeader, replayVars, poolVars
<1>1. Commit(TrySkipWindow(Local, s)) /\ s \in Nat
  BY MaxSlotAssumption DEF Timeout, TimeoutCrashedLeader, Slots
<1>2. /\ Local \in Locals /\ SoundAt(Local) /\ SettledAt(Local) /\ (BackedInv => BackedAt(Local, certified'))
  BY <1>0, LocalIs
<1> DEFINE d == TrySkipWindow(Local, s)
<1>3. d \in Locals /\ SoundAt(d) /\ (BackedAt(Local, certified') => BackedAt(d, certified'))
      /\ (SettledAt(Local) => SettledAt(d))
  BY <1>1, <1>2, TrySkipKeeps DEF HandlerInv
<1> HIDE DEF d
<1>4. Commit(d)
  BY <1>1 DEF d
<1> QED
  BY <1>0, <1>2, <1>3, <1>4, CommitKeeps

\* A fallback vote after try_skip_window, which has voted in its slot: w is the vote,
\* and the first vote in its slot does not exclude it.
LEMMA FallbackKeeps ==
    ASSUME HandlerInv, Handled, NEW s \in Nat, ~ Ignored(s), NEW w \in AllVotes, w.slot = s,
           w.type \in {"NotarizeFallback", "SkipFallback"},
           ASSUME NEW v \in cast, v.type # "Finalize" PROVE ~ Equivocation(w, v),
           w.type = "SkipFallback" => \E v \in cast : v.slot = s /\ v.type = "Notarize",
           NEW c, c = TrySkipWindow(Local, s),
           \/ Commit(c)
           \/ s \notin c.h.its_over /\ Commit(Insert(c, {w}, FallbackAssert(c.h, s)))
    PROVE  Kept
<1> DEFINE a == FallbackAssert(c.h, s)
           V == cast \union c.votes
<1>1. /\ Local \in Locals /\ SoundAt(Local) /\ SettledAt(Local) /\ (BackedInv => BackedAt(Local, certified'))
      /\ Local.votes = {} /\ Local.h = vote_history
  BY LocalIs
<1>2. /\ c \in Locals /\ SoundAt(c) /\ SettledAt(c) /\ (BackedInv => BackedAt(c, certified'))
      /\ \A v \in c.votes : v.type = "Skip"
      /\ c.h.root = Local.h.root
      /\ s > MaxOf(bank_root, Local.h.root) => s \in c.h.voted
  BY <1>1, TrySkipKeeps DEF HandlerInv
<1>3. CASE Commit(c)
  BY <1>2, <1>3, CommitKeeps
<1>4. CASE s \notin c.h.its_over /\ Commit(Insert(c, {w}, a))
  <2>0. s > IgnoreRoot /\ s >= c.h.root
    BY <1>1, <1>2, IgnoreRootIs DEF HandlerInv
  <2>1. a \in BOOLEAN /\ a /\ s \in c.h.voted
    BY <1>1, <1>2, <1>4, <2>0 DEF FallbackAssert, IgnoreRoot
  <2> HIDE DEF a
  <2>2. ASSUME Ok(c), Sound(c.h, V)
        PROVE  /\ a
               /\ \A u \in {w} : u.slot >= c.h.root
               /\ \A u \in {w} : \A v \in V \union {w} : ~ Equivocation(u, v)
               /\ \A u \in {w} : \E x \in V \union {w} : x.slot = u.slot /\ x.type \in {"Notarize", "Skip"}
    <3>1. V \subseteq AllVotes /\ \A v1, v2 \in V : ~ Equivocation(v1, v2)
      BY <2>2 DEF Sound
    <3>2. /\ \A v \in V : v.slot = s => v.type # "Finalize"
          /\ \E x \in V : x.slot = s /\ x.type \in {"Notarize", "Skip"}
      BY <1>4, <2>0, <2>1, <2>2, SoundReads
    <3>3. ASSUME NEW v \in V, Equivocation(w, v) PROVE FALSE
      <4>1. v \in AllVotes /\ v.slot = s
        BY <3>1, <3>3, EquivocationIs
      <4>2. v.type # "Finalize"
        BY <3>2, <4>1
      <4>3. v \in c.votes
        BY <3>3, <4>2
      <4>4. v.type = "Skip"
        BY <1>2, <4>3
      <4>5. w.type = "SkipFallback"
        BY <3>3, <4>1, <4>4, EquivocationIs
      <4>6. PICK n \in cast : n.slot = s /\ n.type = "Notarize"
        BY <4>5
      <4>7. v.block = {}
        <5>1. v = SlotVote("Skip", v.slot) \/ v.type # "Skip" \/ v.block = {}
          BY <4>1 DEF AllVotes, BlockVote, SlotVote, BlockVoteTypes
        <5> QED
          BY <4>4, <5>1 DEF SlotVote
      <4>8. n \in V /\ n \in AllVotes
        BY <3>1
      <4>9. Equivocation(n, v)
        BY <4>1, <4>4, <4>6, <4>7, <4>8, EquivocationIs
      <4> QED
        BY <3>1, <4>8, <4>9
    <3>4. ~ Equivocation(w, w)
      BY EquivocationIs
    <3> HIDE DEF V
    <3> QED
      BY <2>0, <2>1, <2>2, <3>2, <3>3, <3>4
  <2>3. ASSUME Ok(c), BackedAt(c, certified')
        PROVE  \A u \in {w} : u.type = "Finalize" =>
                 \E d \in c.h.notarized_blocks : BlockVote("Notarize", d) \in V /\ d.slot = u.slot
    OBVIOUS
  <2>4. {w} \subseteq AllVotes /\ \A u \in {w} : u.type # "Notarize"
    OBVIOUS
  <2>5. /\ Insert(c, {w}, a) \in Locals /\ SoundAt(Insert(c, {w}, a))
        /\ BackedAt(c, certified') => BackedAt(Insert(c, {w}, a), certified')
        /\ SettledAt(c) => SettledAt(Insert(c, {w}, a))
    BY <1>2, <2>1, <2>2, <2>3, <2>4, InsertKeeps
  <2> QED
    BY <1>2, <1>4, <2>5, CommitKeeps
<1> QED
  BY <1>3, <1>4

\* handle_event on SafeToNotar.
LEMMA SafeToNotarKeeps ==
    ASSUME HandlerInv, NEW b \in Blocks, SafeToNotar(b)
    PROVE  Kept
<1> DEFINE w == BlockVote("NotarizeFallback", b)
           c == TrySkipWindow(Local, b.slot)
<1>0. Handled
  BY UnannouncedIs DEF SafeToNotar, replayVars, poolVars
<1>1. /\ BlockVote("Notarize", b) \notin cast /\ ~ Ignored(b.slot)
      /\ \/ Commit(c)
         \/ b.slot \notin c.h.its_over /\ Commit(Insert(c, {w}, FallbackAssert(c.h, b.slot)))
  BY DEF SafeToNotar
<1>2. w \in AllVotes /\ w.slot = b.slot /\ w.type = "NotarizeFallback" /\ w.block = {b} /\ b.slot \in Nat
  BY VoteIs DEF BlockVoteTypes
<1> HIDE DEF w, c
<1>3. ASSUME NEW v \in cast, v.type # "Finalize", Equivocation(w, v) PROVE FALSE
  <2>1. v \in AllVotes
    BY DEF HandlerInv, HandlerTypeOK
  <2>2. v.type = "Notarize" /\ v.block = {b}
    BY <1>2, <1>3, <2>1, EquivocationIs
  <2>3. PICK d \in Blocks : v = BlockVote("Notarize", d)
    BY <2>1, <2>2, VoteIs DEF BlockVoteTypes
  <2>4. v.block = {d}
    BY <2>3 DEF BlockVote
  <2>5. d = b
    BY <2>2, <2>4
  <2> QED
    BY <1>1, <2>3, <2>5
<1>4. c = TrySkipWindow(Local, b.slot)
  BY DEF c
<1> QED
  BY <1>0, <1>1, <1>2, <1>3, <1>4, FallbackKeeps

\* handle_event on SafeToSkip.
LEMMA SafeToSkipKeeps ==
    ASSUME HandlerInv, NEW s \in Slots, SafeToSkip(s)
    PROVE  Kept
<1> DEFINE w == SlotVote("SkipFallback", s)
           c == TrySkipWindow(Local, s)
<1>0. Handled
  BY UnannouncedIs DEF SafeToSkip, replayVars, poolVars
<1>1. /\ (\E v \in cast : v.slot = s /\ v.type = "Notarize") /\ ~ Ignored(s)
      /\ \/ Commit(c)
         \/ s \notin c.h.its_over /\ Commit(Insert(c, {w}, FallbackAssert(c.h, s)))
  BY DEF SafeToSkip
<1>2. s \in Nat
  BY MaxSlotAssumption DEF Slots
<1>3. w \in AllVotes /\ w.slot = s /\ w.type = "SkipFallback"
  BY <1>2, VoteIs DEF SlotVoteTypes
<1> HIDE DEF w, c
<1>4. ASSUME NEW v \in cast, v.type # "Finalize", Equivocation(w, v) PROVE FALSE
  <2>1. cast \subseteq AllVotes /\ \A v1, v2 \in cast : ~ Equivocation(v1, v2)
    BY DEF HandlerInv, Sound
  <2>2. v \in AllVotes /\ v.type = "Skip" /\ v.slot = s
    BY <1>3, <1>4, <2>1, EquivocationIs
  <2>3. v.block = {}
    BY <2>2 DEF AllVotes, BlockVote, SlotVote, BlockVoteTypes
  <2>4. PICK n \in cast : n.slot = s /\ n.type = "Notarize"
    BY <1>1
  <2>5. Equivocation(n, v)
    BY <2>1, <2>2, <2>3, <2>4, EquivocationIs
  <2> QED
    BY <2>1, <2>5
<1>5. c = TrySkipWindow(Local, s)
  BY DEF c
<1> QED
  BY <1>0, <1>1, <1>2, <1>3, <1>4, <1>5, FallbackKeeps

\* handle_event on Finalized: a finalization that the handler ignores is not above
\* the standstill either.
LEMMA FinalizedKeeps ==
    ASSUME HandlerInv, NEW b \in Blocks, Finalized(b)
    PROVE  Kept
<1> DEFINE x == Local.finalized \union {b}
           e == [Local EXCEPT !.finalized = x]
<1>0. b.slot \in Nat /\ standstill_slot \in Nat \union {None}
  BY VoteIs DEF HandlerInv, HandlerTypeOK
<1>1. Handled /\ finalized' = finalized \union {b}
  <2>1. /\ bank_root' = bank_root /\ block_events' \subseteq block_events /\ restored' = restored
        /\ certified \subseteq certified' /\ finalized' = finalized \union {b}
        /\ finalized' \subseteq Blocks \union {Genesis}
    BY DEF Finalized, Announce, replayVars, HandlerInv, HandlerTypeOK
  <2>2. CASE Ignored(b.slot)
    <3>1. standstill_slot' = standstill_slot
      BY <2>2 DEF Finalized
    <3>2. ASSUME standstill_slot # None, ~ restored PROVE b.slot <= standstill_slot
      <4>1. vote_history.root <= standstill_slot /\ bank_root <= standstill_slot
        BY <3>2 DEF HandlerInv, StandstillOk
      <4>2. b.slot <= IgnoreRoot
        BY <2>2 DEF Ignored
      <4>3. /\ vote_history.root \in Nat /\ bank_root \in Nat /\ IgnoreRoot \in Nat
            /\ IgnoreRoot = vote_history.root \/ IgnoreRoot = bank_root
        BY IgnoreRootIs DEF HandlerInv
      <4> QED
        BY <1>0, <3>2, <4>1, <4>2, <4>3
    <3> QED
      BY <2>1, <3>1, <3>2 DEF Handled
  <2>3. CASE ~ Ignored(b.slot)
    <3>1. standstill_slot' = IF standstill_slot # None /\ b.slot > standstill_slot THEN None ELSE standstill_slot
      BY <2>3 DEF Finalized
    <3>2. \/ standstill_slot' = None
          \/ standstill_slot' = standstill_slot /\ (standstill_slot # None => b.slot <= standstill_slot)
      BY <1>0, <3>1
    <3> QED
      BY <2>1, <3>2 DEF Handled
  <2> QED
    BY <2>1, <2>2, <2>3
<1>2. /\ Local \in Locals /\ SoundAt(Local) /\ SettledAt(Local) /\ (BackedInv => BackedAt(Local, certified'))
  BY <1>1, LocalIs
<1>3. CASE UNCHANGED <<votorVars, failed>>
  BY <1>1, <1>3, IgnoredKeeps
<1>4. CASE \E c \in CheckRootable(e) : \E d \in AddMissingParentReady(c, b) : Commit(d)
  <2>1. PICK c \in CheckRootable(e) : \E d \in AddMissingParentReady(c, b) : Commit(d)
    BY <1>4
  <2>2. PICK d \in AddMissingParentReady(c, b) : Commit(d)
    BY <2>1
  <2>3. x \in SUBSET Blocks
    BY <1>2 DEF Locals
  <2>4. Local.finalized \subseteq finalized' => x \subseteq finalized'
    BY <1>1
  <2> HIDE DEF x
  <2>5. /\ e \in Locals /\ e.h = Local.h /\ e.votes = Local.votes /\ e.failed = Local.failed
        /\ e.pending = Local.pending /\ e.finalized = x /\ e.root = Local.root
    BY <1>2, <2>3 DEF Locals
  <2> HIDE DEF e
  <2>6. SoundAt(e) /\ SettledAt(e) /\ (BackedInv => BackedAt(e, certified'))
    BY <1>2, <2>4, <2>5 DEF SoundAt, BackedAt, SettledAt, Ok, Follows
  <2>7. c \in Locals /\ SoundAt(c) /\ SettledAt(c) /\ (BackedInv => BackedAt(c, certified'))
    BY <2>1, <2>5, <2>6, CheckRootableKeeps DEF HandlerInv
  <2>8. d \in Locals /\ SoundAt(d) /\ SettledAt(d) /\ (BackedInv => BackedAt(d, certified'))
    BY <2>2, <2>7, AddMissingKeeps
  <2> QED
    BY <1>1, <2>2, <2>8, CommitKeeps
<1> QED
  BY <1>3, <1>4 DEF Finalized

\* handle_event on Standstill: the pool reports its highest finalized slot, which is
\* the slot of the standstill that has not ended.
LEMMA StandstillKeeps ==
    ASSUME HandlerInv, Standstill
    PROVE  Kept
<1> DEFINE H == HighestFinalizedSlot
           S == {f.slot : f \in finalized}
<1>1. /\ finalized \subseteq Blocks \union {Genesis} /\ Genesis \in finalized
      /\ standstill_slot \in Nat \union {None} /\ failed \in Failures \union {Nothing}
  BY DEF HandlerInv, HandlerTypeOK
<1>2. \A f \in finalized : f.slot \in Slots /\ f.slot \in Nat
  BY <1>1, FinalizedSlots
<1>3. S \subseteq Slots /\ S # {}
  BY <1>1, <1>2
<1>4. \E s \in S : \A f \in finalized : f.slot <= s
  <2>1. \A f \in finalized : f.slot \in S
    OBVIOUS
  <2> HIDE DEF S
  <2> QED
    BY <1>3, <2>1, HighestSlot
<1>5. H \in S /\ \A f \in finalized : f.slot <= H
  BY <1>4 DEF HighestFinalizedSlot
<1>6. H \in Nat /\ \E f \in finalized : f.slot = H
  BY <1>2, <1>5
<1> HIDE DEF H, S
<1>7. /\ vote_history.root <= H /\ bank_root <= H
  <2>1. H >= IgnoreRoot
    BY DEF Standstill, H
  <2> QED
    BY <1>6, <2>1, IgnoreRootIs DEF HandlerInv
<1>8. /\ standstill_slot' = IF standstill_slot = None THEN H ELSE standstill_slot
      /\ failed' = IF standstill_slot \in {None, H} THEN failed ELSE "Standstill"
      /\ UNCHANGED <<vote_history, pending_blocks, finalized_blocks, received_shred, timeouts,
                     highest_parent_ready, switch_request, root_request, cast, bank_root,
                     block_events, certified, finalized, restored>>
  BY DEF Standstill, H, votorVars, replayVars, poolVars
<1>9. ~ restored /\ standstill_slot # None => standstill_slot = H
  <2> SUFFICES ASSUME ~ restored, standstill_slot # None PROVE standstill_slot = H
    OBVIOUS
  <2>1. /\ \E f \in finalized : f.slot = standstill_slot
        /\ \A f \in finalized : f.slot <= standstill_slot
    BY DEF HandlerInv, StandstillOk
  <2> QED
    BY <1>1, <1>5, <1>6, <2>1
<1>10. AssertsHold' /\ failed' \in Failures \union {Nothing}
  <2>1. CASE standstill_slot \in {None, H}
    BY <1>1, <1>8, <2>1 DEF HandlerInv, AssertsHold
  <2>2. CASE standstill_slot \notin {None, H}
    BY <1>8, <1>9, <2>2 DEF AssertsHold, Failures
  <2> QED
    BY <2>1, <2>2
<1>11. HandlerTypeOK'
  BY <1>6, <1>8, <1>10 DEF HandlerInv, HandlerTypeOK
<1>12. StandstillOk'
  <2>1. standstill_slot' # None /\ ~ restored' => standstill_slot' = H
    BY <1>8, <1>9
  <2> QED
    BY <1>5, <1>6, <1>7, <1>8, <2>1 DEF HandlerInv, StandstillOk
<1>13. Sound(vote_history', cast') /\ Anchored(vote_history, pending_blocks)'
  BY <1>8 DEF HandlerInv, Anchored
<1>14. (BackedInv => BackedInv') /\ Settled
  BY <1>8 DEF BackedInv, Settled
<1> QED
  BY <1>10, <1>11, <1>12, <1>13, <1>14 DEF Kept, HandlerInv

\* A step of replay: the root it applies was requested, and only its bank can be
\* missing.
LEMMA ReplayKeeps ==
    ASSUME HandlerInv, (\E b \in Blocks : ReplayBlock(b)) \/ ApplyRoot \/ SwitchBank
    PROVE  Kept
<1>0. /\ switch_request \subseteq Blocks /\ block_events \subseteq Blocks
      /\ finalized \subseteq Blocks \union {Genesis} /\ failed \in Failures \union {Nothing}
  BY DEF HandlerInv, HandlerTypeOK
<1>1. /\ UNCHANGED <<vote_history, pending_blocks, finalized_blocks, received_shred,
                     timeouts, highest_parent_ready, cast, restored>>
      /\ UNCHANGED <<certified, finalized, standstill_slot>>
  BY DEF ReplayBlock, ApplyRoot, SwitchBank, votorVars, poolVars
<1>2. switch_request' \subseteq Blocks /\ block_events' \subseteq Blocks
  <2>1. CASE \E b \in Blocks : ReplayBlock(b)
    BY <1>0, <2>1 DEF ReplayBlock, votorVars
  <2>2. CASE ApplyRoot
    BY <1>0, <2>2 DEF ApplyRoot
  <2>3. CASE SwitchBank
    BY <1>0, <2>3 DEF SwitchBank
  <2> QED
    BY <2>1, <2>2, <2>3
<1>3. failed' = failed \/ failed' = "RootBank"
  BY DEF ReplayBlock, ApplyRoot, SwitchBank
<1>4. AssertsHold' /\ failed' \in Failures \union {Nothing}
  BY <1>0, <1>1, <1>3 DEF HandlerInv, AssertsHold, Failures
<1>5. /\ root_request' \in {root_request, None}
      /\ bank_root' = bank_root \/ (bank_root' = root_request /\ root_request # None)
  BY DEF ReplayBlock, ApplyRoot, SwitchBank, votorVars
<1>6. \/ standstill_slot' = None
      \/ /\ standstill_slot' = standstill_slot
         /\ standstill_slot # None /\ ~ restored =>
               \A f \in finalized' : f \in finalized \/ f.slot <= standstill_slot
  BY <1>1
<1> QED
  BY <1>0, <1>1, <1>2, <1>4, <1>5, <1>6, QuietKeeps

-----------------------------------------------------------------------------
(* The theorems                                                              *)

\* A saved history is a history.
LEMMA LoadedAre == Loaded \subseteq HistoryRecords
<1>1. Slots \subseteq Nat
  BY MaxSlotAssumption DEF Slots
<1>2. Votes \subseteq AllVotes
  BY <1>1 DEF Votes, AllVotes
<1>3. Histories \subseteq HistoryRecords
  BY <1>1, <1>2 DEF Histories, HistoryRecords
<1> QED
  BY <1>3, InputsAssumption DEF Loaded

\* The node starts with a consistent history.
LEMMA InitHandler ==
    ASSUME ConsistentHistories, Init
    PROVE  HandlerInv /\ (GroundedHistories => BackedInv)
<1>1. vote_history \in Loaded /\ vote_history \in HistoryRecords
  BY LoadedAre DEF Init, Loaded
<1>2. Sound(vote_history, cast)
  BY <1>1 DEF Init, ConsistentHistories
<1>3. HandlerTypeOK
  BY <1>1, <1>2 DEF Init, HandlerTypeOK, Sound
<1>4. Anchored(vote_history, pending_blocks)
  BY <1>1 DEF Init, ConsistentHistories, Anchored
<1>6. StandstillOk /\ AssertsHold
  BY DEF Init, StandstillOk, AssertsHold, Nothing
<1>5. GroundedHistories => BackedInv
  <2>1. Justifying(vote_history) \subseteq certified /\ cast = vote_history.votes_cast
    BY DEF Init
  <2> QED
    BY <1>1, <2>1, BackedMore DEF GroundedHistories, BackedInv
<1> QED
  BY <1>2, <1>3, <1>4, <1>5, <1>6 DEF HandlerInv

\* handle_set_identity: the loaded history may have any root.
LEMMA SetIdentityKeeps ==
    ASSUME ConsistentHistories, HandlerInv, NEW h \in SwitchHistories, SetIdentity(h)
    PROVE  HandlerInv' /\ (GroundedHistories => BackedInv')
<1>1. /\ vote_history' = h /\ cast' = h.votes_cast /\ Justifying(h) \subseteq certified'
      /\ finalized' = finalized /\ restored' = (restored \/ h.root > vote_history.root)
      /\ UNCHANGED <<pending_blocks, finalized_blocks, received_shred, timeouts, standstill_slot,
                     highest_parent_ready, switch_request, root_request, bank_root, block_events, failed>>
  BY DEF SetIdentity, Announce, replayVars
<1>2. h \in Loaded /\ h \in HistoryRecords
  BY LoadedAre DEF Loaded
<1>3. Sound(h, h.votes_cast) /\ (h.root = 0 \/ h.root \in h.voted)
  BY <1>2 DEF ConsistentHistories
<1>4. HandlerTypeOK'
  <2>1. restored' \in BOOLEAN
    BY <1>1
  <2>2. cast' \subseteq AllVotes
    BY <1>1, <1>3 DEF Sound
  <2> QED
    BY <1>1, <1>2, <2>1, <2>2 DEF HandlerInv, HandlerTypeOK
<1>5. GroundedHistories => BackedInv'
  BY <1>1, <1>2, BackedMore DEF GroundedHistories, BackedInv
<1>6. h.root \in Nat /\ vote_history.root \in Nat /\ pending_blocks \subseteq Blocks
      /\ standstill_slot \in Nat \union {None}
  BY <1>2 DEF HandlerInv, HandlerTypeOK, HistoryRecords
<1>7. ~ restored' => ~ restored /\ h.root <= vote_history.root
  <2>1. ~ (h.root > vote_history.root) => h.root <= vote_history.root
    BY <1>6
  <2> QED
    BY <1>1, <2>1, Zenon
<1>8. Anchored(vote_history, pending_blocks)'
  <2>1. ASSUME ~ restored', NEW b \in pending_blocks PROVE b.slot >= h.root
    <3>1. b.slot >= vote_history.root /\ b.slot \in Nat
      BY <1>6, <1>7, <2>1, VoteIs DEF HandlerInv, Anchored
    <3> QED
      BY <1>6, <1>7, <2>1, <3>1
  <2> QED
    BY <1>1, <1>3, <2>1 DEF Anchored
<1>9. StandstillOk'
  <2>1. ASSUME standstill_slot # None, ~ restored'
        PROVE  /\ \E f \in finalized : f.slot = standstill_slot
               /\ \A f \in finalized : f.slot <= standstill_slot
               /\ h.root <= standstill_slot /\ bank_root <= standstill_slot
    <3>1. /\ \E f \in finalized : f.slot = standstill_slot
          /\ \A f \in finalized : f.slot <= standstill_slot
          /\ vote_history.root <= standstill_slot /\ bank_root <= standstill_slot
      BY <1>7, <2>1 DEF HandlerInv, StandstillOk
    <3> QED
      BY <1>6, <1>7, <2>1, <3>1
  <2>2. /\ finalized_blocks \subseteq finalized
        /\ root_request # None => \E f \in finalized : f.slot >= root_request
    BY DEF HandlerInv, StandstillOk
  <2> QED
    BY <1>1, <2>1, <2>2 DEF StandstillOk
<1>10. AssertsHold'
  BY <1>1 DEF HandlerInv, AssertsHold
<1> QED
  BY <1>1, <1>3, <1>4, <1>5, <1>8, <1>9, <1>10 DEF HandlerInv

\* Every step keeps the invariants.
LEMMA StepKeeps ==
    ASSUME ConsistentHistories, HandlerInv, InputsInv, [Next]_handlerVars
    PROVE  /\ HandlerInv' /\ InputsInv'
           /\ GroundedHistories /\ BackedInv => BackedInv'
           /\ (\E h \in SwitchHistories : SetIdentity(h)) \/ Settled
<1>0. /\ inputs.blocks \subseteq Blocks /\ inputs.notarized \subseteq Blocks
      /\ inputs.ready \subseteq Slots \X Blocks /\ inputs.shreds \subseteq Slots
      /\ inputs.safe_to_notar \subseteq Blocks /\ inputs.safe_to_skip \subseteq Slots
      /\ inputs.finalized \subseteq Blocks
  BY InputsAssumption DEF InputsInv
<1>2. ASSUME NEW b \in inputs.blocks, ReplayBlock(b) PROVE Kept
  BY <1>0, <1>2, ReplayKeeps
<1>3. ASSUME NEW b \in inputs.blocks, HandleBlock(b) PROVE Kept
  BY <1>0, <1>3, HandleBlockKeeps
<1>4. ASSUME NEW b \in inputs.notarized, BlockNotarized(b) PROVE Kept
  BY <1>0, <1>4, BlockNotarizedKeeps
<1>5. ASSUME NEW p \in inputs.ready, ParentReady(p[1], p[2]) PROVE Kept
  BY <1>0, <1>5, ParentReadyKeeps
<1>6. ASSUME NEW s \in inputs.shreds, FirstShred(s) PROVE Kept
  BY <1>0, <1>6, FirstShredKeeps
<1>7. ASSUME NEW s \in Slots, TimeoutCrashedLeader(s) \/ Timeout(s) PROVE Kept
  BY <1>7, TimeoutKeeps
<1>8. ASSUME NEW b \in inputs.safe_to_notar, SafeToNotar(b) PROVE Kept
  BY <1>0, <1>8, SafeToNotarKeeps
<1>9. ASSUME NEW s \in inputs.safe_to_skip, SafeToSkip(s) PROVE Kept
  BY <1>0, <1>9, SafeToSkipKeeps
<1>10. ASSUME NEW b \in inputs.finalized, Finalized(b) PROVE Kept
  BY <1>0, <1>10, FinalizedKeeps
<1>11. ASSUME Standstill PROVE Kept
  BY <1>11, StandstillKeeps
<1>12. ASSUME ApplyRoot \/ SwitchBank PROVE Kept
  BY <1>12, ReplayKeeps
<1>1. InputsInv'
  BY DEF handlerVars, Next, InputsInv
<1>13. CASE UNCHANGED handlerVars
  <2>1. UNCHANGED <<votorVars, failed>> /\ UNCHANGED <<standstill_slot, bank_root, certified, finalized, restored>>
        /\ block_events' \subseteq block_events
    BY <1>13 DEF handlerVars, votorVars
  <2>2. Kept
    BY <2>1, UnannouncedIs, IgnoredKeeps
  <2> QED
    BY <1>1, <2>2 DEF Kept
<1>14. CASE \E h \in SwitchHistories : SetIdentity(h)
  BY <1>1, <1>14, SetIdentityKeeps
<1>15. CASE Kept
  BY <1>1, <1>15 DEF Kept
<1> QED
  BY <1>2, <1>3, <1>4, <1>5, <1>6, <1>7, <1>8, <1>9, <1>10, <1>11, <1>12, <1>13, <1>14, <1>15
     DEF Next, Step

\* The invariant of the handler holds in every state.
THEOREM HandlerInvariance ==
    ASSUME ConsistentHistories
    PROVE  Spec => []HandlerInv
<1>1. Init => HandlerInv /\ InputsInv
  BY InitHandler DEF Init, InputsInv
<1>2. HandlerInv /\ InputsInv /\ [Next]_handlerVars => HandlerInv' /\ InputsInv'
  BY StepKeeps
<1> QED
  BY <1>1, <1>2, PTL DEF Spec

\* No two votes an identity has cast exclude each other: the conditions of try_notar,
\* try_final, try_skip_window and the fallback votes exclude it together, although
\* set_root makes the history forget.
THEOREM VotesNeverConflict ==
    ASSUME ConsistentHistories
    PROVE  Spec => []NoConflictingVotes
<1>1. HandlerInv => NoConflictingVotes
  BY DEF HandlerInv, Sound, NoConflictingVotes
<1>2. Spec => []HandlerInv
  BY HandlerInvariance
<1> QED
  BY <1>1, <1>2, PTL

\* The asserts of add_vote never fail; the queries of the history below its root and
\* the debug_assert on standstill_slot do only after set-identity has loaded a history
\* with a later root.
THEOREM AssertsNeverFail ==
    ASSUME ConsistentHistories
    PROVE  Spec => []AssertsHold
<1>1. HandlerInv => AssertsHold
  BY DEF HandlerInv
<1>2. Spec => []HandlerInv
  BY HandlerInvariance
<1> QED
  BY <1>1, <1>2, PTL

\* Every finalize vote rests on a certificate and on the own notarize vote, every
\* notarize vote on the chain it extends (try_final, try_notar).
THEOREM VotesAlwaysBacked ==
    ASSUME ConsistentHistories, GroundedHistories
    PROVE  Spec => []VotesBacked
<1>1. Init => HandlerInv /\ BackedInv /\ InputsInv
  BY InitHandler DEF Init, InputsInv
<1>2. HandlerInv /\ BackedInv /\ InputsInv /\ [Next]_handlerVars
        => HandlerInv' /\ BackedInv' /\ InputsInv'
  BY StepKeeps
<1>3. BackedInv => VotesBacked
  BY DEF BackedInv, Backed, VotesBacked, FinalizeBacked, NotarizeExtends, OpensChain
<1> QED
  BY <1>1, <1>2, <1>3, PTL DEF Spec

\* No step but set-identity makes a pending block votable and leaves it behind:
\* check_pending_blocks runs whenever a vote or a parent-ready could unlock one.
THEOREM NothingVotableLeft ==
    ASSUME ConsistentHistories
    PROVE  Spec => NoneLeftVotable
<1>1. Init => HandlerInv /\ InputsInv
  BY InitHandler DEF Init, InputsInv
<1>2. HandlerInv /\ InputsInv /\ [Next]_handlerVars
        => /\ HandlerInv' /\ InputsInv'
           /\ [(\E h \in SwitchHistories : SetIdentity(h)) \/ Settled]_handlerVars
  BY StepKeeps
<1> QED
  BY <1>1, <1>2, PTL DEF Spec, NoneLeftVotable, Settled

=============================================================================
