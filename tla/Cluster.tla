------------------------------ MODULE Cluster ------------------------------
(***************************************************************************)
(* Validators that vote with the rules of the event handler (VotingRules)  *)
(* on what their consensus pools conclude (Stakes): the composition of     *)
(* EventHandler and ConsensusPool over many nodes.                         *)
(*                                                                         *)
(* Messages are delayed, lost and sent again: a step of a validator may    *)
(* use any votes and certificates there are, and more of them never        *)
(* disable it, so that what a pool has seen is not part of the state.      *)
(* Faulty validators tell each pool what they like; no pool keeps two of   *)
(* their votes that exclude each other.  A handler casts several votes on  *)
(* one event; here others may step in between.  Rooting, which forgets     *)
(* finalized slots, and standstills, which repeat votes, change no vote.   *)
(***************************************************************************)
EXTENDS VotingRules, Stakes

CONSTANT Faulty        \* validators that need not follow the code

\* The fault tolerance that the thresholds of 40, 60 and 80 percent are made for.
ASSUME FaultyAssumption == Faulty \subseteq Validators /\ ~ AtLeast(StakeOf[Faulty], 20)

VARIABLES
    cast,              \* the <<validator, vote>> pairs of the correct validators
    certificates       \* the certificates that some pool has completed and broadcast

clusterVars == <<cast, certificates>>

Correct == Validators \ Faulty

-----------------------------------------------------------------------------
(* What a pool may have seen                                                 *)

\* The votes in a pool to which the faulty validators sent `lie`.
Told(lie) == cast \union (Faulty \X {lie})

\* Some pool can complete a certificate: a vote of a faulty validator counts once
\* for it, whatever its type.
Possible(cert) == Complete(Told(CHOOSE vote \in CountedVotes(cert) : TRUE), cert)

CertifiedBlocks == {Genesis} \union BlocksOf(certificates)
CertifiedSkips  == SlotsOf(OfType(certificates, "Skip"))
ReadyParents(s) == Ready(CertifiedBlocks, CertifiedSkips, s)

\* ParentReady is announced for the first slot of a window, and for slot 1.
Announced(s) == FirstOfWindow(s) \/ s = 1

\* The vote history of v, with the certificates and ready parents there are.
History(v) ==
    [AddVotes(NewHistory(0), {p[2] : p \in {q \in cast : q[1] = v}}) EXCEPT
        !.notarized_blocks = BlocksOf(OfType(certificates, "Notarize")),
        !.parent_ready = UNION {{s} \X ReadyParents(s) : s \in {t \in Slots : Announced(t)}}]

\* my_first_vote of the slots, in the pool of a validator with history h.
FirstVotes(h) == {w \in h.votes_cast : w.type \in {"Notarize", "Skip"}}

-----------------------------------------------------------------------------
(* Steps of a correct validator v with history h                             *)

\* v casts votes, and pools complete the certificates that these suffice for.
Cast(v, new) ==
    /\ cast' = cast \union ({v} \X new)
    /\ certificates' = certificates \union
          {c \in UNION {VoteToCertTypes(w) : w \in new} : Complete(cast', c)}

SkipVotes(h, s) == {SlotVote("Skip", t) : t \in SkipSlots(h, 0, s)}

\* try_notar on a block that has been replayed.
Notarize(v, h, b) ==
    /\ CanNotar(h, {}, b)
    /\ Cast(v, {BlockVote("Notarize", b)})

\* try_final, on the notarization certificate or after the own vote.
Finalize(v, h, b) ==
    /\ CanFinal(h, b)
    /\ Cast(v, {SlotVote("Finalize", b.slot)})

\* Timeout and TimeoutCrashedLeader; the timers of a window start when the
\* parent of its first slot is ready.
Timeout(v, h, s) ==
    /\ s \notin h.voted
    /\ MaxOf(FirstSlot(s), 1) \in {p[1] : p \in h.parent_ready}
    /\ Cast(v, SkipVotes(h, s))

\* SafeToNotar, raised by a pool with the votes V once the own first vote is in
\* it; in the middle of a window when the parent is certified.
SafeToNotar(v, h, b, V) ==
    /\ b.slot \in h.voted /\ b.slot \notin h.its_over /\ b \notin h.voted_notar_fallback
    /\ IsSafeToNotar(V, FirstVotes(h), b)
    /\ ~ Immediate(b) => ParentOf[b] \in CertifiedBlocks
    /\ Cast(v, SkipVotes(h, b.slot) \union {BlockVote("NotarizeFallback", b)})

\* SafeToSkip
SafeToSkip(v, h, s, V) ==
    /\ s \in h.voted /\ s \notin h.its_over /\ s \notin h.voted_skip_fallback
    /\ IsSafeToSkip(V, FirstVotes(h), s)
    /\ Cast(v, SkipVotes(h, s) \union {SlotVote("SkipFallback", s)})

-----------------------------------------------------------------------------

\* A pool completes a certificate with the votes of faulty validators.  Where one
\* of another type is complete, so is one of these, which allow the same votes.
Help(cert) ==
    /\ cert.type \in {"Notarize", "NotarizeFallback", "Skip"}
    /\ cert \notin certificates
    /\ Possible(cert)
    /\ certificates' = certificates \union {cert}
    /\ UNCHANGED cast

Init == cast = {} /\ certificates = {}

\* The steps that need no vote of a faulty validator and no block on time.
Prompt(v) ==
    \E h \in {History(v)} :
        \/ \E b \in Blocks : Finalize(v, h, b) \/ SafeToNotar(v, h, b, cast)
        \/ \E s \in Slots \ {0} : Timeout(v, h, s) \/ SafeToSkip(v, h, s, cast)

\* To be told Notarize for a block, or Skip, makes the fallback votes for it safe
\* soonest.
Step(v) ==
    \E h \in {History(v)} :
        \/ \E b \in Blocks \ {Genesis} :
              \/ Notarize(v, h, b) \/ Finalize(v, h, b)
              \/ SafeToNotar(v, h, b, Told(BlockVote("Notarize", b)))
        \/ \E s \in Slots \ {0} :
              Timeout(v, h, s) \/ SafeToSkip(v, h, s, Told(SlotVote("Skip", s)))

Next == (\E v \in Correct : Step(v)) \/ (\E cert \in Certificates : Help(cert))

Spec == Init /\ [][Next]_clusterVars

-----------------------------------------------------------------------------
(* Properties                                                                *)

Final(b) ==
    \/ Possible(BlockVote("FinalizeFast", b))
    \/ Possible(BlockVote("Notarize", b)) /\ Possible(SlotVote("Finalize", b.slot))

\* Agreement: once any pool can hold a block for final, no pool can hold a
\* certificate that contradicts it: its slot is not skipped, and every certified
\* block of this slot or a later one descends from it.  This is what the event
\* handler of one validator relies on (EventHandler!Agreed).
Agreement ==
    \A b \in Blocks : Final(b) =>
        /\ ~ Possible(SlotVote("Skip", b.slot))
        /\ \A d \in Blocks : d.slot >= b.slot /\ Possible(BlockVote("NotarizeFallback", d))
                => b \in Chain[d]

Decided(s) == s \in CertifiedSkips \/ \E b \in CertifiedBlocks : b.slot = s

\* Progress: whatever was voted and whatever the faulty validators have done, when
\* the correct validators can do nothing more without them, every slot has a
\* certificate: the fallback votes resolve each split between blocks and skip,
\* and every window gets a ready parent.  Each step adds a vote or a certificate,
\* so the cluster comes to rest unless new blocks are voted on.
DecidedAtRest == (\A v \in Correct : ~ ENABLED Prompt(v)) => \A s \in Slots \ {0} : Decided(s)

=============================================================================
