------------------------------- MODULE Stakes -------------------------------
(***************************************************************************)
(* What a consensus pool concludes from a set V of votes, each paired with *)
(* the validator that cast it: certificates (votor-messages/src/           *)
(* certificate.rs, votor/src/consensus_pool.rs), the events that allow     *)
(* fallback votes (consensus_pool/slot_stake_counters.rs) and ready        *)
(* parents.  The pool of one validator and the cluster use it.             *)
(***************************************************************************)
EXTENDS ConsensusVotes

CONSTANTS
    Validators,
    StakeOf            \* set of validators -> its stake

ASSUME StakeAssumption ==
    /\ StakeOf \in [SUBSET Validators -> Nat]
    /\ StakeOf[{}] = 0
    /\ \A S, T \in SUBSET Validators :
          S \intersect T = {} => StakeOf[S \union T] = StakeOf[S] + StakeOf[T]
    /\ \A v \in Validators : StakeOf[{v}] > 0

Certificates ==
    {BlockVote(t, b) : t \in {"Notarize", "NotarizeFallback", "FinalizeFast"}, b \in Blocks}
        \union {SlotVote(t, s) : t \in {"Finalize", "Skip"}, s \in Slots}

-----------------------------------------------------------------------------
(* Thresholds.  Fractions are compared by cross-multiplication.              *)

TotalStake == StakeOf[Validators]
AtLeast(stake, percent) == 100 * stake >= percent * TotalStake

\* The validators whose vote `vote` is in V.
Voters(V, vote) == {p[1] : p \in {q \in V : q[2] = vote}}

\* The stake behind one entry of a vote pool (total_stake, total_stake_by_block_id).
EntryStake(V, vote) == StakeOf[Voters(V, vote)]

\* certificate.rs limits_and_vote_types: the percentage, and the votes that count.
Limit(cert) == IF cert.type = "FinalizeFast" THEN 80 ELSE 60

CountedVotes(cert) ==
    CASE cert.type \in {"Notarize", "FinalizeFast"} -> {[cert EXCEPT !.type = "Notarize"]}
      [] cert.type = "NotarizeFallback" -> {[cert EXCEPT !.type = t] : t \in BlockVoteTypes}
      [] cert.type = "Finalize"         -> {cert}
      [] cert.type = "Skip"             -> {[cert EXCEPT !.type = t] : t \in {"Skip", "SkipFallback"}}

\* vote_to_cert_types
VoteToCertTypes(vote) ==
    {[vote EXCEPT !.type = t] :
        t \in CASE vote.type = "Notarize"         -> {"Notarize", "NotarizeFallback", "FinalizeFast"}
                [] vote.type = "NotarizeFallback" -> {"NotarizeFallback"}
                [] vote.type = "Finalize"         -> {"Finalize"}
                [] vote.type \in {"Skip", "SkipFallback"} -> {"Skip"}}

\* The stake that update_certificates accumulates: one sum per counted vote type.
Accumulated(V, cert) ==
    LET counted == CountedVotes(cert)
        first   == CHOOSE v \in counted : TRUE
    IN  EntryStake(V, first)
            + IF counted = {first} THEN 0
              ELSE EntryStake(V, CHOOSE v \in counted : v # first)

Complete(V, cert) == AtLeast(Accumulated(V, cert), Limit(cert))

-----------------------------------------------------------------------------
(* SlotStakeCounters                                                         *)

NotarizeStake(V, b) == EntryStake(V, BlockVote("Notarize", b))
SkipStake(V, s)     == EntryStake(V, SlotVote("Skip", s))

\* notarize_total: at most one notarize vote of a validator is accepted per slot.
NotarizeTotal(V, s) ==
    StakeOf[{p[1] : p \in {q \in V : q[2].type = "Notarize" /\ q[2].slot = s}}]

TopNotarized(V, s) ==
    LET stakes == {NotarizeStake(V, b) : b \in {d \in Blocks : d.slot = s}} \union {0}
    IN  CHOOSE m \in stakes : \A n \in stakes : n <= m

\* is_safe_to_notar: b is one of the blocks with a notarize vote.
IsSafeToNotar(V, first, b) ==
    /\ BlockVote("Notarize", b) \notin first
    /\ \/ AtLeast(NotarizeStake(V, b), 40)
       \/ /\ AtLeast(NotarizeStake(V, b), 20)
          /\ AtLeast(SkipStake(V, b.slot) + NotarizeStake(V, b), 60)

\* Mutant of IsSafeToSkip: counts the votes for the top block too.
IsSafeToSkipTop(V, first, s) ==
    /\ \E v \in first : v.slot = s /\ v.type = "Notarize"
    /\ AtLeast(SkipStake(V, s) + NotarizeTotal(V, s), 40)

\* Mutant of IsSafeToSkip: only skip votes count.
IsSafeToSkipAlone(V, first, s) ==
    (\E v \in first : v.slot = s /\ v.type = "Notarize") /\ AtLeast(SkipStake(V, s), 40)

\* is_safe_to_skip
IsSafeToSkip(V, first, s) ==
    /\ \E v \in first : v.slot = s /\ v.type = "Notarize"
    /\ AtLeast(SkipStake(V, s) + (NotarizeTotal(V, s) - TopNotarized(V, s)), 40)

\* In the first slot of a window the event is raised at once, elsewhere the
\* block waits for its parent.
Immediate(b) == FirstOfWindow(b.slot) \/ b.slot = 1

-----------------------------------------------------------------------------
(* The parent-ready tracker                                                  *)

\* b is a ready parent of slot s, given certified blocks B and skipped slots S.
IsReady(B, S, b, s) == b \in B /\ b.slot < s /\ (b.slot + 1)..(s - 1) \subseteq S

Ready(B, S, s) == {b \in B : IsReady(B, S, b, s)}

=============================================================================
