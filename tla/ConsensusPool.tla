--------------------------- MODULE ConsensusPool ---------------------------
(***************************************************************************)
(* The consensus pool of one validator and the service loop around it      *)
(* (votor/src/consensus_pool.rs, consensus_pool/vote_pool.rs,              *)
(* consensus_pool/slot_stake_counters.rs, consensus_pool_service.rs).      *)
(*                                                                         *)
(* It counts the votes of every validator, completes certificates, raises  *)
(* the events the event handler votes on, and prunes below the root.  The  *)
(* stake counters are functions of the votes that are kept.  The           *)
(* parent-ready tracker appears by what ParentReadyTracker shows of it:    *)
(* a parent is ready when it is certified and all slots in between are     *)
(* skip-certified, and each such first slot of a window is announced once. *)
(***************************************************************************)
EXTENDS Stakes

CONSTANTS
    ParentOf,          \* block -> its parent block
    Me,                \* the validator that runs this pool
    LeaderSlots,       \* the slots Me leads
    VoteInputs,        \* bound: the <<validator, vote>> pairs that may arrive
    CertInputs,        \* bound: the certificates that may arrive
    Receivable         \* bound: the blocks that may be received

ASSUME MeAssumption == Me \in Validators
ASSUME PoolAssumption ==
    /\ Blocks \subseteq [slot : Slots, id : Nat] /\ \E b \in Blocks : b.slot = 0
    /\ ParentOf \in [Blocks -> Blocks] /\ LeaderSlots \subseteq Slots
    /\ VoteInputs \subseteq Validators \X Votes /\ CertInputs \subseteq Certificates
    /\ Receivable \subseteq Blocks

VARIABLES
    votes,                     \* vote_pools: the <<validator, vote>> pairs accepted
    completed_certificates,
    my_first_vote,             \* the first notarize or skip vote of Me in each slot
    safe_to_notar_sent,        \* blocks
    safe_to_skip_sent,         \* slots
    pending_safe_to_notar,     \* the pool's blocks that wait for their parent
    highest_finalized,         \* highest_finalized_slot_cert, or NoCertificate
    certified_blocks,          \* blocks the parent-ready tracker has accepted
    certified_skips,           \* slots the parent-ready tracker has accepted
    last_pruned_slot,
    waiting,                   \* service: its own pending_safe_to_notar
    highest_parent_ready,      \* service
    events,                    \* service: events raised and not yet sent
    sent,                      \* history: the events sent to the event handler
    bank_root,                 \* the root of bank_forks
    received                   \* blocks complete in the blockstore

poolVars == <<votes, completed_certificates, my_first_vote, safe_to_notar_sent,
              safe_to_skip_sent, pending_safe_to_notar, highest_finalized,
              certified_blocks, certified_skips, last_pruned_slot>>
vars == <<poolVars, waiting, highest_parent_ready, events, sent, bank_root, received>>

NoCertificate == [type |-> "None", slot |-> -1, block |-> {}]

\* The derived order of Block.
BlockLeq(a, b) == a.slot < b.slot \/ (a.slot = b.slot /\ a.id <= b.id)

\* Events: SafeToNotar, BlockNotarized, Finalized, ParentReady, ProduceWindow and
\* SafeToSkip, with the slot and at most one block they carry.
Event(kind, s, blocks) == [kind |-> kind, slot |-> s, block |-> blocks]

-----------------------------------------------------------------------------
(* Vote pools                                                                *)

VotesOf(v) == {p[2] : p \in {q \in votes : q[1] = v}}

\* max_entries_per_pubkey
MaxEntries(type) == IF type = "NotarizeFallback" THEN 3 ELSE 1

\* has_conflicting_vote and the refusals of the pools' add_vote: a repeated vote,
\* or one more block than a validator may vote for.
Acceptable(v, vote) ==
    /\ \A w \in VotesOf(v) : ~ Conflicting(vote, w)
    /\ vote \notin VotesOf(v)
    /\ Cardinality({w \in VotesOf(v) : w.type = vote.type /\ w.slot = vote.slot})
            < MaxEntries(vote.type)

-----------------------------------------------------------------------------
(* SlotStakeCounters                                                         *)

FirstVoteKinds == {"Notarize", "Skip"}

\* Mutant of NewlySafe: looks at the block of the vote only.
NewlySafeVoted(V, first, vote) ==
    IF vote.type \notin FirstVoteKinds \/ \A w \in first : w.slot # vote.slot
    THEN [notar |-> {}, skip |-> {}]
    ELSE [notar |-> {b \in vote.block : b \notin safe_to_notar_sent /\ IsSafeToNotar(V, first, b)},
          skip  |-> {s \in {vote.slot} : s \notin safe_to_skip_sent /\ IsSafeToSkip(V, first, s)}]

\* What SlotStakeCounters::add_vote finds newly safe after `vote` joined V.
NewlySafe(V, first, vote) ==
    IF vote.type \notin FirstVoteKinds \/ \A w \in first : w.slot # vote.slot
    THEN [notar |-> {}, skip |-> {}]
    ELSE [notar |-> {b \in Blocks : /\ b.slot = vote.slot /\ b \notin safe_to_notar_sent
                                    /\ IsSafeToNotar(V, first, b)},
          skip  |-> {s \in {vote.slot} : s \notin safe_to_skip_sent /\ IsSafeToSkip(V, first, s)}]

-----------------------------------------------------------------------------
(* The parent-ready tracker                                                  *)

\* block_production_parent finds a parent: no later slot has one.
CanProduce(s) ==
    \A t \in Slots : t > s => Ready(certified_blocks, certified_skips, t) = {}

\* Mutant of HasNotarFallback: the status of the root is pruned too.
HasNotarFallbackAboveRoot(b) == b \in certified_blocks /\ b.slot > last_pruned_slot

\* has_notar_fallback_or_stronger: the statuses below the root are pruned.
HasNotarFallback(b) == b \in certified_blocks /\ b.slot >= last_pruned_slot

-----------------------------------------------------------------------------
(* insert_certificate, for the certificates that one message completes       *)

\* The blocks a certificate in `new` finalizes together with one in C.
SlowFinalized(C, new) ==
    {b \in Blocks : LET pair == {BlockVote("Notarize", b), SlotVote("Finalize", b.slot)}
                    IN  pair \subseteq C /\ pair \intersect new # {}}

FastFinalized(new) == BlocksOf(OfType(new, "FinalizeFast"))

\* Mutant of HighestFinalization: a slow finalization replaces a fast one.
HighestFinalizationSlow(slow, fast) ==
    LET slower == {b \in slow : highest_finalized.slot <= b.slot}
        faster == {b \in fast : highest_finalized.slot < b.slot}
    IN  IF faster # {} THEN BlockVote("FinalizeFast", CHOOSE b \in faster : TRUE)
        ELSE IF slower # {} THEN BlockVote("Finalize", CHOOSE b \in slower : TRUE)
        ELSE highest_finalized

\* highest_finalized_slot_cert afterwards; a fast one supersedes a slow one.
HighestFinalization(slow, fast) ==
    LET slower == {b \in slow : highest_finalized.slot < b.slot}
        faster == {b \in fast : highest_finalized.slot <= b.slot}
    IN  IF faster # {} THEN BlockVote("FinalizeFast", CHOOSE b \in faster : TRUE)
        ELSE IF slower # {} THEN BlockVote("Finalize", CHOOSE b \in slower : TRUE)
        ELSE highest_finalized

\* The ParentReady events for the pairs that become ready.
ParentReadyEvents(B, S) ==
    UNION {{Event("ParentReady", s, {b}) :
              b \in Ready(B, S, s) \ Ready(certified_blocks, certified_skips, s)} :
                s \in {t \in Slots : FirstOfWindow(t)}}

\* The pool after one message: the votes V, the own first votes F, what became
\* safe and the new certificates, pruned to the root as maybe_prune does last.
Absorb(V, F, safe, new, root) ==
    LET C    == completed_certificates \union new
        slow == SlowFinalized(C, new)
        fast == FastFinalized(new)
        B    == certified_blocks \union {b \in BlocksOf(new) : b.slot > last_pruned_slot}
        S    == certified_skips
                    \union {s \in SlotsOf(OfType(new, "Skip")) : s > last_pruned_slot}
        keep == MaxOf(last_pruned_slot, root)
    IN  /\ votes' = {p \in V : p[2].slot >= keep}
        /\ my_first_vote' = {v \in F : v.slot >= keep}
        /\ safe_to_notar_sent' = {b \in safe_to_notar_sent \union safe.notar : b.slot >= keep}
        /\ safe_to_skip_sent' = {s \in safe_to_skip_sent \union safe.skip : s >= keep}
        /\ pending_safe_to_notar' =
              {b \in pending_safe_to_notar \union {d \in safe.notar : ~ Immediate(d)} :
                    b.slot >= keep}
        /\ completed_certificates' = {c \in C : c.slot >= keep}
        /\ highest_finalized' = HighestFinalization(slow, fast)
        /\ certified_blocks' = B
        /\ certified_skips' = S
        /\ last_pruned_slot' = keep
        /\ events' = events
              \union {Event("SafeToNotar", b.slot, {b}) : b \in {d \in safe.notar : Immediate(d)}}
              \union {Event("SafeToSkip", s, {}) : s \in safe.skip}
              \union {Event("BlockNotarized", b.slot, {b}) : b \in BlocksOf(OfType(new, "Notarize"))}
              \union {Event("Finalized", b.slot, {b}) : b \in slow \union fast}
              \union ParentReadyEvents(B, S)

-----------------------------------------------------------------------------
(* Messages.  The service reads the root of bank_forks before it adds a      *)
(* message and again before it prunes; the root moves to finalized blocks.   *)

NextRoots ==
    {bank_root} \union
        {e.slot : e \in {f \in sent : f.kind = "Finalized" /\ f.slot > bank_root}}

NothingSafe == [notar |-> {}, skip |-> {}]

\* add_vote.  A vote below the root and a conflicting one are errors that change
\* nothing; a repeated one and one too many only lead to pruning.
AddVote(v, vote) ==
    LET fits  == Acceptable(v, vote)
        V     == IF fits THEN votes \union {<<v, vote>>} ELSE votes
        mine  == {w \in {vote} : /\ fits /\ v = Me /\ w.type \in FirstVoteKinds
                                 /\ \A x \in my_first_vote : x.slot # w.slot}
        F     == my_first_vote \union mine
        new   == {c \in VoteToCertTypes(vote) \ completed_certificates : Complete(V, c)}
    IN  /\ vote.slot >= bank_root
        /\ \A w \in VotesOf(v) : ~ Conflicting(vote, w)
        /\ \E root \in NextRoots :
              /\ bank_root' = root
              /\ IF fits THEN Absorb(V, F, NewlySafe(V, F, vote), new, root)
                         ELSE Absorb(votes, my_first_vote, NothingSafe, {}, root)
        /\ UNCHANGED <<waiting, highest_parent_ready, sent, received>>

\* add_certificate
AddCertificate(cert) ==
    /\ cert.slot >= bank_root
    /\ \E root \in NextRoots :
          /\ bank_root' = root
          /\ Absorb(votes, my_first_vote, NothingSafe, {cert} \ completed_certificates, root)
    /\ UNCHANGED <<waiting, highest_parent_ready, sent, received>>

-----------------------------------------------------------------------------
(* The service loop, between two batches of messages                         *)

ReadySlots == {e.slot : e \in {f \in events : f.kind = "ParentReady"}}

\* Mutant of NewHighestReady: looks at the first window of a batch only.
NewHighestReadyFirst ==
    IF ReadySlots = {} THEN highest_parent_ready
    ELSE LET s == CHOOSE t \in ReadySlots : \A u \in ReadySlots : t <= u
         IN  MaxOf(s, highest_parent_ready)

\* highest_parent_ready after add_produce_block_event.
NewHighestReady ==
    IF ReadySlots = {} THEN highest_parent_ready
    ELSE LET s == CHOOSE t \in ReadySlots : \A u \in ReadySlots : t >= u
         IN  MaxOf(s, highest_parent_ready)

\* add_produce_block_event: the smallest ready parent is built on.
ProduceEvents ==
    {Event("ProduceWindow", s, {b}) :
        s \in {t \in {NewHighestReady} \intersect LeaderSlots :
                  t > highest_parent_ready /\ CanProduce(t)},
        b \in {d \in Ready(certified_blocks, certified_skips, NewHighestReady) :
                  \A e \in Ready(certified_blocks, certified_skips, NewHighestReady) :
                      BlockLeq(d, e)}}

\* Mutant of Returned: a block the repair channel had no room for is dropped.
ReturnedNone(accepted) == {}

\* The blocks that go back to the pool because the repair channel is full.
Returned(accepted) == pending_safe_to_notar \ (waiting \union accepted)

\* One pass: add_produce_block_event, process_pending_safe_to_notar and the
\* sending of all events.  The repair channel takes the blocks in `accepted`;
\* the others are tried again in the next pass.
Pass(accepted) ==
    LET all      == waiting \union accepted
        live     == {b \in all : b.slot > MaxOf(highest_finalized.slot, 0)}
        resolved == {b \in live : b \in received /\ HasNotarFallback(ParentOf[b])}
    IN  /\ pending_safe_to_notar' = Returned(accepted)
        /\ waiting' = live \ resolved
        /\ highest_parent_ready' = NewHighestReady
        /\ sent' = sent \union events \union ProduceEvents
                      \union {Event("SafeToNotar", b.slot, {b}) : b \in resolved}
        /\ events' = {}
        /\ UNCHANGED <<votes, completed_certificates, my_first_vote, safe_to_notar_sent,
                       safe_to_skip_sent, highest_finalized, certified_blocks,
                       certified_skips, last_pruned_slot, bank_root, received>>

\* A pass that finds room in the repair channel for every block.
FullPass == Pass(pending_safe_to_notar)

ServiceLoop == \E accepted \in SUBSET pending_safe_to_notar : Pass(accepted)

-----------------------------------------------------------------------------
(* Other threads                                                             *)

AdvanceRoot ==
    /\ bank_root' \in NextRoots \ {bank_root}
    /\ UNCHANGED <<poolVars, waiting, highest_parent_ready, events, sent, received>>

ReceiveBlock(b) ==
    /\ b \notin received
    /\ received' = received \union {b}
    /\ UNCHANGED <<poolVars, waiting, highest_parent_ready, events, sent, bank_root>>

-----------------------------------------------------------------------------
(* The service starts at genesis with the ParentReady event that starts votor. *)

Init ==
    /\ votes = {} /\ completed_certificates = {} /\ my_first_vote = {}
    /\ safe_to_notar_sent = {} /\ safe_to_skip_sent = {} /\ pending_safe_to_notar = {}
    /\ highest_finalized = NoCertificate
    /\ certified_blocks = {Genesis} /\ certified_skips = {}
    /\ last_pruned_slot = 0 /\ bank_root = 0
    /\ waiting = {} /\ highest_parent_ready = 0
    /\ events = {Event("ParentReady", 1, {Genesis})} /\ sent = {}
    /\ received = {}

Next ==
    \/ \E p \in VoteInputs : AddVote(p[1], p[2])
    \/ \E c \in CertInputs : AddCertificate(c)
    \/ ServiceLoop
    \/ AdvanceRoot
    \/ \E b \in Receivable : ReceiveBlock(b)

Spec == Init /\ [][Next]_vars

\* The service never stops looping, and the repair thread keeps draining its channel.
FairSpec == Spec /\ WF_vars(FullPass)

-----------------------------------------------------------------------------
(* Properties                                                                *)

Raised == events \union sent

\* A certificate built from votes carries the stake of enough different
\* validators: the two vote types that count for one certificate exclude each
\* other for one validator, so adding up their pools counts nobody twice.
NoDoubleCount ==
    \A c \in completed_certificates \ CertInputs :
        AtLeast(StakeOf[UNION {Voters(votes, v) : v \in CountedVotes(c)}], Limit(c))

\* Whatever the order of the votes, a certificate they suffice for is held:
\* vote_to_cert_types and limits_and_vote_types are "in sync".
NoCertificateMissed ==
    \A c \in Certificates : Complete(votes, c) => c \in completed_certificates

\* The certificates held are those the votes suffice for, and no others but the
\* ones received (update_certificates).
CertificatesExact == NoDoubleCount /\ NoCertificateMissed

\* Once this node has voted in a slot, every block and slot that the votes make
\* safe has been recorded as safe, although the counters are only looked at when
\* a vote arrives and the own vote may come before or after the others.
SafeEventsComplete ==
    \A v \in my_first_vote :
        /\ \A b \in Blocks : b.slot = v.slot /\ IsSafeToNotar(votes, my_first_vote, b)
                => b \in safe_to_notar_sent
        /\ IsSafeToSkip(votes, my_first_vote, v.slot) => v.slot \in safe_to_skip_sent

\* A block that is safe to notarize is announced, or still waits for its parent
\* in the pool or in the service, or a finalization made it irrelevant: no block
\* is lost when it moves between the two and the repair channel is full.
NoSafeBlockLost ==
    \A b \in safe_to_notar_sent :
        \/ Event("SafeToNotar", b.slot, {b}) \in Raised
        \/ b \in pending_safe_to_notar \union waiting
        \/ b.slot <= highest_finalized.slot

\* The purpose of the thresholds: after SafeToSkip no block of the slot can be
\* fast-finalized, and after SafeToNotar no other block of the slot can.
FastFinalExcluded ==
    \A b \in Blocks : Complete(votes, BlockVote("FinalizeFast", b)) =>
        /\ b.slot \notin safe_to_skip_sent
        /\ \A d \in safe_to_notar_sent : d.slot = b.slot => d = b

\* SafeToNotar is raised for at most as many blocks of a slot as a validator may
\* cast notarize-fallback votes for: no own vote is dropped by the pools.
OwnFallbackFits ==
    \A s \in Slots : Cardinality({b \in safe_to_notar_sent : b.slot = s})
                        <= MaxEntries("NotarizeFallback")

\* A fallback vote can neither meet a fast finalization nor be one too many
\* (is_safe_to_skip, is_safe_to_notar).
FallbacksSafe == FastFinalExcluded /\ OwnFallbackFits

\* Finalized is raised exactly for the blocks whose certificates suffice, in
\* whatever order they come, and the certificate kept for block footers is that
\* of the highest one, a fast one where there is one.
FinalizationExact ==
    /\ \A b \in Blocks : b.slot >= last_pruned_slot =>
          (Event("Finalized", b.slot, {b}) \in Raised <=>
              \/ BlockVote("FinalizeFast", b) \in completed_certificates
              \/ {BlockVote("Notarize", b), SlotVote("Finalize", b.slot)}
                        \subseteq completed_certificates)
    /\ \A e \in Raised : e.kind = "Finalized" => e.slot <= highest_finalized.slot
    /\ highest_finalized # NoCertificate =>
          /\ Event("Finalized", highest_finalized.slot, highest_finalized.block) \in Raised
          /\ [highest_finalized EXCEPT !.type = "FinalizeFast"] \in completed_certificates
                => highest_finalized.type = "FinalizeFast"

\* Inside a window SafeToNotar is raised only for a block whose parent is
\* certified, so that a fallback vote never supports an uncertified chain.
SafeToNotarBacked ==
    \A e \in sent : e.kind = "SafeToNotar" =>
        \A b \in e.block : FirstOfWindow(b.slot) \/ b.slot = 1
                                \/ ParentOf[b] \in certified_blocks

\* Blocks that wait for their parent are neither lost nor let through early
\* (process_pending_safe_to_notar).
SafeBlocksHandled == NoSafeBlockLost /\ SafeToNotarBacked

\* A window of this leader that was announced is produced once, on a ready
\* parent, unless a later slot has become ready by then.
LeaderWindowsProduced ==
    LET made == {e \in sent : e.kind = "ProduceWindow"}
    IN  /\ \A e \in sent : e.kind = "ParentReady" /\ e.slot \in LeaderSlots =>
              \/ \E f \in made : f.slot = e.slot
              \/ \E t \in Slots : t > e.slot /\ Ready(certified_blocks, certified_skips, t) # {}
        /\ \A e, f \in made : e.slot = f.slot => e = f
        /\ \A e \in made : e.block \subseteq Ready(certified_blocks, certified_skips, e.slot)

\* A block that waits is announced once it is received and its parent certified,
\* unless its slot is finalized first, although the service only looks at it
\* between messages and the pool prunes meanwhile.
WaitingBlocksResolve ==
    \A b \in Receivable :
        (/\ b \in (pending_safe_to_notar \union waiting) \intersect received
         /\ ParentOf[b] \in certified_blocks)
            ~> \/ Event("SafeToNotar", b.slot, {b}) \in sent
               \/ b.slot <= highest_finalized.slot

=============================================================================
