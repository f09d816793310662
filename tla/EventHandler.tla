---------------------------- MODULE EventHandler ----------------------------
(***************************************************************************)
(* The votor event loop of one validator (votor/src/event_handler.rs, with *)
(* root_utils::set_root and voting_utils::insert_vote_and_create_bls_message): *)
(* it turns the events of the consensus pool, the timers and replay into   *)
(* votes and roots.                                                        *)
(*                                                                         *)
(* One action handles one event, with everything the handler calls.        *)
(* Events of other threads arrive in any order: the pool, timers and       *)
(* replay are represented by the guards of the actions, which say what     *)
(* these threads may send.  bank_forks moves to a requested root later, in *)
(* its own thread.                                                         *)
(***************************************************************************)
EXTENDS VotingRules

CONSTANTS
    InitialHistories,        \* the histories the node may start with
    SwitchHistories,         \* what set-identity may load for the new identity
    Inputs                   \* bound: the events of an instance, a set for each kind;
                             \* a behaviour has those of one member

ASSUME GenesisAssumption == \E b \in Blocks : b.slot = 0
ASSUME InputsAssumption ==
    /\ InitialHistories \subseteq Histories /\ SwitchHistories \subseteq Histories
    /\ Inputs \subseteq [blocks : SUBSET Blocks, notarized : SUBSET Blocks,
                         ready : SUBSET (Slots \X Blocks), shreds : SUBSET Slots,
                         safe_to_notar : SUBSET Blocks, safe_to_skip : SUBSET Slots,
                         finalized : SUBSET Blocks, standstill : BOOLEAN,
                         set_identity : BOOLEAN]

VARIABLES
    vote_history,
    pending_blocks,          \* replayed blocks that could not be voted on yet
    finalized_blocks,        \* blocks with a finalization certificate
    received_shred,
    standstill_slot,         \* None outside a standstill
    timeouts,                \* slots for which set_timeouts was called
    highest_parent_ready,    \* the shared <<slot, parent>> for block production
    switch_request,          \* LatestSwitchRequest: at most one block
    root_request,            \* pending_set_root of the bank forks controller
    cast,                    \* every vote inserted under this identity
    banks,                   \* replay: frozen banks of bank_forks, one per slot
    bank_root,               \* replay: root of bank_forks
    block_events,            \* replay: Block events not handled yet
    pending_switch,          \* replay: a switch deferred until the block is repaired
    certified,               \* pool: blocks it announced with a certificate
    finalized,               \* pool: blocks it announced as finalized
    failed,                  \* the assert or expect that stopped the validator, or Nothing
    restored,                \* history: set-identity has loaded a history with a later root
    inputs                   \* the member of Inputs that bounds this behaviour

votorVars  == <<vote_history, pending_blocks, finalized_blocks, received_shred, timeouts,
                highest_parent_ready, switch_request, root_request, cast>>
replayVars == <<banks, bank_root, block_events, pending_switch>>
poolVars   == <<certified, finalized>>
handlerVars == <<vote_history, pending_blocks, finalized_blocks, received_shred, timeouts,
                 highest_parent_ready, switch_request, root_request, cast, standstill_slot,
                 banks, bank_root, block_events, pending_switch, certified, finalized,
                 failed, restored, inputs>>

None == -1

\* The asserts that can fail: those of add_vote; slot >= root in the queries of the
\* history; standstill_slot; and the bank of a root, which set_root unwraps and
\* check_and_handle_new_root expects.
Nothing  == "None"
Failures == {"AddVote", "BelowRoot", "Standstill", "RootBank"}
Running  == failed = Nothing

\* The derived order of Block: slot, then block id.
BlockLess(a, b) == a.slot < b.slot \/ (a.slot = b.slot /\ a.id < b.id)

-----------------------------------------------------------------------------
(* What a handler works on: a handler passes this record from one call to    *)
(* the next; failed is the first assert on the way that did not hold.        *)

Local == [h |-> vote_history, pending |-> pending_blocks, finalized |-> finalized_blocks,
          received |-> received_shred, timeouts |-> timeouts,
          highest |-> highest_parent_ready, switch |-> switch_request,
          root |-> root_request, votes |-> {}, failed |-> Nothing]

\* Whether the handler is still running, and an assert on its way.
Ok(c) == c.failed = Nothing
Check(c, kind, holds) == [c EXCEPT !.failed = IF @ = Nothing /\ ~ holds THEN kind ELSE @]

\* insert_vote_and_create_bls_message for the votes of one call.
Insert(c, votes, asserts) ==
    [Check(c, "AddVote", asserts) EXCEPT !.h = AddVotes(@, votes), !.votes = @ \union votes]

\* The end of a handler: its effects become visible, or the thread has panicked.
Commit(c) ==
    IF Ok(c)
    THEN /\ vote_history' = c.h
         /\ pending_blocks' = c.pending
         /\ finalized_blocks' = c.finalized
         /\ received_shred' = c.received
         /\ timeouts' = c.timeouts
         /\ highest_parent_ready' = c.highest
         /\ switch_request' = c.switch
         /\ root_request' = c.root
         /\ cast' = cast \union c.votes
         /\ UNCHANGED failed
    ELSE /\ failed' = c.failed
         /\ UNCHANGED votorVars

\* The root below which events are ignored and skips are not cast.
IgnoreRoot == MaxOf(bank_root, vote_history.root)

\* should_ignore, for all events but Standstill
Ignored(s) == s <= IgnoreRoot

-----------------------------------------------------------------------------
(* try_final, try_notar and check_pending_blocks                             *)

\* The asserts that reading the history for b in try_notar passes.
NotarReadable(h, b) ==
    /\ Readable(h, b.slot)
    /\ ~ FirstOfWindow(b.slot) /\ b.slot # 1 /\ b.slot \notin h.voted
            /\ ParentOf[b].slot + 1 = b.slot
        => Readable(h, ParentOf[b].slot)

\* The outcomes of one ascending pass over the blocks `todo`: it votes on one
\* block of a slot, which may make a block of the next slot votable.
NotarPasses(h, todo) ==
    {N \in SUBSET todo :
        /\ \A b, d \in N : b.slot = d.slot => b = d
        /\ \A b \in N : CanNotar(h, N, b)
        /\ \A b \in todo : CanNotar(h, N, b) => \E d \in N : d.slot = b.slot}

\* Notarize votes for N, each followed by try_final.
Notarize(c, N) ==
    LET notars == {BlockVote("Notarize", b) : b \in N}
        h1     == AddVotes(c.h, notars)
        finals == {SlotVote("Finalize", b.slot) : b \in {d \in N : CanFinal(h1, d)}}
    IN  [Insert(c, notars \union finals,
                /\ \A b \in N : NotarizeAssert(c.h, b.slot)
                /\ \A v \in finals : FinalizeAssert(h1, v.slot))
            EXCEPT !.pending = {b \in @ : \A d \in N : d.slot # b.slot}]

\* check_pending_blocks
CheckPendingBlocks(c) ==
    LET d == Check(c, "BelowRoot", \A b \in c.pending : NotarReadable(c.h, b))
    IN  {Notarize(d, N) : N \in NotarPasses(c.h, c.pending)}

-----------------------------------------------------------------------------
(* What replay may do with a switch request                                  *)

\* The block it would switch to: the request, unless it is below the root or a
\* switch that waits for repair is for a later slot.
SwitchTarget ==
    LET fresh == {b \in switch_request : /\ b.slot > bank_root
                                         /\ \A d \in pending_switch : b.slot >= d.slot}
    IN  IF fresh # {} THEN fresh ELSE pending_switch

\* The blocks of b's chain above its last ancestor that is in bank_forks.
Unreplayed(b) == {d \in Chain[b] : d.slot > 0 /\ \A e \in Chain[b] \intersect banks : d.slot > e.slot}

\* The banks that make room for b: those in the slots of its chain, and their
\* descendants (slots_to_clear).
ToClear(b) == {d \in banks : \E e \in Chain[d] \intersect banks, u \in Unreplayed(b) : e.slot = u.slot}

\* There is something to switch, all of it above the root.
Switchable(b) == b \notin banks /\ \A d \in Unreplayed(b) : d.slot > bank_root

\* Replay may be about to clear the bank of slot s.
MayClear(s) == \E b \in SwitchTarget : Switchable(b) /\ \E d \in ToClear(b) : d.slot = s

-----------------------------------------------------------------------------
(* handle_parent_ready_event, rooting, add_missing_parent_ready,             *)
(* try_skip_window                                                           *)

\* request_switch: keep the newest request.
RequestSwitch(c, b) ==
    IF b.slot > bank_root /\ \A d \in c.switch : BlockLess(d, b)
    THEN [c EXCEPT !.switch = {b}] ELSE c

ParentReadyEvent(c, slot, parent) ==
    {[d EXCEPT !.timeouts = @ \union {slot},
               !.highest = IF slot > @[1] THEN <<slot, parent>> ELSE @] :
        d \in CheckPendingBlocks([RequestSwitch(c, parent)
                                    EXCEPT !.h = AddParentReady(@, slot, parent)])}

\* Mutant of Rootable: does not wait until the block is replayed.
RootableUnreplayed(c) ==
    {b.slot : b \in {d \in c.finalized : d.slot > MaxOf(bank_root, c.h.root) /\ d.slot \in c.h.voted}}

\* The slots check_rootable_blocks_and_bank_hash_mismatches may root.
Rootable(c) ==
    {b.slot : b \in {d \in c.finalized : /\ d.slot > MaxOf(bank_root, c.h.root)
                                         /\ d.slot \in c.h.voted
                                         /\ d \in banks}}

\* enqueue_set_root: replay only needs the highest pending root.
EnqueueSetRoot(pending, root) == MaxOf(pending, root)

\* root_utils::set_root
SetRoot(c, r) ==
    [c EXCEPT !.h = SetHistoryRoot(@, r),
              !.pending = {b \in @ : b.slot >= r},
              !.finalized = {b \in @ : b.slot >= r},
              !.received = {s \in @ : s >= r},
              !.root = EnqueueSetRoot(@, r)]

\* Root the highest rootable slot.  The lock on bank_forks is dropped between the
\* choice and set_root's unwrap of the bank: replay may have cleared it.
CheckRootable(c) ==
    IF Rootable(c) = {} THEN {c}
    ELSE LET r == CHOOSE s \in Rootable(c) : \A t \in Rootable(c) : t <= s
         IN  {Check(SetRoot(c, r), "RootBank", there) : there \in {TRUE, ~ MayClear(r)}}

\* The conditions of add_missing_parent_ready.
MissingParentReady(c, b) ==
    /\ ~ FirstOfWindow(b.slot)
    /\ FirstSlot(b.slot) # 0
    /\ HighestParentReadySlot(c.h) < FirstSlot(b.slot)
    /\ b \in c.finalized
    /\ b \in banks

AddMissingParentReady(c, b) ==
    IF MissingParentReady(c, b)
    THEN ParentReadyEvent(c, b.slot, ParentOf[b])
    ELSE {c}

TrySkipWindow(c, slot) ==
    LET skips == SkipSlots(c.h, MaxOf(bank_root, c.h.root), slot)
    IN  Insert(c, {SlotVote("Skip", s) : s \in skips}, \A s \in skips : SkipAssert(c.h, s))

-----------------------------------------------------------------------------
(* The consensus pool announces what the cluster has certified: a certified  *)
(* block at or above a finalized one descends from it.                       *)

Agreed(cert, fin) == \A f \in fin, p \in cert : p.slot >= f.slot => f \in Chain[p]

Announce(certs, fins) ==
    /\ certified' = certified \union certs
    /\ finalized' = finalized \union fins
    /\ Agreed(certified', finalized')

\* The blocks that a history says are certified: what the pool announced before
\* it was saved.
Justifying(h) == h.notarized_blocks \union {p[2] : p \in h.parent_ready}

-----------------------------------------------------------------------------
(* Initial states                                                            *)

Init ==
    /\ vote_history \in InitialHistories
    /\ pending_blocks = {} /\ finalized_blocks = {} /\ received_shred = {}
    /\ standstill_slot = None
    /\ timeouts = {}
    /\ highest_parent_ready = <<0, Genesis>>
    /\ switch_request = {} /\ pending_switch = {}
    /\ root_request = None
    /\ cast = vote_history.votes_cast
    /\ banks = {Genesis} /\ bank_root = 0 /\ block_events = {}
    /\ certified = {Genesis}
                        \union Justifying(vote_history)
    /\ finalized = {Genesis}
    /\ failed = Nothing
    /\ restored = FALSE
    /\ inputs \in Inputs

-----------------------------------------------------------------------------
(* The replay stage                                                          *)

\* A bank is frozen and its Block event sent.
ReplayBlock(b) ==
    /\ Running
    /\ b \notin banks /\ b.slot > bank_root
    /\ ParentOf[b] \in banks
    /\ \A d \in banks : d.slot # b.slot
    /\ banks' = banks \union {b}
    /\ block_events' = block_events \union {b}
    /\ UNCHANGED <<votorVars, standstill_slot, bank_root, pending_switch, poolVars, failed, restored>>

\* process_set_root_command: the root bank is expected to exist.
ApplyRoot ==
    /\ Running
    /\ root_request # None
    /\ root_request' = None
    /\ LET root == {b \in banks : b.slot = root_request}
       IN  IF root = {}
           THEN failed' = "RootBank" /\ UNCHANGED <<banks, bank_root>>
           ELSE /\ banks' = {b \in banks : root \subseteq Chain[b]}
                /\ bank_root' = root_request
                /\ UNCHANGED failed
    /\ UNCHANGED <<vote_history, pending_blocks, finalized_blocks, received_shred, timeouts,
                   highest_parent_ready, switch_request, cast, standstill_slot, block_events,
                   pending_switch, poolVars, restored>>

\* process_switch_bank_events.  Whether repair has fetched the block, and which
\* version of a slot is replayed afterwards, is left open.
SwitchBank ==
    /\ Running
    /\ switch_request \union pending_switch # {}
    /\ switch_request' = {}
    /\ \/ \E b \in SwitchTarget :         \* waiting for repair
             Switchable(b) /\ pending_switch' = {b} /\ UNCHANGED banks
       \/ \E b \in SwitchTarget :         \* switched
             Switchable(b) /\ pending_switch' = {} /\ banks' = banks \ ToClear(b)
       \/ /\ \A b \in SwitchTarget : ~ Switchable(b)
          /\ pending_switch' = {} /\ UNCHANGED banks
    /\ UNCHANGED <<vote_history, pending_blocks, finalized_blocks, received_shred, timeouts,
                   highest_parent_ready, root_request, cast, standstill_slot, bank_root,
                   block_events, poolVars, failed, restored>>

-----------------------------------------------------------------------------
(* The arms of handle_event.  ProduceWindow and BlockNotarFallback only      *)
(* forward a message and change nothing here.                                *)

\* Mutant of NotarOrPend: does not look at the pending blocks again.
NotarOrPendOnly(c, b) ==
    LET d == Check(c, "BelowRoot", NotarReadable(c.h, b))
    IN  {IF CanNotar(c.h, {}, b) THEN Notarize(d, {b})
         ELSE IF b.slot \in c.h.voted THEN d ELSE [d EXCEPT !.pending = @ \union {b}]}

\* try_notar on a block that has just been replayed, and what it unlocks.
NotarOrPend(c, b) ==
    LET d == Check(c, "BelowRoot", NotarReadable(c.h, b))
    IN  IF CanNotar(c.h, {}, b) THEN CheckPendingBlocks(Notarize(d, {b}))
        ELSE {IF b.slot \in c.h.voted THEN d ELSE [d EXCEPT !.pending = @ \union {b}]}

HandleBlock(b) ==
    /\ Running
    /\ b \in block_events
    /\ block_events' = block_events \ {b}
    /\ IF Ignored(b.slot) THEN UNCHANGED <<votorVars, failed>>
       ELSE \E c \in NotarOrPend(Local, b) : \E d \in CheckRootable(c) :
                \E e \in AddMissingParentReady(d, b) : Commit(e)
    /\ UNCHANGED <<standstill_slot, banks, bank_root, pending_switch, poolVars, restored>>

BlockNotarized(b) ==
    /\ Running
    /\ Announce({b}, {})
    /\ IF Ignored(b.slot) THEN UNCHANGED <<votorVars, failed>>
       ELSE LET c == [Local EXCEPT !.h = AddBlockNotarized(@, b)]
            IN  Commit(IF CanFinal(c.h, b)
                       THEN Insert(c, {SlotVote("Finalize", b.slot)}, FinalizeAssert(c.h, b.slot))
                       ELSE c)
    /\ UNCHANGED <<standstill_slot, replayVars, restored>>

FirstShred(s) ==
    /\ Running
    /\ ~ Ignored(s)
    /\ Commit([Local EXCEPT !.received = @ \union {s}])
    /\ UNCHANGED <<standstill_slot, replayVars, poolVars, restored>>

\* Announced for the first slot of a window, and for slot 1 when votor starts.
ParentReady(s, parent) ==
    /\ Running
    /\ parent.slot < s
    /\ FirstOfWindow(s) \/ s = 1
    /\ Announce({parent}, {})
    /\ IF Ignored(s) THEN UNCHANGED <<votorVars, failed>>
       ELSE \E c \in ParentReadyEvent(Local, s, parent) : Commit(c)
    /\ UNCHANGED <<standstill_slot, replayVars, restored>>

TimeoutCrashedLeader(s) ==
    /\ Running
    /\ s \in timeouts
    /\ ~ Ignored(s)
    /\ s \notin vote_history.voted /\ s \notin received_shred
    /\ Commit(TrySkipWindow(Local, s))
    /\ UNCHANGED <<standstill_slot, replayVars, poolVars, restored>>

Timeout(s) ==
    /\ Running
    /\ \E t \in timeouts : s \in t..LastSlot(t)
    /\ ~ Ignored(s)
    /\ s \notin vote_history.voted
    /\ Commit(TrySkipWindow(Local, s))
    /\ UNCHANGED <<standstill_slot, replayVars, poolVars, restored>>

\* The pool sends it once it knows this node's first vote, if not for b.
SafeToNotar(b) ==
    /\ Running
    /\ ~ Ignored(b.slot)
    /\ \E v \in cast : v.slot = b.slot /\ v.type \in {"Notarize", "Skip"}
    /\ BlockVote("Notarize", b) \notin cast
    /\ LET c == TrySkipWindow(Local, b.slot)
       IN  Commit(IF b.slot \in c.h.its_over \/ b \in c.h.voted_notar_fallback THEN c
                  ELSE Insert(c, {BlockVote("NotarizeFallback", b)}, FallbackAssert(c.h, b.slot)))
    /\ UNCHANGED <<standstill_slot, replayVars, poolVars, restored>>

\* The pool sends it only if this node's first vote was to notarize.
SafeToSkip(s) ==
    /\ Running
    /\ ~ Ignored(s)
    /\ \E v \in cast : v.slot = s /\ v.type = "Notarize"
    /\ LET c == TrySkipWindow(Local, s)
       IN  Commit(IF s \in c.h.its_over \/ s \in c.h.voted_skip_fallback THEN c
                  ELSE Insert(c, {SlotVote("SkipFallback", s)}, FallbackAssert(c.h, s)))
    /\ UNCHANGED <<standstill_slot, replayVars, poolVars, restored>>

Finalized(b) ==
    /\ Running
    /\ Announce({b}, {b})
    /\ IF Ignored(b.slot) THEN UNCHANGED <<votorVars, failed, standstill_slot>>
       ELSE /\ \E c \in CheckRootable([Local EXCEPT !.finalized = @ \union {b}]) :
                   \E d \in AddMissingParentReady(c, b) : Commit(d)
            /\ standstill_slot' = IF standstill_slot # None /\ b.slot > standstill_slot
                                  THEN None ELSE standstill_slot
    /\ UNCHANGED <<replayVars, restored>>

\* The highest finalized slot of the pool, which its service puts in Standstill.
HighestFinalizedSlot == CHOOSE s \in {b.slot : b \in finalized} : \A b \in finalized : b.slot <= s

\* A debug_assert says that a standstill is reported for one slot until it ends.
Standstill ==
    /\ Running
    /\ HighestFinalizedSlot >= IgnoreRoot
    /\ standstill_slot' = IF standstill_slot = None THEN HighestFinalizedSlot ELSE standstill_slot
    /\ failed' = IF standstill_slot \in {None, HighestFinalizedSlot} THEN failed ELSE "Standstill"
    /\ UNCHANGED <<votorVars, replayVars, poolVars, restored>>

\* handle_set_identity: only the vote history is replaced.
SetIdentity(h) ==
    /\ Running
    /\ vote_history' = h
    /\ cast' = h.votes_cast
    /\ Announce(Justifying(h), {})
    /\ restored' = (restored \/ h.root > vote_history.root)
    /\ UNCHANGED <<pending_blocks, finalized_blocks, received_shred, timeouts,
                   highest_parent_ready, switch_request, root_request, standstill_slot,
                   replayVars, failed>>

\* What the threads may do.
Step ==
    \/ \E b \in inputs.blocks : ReplayBlock(b) \/ HandleBlock(b)
    \/ \E b \in inputs.notarized : BlockNotarized(b)
    \/ \E p \in inputs.ready : ParentReady(p[1], p[2])
    \/ \E s \in inputs.shreds : FirstShred(s)
    \/ \E s \in Slots : TimeoutCrashedLeader(s) \/ Timeout(s)
    \/ \E b \in inputs.safe_to_notar : SafeToNotar(b)
    \/ \E s \in inputs.safe_to_skip : SafeToSkip(s)
    \/ \E b \in inputs.finalized : Finalized(b)
    \/ inputs.standstill /\ Standstill
    \/ ApplyRoot \/ SwitchBank
    \/ inputs.set_identity /\ \E h \in SwitchHistories : SetIdentity(h)

Next == Step /\ UNCHANGED inputs

Spec == Init /\ [][Next]_handlerVars

-----------------------------------------------------------------------------
(* Properties                                                                *)

\* No two votes an identity has cast exclude each other, over the whole run and
\* although set_root makes the history forget old votes: the pools of the other
\* validators would reject the second one as an equivocation.
NoConflictingVotes == \A v, w \in cast : ~ Equivocation(v, w)

\* The asserts of add_vote ("guard against vote equivocation") never fail; a query
\* below the root (VoteHistory::voted and the others) and the debug_assert on
\* standstill_slot fail only after set-identity has loaded a history with a later
\* root.
AssertsHold == failed # "AddVote" /\ (failed \in {"BelowRoot", "Standstill"} => restored)

\* The bank of a root that votor chose or requested is missing in set_root or in
\* check_and_handle_new_root only when two certified blocks compete: as long as the
\* certified blocks are on one chain, no switch of banks clears it, however late
\* replay applies the root.
RootBankKept ==
    failed = "RootBank" => \E b, d \in certified : b \notin Chain[d] /\ d \notin Chain[b]

\* What assert!(slot >= self.root) in the queries of VoteHistory says: the handler
\* asks for no slot below the root of the history.
NoReadBelowRoot == failed # "BelowRoot"

\* What debug_assert_eq! in the Standstill arm says: a standstill is reported for
\* one slot until it has ended.
OneStandstill == failed # "Standstill"

\* What the unwrap in set_root and "Root bank doesn't exist" in
\* check_and_handle_new_root say: the bank of a requested root is there.
RootBankThere == failed # "RootBank"

\* A finalize vote is backed by this node's own notarize vote for a block that
\* has a certificate, and by no vote against it.
FinalizeBacked ==
    \A v \in cast : v.type = "Finalize" =>
        \E b \in certified : BlockVote("Notarize", b) \in cast /\ b.slot = v.slot

\* A notarize vote extends a certified parent at the start of a window and this
\* node's own notarize vote in the slot before inside one.
NotarizeExtends ==
    \A b \in Blocks : BlockVote("Notarize", b) \in cast =>
        IF FirstOfWindow(b.slot) \/ b.slot = 1
        THEN ParentOf[b] \in certified
        ELSE /\ ParentOf[b].slot + 1 = b.slot
             /\ BlockVote("Notarize", ParentOf[b]) \in cast

\* Every vote for a block is backed: finalize votes by a certificate and the own
\* notarize vote, notarize votes by the chain they extend (try_final, try_notar).
VotesBacked == FinalizeBacked /\ NotarizeExtends

\* No handler leaves behind a pending block that it has made votable: try_notar,
\* check_pending_blocks and handle_parent_ready_event look again at whatever they
\* unlock.  Only a history that set-identity loads can make a pending block votable.
\* Votable is what try_notar says; the comment of add_missing_parent_ready promises
\* more (ReadyBlocksNotarized, which does not hold).
NoneLeftVotable ==
    [][\/ \E h \in SwitchHistories : SetIdentity(h)
       \/ \A b \in pending_blocks' : CanNotar(vote_history', {}, b) =>
             b \in pending_blocks /\ CanNotar(vote_history, {}, b)]_handlerVars

\* A replayed block whose parent is ready is voted on: the comment on
\* add_missing_parent_ready says so of a block in the middle of a window ("this
\* means C will immediately vote Notarize for slot 9").
ReadyBlocksNotarized ==
    \A b \in pending_blocks :
        <<b.slot, ParentOf[b]>> \in vote_history.parent_ready => b.slot \in vote_history.voted

=============================================================================
