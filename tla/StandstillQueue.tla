-------------------------- MODULE StandstillQueue --------------------------
(***************************************************************************)
(* The queue from which the voting service repeats old messages during a   *)
(* standstill (StandstillRefreshQueue in votor/src/voting_service.rs).     *)
(*                                                                         *)
(* A refresh goes on where the last one stopped, slot by slot, within a    *)
(* budget of messages, and starts over at the end.  The messages of a slot *)
(* are their number: a refresh sends all of them or none.                  *)
(***************************************************************************)
EXTENDS Integers, FiniteSetsExt

CONSTANTS
    MaxSlot,        \* bound: the highest slot
    MaxMessages,    \* bound: messages of one slot
    Limit,          \* STANDSTILL_REFRESH_BATCH_SIZE
    MaxCerts        \* certificates of the latest finalization, which are sent first: 2

ASSUME QueueAssumption ==
    /\ MaxSlot \in Nat \ {0} /\ MaxMessages \in Nat \ {0}
    /\ Limit \in Nat /\ MaxCerts \in Nat \ {0} /\ MaxCerts < Limit

Slots == 1..MaxSlot

VARIABLES
    messages,     \* slot -> number of messages
    cursor,       \* the slot of the last message sent
    finalized,    \* highest_finalized, or 0 for none
    sent,         \* the slots the last refresh sent
    spent,        \* how many messages the last refresh sent
    missed        \* history: slot -> the slots sent again while it has waited

queueVars == <<messages, cursor, finalized, sent, spent, missed>>

Queued == {s \in Slots : messages[s] > 0}

-----------------------------------------------------------------------------
(* insert and prune                                                          *)

\* A message may have become obsolete while it was under way.
Insert(s) ==
    /\ messages[s] < MaxMessages
    /\ messages' = [messages EXCEPT ![s] = @ + 1]
    /\ UNCHANGED <<cursor, finalized, sent, spent, missed>>

Finalize(s) ==
    /\ s > finalized
    /\ finalized' = s
    /\ UNCHANGED <<messages, cursor, sent, spent, missed>>

\* The queue and the cursor after prune(highest_finalized_slot).
Pruned == [s \in Slots |-> IF s > finalized THEN messages[s] ELSE 0]
PrunedCursor == IF cursor <= finalized THEN finalized ELSE cursor
Remaining == {s \in Slots : Pruned[s] > 0}

\* How many messages the pruned queue holds up to slot n.
Held[n \in 0..MaxSlot] == IF n = 0 THEN 0 ELSE Held[n - 1] + Pruned[n]

-----------------------------------------------------------------------------
(* for_next_n_messages                                                       *)

Largest(S, default) == IF S = {} THEN default ELSE Max(S)

\* The slots after the cursor that fit; the first one is sent whatever its size.
Ahead(c, limit) ==
    {s \in Remaining : s > c /\ (Held[s] - Held[c] <= limit \/ Held[s - 1] = Held[c])}

\* The refresh comes to the end of the queue and has budget left.
Wraps(c, limit) == Held[MaxSlot] - Held[c] < limit /\ c # 0

\* The slots it goes on with from the start of the queue.
Behind(c, limit) ==
    IF Wraps(c, limit)
    THEN {s \in Remaining : s <= c /\ Held[s] <= limit - (Held[MaxSlot] - Held[c])}
    ELSE {}

\* Mutant of NextCursor: the cursor is not put back to the start.
NextCursorKept(c, limit) ==
    IF Behind(c, limit) # {} THEN Max(Behind(c, limit)) ELSE Largest(Ahead(c, limit), c)

\* Mutant of NextCursor: the next refresh starts at the start again.
NextCursorZero(c, limit) == 0

\* The cursor afterwards.
NextCursor(c, limit) ==
    IF Wraps(c, limit) THEN Largest(Behind(c, limit), 0) ELSE Largest(Ahead(c, limit), c)

\* maybe_handle_standstill_queue: the certificates of the latest finalization
\* use part of the budget.
Refresh(certs) ==
    LET c     == PrunedCursor
        limit == Limit - certs
        ahead == Ahead(c, limit)
        out   == ahead \union Behind(c, limit)
    IN  /\ Queued # {}
        /\ certs > 0 <=> finalized > 0
        /\ messages' = Pruned
        /\ sent' = out
        /\ spent' = certs + (Held[Largest(ahead, c)] - Held[c])
                          + Held[Largest(Behind(c, limit), 0)]
        /\ cursor' = IF Remaining = {} THEN c ELSE NextCursor(c, limit)
        /\ missed' = [s \in Slots |-> IF s \in out \/ s \notin Remaining THEN {}
                                      ELSE missed[s] \union out]
        /\ UNCHANGED finalized

RefreshAny == \E certs \in 0..MaxCerts : Refresh(certs)

Init ==
    /\ messages = [s \in Slots |-> 0]
    /\ cursor = 0
    /\ finalized = 0
    /\ sent = {} /\ spent = 0
    /\ missed = [s \in Slots |-> {}]

Next ==
    \/ \E s \in Slots : Insert(s) \/ Finalize(s)
    \/ RefreshAny

Spec == Init /\ [][Next]_queueVars

\* The voting service comes back to the queue at least once in every interval.
FairSpec == Spec /\ WF_queueVars(RefreshAny)

-----------------------------------------------------------------------------
(* Properties                                                                *)

\* A refresh keeps to its budget, unless a single slot alone exceeds it.
WithinBudget == spent <= Limit \/ Cardinality(sent) = 1

\* The turns are fair: while a slot waits, no other slot is sent twice.
RoundRobin ==
    [][RefreshAny => \A s \in Slots : sent' \intersect missed[s] # {} =>
                                        s \in sent' \/ messages'[s] = 0]_queueVars

\* A refresh keeps to its budget, also after it wraps to the start of the queue,
\* and takes the slots in turns (for_next_n_messages).
RefreshFair == []WithinBudget /\ RoundRobin

\* Every message in the queue is sent (again), or finalization makes it obsolete.
EveryMessageRefreshed == \A s \in Slots : (messages[s] > 0) ~> (s \in sent \/ s <= finalized)

=============================================================================
