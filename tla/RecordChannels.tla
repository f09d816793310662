--------------------------- MODULE RecordChannels ---------------------------
(***************************************************************************)
(* The channel through which the banking workers hand executed             *)
(* transactions to the thread that records them                            *)
(* (crates/consensus/poh/src/record_channels.rs, transaction_recorder.rs), *)
(* with what a worker does around a send (banking_stage/consumer.rs): it   *)
(* holds the freeze lock of its bank from before the send until the        *)
(* transactions are committed.  One word packs the bank that may be        *)
(* recorded for and the insertions left; a worker reads it, announces      *)
(* itself in active_senders, reserves with a compare and exchange, and     *)
(* inserts, each in a step of its own.  A record carries one batch, as     *)
(* TransactionRecorder sends it, of one transaction.                       *)
(***************************************************************************)
EXTENDS Integers, Sequences, FiniteSets

CONSTANTS Workers,   \* banking workers
          Txs,       \* transactions
          Capacity,  \* MAX_ALLOWED_INSERTIONS, 2^10 - 1 in the code
          Disabled   \* DISABLED_BANK_ID, 2^54 - 1 in the code

ASSUME ChannelAssumption ==
  /\ IsFiniteSet(Workers) /\ Txs \subseteq Nat
  /\ Capacity \in Nat /\ Disabled \in Nat

VARIABLES
  word,     \* bank_id_allowed_insertions, packed
  queue,    \* the channel: records [bank, tx]
  track,    \* track_transaction_indexes
  indexes,  \* transaction_indexes, the next index
  worker,   \* worker[w]: [pc, bank, tx, seen]
  buffer,   \* transactions the banking stage has still to process
  banks,    \* banks[i]: leader bank with bank_id i, [slot, parent, ticked, frozen, committed]
  working,  \* bank_id of PohRecorder's working bank, also the shared leader state
  panicked  \* an assert, expect or panic! of the modelled code was reached

channelVars == <<word, queue, indexes>>
workerVars == <<worker, buffer>>

None == 0   \* no bank

\* The packed word: bank id above, allowed insertions below, in wrapping arithmetic.
Radix == Capacity + 1
Encoded(bank, allowed) == bank * Radix + allowed
BankIdOf(value) == value \div Radix
AllowedOf(value) == value % Radix
Shutdown == Encoded(Disabled, 0)
FetchAdd(value, n) == (value + n) % ((Disabled + 1) * Radix)

\* active_senders: announced, and not yet withdrawn.
Announced == {"Added", "Reserved"}
ActiveSenders == Cardinality({w \in Workers : worker[w].pc \in Announced})

\* Who holds the index mutex (only if indexes are tracked) and the freeze lock of a bank.
HoldsMutex(w) == track /\ worker[w].pc \in Announced \cup {"Loaded"}
HoldsFreezeLock(w) == worker[w].pc \in Announced \cup {"Retry", "Loaded", "Commit"}
InflightCommits(b) == \E w \in Workers : worker[w].bank = b /\ HoldsFreezeLock(w)

IdleWorker == [pc |-> "Idle", bank |-> None, tx |-> None, seen |-> 0, index |-> 0]
Goto(w, pc) == worker' = [worker EXCEPT ![w].pc = pc]

InitChannels(tracking, pending) ==
  /\ word = Shutdown /\ queue = <<>> /\ track = tracking /\ indexes = 0
  /\ worker = [w \in Workers |-> IdleWorker] /\ buffer = pending
  /\ banks = <<>> /\ working = None /\ panicked = FALSE

-----------------------------------------------------------------------------
(* The receiver. *)

IsShutdown == BankIdOf(word) = Disabled
\* Shut down, and safe to restart: no active sender, then an empty channel.
Quiet == IsShutdown /\ ActiveSenders = 0 /\ queue = <<>>

ShutdownChannel == word' = Shutdown

\* restart(bank_id): the channel must be empty; the indexes are reset first.
Restart(b) ==
  /\ ~ \E w \in Workers : HoldsMutex(w)
  /\ panicked' = (b >= Disabled \/ queue # <<>>)
  /\ word' = Encoded(b, Capacity)
  /\ indexes' = 0
  /\ UNCHANGED queue

\* A record is taken from the channel, and its insertion given back.
Received ==
  /\ queue' = Tail(queue)
  /\ word' = FetchAdd(word, 1)
  /\ UNCHANGED indexes

-----------------------------------------------------------------------------
(* A worker. *)

\* consume: the next transaction, in the working bank of the moment unless it is complete.
TakeWork(w, t) ==
  /\ worker[w].pc = "Idle" /\ t \in buffer /\ \A u \in buffer : t <= u
  /\ working # None /\ ~ banks[working].ticked
  /\ worker' = [worker EXCEPT ![w] = [IdleWorker EXCEPT !.pc = "Ready", !.bank = working, !.tx = t]]
  /\ buffer' = buffer \ {t}
  /\ UNCHANGED <<channelVars, banks, panicked>>

\* Shutdown, InactiveBankId or Full: the transaction is retried later.
Refused(w, value) == BankIdOf(value) # worker[w].bank \/ AllowedOf(value) < 1

\* The worker takes the freeze lock of its bank, and try_send locks the indexes and
\* loads the word.
Load(w) ==
  /\ worker[w].pc \in {"Ready", "Retry"}
  /\ ~ \E v \in Workers : HoldsMutex(v)
  /\ IF Refused(w, word)
     THEN /\ worker' = [worker EXCEPT ![w] = IdleWorker]
          /\ buffer' = buffer \cup {worker[w].tx}
     ELSE /\ worker' = [worker EXCEPT ![w].pc = "Loaded", ![w].seen = word]
          /\ UNCHANGED buffer
  /\ UNCHANGED <<channelVars, banks, panicked>>

\* active_senders is raised before the word is exchanged.
Announce(w) ==
  /\ worker[w].pc = "Loaded"
  /\ Goto(w, "Added")
  /\ UNCHANGED <<channelVars, buffer, banks, panicked>>

\* compare_exchange: one insertion less, or active_senders lowered and another try
\* if the word has changed.
Reserve(w) ==
  /\ worker[w].pc = "Added"
  /\ IF word = worker[w].seen
     THEN word' = Encoded(BankIdOf(word), AllowedOf(word) - 1) /\ Goto(w, "Reserved")
     ELSE worker' = [worker EXCEPT ![w].pc = "Retry", ![w].seen = 0] /\ UNCHANGED word
  /\ UNCHANGED <<queue, indexes, buffer, banks, panicked>>

\* The insertion, which must find room; active_senders is lowered and, if tracked,
\* the index taken.
Send(w) ==
  /\ worker[w].pc = "Reserved"
  /\ queue' = Append(queue, [bank |-> worker[w].bank, tx |-> worker[w].tx])
  /\ panicked' = (Len(queue) >= Capacity)
  /\ worker' = [worker EXCEPT ![w].pc = "Commit", ![w].seen = 0, ![w].index = indexes]
  /\ indexes' = IF track THEN indexes + 1 ELSE indexes
  /\ UNCHANGED <<word, buffer, banks>>

\* The transactions are committed to the bank and its freeze lock is dropped.
Commit(w) ==
  /\ worker[w].pc = "Commit"
  /\ banks' = [banks EXCEPT ![worker[w].bank].committed =
                  @ \cup {[tx |-> worker[w].tx, index |-> worker[w].index]}]
  /\ worker' = [worker EXCEPT ![w] = IdleWorker]
  /\ UNCHANGED <<channelVars, buffer, panicked>>

InFlight(w) ==
  Load(w) \/ Announce(w) \/ Reserve(w) \/ Send(w) \/ Commit(w)

=============================================================================
