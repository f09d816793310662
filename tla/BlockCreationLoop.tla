-------------------------- MODULE BlockCreationLoop --------------------------
(***************************************************************************)
(* The thread that produces the blocks of this validator's leader windows  *)
(* (crates/consensus/core/src/block_creation_loop.rs), with the parts of   *)
(* PohRecorder it drives (crates/consensus/poh/src/poh_recorder.rs) and of *)
(* replay it waits for (replay_stage.rs).  A window starts on the parent   *)
(* votor announces (ParentReady) or, before that, on the block replay has  *)
(* just frozen (fast leader handover); if votor then names another parent, *)
(* the first block is started again on it, behind an UpdateParent marker.  *)
(* Timeouts are nondeterministic.  Broadcast is taken to store the shreds  *)
(* of an entry before the loop looks for the next window.  The operator    *)
(* may change the validator's identity once (set-identity), at any time;   *)
(* the loop reads it where it starts to look for a window.  A panic in the *)
(* loop stops the validator (its Finalizer sets the exit flag).            *)
(* Not modelled: the exit flag, the genesis certificate of the first       *)
(* block, what the footer says, and a leader schedule without an entry for *)
(* a slot that was announced (the panic of lines 1215-1223): the schedule  *)
(* is external and complete here.                                          *)
(***************************************************************************)
EXTENDS RecordChannels, SequencesExt

CONSTANTS WindowSize,         \* NUM_CONSECUTIVE_LEADER_SLOTS
          Starts,             \* how a run may start: [own, second, calls, others, track, pending]
          MaxSlot,            \* last slot of the last window
          MaxBanks,           \* bound: banks made before every start times out
          OptimisticCapacity  \* capacity of the optimistic-parent channel

Slots == 0 .. MaxSlot
WindowStarts == {s \in 1 .. MaxSlot + 1 : s % WindowSize = 0}

\* The last slot of another leader before the first window of ours.
OtherSlot == WindowSize - 1

ASSUME BoundsAssumption ==
  /\ WindowSize \in Nat \ {0, 1} /\ MaxSlot \in Nat /\ OptimisticCapacity \in Nat \ {0}
  /\ MaxBanks \in Nat /\ MaxBanks < Disabled

\* Windows are whole; the one after OtherSlot is ours, under the first identity.
ASSUME StartsAssumption ==
  \A c \in Starts :
    /\ c.own \subseteq WindowStarts /\ WindowSize \in c.own
    /\ \A s \in c.own : s + WindowSize - 1 <= MaxSlot
    /\ c.second \subseteq c.own \ {WindowSize} /\ c.calls \in BOOLEAN
    /\ c.others \subseteq [slot : 0 .. OtherSlot, id : Nat]
    /\ c.pending \subseteq Txs /\ c.track \in BOOLEAN

VARIABLES
  own,           \* the leader schedule: first slots of this validator's windows
  second,        \* those of them whose leader is its second identity
  calls,         \* bound: set-identity is still to be called
  identity,      \* cluster_info.id()
  my_pubkey,     \* the identity the loop has last read
  wrong_leader,  \* the loop has panicked: it is not the leader of the slot to be produced
  others,        \* blocks of slot 0 and of OtherSlot, by other leaders; OtherSlot may have two
  loop,          \* [pc, slot, end, parent, optimistic, acc, shut, then]
  stash,         \* pending_parent_ready: a window start, or None
  parent_ready,  \* leader_window_info channel: window starts
  optimistic,    \* optimistic_parent channel: [start, parent]
  ready,         \* ready[s]: the parent votor announced for the window at s
  highest,       \* slot of highest_parent_ready
  forks,         \* forks[s]: id of the bank of slot s in BankForks, or NoBank
  switched,      \* replay has switched OtherSlot to its other version
  start_slot,    \* slot PohRecorder was last reset to
  stream         \* stream[s]: entries and markers sent to broadcast for slot s

loopVars == <<loop, stash>>
votorVars == <<parent_ready, ready, highest>>
replayVars == <<optimistic, forks, switched>>
recorderVars == <<working, start_slot, stream>>
identityVars == <<calls, identity, my_pubkey, wrong_leader>>
vars == <<channelVars, track, own, second, others, identityVars, workerVars, banks, panicked,
          loopVars, votorVars, replayVars, recorderVars>>

fixedVars == <<track, own, second, others>>

NoBank == -1
AnyId == -1
NoBlock == [slot |-> NoBank, id |-> NoBank]
Block(s, i) == [slot |-> s, id |-> i]

FirstOfWindow(s) == (s \div WindowSize) * WindowSize
LastOfWindow(s) == (s \div WindowSize) * WindowSize + WindowSize - 1

\* slot_leader_at, for a slot of a window of ours.
LeaderOf(s) == IF FirstOfWindow(s) \in second THEN "Second" ELSE "First"

IsFrozen(s) == forks[s] # NoBank /\ (s > OtherSlot => banks[forks[s]].frozen)
HasExistingShreds(s) == \E t \in s .. LastOfWindow(s) : stream[t] # <<>>

Tx(t) == [kind |-> "Tx", tx |-> t]
UpdateParent(b) == [kind |-> "UpdateParent", parent |-> b]
Footer == [kind |-> "Footer"]
Broadcast(s, e) == stream' = [stream EXCEPT ![s] = Append(@, e)]

IdleLoop == [pc |-> "Wait", slot |-> 0, end |-> 0, parent |-> NoBlock,
             optimistic |-> FALSE, acc |-> <<>>, shut |-> FALSE, then |-> "None"]

Init ==
  /\ \E c \in Starts :
       /\ own = c.own /\ second = c.second /\ calls = c.calls /\ others = c.others
       /\ InitChannels(c.track, c.pending)
  /\ identity = "First" /\ my_pubkey = identity /\ wrong_leader = FALSE
  /\ loop = IdleLoop /\ stash = None
  /\ parent_ready = <<>> /\ optimistic = <<>>
  /\ ready = [s \in WindowStarts |-> NoBlock] /\ highest = 0
  /\ forks = [s \in Slots |-> IF s = 0 THEN 0 ELSE NoBank]
  /\ switched = FALSE /\ start_slot = 0
  /\ stream = [s \in Slots |-> <<>>]

-----------------------------------------------------------------------------
(* Votor and replay. *)

\* The event handler raises highest_parent_ready, in the model up to the window after ours.
ParentReady(s) ==
  /\ s > highest /\ \E t \in own : s <= t + WindowSize
  /\ highest' = s
  /\ UNCHANGED <<channelVars, workerVars, banks, panicked, loopVars, parent_ready, ready,
                 replayVars, recorderVars>>

\* It passes on the window of the highest slot, once, if it is this validator's: the
\* pool compares the leader with the identity of the moment, and its event may be in
\* votor's channel while the identity changes.
ProduceWindow(s, parent) ==
  /\ s = highest /\ s \in own /\ ready[s] = NoBlock
  /\ LeaderOf(s) = "Second" => identity = "Second"
  /\ ready' = [ready EXCEPT ![s] = parent]
  /\ parent_ready' = Append(parent_ready, s)
  /\ UNCHANGED <<channelVars, workerVars, banks, panicked, loopVars, highest,
                 replayVars, recorderVars>>

\* What may be announced as the parent of slot s: a block of another leader or one of ours.
Completed(b) == \E i \in DOMAIN stream[b.slot] : stream[b.slot][i] = Footer
ParentCandidates(s) ==
  others
  \cup {b \in {Block(banks[i].slot, i) : i \in DOMAIN banks} :
           b.slot < s /\ banks[b.id].frozen /\ Completed(b)}

\* freshest_leader_window over a channel: the highest start, the last one of equals.
Freshest(infos) ==
  infos[CHOOSE i \in DOMAIN infos : \A j \in DOMAIN infos :
          infos[j].start <= infos[i].start /\ (infos[j].start = infos[i].start => j <= i)]

\* try_send_latest_optimistic_parent: a full channel keeps only the freshest window.
Offer(info) ==
  optimistic' = IF Len(optimistic) < OptimisticCapacity THEN Append(optimistic, info)
                ELSE <<Freshest(Append(optimistic, info))>>

\* Replay freezes OtherSlot and, as the next window is ours, offers it as a parent.
ReplayOther ==
  /\ forks[OtherSlot] = NoBank
  /\ LET v == IF switched THEN 2 ELSE 1 IN
       /\ forks' = [forks EXCEPT ![OtherSlot] = v]
       /\ Offer([start |-> WindowSize, parent |-> Block(OtherSlot, v)])
  /\ UNCHANGED <<channelVars, workerVars, banks, panicked, loopVars, votorVars,
                 switched, recorderVars>>

\* Slots of BankForks whose bank descends from OtherSlot, by the parents' slots.
FromOther ==
  LET from[s \in Slots] ==
        IF s <= OtherSlot THEN s = OtherSlot ELSE forks[s] # NoBank /\ from[banks[forks[s]].parent.slot]
  IN  {s \in Slots : from[s]}

\* process_switch_bank_events: the other version of OtherSlot is repaired; the bank
\* and its descendants leave BankForks, the working bank too.
SwitchBank ==
  /\ ~switched /\ forks[OtherSlot] # NoBank /\ Block(OtherSlot, 2) \in others
  /\ switched' = TRUE
  /\ forks' = [s \in Slots |-> IF s \in FromOther THEN NoBank ELSE forks[s]]
  /\ UNCHANGED <<channelVars, workerVars, banks, panicked, loopVars, votorVars,
                 optimistic, recorderVars>>

\* Replay freezes a leader bank that is complete, under its freeze lock.
FreezeOwn(s) ==
  /\ s > OtherSlot /\ forks[s] # NoBank
  /\ LET i == forks[s] IN
       /\ banks[i].ticked /\ ~banks[i].frozen /\ ~InflightCommits(i)
       /\ banks' = [banks EXCEPT ![i].frozen = TRUE]
  /\ UNCHANGED <<channelVars, workerVars, panicked, loopVars, votorVars, replayVars, recorderVars>>

-----------------------------------------------------------------------------
(* Choosing a window. *)

\* The freshest of the stash and the ParentReady channel, and of the optimistic channel.
AnnouncedWindows == IF stash = None THEN parent_ready ELSE <<stash>> \o parent_ready
Later(current, candidate) == IF current > candidate THEN current ELSE candidate
LatestReady == Max({None} \cup ToSet(AnnouncedWindows))
LatestOptimistic ==
  IF optimistic = <<>> THEN [start |-> None, parent |-> NoBlock] ELSE Freshest(optimistic)

\* select_freshest_window: ParentReady wins a tie.
ReadyWins == LatestReady >= LatestOptimistic.start

StartAt(s, parent, byHandover) ==
  [IdleLoop EXCEPT !.pc = "Start", !.slot = s, !.end = LastOfWindow(s), !.parent = parent,
                   !.optimistic = byHandover]

SelectWindow ==
  /\ loop.pc = "Wait" /\ (AnnouncedWindows # <<>> \/ optimistic # <<>>)
  /\ LET s == IF ReadyWins THEN LatestReady ELSE LatestOptimistic.start
         parent == IF ReadyWins THEN ready[s] ELSE LatestOptimistic.parent
     IN  loop' = IF HasExistingShreds(s) THEN IdleLoop ELSE StartAt(s, parent, ~ReadyWins)
  /\ stash' = None /\ parent_ready' = <<>> /\ optimistic' = <<>>
  /\ UNCHANGED <<channelVars, workerVars, banks, panicked, ready, highest, forks, switched,
                 recorderVars>>

-----------------------------------------------------------------------------
(* Starting a block. *)

\* Stop the intake and drain what was reserved, before going on with `then`.
DrainFor(then) ==
  /\ ShutdownChannel
  /\ loop' = [loop EXCEPT !.pc = "Drain", !.then = then]
  /\ UNCHANGED <<queue, indexes>>

\* A block could not be started: the window is given up, and a handover aborted.
GiveUp ==
  IF loop.then = "Handover" THEN DrainFor("Failed")
  ELSE loop' = IdleLoop /\ UNCHANGED channelVars

\* Timeout, a highest ParentReady behind the window, or a bank already there.
StartFails ==
  /\ loop.pc = "Start" /\ GiveUp
  /\ UNCHANGED <<workerVars, banks, panicked, stash, votorVars, replayVars, recorderVars>>

\* The checks of maybe_start_leader.
Startable ==
  /\ loop.pc = "Start" /\ Len(banks) < MaxBanks /\ highest <= LastOfWindow(loop.slot)
  /\ forks[loop.slot] = NoBank /\ IsFrozen(loop.parent.slot)
  /\ loop.parent.id \in {AnyId, forks[loop.parent.slot]}

\* create_and_insert_leader_bank panics for a slot of another leader.
StartForeign ==
  /\ Startable /\ my_pubkey # LeaderOf(loop.slot)
  /\ wrong_leader' = TRUE
  /\ UNCHANGED <<calls, identity, my_pubkey, channelVars, workerVars, banks, panicked, loopVars,
                 votorVars, replayVars, recorderVars>>

\* reset_poh_recorder demands a quiet channel; without a reset no bank may be left.
StartLeader ==
  /\ Startable /\ my_pubkey = LeaderOf(loop.slot)
  /\ LET p == loop.parent.slot
         reset == start_slot # p
     IN  /\ loop' = [loop EXCEPT !.pc = "Insert", !.parent.id = forks[p]]
         /\ start_slot' = p
         /\ working' = IF reset THEN None ELSE working
         /\ panicked' = IF reset THEN ~Quiet ELSE working # None
  /\ UNCHANGED <<channelVars, workerVars, banks, stash, votorVars, replayVars, stream>>

\* Replay inserts the bank if its slot is free and a bank of the parent's slot is there.
InsertBank ==
  /\ loop.pc = "Insert"
  /\ forks[loop.slot] = NoBank /\ forks[loop.parent.slot] # NoBank
  /\ LET i == Len(banks) + 1 IN
       /\ banks' = Append(banks, [slot |-> loop.slot, parent |-> loop.parent, ticked |-> FALSE,
                                  frozen |-> FALSE, committed |-> {}])
       /\ forks' = [forks EXCEPT ![loop.slot] = i]
       /\ working' = i /\ panicked' = (working # None)
  /\ loop' = [loop EXCEPT !.pc = "Restart"]
  /\ UNCHANGED <<channelVars, workerVars, stash, votorVars, optimistic, switched,
                 start_slot, stream>>

InsertFails ==
  /\ loop.pc = "Insert"
  /\ forks[loop.slot] # NoBank \/ forks[loop.parent.slot] = NoBank
  /\ GiveUp
  /\ UNCHANGED <<workerVars, banks, panicked, stash, votorVars, replayVars, recorderVars>>

\* Record intake starts; after a handover the old bank's transactions go back
\* to the banking stage.
StartRecording ==
  /\ loop.pc = "Restart" /\ Restart(working)
  /\ loop' = [loop EXCEPT !.pc = "Record", !.shut = FALSE, !.acc = <<>>, !.then = "None"]
  /\ buffer' = buffer \cup ToSet(loop.acc)
  /\ UNCHANGED <<worker, banks, stash, votorVars, replayVars, recorderVars>>

-----------------------------------------------------------------------------
(* Recording. *)

\* PohRecorder::record of a record of the working bank.
Recorded(r) == working # None /\ r.bank = working
Accumulated(r, keep) == IF keep THEN Append(loop.acc, r.tx) ELSE loop.acc

\* Mutant: a record is broadcast and not kept for a handover.
RecordForgets ==
  /\ loop.pc = "Record" /\ parent_ready = <<>> /\ queue # <<>>
  /\ Received /\ Broadcast(loop.slot, Tx(Head(queue).tx))
  /\ UNCHANGED <<loopVars, workerVars, banks, panicked, votorVars, replayVars, working, start_slot>>

\* select_biased prefers the ParentReady channel.
RecordOne ==
  /\ loop.pc = "Record" /\ parent_ready = <<>> /\ queue # <<>>
  /\ LET r == Head(queue) IN
       IF Recorded(r)
       THEN /\ Received
            /\ loop' = [loop EXCEPT !.acc = Accumulated(r, loop.optimistic)]
            /\ Broadcast(loop.slot, Tx(r.tx))
       ELSE /\ queue' = Tail(queue) /\ word' = Shutdown /\ UNCHANGED <<indexes, stream>>
            /\ loop' = [loop EXCEPT !.pc = "Drain", !.then = "Failed"]
  /\ UNCHANGED <<workerVars, banks, panicked, stash, votorVars, replayVars, working, start_slot>>

\* Record what is left, unless an overdue handover has already done so.
StopFor(then) ==
  IF loop.shut THEN loop' = [loop EXCEPT !.pc = "Quiesce", !.then = then] /\ UNCHANGED channelVars
  ELSE DrainFor(then)

\* Mutant: an overdue handover waits for ParentReady and nothing else.
MovedOnUnlessShut ==
  /\ loop.pc = "Record" /\ highest > loop.slot /\ ~loop.shut
  /\ StopFor("MovedOn")
  /\ UNCHANGED <<workerVars, banks, panicked, stash, votorVars, replayVars, recorderVars>>

\* The cluster has moved on to a later window.
MovedOn ==
  /\ loop.pc = "Record" /\ highest > loop.slot
  /\ StopFor("MovedOn")
  /\ UNCHANGED <<workerVars, banks, panicked, stash, votorVars, replayVars, recorderVars>>

\* The block timeout: complete the block or, without ParentReady, stop recording and wait.
TimesUp ==
  /\ loop.pc = "Record"
  /\ IF loop.optimistic THEN ~loop.shut /\ DrainFor("AwaitParent") ELSE StopFor("Complete")
  /\ UNCHANGED <<workerVars, banks, panicked, stash, votorVars, replayVars, recorderVars>>

\* process_parent_ready: a later window, the parent of this one, or a stale one.
HandleParentReady ==
  /\ loop.pc = "Record" /\ parent_ready # <<>>
  /\ parent_ready' = Tail(parent_ready)
  /\ LET s == Head(parent_ready) IN
       CASE s > loop.slot ->
              /\ stash' = Later(stash, s) /\ StopFor("MovedOn")
         [] s = loop.slot /\ loop.optimistic /\ ready[s] # loop.parent ->
              /\ ShutdownChannel
              /\ loop' = [loop EXCEPT !.pc = "Drain", !.then = "Handover", !.parent = ready[s],
                                      !.optimistic = FALSE]
              /\ UNCHANGED <<stash, queue, indexes>>
         [] s = loop.slot /\ loop.optimistic /\ ready[s] = loop.parent ->
              /\ loop' = [loop EXCEPT !.optimistic = FALSE, !.acc = <<>>]
              /\ UNCHANGED <<stash, channelVars>>
         [] OTHER -> UNCHANGED <<loop, stash, channelVars>>
  /\ UNCHANGED <<workerVars, banks, panicked, ready, highest, replayVars, recorderVars>>

-----------------------------------------------------------------------------
(* Draining: pop until the channel is empty, no sender is active, and it is *)
(* still empty.                                                             *)

DrainOne ==
  /\ loop.pc \in {"Drain", "Recheck"} /\ queue # <<>>
  /\ Received
  /\ LET r == Head(queue)
         discard == loop.then \in {"MovedOn", "Failed"}
     IN  IF ~discard /\ Recorded(r)
         THEN /\ loop' = [loop EXCEPT !.pc = "Drain",
                            !.acc = Accumulated(r, loop.then \in {"AwaitParent", "Handover"})]
              /\ Broadcast(loop.slot, Tx(r.tx))
         ELSE /\ loop' = [loop EXCEPT !.pc = "Drain", !.then = IF discard THEN @ ELSE "Failed"]
              /\ UNCHANGED stream
  /\ UNCHANGED <<workerVars, banks, panicked, stash, votorVars, replayVars, working, start_slot>>

DrainStep(from, guard, to) ==
  /\ loop.pc = from /\ guard
  /\ loop' = [loop EXCEPT !.pc = to]
  /\ UNCHANGED <<channelVars, workerVars, banks, panicked, stash, votorVars, replayVars,
                 recorderVars>>

DrainEmpty == DrainStep("Drain", queue = <<>>, "CheckActive")
\* Mutant: active senders are not waited for.
CheckActiveIgnored == DrainStep("CheckActive", TRUE, "Recheck")

CheckActive == DrainStep("CheckActive", TRUE, IF ActiveSenders # 0 THEN "Drain" ELSE "Recheck")

\* Drained.  A handover sends the UpdateParent marker only now.
Drained ==
  /\ loop.pc = "Recheck" /\ queue = <<>>
  /\ loop' = CASE loop.then = "AwaitParent" -> [loop EXCEPT !.pc = "Record", !.shut = TRUE, !.then = "None"]
               [] loop.then = "Failed" /\ working = None -> IdleLoop
               [] OTHER -> [loop EXCEPT !.pc = "Quiesce"]
  /\ IF loop.then = "Handover" THEN Broadcast(loop.slot, UpdateParent(loop.parent))
     ELSE UNCHANGED stream
  /\ UNCHANGED <<channelVars, workerVars, banks, panicked, stash, votorVars, replayVars,
                 working, start_slot>>

-----------------------------------------------------------------------------
(* Finishing or abandoning a block, after wait_for_inflight_commits. *)

\* Mutant: wait_for_inflight_commits is left out.
InflightIgnored == FALSE

Inflight == InflightCommits(working)

\* The tick completes the bank, for replay to freeze.
Tick ==
  /\ loop.pc = "Quiesce" /\ loop.then = "Complete" /\ ~Inflight
  /\ banks' = [banks EXCEPT ![working].ticked = TRUE]
  /\ loop' = [loop EXCEPT !.pc = "Freeze"]
  /\ UNCHANGED <<channelVars, workerVars, panicked, stash, votorVars, replayVars, recorderVars>>

\* Bad reward certificates, or a bank that does not freeze in time.
CompletionFails ==
  /\ \/ loop.pc = "Quiesce" /\ loop.then = "Complete"
     \/ loop.pc = "Freeze" /\ ~banks[working].frozen
  /\ DrainFor("Failed")
  /\ UNCHANGED <<workerVars, banks, panicked, stash, votorVars, replayVars, recorderVars>>

\* wait_for_freeze_and_send_footer and the end of flush_cache; then the next slot.
SendFooter ==
  /\ loop.pc = "Freeze" /\ banks[working].frozen
  /\ Broadcast(loop.slot, Footer)
  /\ working' = None /\ start_slot' = loop.slot
  /\ loop' = IF loop.slot = loop.end THEN IdleLoop
             ELSE [StartAt(loop.slot + 1, Block(loop.slot, AnyId), FALSE) EXCEPT !.end = loop.end]
  /\ UNCHANGED <<channelVars, workerVars, banks, panicked, stash, votorVars, replayVars>>

\* The sad handover clears the bank and starts the slot again.
ClearForHandover ==
  /\ loop.pc = "Quiesce" /\ loop.then = "Handover" /\ ~Inflight
  /\ forks' = [forks EXCEPT ![loop.slot] = NoBank]
  /\ working' = None
  /\ loop' = [loop EXCEPT !.pc = "Start"]
  /\ UNCHANGED <<channelVars, workerVars, banks, panicked, stash, votorVars,
                 optimistic, switched, start_slot, stream>>

\* Mutant: PoH is reset and the bank stays in BankForks.
AbortKeepsBank ==
  /\ loop.pc = "Quiesce" /\ loop.then \in {"MovedOn", "Failed"} /\ ~Inflight
  /\ working' = None /\ start_slot' = banks[working].parent.slot
  /\ panicked' = ~Quiet
  /\ loop' = IdleLoop
  /\ UNCHANGED <<channelVars, workerVars, banks, stash, votorVars, replayVars, stream>>

\* abort_working_bank: clear the bank and reset PoH to its parent.
Abort ==
  /\ loop.pc = "Quiesce" /\ loop.then \in {"MovedOn", "Failed"} /\ ~Inflight
  /\ forks' = [forks EXCEPT ![loop.slot] = NoBank]
  /\ working' = None /\ start_slot' = banks[working].parent.slot
  /\ panicked' = ~Quiet
  /\ loop' = IdleLoop
  /\ UNCHANGED <<channelVars, workerVars, banks, stash, votorVars, optimistic, switched, stream>>

-----------------------------------------------------------------------------

LoopStep ==
  \/ SelectWindow \/ StartFails \/ StartLeader \/ InsertBank \/ InsertFails \/ StartRecording
  \/ RecordOne \/ MovedOn \/ TimesUp \/ HandleParentReady
  \/ DrainOne \/ DrainEmpty \/ CheckActive \/ Drained
  \/ Tick \/ CompletionFails \/ SendFooter \/ ClearForHandover \/ Abort

\* At the head of the loop the identity is read again.
LoopRuns ==
  /\ LoopStep
  /\ my_pubkey' = IF loop'.pc = "Wait" THEN identity ELSE my_pubkey
  /\ UNCHANGED <<calls, identity, wrong_leader>>

\* Nothing came for a second: back to the head.
LookAgain ==
  /\ loop.pc = "Wait" /\ my_pubkey # identity /\ AnnouncedWindows = <<>> /\ optimistic = <<>>
  /\ my_pubkey' = identity
  /\ UNCHANGED <<calls, identity, wrong_leader, channelVars, workerVars, banks, panicked, loopVars,
                 votorVars, replayVars, recorderVars>>

\* set-identity, in the model at most once.
ChangeIdentity ==
  /\ calls /\ calls' = FALSE /\ identity' = "Second"
  /\ UNCHANGED <<my_pubkey, wrong_leader, channelVars, workerVars, banks, panicked, loopVars,
                 votorVars, replayVars, recorderVars>>

\* A freeze lock lets no reader in while its writer waits (std's RwLock on Linux).
WriterWaits(w) == loop.pc = "Quiesce" /\ worker[w].pc = "Ready" /\ worker[w].bank = working
WorkerGoesOn(w) ==
  /\ ~WriterWaits(w) /\ InFlight(w)
  /\ UNCHANGED <<loopVars, votorVars, replayVars, recorderVars>>
WorkerTakes(w, t) ==
  TakeWork(w, t) /\ UNCHANGED <<loopVars, votorVars, replayVars, recorderVars>>

Votor(s) == ParentReady(s) \/ \E b \in ParentCandidates(s) : ProduceWindow(s, b)

AnotherRuns ==
  /\ UNCHANGED identityVars
  /\ \/ \E w \in Workers : WorkerGoesOn(w) \/ \E t \in Txs : WorkerTakes(w, t)
     \/ \E s \in WindowStarts : Votor(s)
     \/ ReplayOther \/ SwitchBank
     \/ \E s \in Slots : FreezeOwn(s)

\* No thread goes on after a panic of the loop.
Running == ~panicked /\ ~wrong_leader /\ UNCHANGED fixedVars

Next == Running /\ (LoopRuns \/ StartForeign \/ LookAgain \/ ChangeIdentity \/ AnotherRuns)

\* The threads run, timers expire, and votor goes on to later windows.
Spec ==
  /\ Init /\ [][Next]_vars
  /\ WF_vars(Running /\ (LoopRuns \/ StartForeign \/ LookAgain))
  /\ \A w \in Workers : WF_vars(Running /\ WorkerGoesOn(w) /\ UNCHANGED identityVars)
  /\ \A s \in WindowStarts : WF_vars(Running /\ ParentReady(s) /\ UNCHANGED identityVars)

-----------------------------------------------------------------------------
(* Properties. *)

(* The asserts on the record channel and on the working bank hold, before  *)
(* and after a change of identity: PoH is reset, and the channel           *)
(* restarted, only when it is shut down, empty and without an active       *)
(* sender (block_creation_loop.rs:406, record_channels.rs:207), a reserved *)
(* insertion finds room (record_channels.rs:156), and a bank is started    *)
(* only when no other is worked on (block_creation_loop.rs:1242).  The     *)
(* panic on the leader of the slot is LeaderMatches.                       *)
CreationNoPanic == ~panicked

(* The loop starts a block only for a slot whose leader it is: otherwise   *)
(* it panics with "Something has gone wrong with the block creation loop"  *)
(* (block_creation_loop.rs:1226).  A window announced or stashed for one   *)
(* identity and started after the other was read, at the head of the loop  *)
(* only (311), breaks it.                                                  *)
LeaderMatches == ~wrong_leader

\* The last bank made for a slot, and where its part of the broadcast begins.
LastBank(s) == CHOOSE i \in DOMAIN banks :
                 banks[i].slot = s /\ \A j \in DOMAIN banks : banks[j].slot = s => j <= i
LastUpdate(s) ==
  LET u == {i \in DOMAIN stream[s] : stream[s][i].kind = "UpdateParent"}
  IN  IF u = {} THEN 0 ELSE CHOOSE i \in u : \A j \in u : j <= i

(* A block that is given a footer is the bank it was made from: after the  *)
(* last UpdateParent marker come the transactions committed to the bank,   *)
(* each once, in the order of their indexes if those are tracked, and then *)
(* the footer, which ends the block; the marker names the bank's parent.   *)
(* Otherwise replay on other validators computes another bank hash         *)
(* (block_creation_loop.rs:913, "divergence between the leader and         *)
(* replayers").                                                            *)
BlockMatchesBank ==
  \A s \in Slots : Footer \in ToSet(stream[s]) =>
    LET u == LastUpdate(s)
        last == Len(stream[s])
        bank == banks[LastBank(s)]
        body == SubSeq(stream[s], u + 1, last - 1)
    IN  /\ stream[s][last] = Footer
        /\ \A i \in DOMAIN body : body[i].kind = "Tx"
        /\ Len(body) = Cardinality(bank.committed)
        /\ \A c \in bank.committed : \E i \in DOMAIN body :
              body[i].tx = c.tx /\ (track => c.index = i - 1)
        /\ u > 0 => stream[s][u].parent = bank.parent

(* The first block of a window is completed only on the parent that votor  *)
(* announced for the window, however early it was started                  *)
(* (block_creation_loop.rs:655).                                           *)
FooterOnReadyParent ==
  \A s \in own : Footer \in ToSet(stream[s]) => banks[LastBank(s)].parent = ready[s]

(* Every completed block is the bank it was made from, on the right parent. *)
BlocksSound == BlockMatchesBank /\ FooterOnReadyParent

(* When the loop looks for a window nothing of the last one is left: no    *)
(* working bank, a channel that is shut, empty and without senders, and no *)
(* unfinished leader bank in BankForks, which would stop the slot from     *)
(* being started again (block_creation_loop.rs:842).                       *)
RestsClean ==
  loop.pc = "Wait" =>
    /\ working = None /\ Quiet
    /\ \A s \in Slots : s > OtherSlot /\ forks[s] # NoBank => banks[forks[s]].frozen

(* A sad handover gives the banking stage back exactly the transactions    *)
(* the abandoned bank had accepted (block_creation_loop.rs:946).           *)
HandoverKeepsTransactions ==
  [][loop.then = "Handover" /\ loop'.pc = "Record" =>
       buffer' \ buffer = {c.tx : c \in banks[working - 1].committed}]_vars

(* Every window ends: the loop always comes back to look for the next one, *)
(* also when ParentReady never arrives for the window it started on an     *)
(* optimistic parent (block_creation_loop.rs:644), unless it panics on the *)
(* leader of a slot.                                                       *)
LoopReturns == []<>(loop.pc = "Wait" \/ wrong_leader)

=============================================================================
