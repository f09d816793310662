-------------------------- MODULE SchedulerSessions --------------------------
(***************************************************************************)
(* The unified scheduler's pool, its threads and the banks that use them   *)
(* (crates/scheduler/unified-scheduler-pool/src/lib.rs and                 *)
(* crates/runtime/runtime/src/installed_scheduler_pool.rs).  Replay takes  *)
(* a scheduler for a bank, sends it the bank's transactions, pauses it at  *)
(* the last tick and waits for it to freeze the bank; the cleaner thread   *)
(* takes it away when the bank is slow, and the bank takes one again with  *)
(* the result so far; the scheduler thread and its handler threads outlive *)
(* the sessions and are joined only after an error.  Which tasks may run   *)
(* is TaskOrder's, which SchedulingStateMachine implements.  A step of     *)
(* replay for a bank is taken by one of its ReplayThreads threads.         *)
(* Not modelled: panics of a handler (the                                  *)
(* validator's panic hook ends the process), the shutdown of the pool, and *)
(* the timings that travel with a result.                                  *)
(***************************************************************************)
EXTENDS Integers, Sequences, FiniteSets

CONSTANTS Banks,          \* banks under replay
          Tasks,          \* their transactions; the ids are ledger indexes
          BankOf,         \* BankOf[t]
          Addresses, Access, \* Access[t][a], see TaskOrder
          Schedulers,     \* scheduler ids, numbers; one is used again once dropped
          Handlers,       \* handler threads of a scheduler
          Nobody,         \* no scheduler
          ReplayThreads,  \* replay_forks_threads: banks replayed at the same time
          Abandonable,    \* bound: banks that replay may give up half-way
          Faulty,         \* bound: transactions that may fail
          Timeouts        \* bound: how often the cleaner fires

Cleaner == "solScCleaner"
Callers == Banks \cup {Cleaner}

VARIABLES
  status,        \* status[b]: SchedulerStatus, [kind, scheduler, result]
  replay,        \* replay[b]: where replay is with bank b
  outcome,       \* outcome[b]: what wait_for_completed_scheduler returned
  listener,      \* listener[b]: timeout listeners registered for b
  fired,         \* how often one was triggered
  lock,          \* lock[b]: the writer that holds b's InstalledSchedulerRwLock
  call,          \* call[c]: the blocking operation caller c is in
  pool,          \* scheduler_inners, last in first out
  trashed,       \* trashed_scheduler_inners
  new_task,      \* new_task[s]: channel from replay to the scheduler thread
  session_result,\* session_result[s]: channel back
  manager,       \* manager[s]: ThreadManager, [joined, result]
  thread,        \* thread[s]: the scheduler thread
  channel,       \* channel[s]: chained channels to the handlers, oldest first
  finished,      \* finished[s]: channels from the handlers, [blocked, idle]
  handler,       \* handler[s][h]: a handler thread
  sent,          \* tasks replay scheduled successfully
  executed,      \* executed[t]: outcome of t's execution
  panicked       \* a thread met unreachable!(), a failed assert or expect

bankVars == <<status, replay, outcome, listener, fired, lock>>
poolVars == <<pool, trashed>>
managerVars == <<new_task, session_result, manager>>
threadVars == <<thread, channel, finished, handler>>
ghosts == <<sent, executed>>
vars == <<bankVars, call, poolVars, managerVars, threadVars, ghosts, panicked>>

TO == INSTANCE TaskOrder WITH
        capability <- "FifoQueueing", access <- Access, stamp <- [t \in Tasks |-> t],
        active <- {}, granted <- {}, running <- {}

\* A scheduler thread that does not run, and the ones a new scheduler starts.
NoThread == [pc |-> "Gone", bank |-> Nobody, result |-> "Ok", session_ending |-> FALSE,
             active |-> {}, granted |-> {}, unblocked |-> <<>>]
NewThread(b, r) == [NoThread EXCEPT !.pc = "Loop", !.bank = b, !.result = r]
NewChannel == [main |-> <<>>, aux |-> <<>>]
NewHandler(b) == [pc |-> "Idle", at |-> 1, bank |-> b, task |-> 0, via |-> "main"]
GoneHandler == [NewHandler(Nobody) EXCEPT !.pc = "Gone"]
NotCalling == [step |-> "None", op |-> "None", scheduler |-> Nobody]

Init ==
  /\ status = [b \in Banks |-> [kind |-> "Unavailable", scheduler |-> Nobody, result |-> "None"]]
  /\ replay = [b \in Banks |-> "New"]
  /\ outcome = [b \in Banks |-> "None"]
  /\ listener = [b \in Banks |-> 0] /\ fired = 0
  /\ lock = [b \in Banks |-> "Free"]
  /\ call = [c \in Callers |-> NotCalling]
  /\ pool = <<>> /\ trashed = {}
  /\ new_task = [s \in Schedulers |-> <<>>]
  /\ session_result = [s \in Schedulers |-> <<>>]
  /\ manager = [s \in Schedulers |-> [joined |-> TRUE, result |-> "None"]]
  /\ thread = [s \in Schedulers |-> NoThread]
  /\ channel = [s \in Schedulers |-> <<NewChannel>>]
  /\ finished = [s \in Schedulers |-> [blocked |-> <<>>, idle |-> <<>>]]
  /\ handler = [s \in Schedulers |-> [h \in Handlers |-> GoneHandler]]
  /\ sent = {} /\ executed = [t \in Tasks |-> "No"]
  /\ panicked = FALSE

\* The single receiver of new_task is gone once the thread dropped it.
Aborted(s) == thread[s].pc = "Gone"

Owned == {pool[i] : i \in DOMAIN pool} \cup trashed
         \cup {status[b].scheduler : b \in Banks} \cup {call[c].scheduler : c \in Callers}

(***************************************************************************)
(* Taking and returning schedulers                                         *)
(***************************************************************************)
\* do_take_resumed_scheduler: from_inner and start_session, or spawn and
\* start_threads; then the bank is Active.
Take(b, r) ==
  \/ LET s == pool[Len(pool)] IN
     /\ pool # <<>>
     /\ pool' = SubSeq(pool, 1, Len(pool) - 1)
     /\ new_task' = [new_task EXCEPT ![s] = Append(@, <<"OpenSubchannel", b, r>>)]
     /\ panicked' = (r # "Ok" \/ manager[s].joined \/ manager[s].result # "None" \/ Aborted(s))
     /\ status' = [status EXCEPT ![b] = [kind |-> "Active", scheduler |-> s, result |-> "None"]]
     /\ UNCHANGED <<trashed, session_result, manager, threadVars>>
  \/ \E s \in Schedulers \ Owned :
     /\ pool = <<>> /\ \A u \in Schedulers \ Owned : s <= u
     /\ manager' = [manager EXCEPT ![s].joined = FALSE]
     /\ thread' = [thread EXCEPT ![s] = NewThread(b, r)]
     /\ channel' = [channel EXCEPT ![s] = <<NewChannel>>]
     /\ handler' = [handler EXCEPT ![s] = [h \in Handlers |-> NewHandler(b)]]
     /\ status' = [status EXCEPT ![b] = [kind |-> "Active", scheduler |-> s, result |-> "None"]]
     /\ panicked' = (r # "Ok")
     /\ UNCHANGED <<poolVars, new_task, session_result, finished>>

\* Mutant of Return: what comes back goes to the pool.
ReturnAlways(s) == pool' = Append(pool, s) /\ UNCHANGED trashed

\* return_scheduler: a joined or overgrown scheduler is trashed.
Return(s) ==
  \/ /\ ~manager[s].joined
     /\ pool' = Append(pool, s) /\ UNCHANGED trashed
  \/ trashed' = trashed \cup {s} /\ UNCHANGED pool

(***************************************************************************)
(* A bank and its scheduler                                                *)
(***************************************************************************)
\* install_scheduler_into_bank, and the first timeout listener
Install(b) ==
  /\ replay[b] = "New"
  /\ Take(b, "Ok")
  /\ replay' = [replay EXCEPT ![b] = "Ready"]
  /\ listener' = [listener EXCEPT ![b] = @ + 1]
  /\ UNCHANGED <<outcome, fired, lock, call, ghosts>>

NextTask(b) == {t \in Tasks \ sent : BankOf[t] = b /\ \A u \in Tasks \ sent : BankOf[u] = b => t <= u}

\* send_task; after a failure replay asks for the error.
Send(b, s, t) ==
  IF Aborted(s)
  THEN /\ replay' = [replay EXCEPT ![b] = "Failed"]
       /\ UNCHANGED <<new_task, sent>>
  ELSE /\ replay' = [replay EXCEPT ![b] = "Ready"]
       /\ new_task' = [new_task EXCEPT ![s] = Append(@, <<"Payload", t>>)]
       /\ sent' = sent \cup {t}

\* schedule_transaction_executions, with_active_scheduler: the read lock is
\* held for one of the three branches.
Schedule(b) ==
  /\ replay[b] = "Ready" /\ lock[b] = "Free"
  /\ \E t \in NextTask(b) :
       \/ /\ status[b].kind = "Active"
          /\ Send(b, status[b].scheduler, t)
       \/ /\ status[b].kind = "Stale"
          /\ replay' = [replay EXCEPT ![b] = IF status[b].result = "Err" THEN "Failed" ELSE "Resume"]
          /\ UNCHANGED <<new_task, sent>>
  /\ UNCHANGED <<status, outcome, listener, fired, lock, call, poolVars, session_result,
                 manager, threadVars, executed, panicked>>

\* Mutant of Resume: the listener is registered before the lock is dropped.
ResumeListening(b) ==
  /\ replay[b] = "Resume" /\ lock[b] = "Free"
  /\ replay' = [replay EXCEPT ![b] = "Resumed"]
  /\ listener' = [listener EXCEPT ![b] = @ + 1]
  /\ IF status[b].kind = "Stale"
     THEN Take(b, status[b].result)
     ELSE panicked' = TRUE /\ UNCHANGED <<status, poolVars, managerVars, threadVars>>
  /\ UNCHANGED <<outcome, fired, lock, call, ghosts>>

\* with_active_scheduler: the bank was stale; the write lock is taken after
\* the read lock was given up.
Resume(b) ==
  /\ replay[b] = "Resume" /\ lock[b] = "Free"
  /\ replay' = [replay EXCEPT ![b] = "Resumed"]
  /\ IF status[b].kind = "Stale"
     THEN Take(b, status[b].result)
     ELSE panicked' = TRUE /\ UNCHANGED <<status, poolVars, managerVars, threadVars>>
  /\ UNCHANGED <<outcome, listener, fired, lock, call, ghosts>>

\* with_active_scheduler: the listener is registered under the read lock.
Resumed(b) ==
  /\ replay[b] = "Resumed" /\ lock[b] = "Free"
  /\ listener' = [listener EXCEPT ![b] = @ + 1]
  /\ IF status[b].kind = "Active"
     THEN \E t \in NextTask(b) : Send(b, status[b].scheduler, t) /\ UNCHANGED panicked
     ELSE panicked' = TRUE /\ UNCHANGED <<replay, new_task, sent>>
  /\ UNCHANGED <<status, outcome, fired, lock, call, poolVars, session_result,
                 manager, threadVars, executed>>

\* Caller c takes the write lock of bank b and starts a blocking operation on
\* its scheduler, at the given step.
Enter(c, b, op, step) ==
  /\ lock[b] = "Free" /\ call[c] = NotCalling
  /\ lock' = [lock EXCEPT ![b] = c]
  /\ call' = [call EXCEPT ![c] = [step |-> step, op |-> op, scheduler |-> status[b].scheduler]]

\* retrieve_error_after_schedule_failure
RetrieveError(b) ==
  /\ replay[b] = "Failed"
  /\ \/ /\ status[b].kind = "Active"
        /\ Enter(b, b, "Retrieve", "JoinAndReceive")
        /\ UNCHANGED <<replay, panicked>>
     \/ /\ status[b].kind # "Active" /\ lock[b] = "Free"
        /\ replay' = [replay EXCEPT ![b] = "Dead"]
        /\ panicked' = ~(status[b].kind = "Stale" /\ status[b].result = "Err")
        /\ UNCHANGED <<lock, call>>
  /\ UNCHANGED <<status, outcome, listener, fired, poolVars, managerVars, threadVars, ghosts>>

\* wait_for_paused_scheduler, at the tick that ends the block
Pause(b) ==
  /\ replay[b] = "Ready" /\ NextTask(b) = {}
  /\ \/ /\ status[b].kind = "Active"
        /\ Enter(b, b, "Pause", "Close")
        /\ UNCHANGED replay
     \/ /\ status[b].kind = "Stale" /\ lock[b] = "Free"
        /\ replay' = [replay EXCEPT ![b] = "Complete"]
        /\ UNCHANGED <<lock, call>>
  /\ UNCHANGED <<status, outcome, listener, fired, poolVars, managerVars, threadVars, ghosts, panicked>>

\* wait_for_completed_scheduler: to freeze a complete bank, or to remove a
\* bank that is dead or abandoned.
Terminate(b) ==
  /\ \/ replay[b] \in {"Complete", "Dead"}
     \/ replay[b] = "Ready" /\ b \in Abandonable
  /\ \/ /\ status[b].kind = "Active"
        /\ Enter(b, b, IF replay[b] = "Complete" THEN "Freeze" ELSE "Drop", "Close")
        /\ status' = [status EXCEPT ![b].kind = "Unavailable"]
        /\ UNCHANGED <<replay, outcome>>
     \/ /\ status[b].kind = "Stale" /\ lock[b] = "Free"
        /\ status' = [status EXCEPT ![b] = [kind |-> "Unavailable", scheduler |-> Nobody, result |-> "None"]]
        /\ outcome' = [outcome EXCEPT ![b] = status[b].result]
        /\ replay' = [replay EXCEPT ![b] = IF @ = "Complete" THEN "Frozen" ELSE "Removed"]
        /\ UNCHANGED <<lock, call>>
  /\ UNCHANGED <<listener, fired, poolVars, managerVars, threadVars, ghosts, panicked>>

\* The cleaner triggers a listener: an active bank becomes stale.
Timeout(b) ==
  /\ listener[b] > 0 /\ fired < Timeouts
  /\ lock[b] = "Free" /\ call[Cleaner] = NotCalling
  /\ listener' = [listener EXCEPT ![b] = @ - 1]
  /\ fired' = fired + 1
  /\ IF status[b].kind = "Active"
     THEN /\ Enter(Cleaner, b, "Stale", "Close")
          /\ status' = [status EXCEPT ![b].kind = "Unavailable"]
     ELSE UNCHANGED <<lock, call, status>>
  /\ UNCHANGED <<replay, outcome, poolVars, managerVars, threadVars, ghosts, panicked>>

\* The cleaner drops an inner: one that is trashed, or idle for too long.
Destroy(s) ==
  /\ call[Cleaner] = NotCalling
  /\ call' = [call EXCEPT ![Cleaner] = [step |-> "Disconnect", op |-> "Destroy", scheduler |-> s]]
  /\ UNCHANGED <<bankVars, managerVars, threadVars, ghosts, panicked>>

DropTrashed(s) == s \in trashed /\ trashed' = trashed \ {s} /\ Destroy(s) /\ UNCHANGED pool

DropIdle == pool # <<>> /\ pool' = Tail(pool) /\ Destroy(Head(pool)) /\ UNCHANGED trashed

(***************************************************************************)
(* The blocking operations of ThreadManager, one step of caller c each     *)
(***************************************************************************)
Step(c, step) == call' = [call EXCEPT ![c].step = step]

\* do_end_session: nothing to do, or CloseSubchannel is sent
EndSession(c) ==
  LET s == call[c].scheduler IN
  /\ call[c].step = "Close"
  /\ IF manager[s].joined \/ manager[s].result # "None"
     THEN /\ panicked' = (manager[s].result = "None")
          /\ Step(c, "Done")
          /\ UNCHANGED new_task
     ELSE /\ Step(c, IF Aborted(s) THEN "JoinAndReceive" ELSE "Receive")
          /\ new_task' = IF Aborted(s) THEN new_task
                         ELSE [new_task EXCEPT ![s] = Append(@, <<"CloseSubchannel">>)]
          /\ UNCHANGED panicked
  /\ UNCHANGED <<bankVars, poolVars, session_result, manager, threadVars, ghosts>>

\* ThreadManager::drop: an alive thread is asked to end
Disconnect(c) ==
  LET s == call[c].scheduler IN
  /\ call[c].step = "Disconnect"
  /\ IF manager[s].joined
     THEN Step(c, "Done") /\ UNCHANGED <<new_task, panicked>>
     ELSE /\ Step(c, "JoinAndReceive")
          /\ panicked' = (manager[s].result # "None" \/ Aborted(s))
          /\ new_task' = [new_task EXCEPT ![s] = Append(@, <<"Disconnect">>)]
  /\ UNCHANGED <<bankVars, poolVars, session_result, manager, threadVars, ghosts>>

\* session_result_receiver.recv(), put_session_result_with_timings; what
\* follows an abort expects an error, what follows a disconnection does not.
ReceiveResult(c) ==
  LET s == call[c].scheduler
      r == Head(session_result[s])
  IN
  /\ call[c].step \in {"Receive", "ReceiveLast"}
  /\ session_result[s] # <<>>
  /\ session_result' = [session_result EXCEPT ![s] = Tail(@)]
  /\ manager' = [manager EXCEPT ![s].result = r]
  /\ Step(c, IF call[c].step = "Receive" /\ r = "Err" THEN "Join" ELSE "Done")
  /\ panicked' = \/ manager[s].result # "None"
                 \/ call[c].step = "ReceiveLast" /\ (r = "Err") # (call[c].op # "Destroy")
  /\ UNCHANGED <<bankVars, poolVars, new_task, threadVars, ghosts>>

\* ensure_join_threads; the channels die with the threads.
JoinThreads(c) ==
  LET s == call[c].scheduler IN
  /\ call[c].step \in {"Join", "JoinAndReceive"}
  /\ Aborted(s) /\ \A h \in Handlers : handler[s][h].pc = "Gone"
  /\ Step(c, IF call[c].step = "JoinAndReceive" /\ ~manager[s].joined THEN "ReceiveLast" ELSE "Done")
  /\ manager' = [manager EXCEPT ![s].joined = TRUE]
  /\ channel' = [channel EXCEPT ![s] = <<NewChannel>>]
  /\ UNCHANGED <<bankVars, poolVars, new_task, session_result, thread, finished, handler,
                 ghosts, panicked>>

\* The operation is over: the result is kept or taken, the scheduler stays,
\* goes back to the pool or is gone, and the lock is released.
Leave(c) ==
  LET s == call[c].scheduler
      op == call[c].op
      b == CHOOSE x \in Banks : lock[x] = c
      taken == manager[s].result
  IN
  /\ call[c].step = "Done"
  /\ call' = [call EXCEPT ![c] = NotCalling]
  /\ IF op = "Destroy"
     THEN /\ manager' = [manager EXCEPT ![s] = [joined |-> TRUE, result |-> "None"]]
          /\ UNCHANGED <<bankVars, poolVars>>
     ELSE /\ lock' = [lock EXCEPT ![b] = "Free"]
          /\ IF op \in {"Retrieve", "Pause"}
             THEN UNCHANGED <<poolVars, manager>>
             ELSE /\ manager' = [manager EXCEPT ![s].result = "None"]
                  /\ Return(s)
          /\ replay' = [replay EXCEPT ![b] = CASE op = "Retrieve" -> "Dead"
                                               [] op = "Pause" -> "Complete"
                                               [] op = "Freeze" -> "Frozen"
                                               [] op = "Drop" -> "Removed"
                                               [] OTHER -> @]
          /\ status' = CASE op \in {"Retrieve", "Pause"} -> status
                         [] op = "Stale" -> [status EXCEPT ![b] =
                              [kind |-> "Stale", scheduler |-> Nobody, result |-> taken]]
                         [] OTHER -> [status EXCEPT ![b].scheduler = Nobody]
          /\ outcome' = IF op \in {"Freeze", "Drop"} THEN [outcome EXCEPT ![b] = taken] ELSE outcome
          /\ UNCHANGED <<listener, fired>>
  /\ panicked' = (op = "Retrieve" /\ taken # "Err")
  /\ UNCHANGED <<new_task, session_result, threadVars, ghosts>>

(***************************************************************************)
(* The scheduler thread                                                    *)
(***************************************************************************)
\* The sequences that list a finite set without repetition.
Arrangements(S) ==
  {q \in [1..Cardinality(S) -> S] : \A x \in S : \E i \in 1..Cardinality(S) : q[i] = x}

\* Mutant of Settle: the session ends once nothing is left to be dispatched.
SettleEarly(s, th) ==
  IF th.session_ending /\ th.unblocked = <<>>
  THEN /\ thread' = [thread EXCEPT ![s] = [NoThread EXCEPT !.pc = "Await"]]
       /\ session_result' = [session_result EXCEPT ![s] = Append(@, th.result)]
  ELSE thread' = [thread EXCEPT ![s] = th] /\ UNCHANGED session_result

\* The end of an iteration: can_finish_session, the result, reinitialize.
Settle(s, th) ==
  IF th.session_ending /\ th.active = {}
  THEN /\ thread' = [thread EXCEPT ![s] = [NoThread EXCEPT !.pc = "Await"]]
       /\ session_result' = [session_result EXCEPT ![s] = Append(@, th.result)]
  ELSE thread' = [thread EXCEPT ![s] = th] /\ UNCHANGED session_result

\* Mutant of Break: the result is not sent.
BreakSilently(s, result) ==
  /\ thread' = [thread EXCEPT ![s] = [NoThread EXCEPT !.pc = "Closing"]]
  /\ UNCHANGED session_result

\* Out of the main loop: the result as it is goes out first.
Break(s, result) ==
  /\ thread' = [thread EXCEPT ![s] = [NoThread EXCEPT !.pc = "Closing"]]
  /\ session_result' = [session_result EXCEPT ![s] = Append(@, result)]

\* Mutant of MustAbort: the session goes on after an error.
NeverAbort(r) == FALSE

\* abort_or_accumulate_result_with_timings, for block verification
MustAbort(r) == r = "Err"

\* recv(finished_*_task_receiver); select_biased! takes what finished idle last
Finished(s, kind) ==
  LET th == thread[s]
      t == Head(finished[s][kind])[1]
      act == th.active \ {t}
      gr == th.granted \ {t}
      new == {u \in act \ gr : TO!Grantable(u, act, gr)}
  IN
  /\ th.pc = "Loop" /\ finished[s][kind] # <<>>
  /\ kind = "idle" => finished[s].blocked = <<>> /\ th.unblocked = <<>> /\ new_task[s] = <<>>
  /\ finished' = [finished EXCEPT ![s][kind] = Tail(@)]
  /\ IF MustAbort(Head(finished[s][kind])[2])
     THEN Break(s, "Err")
     ELSE \E q \in Arrangements(new) :
            Settle(s, [th EXCEPT !.active = act, !.granted = gr \cup new,
                                 !.unblocked = @ \o q])
  /\ UNCHANGED <<bankVars, call, poolVars, new_task, manager, channel, handler, ghosts, panicked>>

\* recv(dummy_unblocked_task_receiver)
Dispatch(s) ==
  LET n == Len(channel[s]) IN
  /\ thread[s].pc = "Loop" /\ finished[s].blocked = <<>> /\ thread[s].unblocked # <<>>
  /\ channel' = [channel EXCEPT ![s][n].main = Append(@, <<"Payload", Head(thread[s].unblocked)>>)]
  /\ thread' = [thread EXCEPT ![s].unblocked = Tail(@)]
  /\ UNCHANGED <<bankVars, call, poolVars, managerVars, finished, handler, ghosts, panicked>>

\* recv(new_task_receiver)
NewTask(s) ==
  LET th == thread[s]
      m == Head(new_task[s])
      n == Len(channel[s])
      now == TO!Grantable(m[2], th.active, th.granted)
  IN
  /\ th.pc = "Loop" /\ new_task[s] # <<>>
  /\ finished[s].blocked = <<>> /\ th.unblocked = <<>>
  /\ new_task' = [new_task EXCEPT ![s] = Tail(@)]
  /\ \/ /\ m[1] = "Payload"
        /\ thread' = [thread EXCEPT ![s].active = @ \cup {m[2]},
                                    ![s].granted = @ \cup {t \in {m[2]} : now}]
        /\ channel' = IF now THEN [channel EXCEPT ![s][n].aux = Append(@, m[2])] ELSE channel
        /\ UNCHANGED session_result
     \/ /\ m[1] = "CloseSubchannel"
        /\ Settle(s, [th EXCEPT !.session_ending = TRUE])
        /\ UNCHANGED channel
     \/ /\ m[1] = "Disconnect"
        /\ Break(s, th.result)
        /\ UNCHANGED channel
     \/ /\ m[1] = "OpenSubchannel"
        /\ UNCHANGED <<thread, session_result, channel>>
  /\ panicked' = (th.session_ending \/ m[1] = "OpenSubchannel")
  /\ UNCHANGED <<bankVars, call, poolVars, manager, finished, handler, ghosts>>

\* Between sessions: a new context goes to every handler, with new channels.
AwaitSession(s) ==
  LET m == Head(new_task[s])
      n == Len(channel[s])
  IN
  /\ thread[s].pc = "Await" /\ new_task[s] # <<>>
  /\ new_task' = [new_task EXCEPT ![s] = Tail(@)]
  /\ \/ /\ m[1] = "OpenSubchannel"
        /\ thread' = [thread EXCEPT ![s] = NewThread(m[2], m[3])]
        /\ channel' = [channel EXCEPT ![s] = Append([@ EXCEPT ![n].main =
                         @ \o [i \in 1..Cardinality(Handlers) |-> <<"Switch", m[2]>>]], NewChannel)]
        /\ UNCHANGED session_result
     \/ /\ m[1] = "Disconnect"
        /\ Break(s, "Ok")
        /\ UNCHANGED channel
     \/ /\ m[1] \in {"Payload", "CloseSubchannel"}
        /\ UNCHANGED <<thread, session_result, channel>>
  /\ panicked' = (m[1] \in {"Payload", "CloseSubchannel"})
  /\ UNCHANGED <<bankVars, call, poolVars, manager, finished, handler, ghosts>>

\* drop(new_task_receiver) and the end of the thread with its channels
ThreadEnds(s) ==
  /\ thread[s].pc = "Closing"
  /\ thread' = [thread EXCEPT ![s] = NoThread]
  /\ new_task' = [new_task EXCEPT ![s] = <<>>]
  /\ finished' = [finished EXCEPT ![s] = [blocked |-> <<>>, idle |-> <<>>]]
  /\ UNCHANGED <<bankVars, call, poolVars, session_result, manager, channel, handler, ghosts, panicked>>

(***************************************************************************)
(* The handler threads                                                     *)
(***************************************************************************)
\* select_biased!: main before aux; a disconnected main channel ends it.
HandlerReceives(s, h) ==
  LET hd == handler[s][h]
      main == channel[s][hd.at].main
      aux == channel[s][hd.at].aux
      Becomes(x) == handler' = [handler EXCEPT ![s][h] = x]
  IN
  /\ hd.pc = "Idle"
  /\ \/ /\ main # <<>>
        /\ channel' = [channel EXCEPT ![s][hd.at].main = Tail(@)]
        /\ Becomes(IF Head(main)[1] = "Switch"
                   THEN [hd EXCEPT !.at = @ + 1, !.bank = Head(main)[2]]
                   ELSE [hd EXCEPT !.pc = "Busy", !.task = Head(main)[2], !.via = "blocked"])
     \/ /\ main = <<>> /\ Aborted(s)
        /\ Becomes(GoneHandler)
        /\ UNCHANGED channel
     \/ /\ main = <<>> /\ ~Aborted(s) /\ aux # <<>>
        /\ channel' = [channel EXCEPT ![s][hd.at].aux = Tail(@)]
        /\ Becomes([hd EXCEPT !.pc = "Busy", !.task = Head(aux), !.via = "idle"])
  /\ UNCHANGED <<bankVars, call, poolVars, managerVars, thread, finished, ghosts, panicked>>

\* The task is executed, and reported unless the scheduler thread is gone.
HandlerExecutes(s, h, r) ==
  LET hd == handler[s][h] IN
  /\ hd.pc = "Busy"
  /\ r = "Err" => hd.task \in Faulty
  /\ executed' = [executed EXCEPT ![hd.task] = IF @ = "No" THEN r ELSE "Twice"]
  /\ IF Aborted(s)
     THEN handler' = [handler EXCEPT ![s][h] = GoneHandler] /\ UNCHANGED finished
     ELSE /\ handler' = [handler EXCEPT ![s][h].pc = "Idle", ![s][h].task = 0]
          /\ finished' = [finished EXCEPT ![s][hd.via] = Append(@, <<hd.task, r>>)]
  /\ UNCHANGED <<bankVars, call, poolVars, managerVars, thread, channel, sent, panicked>>

\* The banks a replay thread is busy with, between two steps.
Replaying == {b \in Banks : call[b] # NotCalling \/ replay[b] \in {"Resume", "Resumed", "Failed"}}

ReplaySteps(b) ==
  /\ b \in Replaying \/ Cardinality(Replaying) < ReplayThreads
  /\ \/ Install(b) \/ Schedule(b) \/ Resume(b) \/ Resumed(b)
     \/ RetrieveError(b) \/ Pause(b) \/ Terminate(b)
CallSteps(c) == EndSession(c) \/ Disconnect(c) \/ ReceiveResult(c) \/ JoinThreads(c) \/ Leave(c)
ThreadSteps(s) ==
  \/ Finished(s, "blocked") \/ Finished(s, "idle") \/ Dispatch(s) \/ NewTask(s)
  \/ AwaitSession(s) \/ ThreadEnds(s)
HandlerSteps(s, h) == HandlerReceives(s, h) \/ \E r \in {"Ok", "Err"} : HandlerExecutes(s, h, r)

\* What threads do of themselves; the cleaner looks for trash periodically.
Progress ==
  \/ \E b \in Banks : ReplaySteps(b)
  \/ \E c \in Callers : CallSteps(c)
  \/ \E s \in Schedulers : ThreadSteps(s) \/ DropTrashed(s)
  \/ \E s \in Schedulers, h \in Handlers : HandlerSteps(s, h)

Next ==
  /\ ~panicked
  /\ \/ Progress
     \/ \E b \in Banks : Timeout(b)
     \/ DropIdle

\* Some thread that can go on does; nothing makes time-outs happen.
Spec == Init /\ [][Next]_vars /\ WF_vars(Progress /\ ~panicked)

(***************************************************************************)
(* Properties                                                              *)
(***************************************************************************)
\* No thread meets an assertion, an expect or an unreachable!() of the pool or
\* of the bank's scheduler status, however timeouts, errors, pauses and the
\* reuse of schedulers interleave.
SessionsNoPanic == ~panicked

\* What replay is told about a bank is right: Ok only if every transaction it
\* had scheduled was executed once and without error, whichever schedulers
\* executed them, and an error only if one failed (lib.rs:1001: "any
\* transaction errors are always handled without loss of information").
OutcomeFaithful ==
  \A b \in Banks :
    LET mine == {t \in sent : BankOf[t] = b} IN
    /\ outcome[b] = "Ok" => \A t \in mine : executed[t] = "Ok"
    /\ outcome[b] = "Err" => \E t \in mine : executed[t] = "Err"

\* A handler executes a transaction in the bank it belongs to, although the
\* handlers of a scheduler learn of a new bank one by one; and by then the
\* conflicting transactions before it in the block have been executed
\* successfully, also when the bank changed schedulers in between.
LedgerOrder ==
  \A s \in Schedulers, h \in Handlers :
    LET t == handler[s][h].task IN
    handler[s][h].pc = "Busy" =>
      /\ handler[s][h].bank = BankOf[t]
      /\ \A u \in Tasks : (u < t /\ BankOf[u] = BankOf[t] /\ TO!Conflicts(u, t)) => executed[u] = "Ok"

\* Every bank is frozen or removed in the end, and whoever waits for a scheduler
\* gets an answer: to end a session, to recover an error, to join the threads of
\* a scheduler that aborted or is dropped (lib.rs:1606, ensure_join_threads).
BanksSettle ==
  <>[](/\ \A b \in Banks : replay[b] \in {"Frozen", "Removed"}
       /\ \A c \in Callers : call[c] = NotCalling)
=============================================================================
