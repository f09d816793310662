----------------------- MODULE SchedulingStateMachine -----------------------
(***************************************************************************)
(* The task scheduler of the unified scheduler                             *)
(* (crates/scheduler/unified-scheduler-logic/src/lib.rs): one usage queue  *)
(* per account, a count of the accounts each task still waits for, and the *)
(* queue of tasks that wait for none.  The accounts of one transaction are *)
(* distinct, so the loops over its lock contexts touch each usage queue    *)
(* once and are written as one function over the accounts.  A blocked      *)
(* queue is the set of its tasks: the VecDeque of FIFO queueing is ordered *)
(* by arrival and the BTreeMap of priority queueing by task id, see        *)
(* Before.  FIFO queueing counts the readers of an account where priority  *)
(* queueing names them; here both name them.  Metrics counters are left    *)
(* out.                                                                    *)
(***************************************************************************)
EXTENDS Integers, Sequences, FiniteSets

CONSTANTS Tasks,         \* task ids, natural numbers (OrderedTaskId)
          Addresses,     \* the accounts
          TaskHash,      \* TaskHash[t]: the message hash of task t
          Unlimited,     \* no limit
          Limits,        \* the configurations: [capability, max_running, max_unique]
          Accesses       \* the ways a transaction may use the accounts

ASSUME TasksAssumption == Tasks \subseteq Nat /\ IsFiniteSet(Tasks)

ASSUME AddressesAssumption == IsFiniteSet(Addresses)

ASSUME AccessesAssumption == Accesses \subseteq [Addresses -> {"None", "Readonly", "Writable"}]

ASSUME LimitsAssumption ==
  \A l \in Limits : l.capability \in {"FifoQueueing", "PriorityQueueing"}

VARIABLES
  limits,                \* the configuration of this state machine
  access,                \* lock_contexts: access[t][a]
  stamp,                 \* total_task_count when t arrived, 0 before
  usage,                 \* current_usage of an account: its kind
  holders,               \* current_usage of an account: its tasks
  blocked,               \* blocked_usages_from_tasks of an account
  blocked_usage_count,   \* accounts a task waits for
  unblocked_task_queue,
  active_task_count,
  unique_active_task_hashes,
  running,               \* tasks returned to the caller, not yet descheduled
  total_task_count,
  clearing,              \* inside clear_and_reinitialize
  panicked               \* an assertion of the code failed

counters == <<active_task_count, unique_active_task_hashes, total_task_count>>
queues == <<usage, holders, blocked, blocked_usage_count>>
vars == <<limits, access, stamp, queues, unblocked_task_queue, counters, running,
          clearing, panicked>>

capability == limits.capability

Queued == {unblocked_task_queue[i] : i \in DOMAIN unblocked_task_queue}

\* The tasks the machine or its caller still knows of.
Known == running \cup Queued \cup UNION {blocked[a] : a \in Addresses}

TO == INSTANCE TaskOrder WITH active <- Known, granted <- running \cup Queued

NoAccess == TO!NoAccess
Before(t, u) == TO!Before(t, u)

Requested(t) == {a \in Addresses : access[t][a] # "None"}

First(a) == CHOOSE t \in blocked[a] : \A u \in blocked[a] \ {t} : Before(t, u)

\* running_task_count < max_running_task_count
IsTaskRunnable ==
  limits.max_running # Unlimited => Cardinality(running) < limits.max_running

Init ==
  /\ limits \in Limits
  /\ access = [t \in Tasks |-> NoAccess]
  /\ stamp = [t \in Tasks |-> 0]
  /\ usage = [a \in Addresses |-> "None"]
  /\ holders = [a \in Addresses |-> {}]
  /\ blocked = [a \in Addresses |-> {}]
  /\ blocked_usage_count = [t \in Tasks |-> 0]
  /\ unblocked_task_queue = <<>>
  /\ active_task_count = 0
  /\ unique_active_task_hashes = {}
  /\ running = {}
  /\ total_task_count = 0
  /\ clearing = FALSE
  /\ panicked = FALSE

(***************************************************************************)
(* Locking                                                                 *)
(***************************************************************************)
\* Mutant of Reblocked: a new task never takes an account from another one.
ReblockedNever(a, t, request) == {}

\* prepare_lock, try_reblock: the current tasks of account a that a new task
\* t takes the account from: later ones that still wait for another account.
Reblocked(a, t, request) ==
  IF capability = "FifoQueueing" \/ (usage[a] = "Readonly" /\ request = "Readonly")
  THEN {}
  ELSE {h \in holders[a] : t < h /\ blocked_usage_count[h] # 0}

\* Mutant of Prepared: a reader overtakes the tasks that wait.
PreparedReader(a, t, request) ==
  IF capability = "FifoQueueing" THEN blocked[a] = {} \/ request = "Readonly"
  ELSE usage[a] = "None" \/ request = "Readonly" \/ holders[a] \subseteq Reblocked(a, t, request)

\* prepare_lock: may t try to lock a, or must it queue?
Prepared(a, t, request) ==
  IF capability = "FifoQueueing" THEN blocked[a] = {}
  ELSE CASE usage[a] = "None" -> TRUE
         [] usage[a] = "Writable" -> Reblocked(a, t, request) # {}
         [] usage[a] = "Readonly" /\ request = "Readonly" ->
              blocked[a] # {} => t < First(a)
         [] OTHER -> holders[a] \subseteq Reblocked(a, t, request)

\* Mutant of Locked: a writer joins the readers.
LockedShared(a, t, request) ==
  Prepared(a, t, request) /\ (holders[a] \subseteq Reblocked(a, t, request) \/ usage[a] = "Readonly")

\* try_lock, after prepare_lock
Locked(a, t, request) ==
  /\ Prepared(a, t, request)
  /\ \/ holders[a] \subseteq Reblocked(a, t, request)
     \/ usage[a] = "Readonly" /\ request = "Readonly"

\* The assertions of prepare_lock, push_blocked and of the map insertions.
LockAsserts(a, t, request) ==
  /\ capability = "PriorityQueueing" =>
       /\ usage[a] = "None" => blocked[a] = {}
       /\ (usage[a] = "Readonly" /\ request = "Readonly" /\ blocked[a] # {})
             => access[First(a)][a] = "Writable"
  /\ (Reblocked(a, t, request) \cup {t}) \cap blocked[a] = {}
  /\ t \notin holders[a]
  /\ ~Locked(a, t, request) => usage[a] # "None"

\* try_lock_usage_queues
TryLockUsageQueues(t, acc) ==
  LET req == {a \in Addresses : acc[a] # "None"}
      got == {a \in req : Locked(a, t, acc[a])}
      Taken(h) == {a \in req : h \in Reblocked(a, t, acc[a])}
  IN /\ usage' = [a \in Addresses |-> IF a \in got THEN acc[a] ELSE usage[a]]
     /\ holders' = [a \in Addresses |->
          IF a \in req
          THEN (holders[a] \ Reblocked(a, t, acc[a])) \cup {u \in {t} : a \in got}
          ELSE holders[a]]
     /\ blocked' = [a \in Addresses |->
          IF a \in req
          THEN blocked[a] \cup Reblocked(a, t, acc[a]) \cup {u \in {t} : a \notin got}
          ELSE blocked[a]]
     /\ blocked_usage_count' = [u \in Tasks |->
          IF u = t THEN Cardinality(req \ got)
          ELSE blocked_usage_count[u] + Cardinality(Taken(u))]
     /\ panicked' = \E a \in req : ~LockAsserts(a, t, acc[a])

\* schedule_or_buffer_task: the task is turned away
DropTask(t) ==
  /\ ~clearing /\ stamp[t] = 0
  /\ limits.max_unique # Unlimited
  /\ \/ Cardinality(unique_active_task_hashes) >= limits.max_unique
     \/ TaskHash[t] \in unique_active_task_hashes
  /\ total_task_count' = total_task_count + 1
  /\ stamp' = [stamp EXCEPT ![t] = total_task_count']
  /\ UNCHANGED <<limits, access, queues, unblocked_task_queue, active_task_count,
                 unique_active_task_hashes, running, clearing, panicked>>

\* schedule_or_buffer_task; tasks with equal hashes are the same transaction.
ScheduleOrBufferTask(t, acc, force_buffering) ==
  /\ ~clearing /\ stamp[t] = 0
  /\ \A u \in Tasks : (TaskHash[u] = TaskHash[t] /\ access[u] # NoAccess) => access[u] = acc
  /\ \/ limits.max_unique = Unlimited /\ UNCHANGED unique_active_task_hashes
     \/ /\ limits.max_unique # Unlimited
        /\ Cardinality(unique_active_task_hashes) < limits.max_unique
        /\ TaskHash[t] \notin unique_active_task_hashes
        /\ unique_active_task_hashes' = unique_active_task_hashes \cup {TaskHash[t]}
  /\ total_task_count' = total_task_count + 1
  /\ stamp' = [stamp EXCEPT ![t] = total_task_count']
  /\ access' = [access EXCEPT ![t] = acc]
  /\ active_task_count' = active_task_count + 1
  /\ TryLockUsageQueues(t, acc)
  /\ CASE blocked_usage_count'[t] # 0 -> UNCHANGED <<unblocked_task_queue, running>>
       [] blocked_usage_count'[t] = 0 /\ (~IsTaskRunnable \/ force_buffering) ->
            /\ unblocked_task_queue' = Append(unblocked_task_queue, t)
            /\ UNCHANGED running
       [] OTHER ->
            /\ running' = running \cup {t}
            /\ UNCHANGED unblocked_task_queue
  /\ UNCHANGED <<limits, clearing>>

(***************************************************************************)
(* Unlocking                                                               *)
(***************************************************************************)
\* unlock: account a is free once task t lets go of it.
NewlyLockable(a, t) == usage[a] = "Writable" \/ holders[a] \subseteq {t}

\* Mutant of Popped: every reader is popped, past the writers.
PoppedReaders(a) ==
  {u \in blocked[a] : u = First(a) \/ {access[First(a)][a], access[u][a]} = {"Readonly"}}

\* unlock, pop_lockable_readonly: the first blocked task, and with a reader
\* the readers right behind it.
Popped(a) ==
  {u \in blocked[a] :
     \/ u = First(a)
     \/ \A v \in blocked[a] : v = u \/ Before(v, u) =>
          access[v][a] = "Readonly"}

PoppedFor(t, u) == {a \in Requested(t) : NewlyLockable(a, t) /\ u \in Popped(a)}

\* The assertions of unlock and of try_unblock's counter.
UnlockAsserts(a, t) ==
  /\ usage[a] = access[t][a]
  /\ t \in holders[a]
  /\ NewlyLockable(a, t) => \A u \in Popped(a) : blocked_usage_count[u] # 0

\* The sequences that list a finite set without repetition.
Arrangements(S) ==
  {s \in [1..Cardinality(S) -> S] : \A x \in S : \E i \in 1..Cardinality(S) : s[i] = x}

\* s lists tasks in the order in which their last account was unlocked, when
\* the accounts of t are visited in the given order.
InUnlockOrder(s, order, t) ==
  \A i, j \in DOMAIN s : i < j =>
    LET LastPop(u) == CHOOSE n \in DOMAIN order :
                        /\ order[n] \in PoppedFor(t, u)
                        /\ \A m \in DOMAIN order : order[m] \in PoppedFor(t, u) => m <= n
    IN \/ LastPop(s[i]) < LastPop(s[j])
       \/ LastPop(s[i]) = LastPop(s[j]) /\ Before(s[i], s[j])

\* unlock_usage_queues; rest is what is left of unblocked_task_queue before it.
UnlockUsageQueues(t, rest) ==
  LET free == {a \in Requested(t) : NewlyLockable(a, t)}
      left(u) == blocked_usage_count[u] - Cardinality(PoppedFor(t, u))
      unblocked == {u \in Tasks : PoppedFor(t, u) # {} /\ left(u) = 0}
  IN /\ usage' = [a \in Addresses |->
          IF a \notin free THEN usage[a]
          ELSE IF blocked[a] = {} THEN "None" ELSE access[First(a)][a]]
     /\ holders' = [a \in Addresses |->
          IF a \in free THEN Popped(a) ELSE holders[a] \ {u \in {t} : a \in Requested(t)}]
     /\ blocked' = [a \in Addresses |->
          IF a \in free THEN blocked[a] \ Popped(a) ELSE blocked[a]]
     /\ blocked_usage_count' = [u \in Tasks |-> left(u)]
     /\ \E order \in Arrangements(Requested(t)), s \in Arrangements(unblocked) :
          /\ InUnlockOrder(s, order, t)
          /\ unblocked_task_queue' = rest \o s

\* deschedule_task, without running_task_count; the task is then dropped.
Release(t, rest) ==
  /\ IF limits.max_unique = Unlimited
     THEN UNCHANGED unique_active_task_hashes
     ELSE unique_active_task_hashes' = unique_active_task_hashes \ {TaskHash[t]}
  /\ active_task_count' = active_task_count - 1
  /\ UnlockUsageQueues(t, rest)
  /\ panicked' = \/ \E a \in Requested(t) : ~UnlockAsserts(a, t)
                 \/ limits.max_unique # Unlimited /\ TaskHash[t] \notin unique_active_task_hashes
                 \/ active_task_count = 0
  /\ access' = [access EXCEPT ![t] = NoAccess]
  /\ UNCHANGED <<limits, stamp, total_task_count, clearing>>

\* deschedule_task: the caller reports that t was executed
DescheduleTask(t) ==
  /\ ~clearing
  /\ t \in running
  /\ running' = running \ {t}
  /\ Release(t, unblocked_task_queue)

\* schedule_next_unblocked_task
ScheduleNextUnblockedTask ==
  /\ ~clearing /\ IsTaskRunnable
  /\ unblocked_task_queue # <<>>
  /\ running' = running \cup {Head(unblocked_task_queue)}
  /\ unblocked_task_queue' = Tail(unblocked_task_queue)
  /\ UNCHANGED <<limits, access, stamp, queues, counters, clearing, panicked>>

(***************************************************************************)
(* Sessions                                                                *)
(***************************************************************************)
\* clear_and_reinitialize may be called when no task is with the caller.
BeginClear ==
  /\ ~clearing /\ running = {} /\ active_task_count # 0
  /\ clearing' = TRUE
  /\ UNCHANGED <<limits, access, stamp, queues, unblocked_task_queue, counters, running, panicked>>

\* One turn of its loop: a buffered task is scheduled and descheduled.
ClearOne ==
  /\ clearing /\ unblocked_task_queue # <<>>
  /\ Release(Head(unblocked_task_queue), Tail(unblocked_task_queue))
  /\ UNCHANGED running

\* reinitialize: by itself after the last task, or at the end of clearing.
Reinitialize ==
  /\ IF clearing THEN unblocked_task_queue = <<>>
                 ELSE active_task_count = 0 /\ total_task_count # 0
  /\ panicked' = \/ active_task_count # 0 \/ unique_active_task_hashes # {}
                 \/ running # {} \/ unblocked_task_queue # <<>>
  /\ active_task_count' = 0 /\ total_task_count' = 0
  /\ stamp' = [t \in Tasks |-> 0]
  /\ clearing' = FALSE
  /\ UNCHANGED <<limits, access, queues, unblocked_task_queue, unique_active_task_hashes, running>>

Next ==
  /\ ~panicked
  /\ \/ \E t \in Tasks : DropTask(t) \/ DescheduleTask(t)
     \/ \E t \in Tasks, acc \in Accesses, force \in BOOLEAN : ScheduleOrBufferTask(t, acc, force)
     \/ ScheduleNextUnblockedTask
     \/ BeginClear \/ ClearOne \/ Reinitialize

\* The scheduler thread takes what it can out of the machine, executed tasks
\* are reported back, and a clearing loop goes on.
Fairness ==
  /\ WF_vars(ScheduleNextUnblockedTask)
  /\ WF_vars(\E t \in Tasks : DescheduleTask(t))
  /\ WF_vars(ClearOne)

Spec == Init /\ [][Next]_vars /\ Fairness

(***************************************************************************)
(* Properties                                                              *)
(***************************************************************************)
SchedulerTypeOK ==
  /\ limits \in Limits
  /\ access \in [Tasks -> [Addresses -> TO!Usages]]
  /\ stamp \in [Tasks -> Nat]
  /\ usage \in [Addresses -> TO!Usages]
  /\ holders \in [Addresses -> SUBSET Tasks]
  /\ blocked \in [Addresses -> SUBSET Tasks]
  /\ blocked_usage_count \in [Tasks -> Nat]
  /\ unblocked_task_queue \in Seq(Tasks)
  /\ active_task_count \in Nat
  /\ unique_active_task_hashes \subseteq {TaskHash[t] : t \in Tasks}
  /\ running \subseteq Tasks
  /\ total_task_count \in Nat
  /\ clearing \in BOOLEAN
  /\ panicked \in BOOLEAN

\* Tasks that run, or wait to be handed out, together never conflict
\* ("guaranteed to be safe to execute in parallel", lib.rs:10); a handler that
\* met AccountInUse would hit the pool's unreachable!().
RunnableConflictFree == TO!GrantedConflictFree

\* No assertion of the state machine fails, in any sequence of calls its
\* caller may make: in particular clear_and_reinitialize empties the machine
\* whenever no task is with the caller (lib.rs:1436).
SchedulerNoPanic == ~panicked

\* A task holds an account exactly when it runs or may run, or when it is
\* first there: the queues of different accounts agree on one order, which
\* reblocking must not upset (lib.rs:935).
HeldExact ==
  \A a \in Addresses, t \in Known :
    access[t][a] # "None" =>
      (t \in holders[a] <=>
         \/ t \in running \cup Queued
         \/ \A u \in Known \ {t} :
              TO!Clash(access[t][a], access[u][a]) =>
                u \notin running \cup Queued /\ Before(t, u))

\* A session drains: with finitely many tasks to come, every task that is
\* active is executed or cleared, and the session can end (can_finish_session
\* of the pool waits for this).
SessionDrains == active_task_count # 0 ~> active_task_count = 0

\* The machine implements TaskOrder: the tasks it hands out are the ones that
\* may be handed out by the order of arrival or of priority, all of them.
OrderImplemented == TO!Spec
=============================================================================
