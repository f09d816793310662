------------------------------ MODULE TaskOrder ------------------------------
(***************************************************************************)
(* What the task scheduler of the unified scheduler promises, without its  *)
(* queues and counters (crates/scheduler/unified-scheduler-logic).  Tasks  *)
(* arrive with the accounts they read and write; a task is granted its     *)
(* accounts when no granted task conflicts with it and no conflicting      *)
(* active task comes before it, where "before" is the arrival order for    *)
(* FIFO queueing and the task id for priority queueing.  Everything that   *)
(* may be granted is granted at once.  SchedulingStateMachine is shown to  *)
(* implement this specification, SchedulerSessions uses it as the          *)
(* scheduler its threads share.                                            *)
(***************************************************************************)
EXTENDS Integers, FiniteSets

CONSTANTS Tasks,       \* task ids, natural numbers (OrderedTaskId)
          Addresses    \* accounts

VARIABLES capability,  \* "FifoQueueing" or "PriorityQueueing"
          access,      \* access[t][a]: how task t uses account a
          stamp,       \* stamp[t]: when t arrived, 0 while it has not
          active,      \* tasks that arrived and have not finished
          granted,     \* active tasks that hold all their accounts
          running      \* granted tasks that were handed out to be executed

taskVars == <<capability, access, stamp, active, granted, running>>

Usages == {"None", "Readonly", "Writable"}

NoAccess == [a \in Addresses |-> "None"]

\* Two uses of an account that may not overlap.
Clash(u, v) == u # "None" /\ v # "None" /\ "Writable" \in {u, v}

Conflicts(t, u) == \E a \in Addresses : Clash(access[t][a], access[u][a])

\* t comes before u in the queues of the accounts they share.
Before(t, u) ==
  IF capability = "FifoQueueing" THEN stamp[t] < stamp[u] ELSE t < u

\* t may be granted when gr is granted and act is active.
Grantable(t, act, gr) ==
  /\ \A u \in gr \ {t} : ~Conflicts(t, u)
  /\ \A u \in act \ {t} : Before(u, t) => ~Conflicts(t, u)

Init ==
  /\ capability \in {"FifoQueueing", "PriorityQueueing"}
  /\ access = [t \in Tasks |-> NoAccess]
  /\ stamp = [t \in Tasks |-> 0]
  /\ active = {} /\ granted = {} /\ running = {}

\* The arrival of t is later than that of every task before it.
Stamped(t) ==
  /\ \A u \in Tasks : stamp[u] < stamp'[t]
  /\ stamp' = [stamp EXCEPT ![t] = stamp'[t]]

\* A new task, granted at once if it may be, and handed out at once or not.
\* (Grantable ignores what it is told of t itself.)
Arrive(t) ==
  /\ stamp[t] = 0
  /\ Stamped(t)
  /\ access'[t] \in [Addresses -> Usages]
  /\ access' = [access EXCEPT ![t] = access'[t]]
  /\ active' = active \cup {t}
  /\ granted' = granted \cup {u \in {t} : Grantable(t, active, granted)'}
  /\ running' \in {running, running \cup (granted' \cap {t})}
  /\ UNCHANGED capability

\* A new task that is turned away: too many active tasks, or a duplicate.
TurnAway(t) ==
  /\ stamp[t] = 0
  /\ Stamped(t)
  /\ UNCHANGED <<capability, access, active, granted, running>>

Start(t) ==
  /\ t \in granted \ running
  /\ running' = running \cup {t}
  /\ UNCHANGED <<capability, access, stamp, active, granted>>

\* t is over; whatever it was the last obstacle of is granted.
Finish(t) ==
  LET act == active \ {t}
      gr  == granted \ {t}
  IN /\ t \in running
     /\ active' = act
     /\ granted' = gr \cup {u \in act : Grantable(u, act, gr)}
     /\ running' = running \ {t}
     /\ access' = [access EXCEPT ![t] = NoAccess]
     /\ UNCHANGED <<capability, stamp>>

\* A buffered task is thrown away as if it had been executed.
Discard(t) ==
  LET act == active \ {t}
      gr  == granted \ {t}
  IN /\ t \in granted \ running
     /\ active' = act
     /\ granted' = gr \cup {u \in act : Grantable(u, act, gr)}
     /\ access' = [access EXCEPT ![t] = NoAccess]
     /\ UNCHANGED <<capability, stamp, running>>

\* The next session begins with no task at all.
Renew ==
  /\ active = {}
  /\ stamp' = [t \in Tasks |-> 0]
  /\ UNCHANGED <<capability, access, active, granted, running>>

Next ==
  \/ \E t \in Tasks : Arrive(t) \/ TurnAway(t) \/ Start(t) \/ Finish(t) \/ Discard(t)
  \/ Renew

Spec == Init /\ [][Next]_taskVars

(***************************************************************************)
(* What follows from the promise.                                          *)
(***************************************************************************)
\* Tasks that run together never conflict, and neither do tasks that wait
\* to be handed out ("guaranteed to be safe to execute in parallel", lib.rs:10).
GrantedConflictFree ==
  \A t, u \in granted : t # u => ~Conflicts(t, u)
=============================================================================
