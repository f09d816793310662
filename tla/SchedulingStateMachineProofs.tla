-------------------- MODULE SchedulingStateMachineProofs --------------------
(***************************************************************************)
(* The scheduler's queues and counters are right for every set of tasks,   *)
(* every set of accounts, every limit and both kinds of queueing: no       *)
(* assertion fails, tasks handed out together never conflict, and the      *)
(* machine implements TaskOrder.                                           *)
(***************************************************************************)
EXTENDS SchedulingStateMachine, FiniteSetTheorems, WellFoundedInduction, TLAPS

(***************************************************************************)
(* The inductive invariant.  The queues of the accounts agree with what    *)
(* the tasks ask for, the counters with the queues, and HeldExact with the *)
(* one order all queues follow.  HeldExact is what makes the assertions of *)
(* unlock and clear_and_reinitialize hold, and is inductive only together  *)
(* with the rest.                                                          *)
(***************************************************************************)
Granted == running \cup Queued

Users(a) == {t \in Tasks : access[t][a] # "None"}

\* A task that asks for an account either holds it or waits in its queue.
QueuesExact ==
  \A a \in Addresses :
    /\ holders[a] \cup blocked[a] = Users(a)
    /\ holders[a] \cap blocked[a] = {}

\* current_usage is what the holders make of it, and an account without a
\* holder has no queue.
UsageExact ==
  \A a \in Addresses :
    /\ holders[a] = {} => blocked[a] = {}
    /\ usage[a] = "None" <=> holders[a] = {}
    /\ \A t \in holders[a] : access[t][a] = usage[a]
    /\ usage[a] = "Writable" => \A t, u \in holders[a] : t = u

WaitsFor(t) == {a \in Addresses : t \in blocked[a]}

CountsExact == \A t \in Tasks : blocked_usage_count[t] = Cardinality(WaitsFor(t))

\* What is handed out or may be waits for nothing, and is listed once.
GrantedExact ==
  /\ \A t \in Granted, a \in Addresses : t \notin blocked[a]
  /\ \A i, j \in DOMAIN unblocked_task_queue :
        unblocked_task_queue[i] = unblocked_task_queue[j] => i = j
  /\ running \cap Queued = {}

\* Only tasks that have arrived are known, and arrivals are numbered.
ArrivalsExact ==
  /\ \A t \in Tasks \ Known : access[t] = NoAccess
  /\ \A t \in Known : stamp[t] # 0
  /\ \A t \in Tasks : stamp[t] <= total_task_count
  /\ \A t, u \in Tasks : t # u /\ stamp[t] # 0 => stamp[t] # stamp[u]

CountersExact ==
  /\ active_task_count = Cardinality(Known)
  /\ limits.max_unique = Unlimited => unique_active_task_hashes = {}
  /\ limits.max_unique # Unlimited =>
       /\ unique_active_task_hashes = {TaskHash[t] : t \in Known}
       /\ \A t, u \in Known : TaskHash[t] = TaskHash[u] => t = u
  /\ clearing => running = {}

SchedulerInv ==
  /\ SchedulerTypeOK
  /\ QueuesExact
  /\ UsageExact
  /\ CountsExact
  /\ GrantedExact
  /\ ArrivalsExact
  /\ CountersExact
  /\ HeldExact
  /\ SchedulerNoPanic

\* t is first in line for account a among the tasks act, and none of the tasks
\* gr is in its way there.
Clear(a, t, act, gr) ==
  \A u \in act \ {t} :
    TO!Clash(access[t][a], access[u][a]) => u \notin gr /\ Before(t, u)

(***************************************************************************)
(* The order of the queues                                                 *)
(***************************************************************************)
\* Two uses of an account clash when both are uses and one of them writes.
LEMMA ClashIs ==
    \A u, v : TO!Clash(u, v) <=> u # "None" /\ v # "None" /\ (u = "Writable" \/ v = "Writable")
  BY DEF TO!Clash

\* Every set of natural numbers that is not empty has a least element.
LEMMA LeastTask ==
    ASSUME NEW T, T \subseteq Nat, T # {}
    PROVE  \E n \in T : \A m \in T : n <= m
<1>1. PICK n \in T : \A m \in T : ~ (<<m, n>> \in OpToRel(<, Nat))
  BY WFMin, NatLessThanWellFounded
<1>2. ASSUME NEW m \in T, ~ (n <= m) PROVE FALSE
  <2>1. n \in Nat /\ m \in Nat
    OBVIOUS
  <2>2. m < n
    BY <2>1, <1>2
  <2>3. <<m, n>> \in OpToRel(<, Nat)
    BY <2>1, <2>2, Zenon DEF OpToRel
  <2> QED
    BY <1>1, <2>3
<1> QED
  BY <1>2

\* The tasks the machine knows of are tasks.
LEMMA KnownTasks ==
    ASSUME SchedulerTypeOK
    PROVE  /\ Known \subseteq Tasks /\ Queued \subseteq Tasks /\ Granted \subseteq Known
           /\ \A a \in Addresses : blocked[a] \subseteq Known
           /\ \A t \in Known \ Granted : \E a \in Addresses : t \in blocked[a]
<1>1. Queued \subseteq Tasks
  BY DEF Queued, SchedulerTypeOK
<1> QED
  BY <1>1 DEF Known, Granted, SchedulerTypeOK

\* Before orders the known tasks strictly and totally, for both kinds of queues.
LEMMA OrderIsTotal ==
    ASSUME SchedulerInv
    PROVE  /\ \A t, u \in Known : t # u => Before(t, u) \/ Before(u, t)
           /\ \A t, u \in Known : ~ (Before(t, u) /\ Before(u, t))
           /\ \A t, u, v \in Known : Before(t, u) /\ Before(u, v) => Before(t, v)
<1>1. SchedulerTypeOK /\ ArrivalsExact
  BY DEF SchedulerInv
<1>2. Known \subseteq Tasks /\ Tasks \subseteq Nat
  BY <1>1, KnownTasks, TasksAssumption
<1>3. \A t \in Known : t \in Nat /\ stamp[t] \in Nat /\ stamp[t] # 0
  BY <1>1, <1>2 DEF SchedulerTypeOK, ArrivalsExact
<1>4. \A t, u \in Known : t # u => stamp[t] # stamp[u]
  BY <1>1, <1>2, <1>3 DEF ArrivalsExact
<1>5. CASE capability = "FifoQueueing"
  BY <1>3, <1>4, <1>5 DEF Before, TO!Before
<1>6. CASE capability # "FifoQueueing"
  BY <1>3, <1>4, <1>6 DEF Before, TO!Before
<1> QED
  BY <1>5, <1>6

\* Among known tasks there is one that comes before all others.
LEMMA FirstOf ==
    ASSUME SchedulerInv, NEW S, S \subseteq Known, S # {}
    PROVE  \E m \in S : \A u \in S \ {m} : Before(m, u)
<1>1. SchedulerTypeOK /\ ArrivalsExact
  BY DEF SchedulerInv
<1>2. Known \subseteq Tasks /\ Tasks \subseteq Nat
  BY <1>1, KnownTasks, TasksAssumption
<1>3. \A t \in S : t \in Nat /\ stamp[t] \in Nat /\ stamp[t] # 0
  BY <1>1, <1>2 DEF SchedulerTypeOK, ArrivalsExact
<1>4. \A t, u \in S : t # u => stamp[t] # stamp[u]
  BY <1>1, <1>2, <1>3 DEF ArrivalsExact
<1>5. CASE capability = "FifoQueueing"
  <2>1. PICK n \in {stamp[t] : t \in S} : \A m \in {stamp[t] : t \in S} : n <= m
    <3>1. {stamp[t] : t \in S} \subseteq Nat /\ {stamp[t] : t \in S} # {}
      BY <1>3
    <3> QED
      BY <3>1, LeastTask
  <2>2. PICK m \in S : stamp[m] = n
    OBVIOUS
  <2>3. ASSUME NEW u \in S \ {m} PROVE Before(m, u)
    <3>1. stamp[m] <= stamp[u] /\ stamp[m] # stamp[u]
      BY <2>1, <2>2, <1>4
    <3>2. stamp[m] < stamp[u]
      BY <3>1, <1>3
    <3> QED
      BY <3>2, <1>5 DEF Before, TO!Before
  <2> QED
    BY <2>3
<1>6. CASE capability # "FifoQueueing"
  <2>1. PICK m \in S : \A u \in S : m <= u
    BY <1>2, LeastTask
  <2>2. ASSUME NEW u \in S \ {m} PROVE Before(m, u)
    <3>1. m < u
      BY <2>1, <1>3
    <3> QED
      BY <3>1, <1>6 DEF Before, TO!Before
  <2> QED
    BY <2>2
<1> QED
  BY <1>5, <1>6

\* First(a) is the first of the tasks that wait for account a.
LEMMA FirstIs ==
    ASSUME SchedulerInv, NEW a \in Addresses, blocked[a] # {}
    PROVE  First(a) \in blocked[a] /\ \A u \in blocked[a] \ {First(a)} : Before(First(a), u)
<1>1. blocked[a] \subseteq Known
  BY KnownTasks DEF SchedulerInv
<1>2. \E m \in blocked[a] : \A u \in blocked[a] \ {m} : Before(m, u)
  BY <1>1, FirstOf
<1> QED
  BY <1>2 DEF First

(***************************************************************************)
(* What the invariant says of one account                                  *)
(***************************************************************************)
\* The users of an account are known; the granted ones hold it, and those that
\* wait are not granted.  A holder that is not granted is clear.
LEMMA AccountIs ==
    ASSUME SchedulerInv, NEW a \in Addresses
    PROVE  /\ holders[a] \cup blocked[a] \subseteq Known
           /\ \A t \in Known : access[t][a] # "None" <=> t \in holders[a] \cup blocked[a]
           /\ \A t \in Granted : t \notin blocked[a]
           /\ \A t \in Known : access[t][a] # "None" => 
                (t \in holders[a] <=> t \in Granted \/ Clear(a, t, Known, Granted))
           /\ \A t \in Known : access[t][a] \in {"None", "Readonly", "Writable"}
<1>1. /\ SchedulerTypeOK /\ QueuesExact /\ GrantedExact /\ ArrivalsExact /\ HeldExact
  BY DEF SchedulerInv
<1>2. Known \subseteq Tasks
  BY <1>1, KnownTasks
<1>3. holders[a] \cup blocked[a] = Users(a)
  BY <1>1 DEF QueuesExact
<1>4. \A t \in Tasks \ Known : access[t][a] = "None"
  BY <1>1 DEF ArrivalsExact, NoAccess, TO!NoAccess
<1>5. Users(a) \subseteq Known
  BY <1>4 DEF Users
<1>6. \A t \in Known : access[t][a] # "None" <=> t \in holders[a] \cup blocked[a]
  BY <1>2, <1>3 DEF Users
<1>7. \A t \in Granted : t \notin blocked[a]
  BY <1>1 DEF GrantedExact
<1>8. \A t \in Known : access[t][a] # "None" => 
         (t \in holders[a] <=> t \in Granted \/ Clear(a, t, Known, Granted))
  BY <1>1 DEF HeldExact, Granted, Clear
<1>9. \A t \in Known : access[t][a] \in {"None", "Readonly", "Writable"}
  BY <1>1, <1>2 DEF SchedulerTypeOK, TO!Usages
<1> QED
  BY <1>3, <1>5, <1>6, <1>7, <1>8, <1>9

\* A task waits for no account exactly when its count is 0; a known task that
\* is not granted waits.
LEMMA CountIs ==
    ASSUME SchedulerInv, NEW t \in Tasks
    PROVE  /\ blocked_usage_count[t] = 0 <=> \A a \in Addresses : t \notin blocked[a]
           /\ t \in Known \ Granted => blocked_usage_count[t] # 0
<1>1. IsFiniteSet(WaitsFor(t)) /\ blocked_usage_count[t] = Cardinality(WaitsFor(t))
  <2>1. IsFiniteSet(WaitsFor(t))
    BY AddressesAssumption, FS_Subset DEF WaitsFor
  <2> QED
    BY <2>1 DEF SchedulerInv, CountsExact
<1>2. Cardinality(WaitsFor(t)) = 0 <=> WaitsFor(t) = {}
  BY <1>1, FS_EmptySet
<1>3. WaitsFor(t) = {} <=> \A a \in Addresses : t \notin blocked[a]
  BY DEF WaitsFor
<1>4. t \in Known \ Granted => \E a \in Addresses : t \in blocked[a]
  BY KnownTasks DEF SchedulerInv
<1> QED
  BY <1>1, <1>2, <1>3, <1>4

(***************************************************************************)
(* Locking: what prepare_lock and try_lock decide, account by account, is  *)
(* what the one order of all queues says.                                  *)
(***************************************************************************)
\* A new task comes before u: never with FIFO queueing.
Passes(t, u) == capability # "FifoQueueing" /\ t < u

\* A new task would be clear on account a.
NewClear(a, t, request) ==
  \A u \in Known : TO!Clash(request, access[u][a]) => u \notin Granted /\ Passes(t, u)

\* With priority queueing, Before is the order of the task ids.
LEMMA PassesIs ==
    capability # "FifoQueueing" => \A t, u : Passes(t, u) <=> Before(t, u)
  BY DEF Passes, Before, TO!Before

\* Where no user of an account is granted, its first user holds it.
LEMMA FirstUserHolds ==
    ASSUME SchedulerInv, NEW a \in Addresses, holders[a] \cup blocked[a] # {},
           holders[a] \cap Granted = {}
    PROVE  \E m \in holders[a] : \A u \in (holders[a] \cup blocked[a]) \ {m} : Before(m, u)
<1> DEFINE S == holders[a] \cup blocked[a]
<1>1. S \subseteq Known
  BY AccountIs
<1>2. PICK m \in S : \A u \in S \ {m} : Before(m, u)
  BY <1>1, FirstOf
<1>3. \A u \in Known : access[u][a] # "None" => u \in S /\ u \notin Granted
  BY AccountIs
<1>4. Clear(a, m, Known, Granted)
  BY <1>1, <1>2, <1>3, ClashIs DEF Clear
<1>5. m \in holders[a]
  BY <1>1, <1>4, AccountIs
<1> QED
  BY <1>2, <1>5

\* A reader waits only behind a writer, so the first that waits behind readers
\* is a writer.
LEMMA FirstBlockedWrites ==
    ASSUME SchedulerInv, NEW a \in Addresses, blocked[a] # {}, usage[a] = "Readonly"
    PROVE  access[First(a)][a] = "Writable"
<1> DEFINE f == First(a)
<1>1. f \in blocked[a] /\ \A u \in blocked[a] \ {f} : Before(f, u)
  BY FirstIs
<1>2. \A u \in holders[a] : access[u][a] = "Readonly"
  BY DEF SchedulerInv, UsageExact
<1>3. f \in Known /\ access[f][a] # "None" /\ f \notin holders[a] /\ f \notin Granted
  BY <1>1, AccountIs DEF SchedulerInv, QueuesExact
<1>4. PICK u \in Known \ {f} : TO!Clash(access[f][a], access[u][a]) /\ ~ (u \notin Granted /\ Before(f, u))
  BY <1>3, AccountIs DEF Clear
<1>5. ASSUME access[f][a] # "Writable" PROVE FALSE
  <2>1. access[u][a] = "Writable"
    BY <1>4, <1>5, ClashIs
  <2>2. u \in blocked[a]
    BY <2>1, <1>2, AccountIs
  <2> QED
    BY <2>2, <1>1, <1>4, AccountIs
<1> QED
  BY <1>5

\* try_reblock takes an account from the current tasks that clash with the new
\* one, come after it and are not granted.
LEMMA ReblockedIs ==
    ASSUME SchedulerInv, NEW t \in Tasks, NEW a \in Addresses, 
           NEW request \in {"Readonly", "Writable"}
    PROVE  Reblocked(a, t, request) =
             {h \in holders[a] : TO!Clash(request, access[h][a]) /\ h \notin Granted /\ Passes(t, h)}
<1>1. \A h \in holders[a] : access[h][a] = usage[a] /\ h \in Known /\ access[h][a] # "None"
                              /\ access[h][a] \in {"None", "Readonly", "Writable"}
  BY AccountIs DEF SchedulerInv, UsageExact
<1>2. \A h \in holders[a] : blocked_usage_count[h] # 0 <=> h \notin Granted
  <2> SUFFICES ASSUME NEW h \in holders[a] PROVE blocked_usage_count[h] # 0 <=> h \notin Granted
    OBVIOUS
  <2>1. h \in Known /\ h \in Tasks
    BY <1>1, KnownTasks DEF SchedulerInv
  <2>2. h \in Granted => \A b \in Addresses : h \notin blocked[b]
    BY AccountIs
  <2> QED
    BY <2>1, <2>2, CountIs
<1>3. \A h \in holders[a] : TO!Clash(request, access[h][a]) <=> ~ (usage[a] = "Readonly" /\ request = "Readonly")
  BY <1>1, ClashIs
<1>4. CASE capability = "FifoQueueing" \/ (usage[a] = "Readonly" /\ request = "Readonly")
  BY <1>3, <1>4 DEF Reblocked, Passes
<1>5. CASE ~ (capability = "FifoQueueing" \/ (usage[a] = "Readonly" /\ request = "Readonly"))
  BY <1>2, <1>3, <1>5 DEF Reblocked, Passes
<1> QED
  BY <1>4, <1>5

\* The kinds of an account's current usage.
LEMMA UsageIs ==
    ASSUME SchedulerInv, NEW a \in Addresses
    PROVE  /\ usage[a] \in {"None", "Readonly", "Writable"}
           /\ holders[a] = {} => blocked[a] = {}
           /\ usage[a] = "None" <=> holders[a] = {}
           /\ \A t \in holders[a] : access[t][a] = usage[a]
           /\ usage[a] = "Writable" => \A t, u \in holders[a] : t = u
           /\ holders[a] \cap blocked[a] = {}
  BY DEF SchedulerInv, SchedulerTypeOK, TO!Usages, UsageExact, QueuesExact

\* A new task locks an account exactly when it is clear there.
LEMMA LockedIs ==
    ASSUME SchedulerInv, NEW t \in Tasks, stamp[t] = 0, NEW a \in Addresses, 
           NEW request \in {"Readonly", "Writable"}
    PROVE  Locked(a, t, request) <=> NewClear(a, t, request)
<1> DEFINE R == Reblocked(a, t, request)
<1>1. R = {h \in holders[a] : TO!Clash(request, access[h][a]) /\ h \notin Granted /\ Passes(t, h)}
  BY ReblockedIs
<1>2. /\ holders[a] \cup blocked[a] \subseteq Known
      /\ \A u \in Known : access[u][a] # "None" <=> u \in holders[a] \cup blocked[a]
      /\ \A u \in Granted : u \notin blocked[a]
      /\ \A u \in Known : access[u][a] # "None" => 
           (u \in holders[a] <=> u \in Granted \/ Clear(a, u, Known, Granted))
      /\ \A u \in Known : access[u][a] \in {"None", "Readonly", "Writable"}
  BY AccountIs
<1>3. /\ usage[a] \in {"None", "Readonly", "Writable"}
      /\ holders[a] = {} => blocked[a] = {}
      /\ usage[a] = "None" <=> holders[a] = {}
      /\ \A u \in holders[a] : access[u][a] = usage[a]
      /\ usage[a] = "Writable" => \A u, v \in holders[a] : u = v
      /\ holders[a] \cap blocked[a] = {}
  BY UsageIs
<1>4. /\ \A u, v \in Known : u # v => Before(u, v) \/ Before(v, u)
      /\ \A u, v \in Known : ~ (Before(u, v) /\ Before(v, u))
  BY OrderIsTotal
<1>5. CASE usage[a] = "None"
  <2>1. NewClear(a, t, request)
    BY <1>2, <1>3, <1>5, ClashIs DEF NewClear
  <2>2. Locked(a, t, request)
    BY <1>3, <1>5 DEF Locked, Prepared
  <2> QED
    BY <2>1, <2>2
<1>6. CASE usage[a] # "None" /\ capability = "FifoQueueing"
  <2>1. ASSUME Locked(a, t, request) PROVE NewClear(a, t, request)
    <3>1. blocked[a] = {} /\ R = {} /\ usage[a] = "Readonly" /\ request = "Readonly"
      BY <2>1, <1>1, <1>3, <1>6 DEF Locked, Prepared, Passes
    <3> QED
      BY <3>1, <1>2, <1>3, ClashIs DEF NewClear
  <2>2. ASSUME NewClear(a, t, request) PROVE Locked(a, t, request)
    <3>1. \A u \in Known : ~ TO!Clash(request, access[u][a])
      BY <2>2, <1>6 DEF NewClear, Passes
    <3>2. \A u \in Known : access[u][a] \in {"None", "Readonly"}
      BY <3>1, <1>2, ClashIs
    <3>3. request = "Readonly" /\ usage[a] = "Readonly"
      BY <3>1, <3>2, <1>2, <1>3, <1>6, ClashIs
    <3>4. \A u \in Known : Clear(a, u, Known, Granted)
      BY <3>2, ClashIs DEF Clear
    <3>5. blocked[a] = {}
      BY <3>4, <1>2, <1>3
    <3> QED
      BY <3>3, <3>5, <1>6 DEF Locked, Prepared
  <2> QED
    BY <2>1, <2>2
<1>7. CASE usage[a] = "Writable" /\ capability # "FifoQueueing"
  <2>1. PICK h \in holders[a] : holders[a] = {h}
    BY <1>3, <1>7
  <2>2. access[h][a] = "Writable" /\ h \in Known /\ TO!Clash(request, access[h][a])
    BY <1>2, <1>3, <1>7, ClashIs
  <2>3. Locked(a, t, request) <=> h \notin Granted /\ Passes(t, h)
    BY <1>1, <1>7, <2>1, <2>2 DEF Locked, Prepared
  <2>4. NewClear(a, t, request) => h \notin Granted /\ Passes(t, h)
    BY <2>2 DEF NewClear
  <2>5. ASSUME h \notin Granted, Passes(t, h), NEW u \in Known, TO!Clash(request, access[u][a])
        PROVE  u \notin Granted /\ Passes(t, u)
    <3>1. CASE u = h
      BY <2>5, <3>1
    <3>2. CASE u # h
      <4>1. Clear(a, h, Known, Granted)
        BY <2>2, <2>5, <1>2
      <4>2. TO!Clash(access[h][a], access[u][a])
        BY <2>2, <2>5, ClashIs
      <4>3. u \notin Granted /\ Before(h, u)
        BY <4>1, <4>2, <3>2 DEF Clear
      <4>4. t \in Nat /\ h \in Nat /\ u \in Nat
        BY <2>2, KnownTasks, TasksAssumption DEF SchedulerInv
      <4>5. t < h /\ h < u
        BY <4>3, <2>5, <1>7 DEF Passes, Before, TO!Before
      <4> QED
        BY <4>3, <4>4, <4>5, <1>7 DEF Passes
    <3> QED
      BY <3>1, <3>2
  <2> QED
    BY <2>3, <2>4, <2>5 DEF NewClear
<1>8. CASE usage[a] = "Readonly" /\ request = "Readonly" /\ capability # "FifoQueueing"
  <2>1. Locked(a, t, request) <=> (blocked[a] # {} => t < First(a))
    BY <1>8 DEF Locked, Prepared
  <2>2. \A u \in Known : TO!Clash(request, access[u][a]) => u \in blocked[a]
    BY <1>2, <1>3, <1>8, ClashIs
  <2>3. CASE blocked[a] = {}
    BY <2>1, <2>2, <2>3 DEF NewClear
  <2>4. CASE blocked[a] # {}
    <3>1. First(a) \in blocked[a] /\ \A u \in blocked[a] \ {First(a)} : Before(First(a), u)
      BY <2>4, FirstIs
    <3>2. access[First(a)][a] = "Writable"
      BY <2>4, <1>8, FirstBlockedWrites
    <3>3. NewClear(a, t, request) => t < First(a)
      BY <3>1, <3>2, <1>2, <1>8, ClashIs DEF NewClear, Passes
    <3>4. ASSUME t < First(a), NEW u \in blocked[a] PROVE t < u
      <4>1. t \in Nat /\ First(a) \in Nat /\ u \in Nat
        BY <3>1, <1>2, KnownTasks, TasksAssumption DEF SchedulerInv
      <4>2. u = First(a) \/ First(a) < u
        BY <3>1, <1>8 DEF Before, TO!Before
      <4> QED
        BY <4>1, <4>2, <3>4
    <3> QED
      BY <2>1, <2>2, <2>4, <3>3, <3>4, <1>2, <1>8 DEF NewClear, Passes
  <2> QED
    BY <2>3, <2>4
<1>9. CASE usage[a] = "Readonly" /\ request = "Writable" /\ capability # "FifoQueueing"
  <2>1. Locked(a, t, request) <=> holders[a] \subseteq R
    BY <1>8, <1>9 DEF Locked, Prepared
  <2>2. \A u \in Known : TO!Clash(request, access[u][a]) <=> u \in holders[a] \cup blocked[a]
    BY <1>2, <1>9, ClashIs
  <2>3. NewClear(a, t, request) => holders[a] \subseteq R
    BY <1>1, <1>2, <2>2 DEF NewClear
  <2>4. ASSUME holders[a] \subseteq R, NEW u \in holders[a] \cup blocked[a]
        PROVE  u \notin Granted /\ Passes(t, u)
    <3>1. holders[a] \cap Granted = {}
      BY <2>4, <1>1
    <3>2. PICK m \in holders[a] : \A v \in (holders[a] \cup blocked[a]) \ {m} : Before(m, v)
      BY <3>1, FirstUserHolds
    <3>3. Passes(t, m) /\ u \notin Granted
      BY <2>4, <3>1, <1>1, <1>2
    <3>4. t \in Nat /\ m \in Nat /\ u \in Nat
      BY <1>2, KnownTasks, TasksAssumption DEF SchedulerInv
    <3>5. t < m /\ (m = u \/ m < u)
      BY <3>2, <3>3, <1>9 DEF Passes, Before, TO!Before
    <3> QED
      BY <3>3, <3>4, <3>5, <1>9 DEF Passes
  <2> QED
    BY <2>1, <2>2, <2>3, <2>4 DEF NewClear
<1> QED
  BY <1>3, <1>5, <1>6, <1>7, <1>8, <1>9

\* The assertions of prepare_lock, push_blocked and of the map insertions hold.
LEMMA LockAssertsHold ==
    ASSUME SchedulerInv, NEW t \in Tasks, stamp[t] = 0, NEW a \in Addresses, 
           NEW request \in {"Readonly", "Writable"}
    PROVE  LockAsserts(a, t, request)
<1>1. t \notin Known
  BY DEF SchedulerInv, ArrivalsExact
<1>2. t \notin holders[a] /\ t \notin blocked[a]
  BY <1>1, AccountIs
<1>3. Reblocked(a, t, request) \subseteq holders[a]
  BY DEF Reblocked
<1>4. usage[a] = "None" => blocked[a] = {} /\ Locked(a, t, request)
  BY UsageIs DEF Locked, Prepared
<1>5. usage[a] = "Readonly" /\ blocked[a] # {} => access[First(a)][a] = "Writable"
  BY FirstBlockedWrites
<1>6. holders[a] \cap blocked[a] = {}
  BY UsageIs
<1> QED
  BY <1>2, <1>3, <1>4, <1>5, <1>6 DEF LockAsserts

\* Two disjoint sets of accounts: the sizes add up.
LEMMA CountUnion ==
    ASSUME NEW S \in SUBSET Addresses, NEW T \in SUBSET Addresses, S \cap T = {}
    PROVE  /\ IsFiniteSet(S) /\ IsFiniteSet(T)
           /\ Cardinality(S) \in Nat /\ Cardinality(T) \in Nat
           /\ Cardinality(S \cup T) = Cardinality(S) + Cardinality(T)
<1>1. IsFiniteSet(S) /\ IsFiniteSet(T)
  BY AddressesAssumption, FS_Subset
<1>2. Cardinality(S) \in Nat /\ Cardinality(T) \in Nat
  BY <1>1, FS_CardinalityType
<1>3. Cardinality(S \cap T) = 0
  BY FS_EmptySet
<1>4. Cardinality(S \cup T) = Cardinality(S) + Cardinality(T) - Cardinality(S \cap T)
  BY <1>1, FS_Union
<1> QED
  BY <1>1, <1>2, <1>3, <1>4

\* A new task that waits for nothing is handed out or buffered.
LEMMA ScheduleHands ==
    ASSUME SchedulerTypeOK, NEW t \in Tasks, NEW acc \in Accesses, NEW force \in BOOLEAN,
           ScheduleOrBufferTask(t, acc, force)
    PROVE  /\ \/ /\ blocked_usage_count'[t] # 0
                 /\ unblocked_task_queue' = unblocked_task_queue /\ running' = running
              \/ /\ blocked_usage_count'[t] = 0
                 /\ unblocked_task_queue' = Append(unblocked_task_queue, t) /\ running' = running
              \/ /\ blocked_usage_count'[t] = 0
                 /\ unblocked_task_queue' = unblocked_task_queue /\ running' = running \cup {t}
           /\ unblocked_task_queue' \in Seq(Tasks) /\ running' \subseteq Tasks
           /\ Granted' = Granted \cup {u \in {t} : blocked_usage_count'[t] = 0}
<1>0. unblocked_task_queue \in Seq(Tasks) /\ running \subseteq Tasks
  BY DEF SchedulerTypeOK
<1>1. \/ /\ blocked_usage_count'[t] # 0
         /\ unblocked_task_queue' = unblocked_task_queue /\ running' = running
      \/ /\ blocked_usage_count'[t] = 0
         /\ unblocked_task_queue' = Append(unblocked_task_queue, t) /\ running' = running
      \/ /\ blocked_usage_count'[t] = 0
         /\ unblocked_task_queue' = unblocked_task_queue /\ running' = running \cup {t}
  <2>1. CASE blocked_usage_count'[t] # 0
    BY <2>1 DEF ScheduleOrBufferTask
  <2>2. CASE blocked_usage_count'[t] = 0 /\ (~ IsTaskRunnable \/ force)
    BY <2>2 DEF ScheduleOrBufferTask
  <2>3. CASE blocked_usage_count'[t] = 0 /\ ~ (~ IsTaskRunnable \/ force)
    BY <2>3 DEF ScheduleOrBufferTask
  <2> QED
    BY <2>1, <2>2, <2>3
<1>2. CASE unblocked_task_queue' = Append(unblocked_task_queue, t) /\ running' = running
           /\ blocked_usage_count'[t] = 0
  <2>1. unblocked_task_queue' \in Seq(Tasks)
    BY <1>0, <1>2
  <2>2. Queued' = Queued \cup {t}
    <3>1. /\ DOMAIN unblocked_task_queue = 1..Len(unblocked_task_queue)
          /\ DOMAIN unblocked_task_queue' = 1..(Len(unblocked_task_queue) + 1)
          /\ Len(unblocked_task_queue) \in Nat
      BY <1>0, <1>2
    <3>2. /\ unblocked_task_queue'[Len(unblocked_task_queue) + 1] = t
          /\ \A i \in 1..Len(unblocked_task_queue) : unblocked_task_queue'[i] = unblocked_task_queue[i]
      BY <1>0, <1>2
    <3>3. \A x : x \in Queued' <=> x \in Queued \cup {t}
      BY <3>1, <3>2 DEF Queued
    <3> QED
      BY <3>3
  <2> QED
    BY <1>0, <1>2, <2>1, <2>2 DEF Granted
<1>3. CASE unblocked_task_queue' = unblocked_task_queue
  BY <1>0, <1>1, <1>3 DEF Granted, Queued
<1> QED
  BY <1>0, <1>1, <1>2, <1>3

\* What an arrival changes: the new task is known, it is granted when it waits
\* for nothing, and it takes accounts only from tasks it comes before.
LEMMA ScheduleEffect ==
    ASSUME SchedulerInv, NEW t \in Tasks, NEW acc \in Accesses, NEW force \in BOOLEAN,
           ScheduleOrBufferTask(t, acc, force)
    PROVE  /\ t \notin Known /\ stamp[t] = 0 /\ acc \in [Addresses -> {"None", "Readonly", "Writable"}]
           /\ \A a \in Addresses : acc[a] = "None" =>
                holders'[a] = holders[a] /\ blocked'[a] = blocked[a] /\ usage'[a] = usage[a]
           /\ \A a \in Addresses : acc[a] # "None" /\ NewClear(a, t, acc[a]) =>
                /\ holders'[a] = (holders[a] \ Reblocked(a, t, acc[a])) \cup {t}
                /\ blocked'[a] = blocked[a] \cup Reblocked(a, t, acc[a])
                /\ usage'[a] = acc[a]
           /\ \A a \in Addresses : acc[a] # "None" /\ ~ NewClear(a, t, acc[a]) =>
                /\ holders'[a] = holders[a] \ Reblocked(a, t, acc[a])
                /\ blocked'[a] = blocked[a] \cup Reblocked(a, t, acc[a]) \cup {t}
                /\ usage'[a] = usage[a]
           /\ SchedulerTypeOK' /\ CountsExact' /\ ~ panicked'
<1> DEFINE req == {a \in Addresses : acc[a] # "None"}
           got == {a \in req : Locked(a, t, acc[a])}
           R(a) == Reblocked(a, t, acc[a])
           Taken(h) == {a \in req : h \in R(a)}
<1>1. stamp[t] = 0 /\ t \notin Known /\ Known \subseteq Tasks
  BY KnownTasks DEF ScheduleOrBufferTask, SchedulerInv, ArrivalsExact
<1>2. acc \in [Addresses -> {"None", "Readonly", "Writable"}]
  BY AccessesAssumption
<1>3. /\ usage' = [a \in Addresses |-> IF a \in got THEN acc[a] ELSE usage[a]]
      /\ holders' = [a \in Addresses |->
           IF a \in req THEN (holders[a] \ R(a)) \cup {u \in {t} : a \in got} ELSE holders[a]]
      /\ blocked' = [a \in Addresses |->
           IF a \in req THEN blocked[a] \cup R(a) \cup {u \in {t} : a \notin got} ELSE blocked[a]]
      /\ blocked_usage_count' = [u \in Tasks |->
           IF u = t THEN Cardinality(req \ got) ELSE blocked_usage_count[u] + Cardinality(Taken(u))]
      /\ panicked' = \E a \in req : ~ LockAsserts(a, t, acc[a])
  BY DEF ScheduleOrBufferTask, TryLockUsageQueues
<1>4. \A a \in req : a \in Addresses /\ acc[a] \in {"Readonly", "Writable"}
  BY <1>2
<1>5. \A a \in req : Locked(a, t, acc[a]) <=> NewClear(a, t, acc[a])
  BY <1>1, <1>4, LockedIs
<1>6. \A a \in req : R(a) \subseteq holders[a]
  BY DEF Reblocked
<1>7. ~ panicked'
  <2>1. \A a \in req : LockAsserts(a, t, acc[a])
    BY <1>1, <1>4, LockAssertsHold
  <2> QED
    BY <1>3, <2>1
<1>8. \A a \in Addresses : acc[a] = "None" =>
         holders'[a] = holders[a] /\ blocked'[a] = blocked[a] /\ usage'[a] = usage[a]
  BY <1>3
<1>9. \A a \in Addresses : acc[a] # "None" /\ NewClear(a, t, acc[a]) =>
         /\ holders'[a] = (holders[a] \ R(a)) \cup {t}
         /\ blocked'[a] = blocked[a] \cup R(a)
         /\ usage'[a] = acc[a]
  <2> SUFFICES ASSUME NEW a \in Addresses, acc[a] # "None", NewClear(a, t, acc[a])
               PROVE  /\ holders'[a] = (holders[a] \ R(a)) \cup {t}
                      /\ blocked'[a] = blocked[a] \cup R(a)
                      /\ usage'[a] = acc[a]
    OBVIOUS
  <2>1. a \in req /\ a \in got
    BY <1>5
  <2> HIDE DEF req, got, R, Taken
  <2> QED
    BY <1>3, <2>1
<1>10. \A a \in Addresses : acc[a] # "None" /\ ~ NewClear(a, t, acc[a]) =>
         /\ holders'[a] = holders[a] \ R(a)
         /\ blocked'[a] = blocked[a] \cup R(a) \cup {t}
         /\ usage'[a] = usage[a]
  <2> SUFFICES ASSUME NEW a \in Addresses, acc[a] # "None", ~ NewClear(a, t, acc[a])
               PROVE  /\ holders'[a] = holders[a] \ R(a)
                      /\ blocked'[a] = blocked[a] \cup R(a) \cup {t}
                      /\ usage'[a] = usage[a]
    OBVIOUS
  <2>1. a \in req /\ a \notin got
    BY <1>5
  <2> HIDE DEF req, got, R, Taken
  <2> QED
    BY <1>3, <2>1
<1>11. \A u \in Tasks : blocked_usage_count'[u] = Cardinality(WaitsFor(u)') /\ blocked_usage_count'[u] \in Nat
  <2> SUFFICES ASSUME NEW u \in Tasks
               PROVE  blocked_usage_count'[u] = Cardinality(WaitsFor(u)') /\ blocked_usage_count'[u] \in Nat
    OBVIOUS
  <2>1. CASE u = t
    <3>1. \A a \in Addresses : t \notin blocked[a] /\ t \notin holders[a]
      BY <1>1, AccountIs
    <3>2. WaitsFor(t)' = req \ got
      <4>1. ASSUME NEW a \in Addresses PROVE t \in blocked'[a] <=> a \in req /\ a \notin got
        BY <1>3, <1>6, <3>1
      <4> QED
        BY <4>1 DEF WaitsFor
    <3>3. Cardinality(req \ got) \in Nat
      BY AddressesAssumption, FS_Subset, FS_CardinalityType
    <3> HIDE DEF req, got
    <3> QED
      BY <1>3, <2>1, <3>2, <3>3
  <2>2. CASE u # t
    <3>1. WaitsFor(u)' = WaitsFor(u) \cup Taken(u)
      <4>1. ASSUME NEW a \in Addresses PROVE u \in blocked'[a] <=> u \in blocked[a] \/ a \in Taken(u)
        BY <1>3, <2>2
      <4> QED
        BY <4>1 DEF WaitsFor
    <3>2. WaitsFor(u) \cap Taken(u) = {}
      BY <1>6, UsageIs DEF WaitsFor
    <3>3. WaitsFor(u) \in SUBSET Addresses /\ Taken(u) \in SUBSET Addresses
      BY DEF WaitsFor
    <3>4. /\ Cardinality(WaitsFor(u)) \in Nat /\ Cardinality(Taken(u)) \in Nat
          /\ Cardinality(WaitsFor(u) \cup Taken(u)) = Cardinality(WaitsFor(u)) + Cardinality(Taken(u))
      BY <3>2, <3>3, CountUnion
    <3>5. blocked_usage_count[u] = Cardinality(WaitsFor(u))
      BY DEF SchedulerInv, CountsExact
    <3>6. blocked_usage_count'[u] = blocked_usage_count[u] + Cardinality(Taken(u))
      BY <1>3, <2>2
    <3> HIDE DEF Taken
    <3> QED
      BY <3>1, <3>4, <3>5, <3>6
  <2> QED
    BY <2>1, <2>2
<1>12. CountsExact'
  BY <1>11 DEF CountsExact
<1>13. SchedulerTypeOK'
  <2>1. SchedulerTypeOK
    BY DEF SchedulerInv
  <2>2. limits' = limits /\ clearing' = clearing /\ panicked' = FALSE
    BY <1>3, <1>7 DEF ScheduleOrBufferTask
  <2>3. access' \in [Tasks -> [Addresses -> TO!Usages]]
    BY <2>1, <1>2 DEF ScheduleOrBufferTask, SchedulerTypeOK, TO!Usages
  <2>4. total_task_count' \in Nat /\ active_task_count' \in Nat /\ stamp' \in [Tasks -> Nat]
    BY <2>1 DEF ScheduleOrBufferTask, SchedulerTypeOK
  <2>5. usage' \in [Addresses -> TO!Usages]
    <3>1. \A a \in Addresses : acc[a] \in TO!Usages /\ usage[a] \in TO!Usages
      BY <2>1, <1>2 DEF SchedulerTypeOK, TO!Usages
    <3> QED
      BY <1>3, <3>1
  <2>6. holders' \in [Addresses -> SUBSET Tasks] /\ blocked' \in [Addresses -> SUBSET Tasks]
    <3>1. \A a \in Addresses : holders[a] \subseteq Tasks /\ blocked[a] \subseteq Tasks
      BY <2>1 DEF SchedulerTypeOK
    <3>2. \A a \in req : R(a) \subseteq Tasks
      BY <3>1, <1>6
    <3> HIDE DEF R, got
    <3> QED
      BY <1>3, <3>1, <3>2
  <2>7. blocked_usage_count' \in [Tasks -> Nat]
    BY <1>3, <1>11
  <2>8. unblocked_task_queue' \in Seq(Tasks) /\ running' \subseteq Tasks
    BY <2>1, ScheduleHands
  <2>9. unique_active_task_hashes' \subseteq {TaskHash[u] : u \in Tasks}
    BY <2>1 DEF ScheduleOrBufferTask, SchedulerTypeOK
  <2> QED
    BY <2>1, <2>2, <2>3, <2>4, <2>5, <2>6, <2>7, <2>8, <2>9 DEF SchedulerTypeOK
<1> QED
  BY <1>1, <1>2, <1>7, <1>8, <1>9, <1>10, <1>12, <1>13

\* After an arrival the tasks keep their order and the new one has its place.
LEMMA ScheduleOrder ==
    ASSUME SchedulerInv, NEW t \in Tasks, NEW acc \in Accesses, NEW force \in BOOLEAN,
           ScheduleOrBufferTask(t, acc, force)
    PROVE  /\ \A u, v \in Known : Before(u, v)' <=> Before(u, v)
           /\ \A u \in Known : (Before(t, u)' <=> Passes(t, u)) /\ (Before(u, t)' <=> ~ Passes(t, u))
           /\ \A u \in Tasks : stamp[u] < stamp'[t] /\ (u # t => stamp'[u] = stamp[u])
           /\ stamp'[t] = total_task_count + 1 /\ total_task_count' = total_task_count + 1
           /\ access'[t] = acc /\ \A u \in Tasks \ {t} : access'[u] = access[u]
<1>1. /\ SchedulerTypeOK /\ ArrivalsExact /\ limits' = limits
      /\ stamp' = [stamp EXCEPT ![t] = total_task_count'] /\ total_task_count' = total_task_count + 1
      /\ access' = [access EXCEPT ![t] = acc]
  BY DEF SchedulerInv, ScheduleOrBufferTask
<1>2. t \notin Known /\ Known \subseteq Tasks
  BY ScheduleEffect, KnownTasks, <1>1
<1>3. /\ total_task_count \in Nat
      /\ \A u \in Tasks : stamp[u] \in Nat /\ u \in Nat /\ stamp[u] <= total_task_count
  BY <1>1, TasksAssumption DEF SchedulerTypeOK, ArrivalsExact
<1>4. /\ stamp'[t] = total_task_count + 1
      /\ \A u \in Tasks : u # t => stamp'[u] = stamp[u]
  BY <1>1 DEF SchedulerTypeOK
<1>5. \A u \in Tasks : stamp[u] < stamp'[t]
  BY <1>3, <1>4
<1>6. access'[t] = acc /\ \A u \in Tasks \ {t} : access'[u] = access[u]
  BY <1>1 DEF SchedulerTypeOK
<1>7. ASSUME NEW u \in Known, NEW v \in Known PROVE Before(u, v)' <=> Before(u, v)
  <2>1. u \in Tasks /\ v \in Tasks /\ u # t /\ v # t
    BY <1>2
  <2> QED
    BY <2>1, <1>1, <1>4 DEF Before, TO!Before, capability
<1>8. ASSUME NEW u \in Known PROVE (Before(t, u)' <=> Passes(t, u)) /\ (Before(u, t)' <=> ~ Passes(t, u))
  <2>1. u \in Tasks /\ u # t
    BY <1>2
  <2>2. stamp'[u] < stamp'[t] /\ stamp'[u] \in Nat /\ stamp'[t] \in Nat
    BY <2>1, <1>3, <1>4, <1>5
  <2>3. u \in Nat /\ t \in Nat
    BY <2>1, TasksAssumption
  <2>4. capability' = capability
    BY <1>1 DEF capability
  <2> QED
    BY <2>1, <2>2, <2>3, <2>4 DEF Before, TO!Before, Passes
<1> QED
  BY <1>1, <1>4, <1>5, <1>6, <1>7, <1>8

\* An arrival keeps the queues and the usages exact.
LEMMA ScheduleQueues ==
    ASSUME SchedulerInv, NEW t \in Tasks, NEW acc \in Accesses, NEW force \in BOOLEAN,
           ScheduleOrBufferTask(t, acc, force), NEW a \in Addresses
    PROVE  /\ holders'[a] \cup blocked'[a] = holders[a] \cup blocked[a] \cup {u \in {t} : acc[a] # "None"}
           /\ holders'[a] \cap blocked'[a] = {}
           /\ holders'[a] = {} => blocked'[a] = {}
           /\ usage'[a] = "None" <=> holders'[a] = {}
           /\ \A u \in holders'[a] : access'[u][a] = usage'[a]
           /\ usage'[a] = "Writable" => \A u, v \in holders'[a] : u = v
           /\ \A u \in Known : u \in holders'[a] <=>
                /\ u \in holders[a]
                /\ ~ (TO!Clash(acc[a], access[u][a]) /\ u \notin Granted /\ Passes(t, u))
<1> DEFINE R == Reblocked(a, t, acc[a])
<1>1. /\ t \notin Known /\ stamp[t] = 0 /\ acc \in [Addresses -> {"None", "Readonly", "Writable"}]
      /\ acc[a] = "None" =>
           holders'[a] = holders[a] /\ blocked'[a] = blocked[a] /\ usage'[a] = usage[a]
      /\ acc[a] # "None" /\ NewClear(a, t, acc[a]) =>
           /\ holders'[a] = (holders[a] \ R) \cup {t}
           /\ blocked'[a] = blocked[a] \cup R
           /\ usage'[a] = acc[a]
      /\ acc[a] # "None" /\ ~ NewClear(a, t, acc[a]) =>
           /\ holders'[a] = holders[a] \ R
           /\ blocked'[a] = blocked[a] \cup R \cup {t}
           /\ usage'[a] = usage[a]
  BY ScheduleEffect
<1>2. /\ usage[a] \in {"None", "Readonly", "Writable"}
      /\ holders[a] = {} => blocked[a] = {}
      /\ usage[a] = "None" <=> holders[a] = {}
      /\ \A u \in holders[a] : access[u][a] = usage[a]
      /\ usage[a] = "Writable" => \A u, v \in holders[a] : u = v
      /\ holders[a] \cap blocked[a] = {}
  BY UsageIs
<1>3. holders[a] \cup blocked[a] \subseteq Known /\ Known \subseteq Tasks
  BY AccountIs, KnownTasks DEF SchedulerInv
<1>4. access'[t] = acc /\ \A u \in Known : access'[u] = access[u]
  BY <1>1, <1>3, ScheduleOrder
<1>5. CASE acc[a] = "None"
  BY <1>1, <1>2, <1>3, <1>4, <1>5, ClashIs
<1>6. CASE acc[a] # "None"
  <2>0. acc[a] \in {"Readonly", "Writable"}
    BY <1>1, <1>6
  <2>1. R = {h \in holders[a] : TO!Clash(acc[a], access[h][a]) /\ h \notin Granted /\ Passes(t, h)}
    BY <2>0, ReblockedIs
  <2>2. Locked(a, t, acc[a]) <=> NewClear(a, t, acc[a])
    BY <2>0, <1>1, LockedIs
  <2> HIDE DEF R
  <2>3. CASE NewClear(a, t, acc[a])
    <3>1. holders[a] \subseteq R \/ (usage[a] = "Readonly" /\ acc[a] = "Readonly")
      BY <2>2, <2>3 DEF Locked, R
    <3>2. \A u \in holders'[a] : access'[u][a] = acc[a]
      BY <1>1, <1>2, <1>3, <1>4, <1>6, <2>3, <3>1
    <3>3. acc[a] = "Writable" => \A u, v \in holders'[a] : u = v
      BY <1>1, <1>6, <2>3, <3>1
    <3> QED
      BY <1>1, <1>2, <1>3, <1>6, <2>1, <2>3, <3>2, <3>3
  <2>4. CASE ~ NewClear(a, t, acc[a])
    <3>1. holders'[a] # {}
      <4>1. SUFFICES ASSUME holders[a] \subseteq R PROVE Locked(a, t, acc[a])
        BY <2>2, <2>4, <1>1, <1>6
      <4>2. CASE holders[a] = {}
        BY <1>2, <4>2 DEF Locked, Prepared
      <4>3. CASE holders[a] # {}
        <5>1. R # {} /\ capability # "FifoQueueing" /\ ~ (usage[a] = "Readonly" /\ acc[a] = "Readonly")
          BY <4>1, <4>3 DEF R, Reblocked
        <5>2. usage[a] \in {"Readonly", "Writable"}
          BY <1>2, <4>3
        <5> QED
          BY <4>1, <5>1, <5>2 DEF Locked, Prepared, R
      <4> QED
        BY <4>2, <4>3
    <3> QED
      BY <1>1, <1>2, <1>3, <1>4, <1>6, <2>1, <2>4, <3>1
  <2> QED
    BY <2>3, <2>4
<1> QED
  BY <1>5, <1>6

\* An arrival makes the task known, and granted when it is clear everywhere.
LEMMA ScheduleSets ==
    ASSUME SchedulerInv, NEW t \in Tasks, NEW acc \in Accesses, NEW force \in BOOLEAN,
           ScheduleOrBufferTask(t, acc, force)
    PROVE  /\ Known' = Known \cup {t}
           /\ Granted' = Granted \cup {u \in {t} : \A a \in Addresses : t \notin blocked'[a]}
           /\ \A a \in Addresses : t \in blocked'[a] <=> acc[a] # "None" /\ ~ NewClear(a, t, acc[a])
           /\ \A a \in Addresses : t \in holders'[a] <=> acc[a] # "None" /\ NewClear(a, t, acc[a])
<1>1. SchedulerTypeOK' /\ CountsExact' /\ t \notin Known
  BY ScheduleEffect
<1>2. blocked_usage_count'[t] = 0 <=> \A a \in Addresses : t \notin blocked'[a]
  <2>1. IsFiniteSet(WaitsFor(t)') /\ blocked_usage_count'[t] = Cardinality(WaitsFor(t)')
    <3>1. IsFiniteSet(WaitsFor(t)')
      BY AddressesAssumption, FS_Subset DEF WaitsFor
    <3> QED
      BY <3>1, <1>1 DEF CountsExact
  <2>2. Cardinality(WaitsFor(t)') = 0 <=> WaitsFor(t)' = {}
    BY <2>1, FS_EmptySet
  <2>3. WaitsFor(t)' = {} <=> \A a \in Addresses : t \notin blocked'[a]
    BY DEF WaitsFor
  <2> QED
    BY <2>1, <2>2, <2>3
<1>3. Granted' = Granted \cup {u \in {t} : blocked_usage_count'[t] = 0}
  BY ScheduleHands DEF SchedulerInv
<1>4. ASSUME NEW a \in Addresses
      PROVE  /\ t \in blocked'[a] <=> acc[a] # "None" /\ ~ NewClear(a, t, acc[a])
             /\ t \in holders'[a] <=> acc[a] # "None" /\ NewClear(a, t, acc[a])
  <2>1. t \notin holders[a] /\ t \notin blocked[a]
    BY <1>1, AccountIs
  <2>2. Reblocked(a, t, acc[a]) \subseteq holders[a]
    BY DEF Reblocked
  <2> HIDE DEF Reblocked, NewClear
  <2> QED
    BY <2>1, <2>2, ScheduleEffect
<1>5. \A a \in Addresses : /\ blocked'[a] \subseteq Known \cup {t}
                           /\ blocked[a] \subseteq blocked'[a]
  <2> SUFFICES ASSUME NEW a \in Addresses
               PROVE  blocked'[a] \subseteq Known \cup {t} /\ blocked[a] \subseteq blocked'[a]
    OBVIOUS
  <2>1. holders[a] \cup blocked[a] \subseteq Known
    BY AccountIs
  <2>2. blocked'[a] \subseteq holders[a] \cup blocked[a] \cup {t}
    BY ScheduleQueues
  <2>3. \A u \in blocked[a] : u \notin holders'[a]
    BY <2>1, ScheduleQueues, UsageIs
  <2>4. blocked[a] \subseteq holders'[a] \cup blocked'[a]
    BY ScheduleQueues
  <2> QED
    BY <2>1, <2>2, <2>3, <2>4
<1>6. Known = Granted \cup UNION {blocked[a] : a \in Addresses}
  BY DEF Known, Granted
<1>7. Known' = Granted' \cup UNION {blocked'[a] : a \in Addresses}
  BY DEF Known, Granted
<1>8. Known' \subseteq Known \cup {t}
  BY <1>3, <1>5, <1>6, <1>7
<1>9. Known \subseteq Known'
  BY <1>3, <1>5, <1>6, <1>7
<1>10. t \in Known'
  BY <1>2, <1>3, <1>7
<1> QED
  BY <1>2, <1>3, <1>4, <1>8, <1>9, <1>10

\* After an arrival every queue follows the one order.
LEMMA ScheduleHeld ==
    ASSUME SchedulerInv, NEW t \in Tasks, NEW acc \in Accesses, NEW force \in BOOLEAN,
           ScheduleOrBufferTask(t, acc, force)
    PROVE  HeldExact'
<1>1. /\ Known' = Known \cup {t}
      /\ Granted' = Granted \cup {u \in {t} : \A a \in Addresses : t \notin blocked'[a]}
      /\ \A a \in Addresses : t \in blocked'[a] <=> acc[a] # "None" /\ ~ NewClear(a, t, acc[a])
      /\ \A a \in Addresses : t \in holders'[a] <=> acc[a] # "None" /\ NewClear(a, t, acc[a])
  BY ScheduleSets
<1>2. /\ \A u, v \in Known : Before(u, v)' <=> Before(u, v)
      /\ \A u \in Known : (Before(t, u)' <=> Passes(t, u)) /\ (Before(u, t)' <=> ~ Passes(t, u))
  BY ScheduleOrder
<1>3. t \notin Known /\ Granted \subseteq Known /\ Known \subseteq Tasks
  BY ScheduleEffect, KnownTasks DEF SchedulerInv
<1>4. access'[t] = acc /\ \A u \in Known : access'[u] = access[u]
  BY <1>3, ScheduleOrder
<1>5. SUFFICES ASSUME NEW a \in Addresses, NEW u \in Known', access'[u][a] # "None"
      PROVE  u \in holders'[a] <=> u \in Granted' \/ Clear(a, u, Known, Granted)'
  BY DEF HeldExact, Clear, Granted
<1>6. Clear(a, u, Known, Granted)' <=>
        \A v \in Known' \ {u} : TO!Clash(access'[u][a], access'[v][a]) => v \notin Granted' /\ Before(u, v)'
  BY DEF Clear
<1>7. CASE u = t
  <2>1. acc[a] # "None"
    BY <1>4, <1>5, <1>7
  <2>2. Clear(a, t, Known, Granted)' <=>
          \A v \in Known : TO!Clash(acc[a], access[v][a]) => v \notin Granted' /\ Before(t, v)'
    BY <1>1, <1>3, <1>4, <1>6, <1>7
  <2>3. Clear(a, t, Known, Granted)' <=> NewClear(a, t, acc[a])
    BY <2>2, <1>1, <1>2, <1>3 DEF NewClear
  <2> QED
    BY <1>1, <1>3, <1>7, <2>1, <2>3
<1>8. CASE u # t
  <2>1. u \in Known /\ access[u][a] # "None" /\ access'[u] = access[u]
    BY <1>1, <1>4, <1>5, <1>8
  <2>2. u \in holders[a] <=> u \in Granted \/ Clear(a, u, Known, Granted)
    BY <2>1, AccountIs
  <2>3. u \in holders'[a] <=>
          u \in holders[a] /\ ~ (TO!Clash(acc[a], access[u][a]) /\ u \notin Granted /\ Passes(t, u))
    BY <2>1, ScheduleQueues
  <2>4. u \in Granted' <=> u \in Granted
    BY <1>1, <1>8
  <2>5. TO!Clash(acc[a], access[u][a]) <=> TO!Clash(access[u][a], acc[a])
    BY ClashIs
  <2>6. Clear(a, u, Known, Granted)' <=>
          /\ Clear(a, u, Known, Granted)
          /\ TO!Clash(access[u][a], acc[a]) => t \notin Granted' /\ ~ Passes(t, u)
    <3>1. Clear(a, u, Known, Granted)' <=>
            /\ \A v \in Known \ {u} :
                 TO!Clash(access[u][a], access[v][a]) => v \notin Granted /\ Before(u, v)
            /\ TO!Clash(access[u][a], acc[a]) => t \notin Granted' /\ ~ Passes(t, u)
      BY <1>1, <1>2, <1>3, <1>4, <1>6, <1>8, <2>1
    <3> QED
      BY <3>1 DEF Clear
  <2>7. t \in Granted' /\ TO!Clash(acc[a], access[u][a]) => Passes(t, u) /\ u \notin Granted
    <3>1. ASSUME t \in Granted', TO!Clash(acc[a], access[u][a]) PROVE NewClear(a, t, acc[a])
      BY <3>1, <1>1, <1>3, ClashIs
    <3> QED
      BY <3>1, <2>1 DEF NewClear
  <2> QED
    BY <2>2, <2>3, <2>4, <2>5, <2>6, <2>7
<1> QED
  BY <1>7, <1>8

\* An arrival preserves the invariant.
LEMMA ScheduleKeeps ==
    ASSUME SchedulerInv, NEW t \in Tasks, NEW acc \in Accesses, NEW force \in BOOLEAN,
           ScheduleOrBufferTask(t, acc, force)
    PROVE  SchedulerInv'
<1>1. SchedulerTypeOK' /\ CountsExact' /\ ~ panicked' /\ t \notin Known /\ HeldExact'
  BY ScheduleEffect, ScheduleHeld
<1>2. /\ Known' = Known \cup {t}
      /\ Granted' = Granted \cup {u \in {t} : \A a \in Addresses : t \notin blocked'[a]}
  BY ScheduleSets
<1>3. Known \subseteq Tasks /\ Granted \subseteq Known
  BY KnownTasks DEF SchedulerInv
<1>4. access'[t] = acc /\ \A u \in Tasks \ {t} : access'[u] = access[u]
  BY ScheduleOrder
<1>5. QueuesExact'
  <2> SUFFICES ASSUME NEW a \in Addresses
               PROVE  holders'[a] \cup blocked'[a] = Users(a)' /\ holders'[a] \cap blocked'[a] = {}
    BY DEF QueuesExact
  <2>1. holders[a] \cup blocked[a] = Users(a)
    BY DEF SchedulerInv, QueuesExact
  <2>2. t \notin Users(a)
    BY <1>1, <2>1, AccountIs
  <2>3. Users(a)' = Users(a) \cup {u \in {t} : acc[a] # "None"}
    BY <2>2, <1>4 DEF Users
  <2> QED
    BY <2>1, <2>3, ScheduleQueues
<1>6. UsageExact'
  BY ScheduleQueues DEF UsageExact
<1>7. GrantedExact'
  <2>1. ASSUME NEW u \in Granted', NEW a \in Addresses PROVE u \notin blocked'[a]
    <3>1. CASE u = t
      BY <1>2, <2>1, <3>1, <1>1, <1>3
    <3>2. CASE u # t
      <4>1. u \in Granted /\ u \in Known /\ u \notin blocked[a]
        BY <1>2, <1>3, <2>1, <3>2, AccountIs
      <4>2. u \in holders[a] => u \in holders'[a]
        BY <4>1, ScheduleQueues
      <4> QED
        BY <3>2, <4>1, <4>2, ScheduleQueues
    <3> QED
      BY <3>1, <3>2
  <2>2. t \notin running /\ t \notin Queued
    BY <1>1, <1>3 DEF Granted
  <2>3. GrantedExact /\ SchedulerTypeOK
    BY DEF SchedulerInv
  <2>4. /\ \A i, j \in DOMAIN unblocked_task_queue' :
              unblocked_task_queue'[i] = unblocked_task_queue'[j] => i = j
        /\ running' \cap Queued' = {}
    <3>1. CASE unblocked_task_queue' = unblocked_task_queue /\ running' \subseteq running \cup {t}
      BY <2>2, <2>3, <3>1 DEF GrantedExact, Queued
    <3>2. CASE unblocked_task_queue' = Append(unblocked_task_queue, t) /\ running' = running
      <4>1. /\ DOMAIN unblocked_task_queue = 1..Len(unblocked_task_queue)
            /\ DOMAIN unblocked_task_queue' = 1..(Len(unblocked_task_queue) + 1)
            /\ Len(unblocked_task_queue) \in Nat
        BY <2>3, <3>2 DEF SchedulerTypeOK
      <4>2. /\ unblocked_task_queue'[Len(unblocked_task_queue) + 1] = t
            /\ \A i \in 1..Len(unblocked_task_queue) : unblocked_task_queue'[i] = unblocked_task_queue[i]
        BY <2>3, <3>2 DEF SchedulerTypeOK
      <4>3. /\ \A i, j \in 1..Len(unblocked_task_queue) :
                  unblocked_task_queue[i] = unblocked_task_queue[j] => i = j
            /\ \A i \in 1..Len(unblocked_task_queue) : 
                  unblocked_task_queue[i] # t /\ unblocked_task_queue[i] \notin running
        BY <2>2, <2>3, <4>1 DEF GrantedExact, Queued
      <4>4. \A i \in 1..(Len(unblocked_task_queue) + 1) :
               i \in 1..Len(unblocked_task_queue) \/ i = Len(unblocked_task_queue) + 1
        BY <4>1
      <4> QED
        BY <2>2, <3>2, <4>1, <4>2, <4>3, <4>4 DEF Queued
    <3> QED
      BY <2>3, <3>1, <3>2, ScheduleHands
  <2> QED
    BY <2>1, <2>4 DEF GrantedExact
<1>8. ArrivalsExact'
  <2>1. /\ ArrivalsExact /\ SchedulerTypeOK
    BY DEF SchedulerInv
  <2>2. /\ \A u \in Tasks : stamp[u] < stamp'[t] /\ (u # t => stamp'[u] = stamp[u])
        /\ stamp'[t] = total_task_count + 1 /\ total_task_count' = total_task_count + 1
    BY ScheduleOrder
  <2>3. total_task_count \in Nat /\ \A u \in Tasks : stamp[u] \in Nat /\ stamp[u] <= total_task_count
    BY <2>1 DEF SchedulerTypeOK, ArrivalsExact
  <2>4. \A u \in Tasks \ Known' : access'[u] = NoAccess
    BY <1>2, <1>4, <2>1 DEF ArrivalsExact
  <2>5. NoAccess' = NoAccess
    BY DEF NoAccess, TO!NoAccess
  <2>6. \A u \in Known' : stamp'[u] # 0
    BY <1>2, <1>3, <2>1, <2>2, <2>3 DEF ArrivalsExact
  <2>7. \A u \in Tasks : stamp'[u] <= total_task_count'
    BY <2>2, <2>3
  <2>8. \A u, v \in Tasks : u # v /\ stamp'[u] # 0 => stamp'[u] # stamp'[v]
    BY <2>1, <2>2, <2>3 DEF ArrivalsExact
  <2> QED
    BY <2>4, <2>5, <2>6, <2>7, <2>8 DEF ArrivalsExact
<1>9. CountersExact'
  <2>1. CountersExact /\ SchedulerTypeOK
    BY DEF SchedulerInv
  <2>2. /\ limits' = limits /\ clearing' = clearing /\ ~ clearing
        /\ active_task_count' = active_task_count + 1
        /\ \/ limits.max_unique = Unlimited /\ unique_active_task_hashes' = unique_active_task_hashes
           \/ /\ limits.max_unique # Unlimited
              /\ TaskHash[t] \notin unique_active_task_hashes
              /\ unique_active_task_hashes' = unique_active_task_hashes \cup {TaskHash[t]}
    BY DEF ScheduleOrBufferTask
  <2>3. active_task_count' = Cardinality(Known')
    <3>1. IsFiniteSet(Known)
      BY <1>3, TasksAssumption, FS_Subset
    <3>2. Cardinality(Known \cup {t}) = Cardinality(Known) + 1
      BY <1>1, <3>1, FS_AddElement
    <3> QED
      BY <1>2, <2>1, <2>2, <3>2 DEF CountersExact
  <2>4. CASE limits.max_unique = Unlimited
    BY <2>1, <2>2, <2>3, <2>4 DEF CountersExact
  <2>5. CASE limits.max_unique # Unlimited
    <3>1. /\ unique_active_task_hashes = {TaskHash[u] : u \in Known}
          /\ \A u, v \in Known : TaskHash[u] = TaskHash[v] => u = v
      BY <2>1, <2>5 DEF CountersExact
    <3>2. unique_active_task_hashes' = {TaskHash[u] : u \in Known'}
      BY <1>2, <2>2, <2>5, <3>1
    <3>3. \A u, v \in Known' : TaskHash[u] = TaskHash[v] => u = v
      BY <1>2, <2>2, <2>5, <3>1
    <3> QED
      BY <2>2, <2>3, <2>5, <3>2, <3>3 DEF CountersExact
  <2> QED
    BY <2>4, <2>5
<1> QED
  BY <1>1, <1>5, <1>6, <1>7, <1>8, <1>9 DEF SchedulerInv, SchedulerNoPanic

(***************************************************************************)
(* Unlocking                                                               *)
(***************************************************************************)
\* pop_unblocked and pop_lockable_readonly take the waiting tasks that come
\* before every other waiting task they clash with.
LEMMA PoppedIs ==
    ASSUME SchedulerInv, NEW a \in Addresses
    PROVE  /\ Popped(a) = {u \in blocked[a] :
                \A v \in blocked[a] \ {u} : TO!Clash(access[u][a], access[v][a]) => Before(u, v)}
           /\ blocked[a] # {} => First(a) \in Popped(a)
           /\ \A u \in Popped(a) : access[u][a] = access[First(a)][a]
           /\ blocked[a] # {} /\ access[First(a)][a] = "Writable" => Popped(a) = {First(a)}
<1>1. blocked[a] \subseteq Known
  BY AccountIs
<1>2. /\ \A u \in blocked[a] : access[u][a] \in {"Readonly", "Writable"}
  BY AccountIs
<1>3. /\ \A u, v \in blocked[a] : u # v => Before(u, v) \/ Before(v, u)
      /\ \A u, v \in blocked[a] : ~ (Before(u, v) /\ Before(v, u))
  BY <1>1, OrderIsTotal
<1>4. blocked[a] # {} =>
        First(a) \in blocked[a] /\ \A u \in blocked[a] \ {First(a)} : Before(First(a), u)
  BY FirstIs
<1>5. Popped(a) \subseteq blocked[a]
  BY DEF Popped
<1>6. ASSUME NEW u \in blocked[a]
      PROVE  /\ u \in Popped(a) <=>
                  \A v \in blocked[a] \ {u} : TO!Clash(access[u][a], access[v][a]) => Before(u, v)
             /\ u \in Popped(a) => access[u][a] = access[First(a)][a]
             /\ u \in Popped(a) /\ access[First(a)][a] = "Writable" => u = First(a)
  <2>1. CASE u = First(a)
    BY <1>4, <2>1 DEF Popped
  <2>2. CASE u # First(a)
    <3>1. Before(First(a), u) /\ First(a) \in blocked[a]
      BY <1>4, <2>2
    <3>2. u \in Popped(a) <=>
             access[u][a] = "Readonly" /\ \A v \in blocked[a] : Before(v, u) => access[v][a] = "Readonly"
      BY <2>2 DEF Popped
    <3>3. u \in Popped(a) => access[u][a] = "Readonly" /\ access[First(a)][a] = "Readonly"
      BY <3>1, <3>2
    <3>4. ASSUME u \in Popped(a), NEW v \in blocked[a] \ {u}, TO!Clash(access[u][a], access[v][a])
          PROVE  Before(u, v)
      <4>1. access[v][a] = "Writable"
        BY <3>3, <3>4, ClashIs
      <4>2. ~ Before(v, u)
        BY <3>2, <3>4, <4>1
      <4> QED
        BY <4>2, <1>3
    <3>5. ASSUME \A v \in blocked[a] \ {u} : TO!Clash(access[u][a], access[v][a]) => Before(u, v)
          PROVE  u \in Popped(a)
      <4>1. ~ TO!Clash(access[u][a], access[First(a)][a])
        BY <3>1, <3>5, <2>2, <1>3
      <4>2. access[u][a] = "Readonly"
        BY <4>1, <3>1, <1>2, ClashIs
      <4>3. ASSUME NEW v \in blocked[a], Before(v, u) PROVE access[v][a] = "Readonly"
        <5>1. CASE v = u
          BY <5>1, <4>2
        <5>2. CASE v # u
          <6>1. ~ TO!Clash(access[u][a], access[v][a])
            BY <3>5, <4>3, <5>2, <1>3
          <6> QED
            BY <6>1, <4>2, <1>2, ClashIs
        <5> QED
          BY <5>1, <5>2
      <4> QED
        BY <3>2, <4>2, <4>3
    <3> QED
      BY <3>3, <3>4, <3>5
  <2> QED
    BY <2>1, <2>2
<1>7. blocked[a] # {} => First(a) \in Popped(a)
  BY <1>4 DEF Popped
<1>8. Popped(a) = {u \in blocked[a] :
         \A v \in blocked[a] \ {u} : TO!Clash(access[u][a], access[v][a]) => Before(u, v)}
  BY <1>5, <1>6
<1> QED
  BY <1>5, <1>6, <1>7, <1>8

\* A granted task holds all its accounts, so the assertions of unlock hold.
LEMMA GrantedHolds ==
    ASSUME SchedulerInv, NEW t \in Granted, NEW a \in Addresses, access[t][a] # "None"
    PROVE  /\ t \in holders[a] /\ usage[a] = access[t][a]
           /\ NewlyLockable(a, t) => holders[a] = {t}
           /\ ~ NewlyLockable(a, t) => usage[a] = "Readonly" /\ \E h \in holders[a] : h # t
           /\ UnlockAsserts(a, t)
<1>1. t \in Known
  BY KnownTasks DEF SchedulerInv
<1>2. t \in holders[a]
  BY <1>1, AccountIs
<1>3. usage[a] = access[t][a] /\ usage[a] \in {"Readonly", "Writable"}
  BY <1>2, UsageIs
<1>4. NewlyLockable(a, t) => holders[a] = {t}
  BY <1>2, UsageIs DEF NewlyLockable
<1>5. ~ NewlyLockable(a, t) => usage[a] = "Readonly" /\ \E h \in holders[a] : h # t
  BY <1>3 DEF NewlyLockable
<1>6. ASSUME NEW u \in Popped(a) PROVE blocked_usage_count[u] # 0
  <2>1. u \in blocked[a] /\ u \in Tasks
    BY AccountIs, KnownTasks DEF Popped, SchedulerInv
  <2> QED
    BY <2>1, CountIs
<1> QED
  BY <1>2, <1>3, <1>4, <1>5, <1>6 DEF UnlockAsserts

\* What the end of a granted task changes on one account.
LEMMA ReleaseAccount ==
    ASSUME SchedulerInv, NEW t \in Granted, NEW rest, Release(t, rest), NEW a \in Addresses
    PROVE  /\ access[t][a] # "None" /\ NewlyLockable(a, t) =>
                /\ holders'[a] = Popped(a)
                /\ blocked'[a] = blocked[a] \ Popped(a)
                /\ usage'[a] = IF blocked[a] = {} THEN "None" ELSE access[First(a)][a]
           /\ ~ (access[t][a] # "None" /\ NewlyLockable(a, t)) =>
                holders'[a] = holders[a] \ {t} /\ blocked'[a] = blocked[a] /\ usage'[a] = usage[a]
           /\ t \notin blocked[a]
<1> DEFINE free == {b \in Requested(t) : NewlyLockable(b, t)}
<1>1. /\ usage' = [b \in Addresses |->
           IF b \notin free THEN usage[b]
           ELSE IF blocked[b] = {} THEN "None" ELSE access[First(b)][b]]
      /\ holders' = [b \in Addresses |->
           IF b \in free THEN Popped(b) ELSE holders[b] \ {u \in {t} : b \in Requested(t)}]
      /\ blocked' = [b \in Addresses |->
           IF b \in free THEN blocked[b] \ Popped(b) ELSE blocked[b]]
  BY DEF Release, UnlockUsageQueues
<1>2. a \in Requested(t) <=> access[t][a] # "None"
  BY DEF Requested
<1>3. a \in free <=> access[t][a] # "None" /\ NewlyLockable(a, t)
  BY <1>2
<1>4. t \in Known /\ t \notin blocked[a]
  BY AccountIs, KnownTasks DEF SchedulerInv
<1>5. access[t][a] = "None" => t \notin holders[a]
  BY <1>4, AccountIs
<1> HIDE DEF free
<1>6. CASE a \in free
  BY <1>1, <1>3, <1>4, <1>6
<1>7. CASE a \notin free
  <2>1. holders'[a] = holders[a] \ {u \in {t} : a \in Requested(t)}
    BY <1>1, <1>7
  <2>2. holders'[a] = holders[a] \ {t}
    BY <2>1, <1>2, <1>5
  <2> QED
    BY <1>1, <1>3, <1>4, <1>7, <2>2
<1> QED
  BY <1>6, <1>7

\* The end of a granted task keeps the queues and the usages exact.
LEMMA ReleaseQueues ==
    ASSUME SchedulerInv, NEW t \in Granted, NEW rest, Release(t, rest), NEW a \in Addresses
    PROVE  /\ holders'[a] \cup blocked'[a] = (holders[a] \cup blocked[a]) \ {t}
           /\ holders'[a] \cap blocked'[a] = {}
           /\ holders'[a] = {} => blocked'[a] = {}
           /\ usage'[a] = "None" <=> holders'[a] = {}
           /\ \A u \in holders'[a] : access[u][a] = usage'[a]
           /\ usage'[a] = "Writable" => \A u, v \in holders'[a] : u = v
           /\ usage'[a] \in {"None", "Readonly", "Writable"}
<1>1. /\ usage[a] \in {"None", "Readonly", "Writable"}
      /\ holders[a] = {} => blocked[a] = {}
      /\ usage[a] = "None" <=> holders[a] = {}
      /\ \A u \in holders[a] : access[u][a] = usage[a]
      /\ usage[a] = "Writable" => \A u, v \in holders[a] : u = v
      /\ holders[a] \cap blocked[a] = {}
  BY UsageIs
<1>2. t \in Known /\ t \notin blocked[a] /\ (access[t][a] # "None" <=> t \in holders[a])
  BY AccountIs, KnownTasks DEF SchedulerInv
<1>3. Popped(a) \subseteq blocked[a]
  BY DEF Popped
<1>4. CASE access[t][a] # "None" /\ NewlyLockable(a, t)
  <2>1. holders[a] = {t}
    BY <1>4, GrantedHolds
  <2>2. /\ holders'[a] = Popped(a)
        /\ blocked'[a] = blocked[a] \ Popped(a)
        /\ usage'[a] = IF blocked[a] = {} THEN "None" ELSE access[First(a)][a]
    BY <1>4, ReleaseAccount
  <2>3. CASE blocked[a] = {}
    BY <1>2, <1>3, <2>1, <2>2, <2>3
  <2>4. CASE blocked[a] # {}
    <3>1. /\ First(a) \in Popped(a) /\ \A u \in Popped(a) : access[u][a] = access[First(a)][a]
          /\ access[First(a)][a] = "Writable" => Popped(a) = {First(a)}
      BY <2>4, PoppedIs
    <3>2. access[First(a)][a] \in {"Readonly", "Writable"}
      BY <1>3, <3>1, AccountIs
    <3> QED
      BY <1>2, <1>3, <2>1, <2>2, <2>4, <3>1, <3>2
  <2> QED
    BY <2>3, <2>4
<1>5. CASE access[t][a] # "None" /\ ~ NewlyLockable(a, t)
  <2>1. usage[a] = "Readonly" /\ \E h \in holders[a] : h # t
    BY <1>5, GrantedHolds
  <2>2. holders'[a] = holders[a] \ {t} /\ blocked'[a] = blocked[a] /\ usage'[a] = usage[a]
    BY <1>5, ReleaseAccount
  <2> QED
    BY <1>1, <1>2, <2>1, <2>2
<1>6. CASE access[t][a] = "None"
  <2>1. holders'[a] = holders[a] \ {t} /\ blocked'[a] = blocked[a] /\ usage'[a] = usage[a]
    BY <1>6, ReleaseAccount
  <2> QED
    BY <1>1, <1>2, <1>6, <2>1
<1> QED
  BY <1>4, <1>5, <1>6

\* After the end of t, the holders of an account are the granted tasks and those
\* that are clear without t.
LEMMA ReleaseClear ==
    ASSUME SchedulerInv, NEW t \in Granted, NEW rest, Release(t, rest), NEW a \in Addresses,
           NEW u \in Known \ {t}, access[u][a] # "None"
    PROVE  u \in holders'[a] <=> u \in Granted \/ Clear(a, u, Known \ {t}, Granted \ {t})
<1>1. /\ holders[a] \cup blocked[a] \subseteq Known
      /\ \A v \in Known : access[v][a] # "None" <=> v \in holders[a] \cup blocked[a]
      /\ \A v \in Granted : v \notin blocked[a]
      /\ \A v \in Known : access[v][a] # "None" => 
           (v \in holders[a] <=> v \in Granted \/ Clear(a, v, Known, Granted))
      /\ \A v \in Known : access[v][a] \in {"None", "Readonly", "Writable"}
  BY AccountIs
<1>2. holders[a] \cap blocked[a] = {} /\ \A v \in holders[a] : access[v][a] = usage[a]
  BY UsageIs
<1>3. CASE access[t][a] # "None" /\ NewlyLockable(a, t)
  <2>1. holders[a] = {t} /\ holders'[a] = Popped(a)
    BY <1>3, GrantedHolds, ReleaseAccount
  <2>2. u \in blocked[a] /\ u \notin Granted
    BY <2>1, <1>1
  <2>3. u \in Popped(a) <=>
          \A v \in blocked[a] \ {u} : TO!Clash(access[u][a], access[v][a]) => Before(u, v)
    BY <2>2, PoppedIs
  <2>4. \A v \in Known \ {t} : TO!Clash(access[u][a], access[v][a]) => v \in blocked[a] /\ v \notin Granted
    BY <1>1, <2>1, ClashIs
  <2>5. blocked[a] \subseteq Known \ {t}
    BY <1>1, <1>2, <2>1
  <2>6. Clear(a, u, Known \ {t}, Granted \ {t}) <=>
          \A v \in blocked[a] \ {u} : TO!Clash(access[u][a], access[v][a]) => Before(u, v)
    BY <2>4, <2>5 DEF Clear
  <2> QED
    BY <2>1, <2>2, <2>3, <2>6
<1>4. CASE access[t][a] # "None" /\ ~ NewlyLockable(a, t)
  <2>1. usage[a] = "Readonly" /\ t \in holders[a] /\ holders'[a] = holders[a] \ {t}
    BY <1>4, GrantedHolds, ReleaseAccount
  <2>2. PICK h \in holders[a] : h # t
    BY <1>4, GrantedHolds
  <2>3. access[t][a] = "Readonly" /\ access[h][a] = "Readonly" /\ h \in Known
    BY <1>1, <1>2, <2>1, <2>2
  <2>4. CASE access[u][a] = "Readonly"
    <3>1. ~ TO!Clash(access[u][a], access[t][a])
      BY <2>3, <2>4, ClashIs
    <3>2. Clear(a, u, Known \ {t}, Granted \ {t}) <=> Clear(a, u, Known, Granted)
      BY <3>1 DEF Clear
    <3> QED
      BY <3>2, <1>1, <2>1
  <2>5. CASE access[u][a] = "Writable"
    <3>1. u \in blocked[a] /\ u \notin holders[a] /\ u \notin Granted /\ u # h
      BY <1>1, <1>2, <2>1, <2>3, <2>5
    <3>2. TO!Clash(access[u][a], access[h][a]) /\ TO!Clash(access[h][a], access[u][a])
      BY <2>3, <2>5, ClashIs
    <3>3. h \notin Granted => Before(h, u)
      BY <1>1, <2>2, <2>3, <3>1, <3>2 DEF Clear
    <3>4. ~ (h \notin Granted \ {t} /\ Before(u, h))
      BY <2>2, <2>3, <3>3, OrderIsTotal
    <3>5. ~ Clear(a, u, Known \ {t}, Granted \ {t})
      BY <2>2, <2>3, <3>1, <3>2, <3>4 DEF Clear
    <3> QED
      BY <2>1, <3>1, <3>5
  <2> QED
    BY <1>1, <2>4, <2>5
<1>5. CASE access[t][a] = "None"
  <2>1. holders'[a] = holders[a] \ {t}
    BY <1>5, ReleaseAccount
  <2>2. ~ TO!Clash(access[u][a], access[t][a])
    BY <1>5, ClashIs
  <2>3. Clear(a, u, Known \ {t}, Granted \ {t}) <=> Clear(a, u, Known, Granted)
    BY <2>2 DEF Clear
  <2> QED
    BY <1>1, <2>1, <2>3
<1> QED
  BY <1>3, <1>4, <1>5

\* An arrangement of a finite set lists its elements, each of them once.
LEMMA ArrangementIs ==
    ASSUME NEW S, IsFiniteSet(S), NEW s \in Arrangements(S)
    PROVE  /\ s \in Seq(S) /\ Len(s) = Cardinality(S) /\ Cardinality(S) \in Nat
           /\ \A x \in S : \E i \in 1..Len(s) : s[i] = x
           /\ \A i, j \in 1..Len(s) : s[i] = s[j] => i = j
<1> DEFINE n == Cardinality(S)
<1>1. n \in Nat
  BY FS_CardinalityType
<1>2. s \in [1..n -> S] /\ \A x \in S : \E i \in 1..n : s[i] = x
  BY DEF Arrangements
<1>3. IsFiniteSet(1..n) /\ Cardinality(1..n) = n
  BY <1>1, FS_Interval
<1>4. s \in Surjection(1..n, S)
  BY <1>2 DEF Surjection
<1>5. s \in Injection(1..n, S)
  BY <1>3, <1>4, FS_SurjSameCardinalityImpliesInj
<1>6. \A i, j \in 1..n : s[i] = s[j] => i = j
  BY <1>5 DEF Injection, IsInjective
<1> HIDE DEF n
<1>7. s \in Seq(S) /\ Len(s) = n
  BY <1>1, <1>2
<1> QED
  BY <1>1, <1>2, <1>6, <1>7 DEF n

\* A list followed by another one, with no element in common.
LEMMA ConcatIs ==
    ASSUME NEW q \in Seq(Tasks), NEW s \in Seq(Tasks),
           \A i, j \in 1..Len(q) : q[i] = q[j] => i = j,
           \A i, j \in 1..Len(s) : s[i] = s[j] => i = j,
           \A i \in 1..Len(q), j \in 1..Len(s) : q[i] # s[j]
    PROVE  /\ q \o s \in Seq(Tasks) /\ DOMAIN (q \o s) = 1..Len(q \o s)
           /\ \A i, j \in 1..Len(q \o s) : (q \o s)[i] = (q \o s)[j] => i = j
           /\ {(q \o s)[i] : i \in 1..Len(q \o s)} = {q[i] : i \in 1..Len(q)} \cup {s[i] : i \in 1..Len(s)}
<1>1. /\ q \o s \in Seq(Tasks) /\ DOMAIN (q \o s) = 1..Len(q \o s)
      /\ Len(q) \in Nat /\ Len(s) \in Nat /\ Len(q \o s) = Len(q) + Len(s)
  OBVIOUS
<1>2. \A i \in 1..Len(q) : (q \o s)[i] = q[i]
  OBVIOUS
<1>3. \A i \in 1..Len(s) : (q \o s)[Len(q) + i] = s[i]
  OBVIOUS
<1> DEFINE r == q \o s
           n == Len(q)
           m == Len(s)
<1>4. /\ n \in Nat /\ m \in Nat /\ Len(r) = n + m
      /\ \A i \in 1..n : r[i] = q[i]
      /\ \A i \in 1..m : r[n + i] = s[i]
      /\ \A i, j \in 1..n : q[i] = q[j] => i = j
      /\ \A i, j \in 1..m : s[i] = s[j] => i = j
      /\ \A i \in 1..n, j \in 1..m : q[i] # s[j]
  BY <1>1, <1>2, <1>3
<1> HIDE DEF r, n, m
<1>5. \A i \in 1..(n + m) : i \in 1..n \/ (i - n \in 1..m /\ i = n + (i - n))
  BY <1>4
<1>6. \A i \in 1..(n + m) : i \in 1..n \/ \E k \in 1..m : i = n + k
  BY <1>5
<1>7. ASSUME NEW i \in 1..(n + m), NEW j \in 1..(n + m), r[i] = r[j] PROVE i = j
  <2>1. CASE i \in 1..n /\ j \in 1..n
    BY <1>4, <1>7, <2>1
  <2>2. CASE i \in 1..n /\ j \notin 1..n
    <3>1. PICK k \in 1..m : j = n + k
      BY <1>6, <2>2
    <3>2. r[i] = q[i] /\ r[j] = s[k] /\ q[i] # s[k]
      BY <1>4, <2>2, <3>1
    <3> QED
      BY <1>7, <3>2
  <2>3. CASE i \notin 1..n /\ j \in 1..n
    <3>1. PICK k \in 1..m : i = n + k
      BY <1>6, <2>3
    <3>2. r[j] = q[j] /\ r[i] = s[k] /\ q[j] # s[k]
      BY <1>4, <2>3, <3>1
    <3> QED
      BY <1>7, <3>2
  <2>4. CASE i \notin 1..n /\ j \notin 1..n
    <3>1. PICK k \in 1..m : i = n + k
      BY <1>6, <2>4
    <3>2. PICK l \in 1..m : j = n + l
      BY <1>6, <2>4
    <3>3. s[k] = s[l]
      BY <1>4, <1>7, <3>1, <3>2
    <3> QED
      BY <1>4, <3>1, <3>2, <3>3
  <2> QED
    BY <2>1, <2>2, <2>3, <2>4
<1>8. {r[i] : i \in 1..(n + m)} \subseteq {q[i] : i \in 1..n} \cup {s[i] : i \in 1..m}
  <2> SUFFICES ASSUME NEW i \in 1..(n + m) PROVE r[i] \in {q[j] : j \in 1..n} \cup {s[j] : j \in 1..m}
    OBVIOUS
  <2>1. CASE i \in 1..n
    BY <1>4, <2>1
  <2>2. CASE i \notin 1..n
    <3>1. PICK k \in 1..m : i = n + k
      BY <1>6, <2>2
    <3> QED
      BY <1>4, <3>1
  <2> QED
    BY <2>1, <2>2
<1>9. /\ \A i \in 1..n : i \in 1..(n + m)
      /\ \A i \in 1..m : n + i \in 1..(n + m)
  BY <1>4
<1>10. {q[i] : i \in 1..n} \cup {s[i] : i \in 1..m} \subseteq {r[i] : i \in 1..(n + m)}
  <2>1. ASSUME NEW i \in 1..n PROVE q[i] \in {r[j] : j \in 1..(n + m)}
    BY <1>4, <1>9
  <2>2. ASSUME NEW i \in 1..m PROVE s[i] \in {r[j] : j \in 1..(n + m)}
    BY <1>4, <1>9
  <2> QED
    BY <2>1, <2>2
<1>11. {r[i] : i \in 1..(n + m)} = {q[i] : i \in 1..n} \cup {s[i] : i \in 1..m}
  BY <1>8, <1>10
<1> QED
  BY <1>1, <1>4, <1>7, <1>11 DEF r, n, m

\* The end of a task takes the accounts its successors get off their counts,
\* and lists exactly the tasks that wait for nothing any more.
LEMMA ReleaseCounts ==
    ASSUME SchedulerInv, NEW t \in Granted, NEW rest, Release(t, rest)
    PROVE  /\ CountsExact' /\ blocked_usage_count' \in [Tasks -> Nat]
           /\ \E s \in Arrangements({u \in Known \ Granted : WaitsFor(u)' = {}}) :
                 unblocked_task_queue' = rest \o s
<1> DEFINE left(u) == blocked_usage_count[u] - Cardinality(PoppedFor(t, u))
           unblocked == {u \in Tasks : PoppedFor(t, u) # {} /\ left(u) = 0}
<1>1. /\ blocked_usage_count' = [u \in Tasks |-> left(u)]
      /\ \E s \in Arrangements(unblocked) : unblocked_task_queue' = rest \o s
  BY DEF Release, UnlockUsageQueues
<1>2. Known \subseteq Tasks /\ Granted \subseteq Known /\ \A a \in Addresses : blocked[a] \subseteq Known
  BY KnownTasks DEF SchedulerInv
<1>3. ASSUME NEW u \in Tasks
      PROVE  /\ left(u) = Cardinality(WaitsFor(u)') /\ left(u) \in Nat
             /\ u \in unblocked <=> u \in Known \ Granted /\ WaitsFor(u)' = {}
  <2>1. ASSUME NEW a \in Addresses
        PROVE  u \in blocked'[a] <=> u \in blocked[a] /\ a \notin PoppedFor(t, u)
    <3>1. a \in PoppedFor(t, u) <=> access[t][a] # "None" /\ NewlyLockable(a, t) /\ u \in Popped(a)
      BY DEF PoppedFor, Requested
    <3>2. CASE access[t][a] # "None" /\ NewlyLockable(a, t)
      <4>1. blocked'[a] = blocked[a] \ Popped(a)
        BY <3>2, ReleaseAccount
      <4> QED
        BY <3>1, <3>2, <4>1
    <3>3. CASE ~ (access[t][a] # "None" /\ NewlyLockable(a, t))
      <4>1. blocked'[a] = blocked[a]
        BY <3>3, ReleaseAccount
      <4> QED
        BY <3>1, <3>3, <4>1
    <3> QED
      BY <3>2, <3>3
  <2>2. PoppedFor(t, u) \subseteq WaitsFor(u)
    BY DEF PoppedFor, Requested, Popped, WaitsFor
  <2>3. WaitsFor(u)' = WaitsFor(u) \ PoppedFor(t, u)
    BY <2>1 DEF WaitsFor
  <2>4. WaitsFor(u) \in SUBSET Addresses
    BY DEF WaitsFor
  <2>5. WaitsFor(u) = WaitsFor(u)' \cup PoppedFor(t, u) /\ WaitsFor(u)' \cap PoppedFor(t, u) = {}
    BY <2>2, <2>3
  <2>6. WaitsFor(u)' \in SUBSET Addresses /\ PoppedFor(t, u) \in SUBSET Addresses
    BY <2>2, <2>3, <2>4
  <2>7. /\ Cardinality(WaitsFor(u)') \in Nat /\ Cardinality(PoppedFor(t, u)) \in Nat
        /\ Cardinality(WaitsFor(u)' \cup PoppedFor(t, u)) = Cardinality(WaitsFor(u)') + Cardinality(PoppedFor(t, u))
        /\ IsFiniteSet(WaitsFor(u)')
    BY <2>5, <2>6, CountUnion
  <2>8. blocked_usage_count[u] = Cardinality(WaitsFor(u))
    BY DEF SchedulerInv, CountsExact
  <2>9. left(u) = Cardinality(WaitsFor(u)')
    BY <2>5, <2>7, <2>8
  <2>10. left(u) = 0 <=> WaitsFor(u)' = {}
    BY <2>7, <2>9, FS_EmptySet
  <2>11. PoppedFor(t, u) # {} => u \in Known \ Granted
    <3>1. ASSUME NEW a \in PoppedFor(t, u) PROVE u \in Known \ Granted
      <4>1. a \in Addresses /\ u \in blocked[a]
        BY <2>2 DEF WaitsFor
      <4> QED
        BY <4>1, <1>2, AccountIs
    <3> QED
      BY <3>1
  <2>12. u \in Known \ Granted => WaitsFor(u) # {}
    BY KnownTasks DEF WaitsFor, SchedulerInv
  <2> HIDE DEF left
  <2>13. u \in unblocked <=> u \in Known \ Granted /\ WaitsFor(u)' = {}
    BY <2>3, <2>10, <2>11, <2>12
  <2> QED
    BY <2>7, <2>9, <2>13
<1>4. unblocked = {u \in Known \ Granted : WaitsFor(u)' = {}}
  BY <1>2, <1>3
<1> HIDE DEF left, unblocked
<1>5. CountsExact' /\ blocked_usage_count' \in [Tasks -> Nat]
  BY <1>1, <1>3 DEF CountsExact
<1> QED
  BY <1>1, <1>4, <1>5

\* rest is what a step leaves of the queue of unblocked tasks without task t.
Remains(rest, t) ==
  /\ rest \in Seq(Tasks)
  /\ \A i, j \in 1..Len(rest) : rest[i] = rest[j] => i = j
  /\ {rest[i] : i \in 1..Len(rest)} = Queued \ {t}

\* The tasks that the end of task t lets go ahead.
Successors(t) ==
  {u \in Known \ Granted : \A a \in Addresses :
     access[u][a] # "None" => Clear(a, u, Known \ {t}, Granted \ {t})}

\* The end of task t leaves the other tasks known, and grants its successors.
LEMMA ReleaseSets ==
    ASSUME SchedulerInv, NEW t \in Granted, NEW rest, Remains(rest, t),
           Release(t, rest), running' = running \ {t}
    PROVE  /\ Known' = Known \ {t}
           /\ Granted' = (Granted \ {t}) \cup Successors(t)
           /\ \A u \in Granted', a \in Addresses : u \notin blocked'[a]
           /\ \A i, j \in DOMAIN unblocked_task_queue' :
                 unblocked_task_queue'[i] = unblocked_task_queue'[j] => i = j
           /\ running' \cap Queued' = {}
           /\ unblocked_task_queue' \in Seq(Tasks)
<1> DEFINE new == {u \in Known \ Granted : WaitsFor(u)' = {}}
<1>1. /\ Known \subseteq Tasks /\ Queued \subseteq Tasks /\ Granted \subseteq Known
      /\ \A a \in Addresses : blocked[a] \subseteq Known
      /\ \A u \in Known \ Granted : \E a \in Addresses : u \in blocked[a]
  BY KnownTasks DEF SchedulerInv
<1>2. PICK s \in Arrangements(new) : unblocked_task_queue' = rest \o s
  BY ReleaseCounts
<1>3. IsFiniteSet(new) /\ new \subseteq Tasks
  <2>1. new \subseteq Tasks
    BY <1>1
  <2> QED
    BY <2>1, TasksAssumption, FS_Subset
<1>4. /\ s \in Seq(new)
      /\ \A x \in new : \E i \in 1..Len(s) : s[i] = x
      /\ \A i, j \in 1..Len(s) : s[i] = s[j] => i = j
  <2> HIDE DEF new
  <2> QED
    BY <1>3, ArrangementIs
<1>5. {s[i] : i \in 1..Len(s)} = new /\ s \in Seq(Tasks) /\ \A i \in 1..Len(s) : s[i] \in new
  <2> HIDE DEF new
  <2> QED
    BY <1>3, <1>4
<1>6. /\ rest \in Seq(Tasks)
      /\ \A i, j \in 1..Len(rest) : rest[i] = rest[j] => i = j
      /\ {rest[i] : i \in 1..Len(rest)} = Queued \ {t}
  BY DEF Remains
<1>7. \A i \in 1..Len(rest), j \in 1..Len(s) : rest[i] # s[j]
  <2>1. \A i \in 1..Len(rest) : rest[i] \in Granted
    BY <1>6 DEF Granted
  <2> QED
    BY <2>1, <1>5
<1>8. /\ rest \o s \in Seq(Tasks) /\ DOMAIN (rest \o s) = 1..Len(rest \o s)
      /\ \A i, j \in 1..Len(rest \o s) : (rest \o s)[i] = (rest \o s)[j] => i = j
      /\ {(rest \o s)[i] : i \in 1..Len(rest \o s)} = {rest[i] : i \in 1..Len(rest)} \cup {s[i] : i \in 1..Len(s)}
  <2>1. rest \in Seq(Tasks) /\ s \in Seq(Tasks)
    BY <1>5, <1>6
  <2>2. /\ \A i, j \in 1..Len(rest) : rest[i] = rest[j] => i = j
        /\ \A i, j \in 1..Len(s) : s[i] = s[j] => i = j
    BY <1>4, <1>6
  <2> QED
    BY ONLY <2>1, <2>2, <1>7, ConcatIs
<1>9. Queued' = (Queued \ {t}) \cup new
  <2> DEFINE q == rest \o s
  <2>1. Queued' = {q[i] : i \in DOMAIN q}
    BY <1>2 DEF Queued
  <2>2. Queued' = {q[i] : i \in 1..Len(q)}
    BY <2>1, <1>8
  <2>3. Queued' = {rest[i] : i \in 1..Len(rest)} \cup {s[i] : i \in 1..Len(s)}
    BY <2>2, <1>8
  <2> HIDE DEF new
  <2> QED
    BY <2>3, <1>5, <1>6
<1>10. \A a \in Addresses : blocked'[a] \subseteq blocked[a] /\ t \notin blocked[a]
  <2> SUFFICES ASSUME NEW a \in Addresses PROVE blocked'[a] \subseteq blocked[a] /\ t \notin blocked[a]
    OBVIOUS
  <2> QED
    BY ReleaseAccount
<1>11. Granted' = (Granted \ {t}) \cup new
  BY <1>9 DEF Granted
<1>12. new = Successors(t)
  <2>1. ASSUME NEW u \in Known \ Granted
        PROVE  WaitsFor(u)' = {} <=> \A a \in Addresses :
                  access[u][a] # "None" => Clear(a, u, Known \ {t}, Granted \ {t})
    <3>1. u # t
      OBVIOUS
    <3>2. ASSUME NEW a \in Addresses
          PROVE  u \in blocked'[a] <=> ~ (access[u][a] # "None" => Clear(a, u, Known \ {t}, Granted \ {t}))
      <4>1. access[u][a] # "None" => (u \in holders'[a] <=> Clear(a, u, Known \ {t}, Granted \ {t}))
        BY <3>1, ReleaseClear
      <4>2. access[u][a] # "None" <=> u \in holders[a] \cup blocked[a]
        BY AccountIs
      <4>3. /\ u \in holders'[a] \cup blocked'[a] <=> u \in holders[a] \cup blocked[a]
            /\ ~ (u \in holders'[a] /\ u \in blocked'[a])
        BY <3>1, ReleaseQueues
      <4> QED
        BY <4>1, <4>2, <4>3
    <3> QED
      BY <3>2 DEF WaitsFor
  <2> QED
    BY <2>1 DEF Successors
<1>13. ASSUME NEW u \in Granted', NEW a \in Addresses PROVE u \notin blocked'[a]
  <2>1. CASE u \in Granted
    BY <2>1, <1>10, AccountIs
  <2>2. CASE u \in new
    BY <2>2 DEF WaitsFor
  <2> QED
    BY <2>1, <2>2, <1>11, <1>13
<1>14. running' \cap Queued' = {}
  <2>1. running \cap Queued = {} /\ running \subseteq Granted
    BY DEF SchedulerInv, GrantedExact, Granted
  <2> QED
    BY <2>1, <1>9
<1>15. Known' = Known \ {t}
  <2>1. Known = Granted \cup UNION {blocked[a] : a \in Addresses}
    BY DEF Known, Granted
  <2>2. Known' = Granted' \cup UNION {blocked'[a] : a \in Addresses}
    BY DEF Known, Granted
  <2>3. Known' \subseteq Known \ {t}
    BY <1>1, <1>10, <1>11, <2>1, <2>2
  <2>4. ASSUME NEW u \in Known \ {t} PROVE u \in Known'
    <3>1. CASE u \in Granted \/ u \in new
      BY <3>1, <1>11, <2>2
    <3>2. CASE u \notin Granted /\ u \notin new
      <4>1. PICK a \in Addresses : u \in blocked'[a]
        BY <3>2 DEF WaitsFor
      <4> QED
        BY <4>1, <2>2
    <3> QED
      BY <3>1, <3>2
  <2> QED
    BY <2>3, <2>4
<1> QED
  BY <1>2, <1>8, <1>11, <1>12, <1>13, <1>14, <1>15

\* The end of a granted task preserves the invariant.
LEMMA ReleaseKeeps ==
    ASSUME SchedulerInv, NEW t \in Granted, NEW rest, Remains(rest, t),
           Release(t, rest), running' = running \ {t}
    PROVE  SchedulerInv'
<1>1. /\ Known' = Known \ {t}
      /\ Granted' = (Granted \ {t}) \cup Successors(t)
      /\ \A u \in Granted', a \in Addresses : u \notin blocked'[a]
      /\ \A i, j \in DOMAIN unblocked_task_queue' :
            unblocked_task_queue'[i] = unblocked_task_queue'[j] => i = j
      /\ running' \cap Queued' = {}
      /\ unblocked_task_queue' \in Seq(Tasks)
  BY ReleaseSets
<1>2. Known \subseteq Tasks /\ Granted \subseteq Known /\ t \in Tasks /\ t \in Known
  BY KnownTasks DEF SchedulerInv
<1>3. /\ limits' = limits /\ stamp' = stamp /\ total_task_count' = total_task_count /\ clearing' = clearing
      /\ access' = [access EXCEPT ![t] = NoAccess]
      /\ active_task_count' = active_task_count - 1
      /\ limits.max_unique = Unlimited => unique_active_task_hashes' = unique_active_task_hashes
      /\ limits.max_unique # Unlimited => 
            unique_active_task_hashes' = unique_active_task_hashes \ {TaskHash[t]}
      /\ panicked' = \/ \E a \in Requested(t) : ~ UnlockAsserts(a, t)
                     \/ limits.max_unique # Unlimited /\ TaskHash[t] \notin unique_active_task_hashes
                     \/ active_task_count = 0
  BY DEF Release
<1>4. SchedulerTypeOK /\ ArrivalsExact /\ CountersExact
  BY DEF SchedulerInv
<1>5. /\ access'[t] = NoAccess /\ \A u \in Tasks \ {t} : access'[u] = access[u]
      /\ \A a \in Addresses : access'[t][a] = "None"
      /\ NoAccess' = NoAccess /\ NoAccess \in [Addresses -> TO!Usages]
  BY <1>2, <1>3, <1>4 DEF SchedulerTypeOK, NoAccess, TO!NoAccess, TO!Usages
<1>6. IsFiniteSet(Known) /\ active_task_count = Cardinality(Known)
      /\ Cardinality(Known \ {t}) = Cardinality(Known) - 1
      /\ IsFiniteSet(Known \ {t}) /\ Cardinality(Known \ {t}) \in Nat /\ Cardinality(Known) \in Nat
  <2>1. IsFiniteSet(Known)
    BY <1>2, TasksAssumption, FS_Subset
  <2>2. IsFiniteSet(Known \ {t}) /\ Cardinality(Known \ {t}) = Cardinality(Known) - 1
    BY <1>2, <2>1, FS_RemoveElement
  <2> QED
    BY <1>4, <2>1, <2>2, FS_CardinalityType DEF CountersExact
<1>7. ~ panicked' /\ panicked' \in BOOLEAN
  <2>1. \A a \in Requested(t) : UnlockAsserts(a, t)
    BY GrantedHolds DEF Requested
  <2>2. active_task_count # 0
    BY <1>6
  <2>3. limits.max_unique # Unlimited => TaskHash[t] \in unique_active_task_hashes
    BY <1>2, <1>4 DEF CountersExact
  <2> QED
    BY <1>3, <2>1, <2>2, <2>3
<1>8. CountsExact' /\ blocked_usage_count' \in [Tasks -> Nat]
  BY ReleaseCounts
<1>9. SchedulerTypeOK'
  <2>1. access' \in [Tasks -> [Addresses -> TO!Usages]]
    BY <1>3, <1>4, <1>5 DEF SchedulerTypeOK
  <2>2. usage' \in [Addresses -> TO!Usages]
    <3>1. \A a \in Addresses : usage'[a] \in {"None", "Readonly", "Writable"}
      BY ReleaseQueues
    <3>2. usage' = [a \in Addresses |-> usage'[a]]
      BY DEF Release, UnlockUsageQueues
    <3> QED
      BY <3>1, <3>2 DEF TO!Usages
  <2>3. holders' \in [Addresses -> SUBSET Tasks] /\ blocked' \in [Addresses -> SUBSET Tasks]
    <3>1. \A a \in Addresses : holders'[a] \subseteq Tasks /\ blocked'[a] \subseteq Tasks
      <4> SUFFICES ASSUME NEW a \in Addresses PROVE holders'[a] \subseteq Tasks /\ blocked'[a] \subseteq Tasks
        OBVIOUS
      <4>1. holders'[a] \cup blocked'[a] = (holders[a] \cup blocked[a]) \ {t}
        BY ReleaseQueues
      <4>2. holders[a] \cup blocked[a] \subseteq Known
        BY AccountIs
      <4> QED
        BY <4>1, <4>2, <1>2
    <3>2. holders' = [a \in Addresses |-> holders'[a]] /\ blocked' = [a \in Addresses |-> blocked'[a]]
      BY DEF Release, UnlockUsageQueues
    <3> QED
      BY <3>1, <3>2
  <2>4. active_task_count' \in Nat
    BY <1>3, <1>6
  <2>5. unique_active_task_hashes' \subseteq {TaskHash[u] : u \in Tasks}
    BY <1>3, <1>4 DEF SchedulerTypeOK
  <2>6. running' \subseteq Tasks
    BY <1>4 DEF SchedulerTypeOK
  <2> QED
    BY <1>1, <1>3, <1>4, <1>7, <1>8, <2>1, <2>2, <2>3, <2>4, <2>5, <2>6 DEF SchedulerTypeOK
<1>10. QueuesExact'
  <2> SUFFICES ASSUME NEW a \in Addresses
               PROVE  holders'[a] \cup blocked'[a] = Users(a)' /\ holders'[a] \cap blocked'[a] = {}
    BY DEF QueuesExact
  <2>1. holders[a] \cup blocked[a] = Users(a)
    BY DEF SchedulerInv, QueuesExact
  <2>2. Users(a)' = Users(a) \ {t}
    BY <1>5 DEF Users
  <2> QED
    BY <2>1, <2>2, ReleaseQueues
<1>11. UsageExact'
  <2> SUFFICES ASSUME NEW a \in Addresses
               PROVE  /\ holders'[a] = {} => blocked'[a] = {}
                      /\ usage'[a] = "None" <=> holders'[a] = {}
                      /\ \A u \in holders'[a] : access'[u][a] = usage'[a]
                      /\ usage'[a] = "Writable" => \A u, v \in holders'[a] : u = v
    BY DEF UsageExact
  <2>1. holders[a] \cup blocked[a] \subseteq Known
    BY AccountIs
  <2>2. holders'[a] \subseteq Tasks \ {t}
    BY <2>1, <1>2, ReleaseQueues
  <2>3. \A u \in holders'[a] : access'[u][a] = access[u][a]
    BY <2>2, <1>5
  <2> QED
    BY <2>3, ReleaseQueues
<1>12. GrantedExact'
  BY <1>1 DEF GrantedExact
<1>13. ArrivalsExact'
  BY <1>1, <1>2, <1>3, <1>4, <1>5 DEF ArrivalsExact
<1>14. CountersExact'
  <2>1. active_task_count' = Cardinality(Known')
    BY <1>1, <1>3, <1>6
  <2>2. clearing' => running' = {}
    BY <1>3, <1>4 DEF CountersExact
  <2>3. CASE limits.max_unique = Unlimited
    BY <1>3, <1>4, <2>1, <2>2, <2>3 DEF CountersExact
  <2>4. CASE limits.max_unique # Unlimited
    <3>1. /\ unique_active_task_hashes = {TaskHash[u] : u \in Known}
          /\ \A u, v \in Known : TaskHash[u] = TaskHash[v] => u = v
      BY <1>4, <2>4 DEF CountersExact
    <3>2. unique_active_task_hashes' = {TaskHash[u] : u \in Known'}
      BY <1>1, <1>2, <1>3, <2>4, <3>1
    <3> QED
      BY <1>1, <1>3, <2>1, <2>2, <2>4, <3>1, <3>2 DEF CountersExact
  <2> QED
    BY <2>3, <2>4
<1>15. HeldExact'
  <2>1. SUFFICES ASSUME NEW a \in Addresses, NEW u \in Known', access'[u][a] # "None"
        PROVE  u \in holders'[a] <=> u \in Granted' \/ Clear(a, u, Known, Granted)'
    BY DEF HeldExact, Clear, Granted
  <2>2. u \in Known \ {t} /\ access[u][a] # "None"
    BY <2>1, <1>1, <1>2, <1>5
  <2>3. u \in holders'[a] <=> u \in Granted \/ Clear(a, u, Known \ {t}, Granted \ {t})
    BY <2>2, ReleaseClear
  <2>4. \A v, w : Before(v, w)' <=> Before(v, w)
    BY <1>3 DEF Before, TO!Before, capability
  <2>5. Clear(a, u, Known, Granted)' <=>
          \A v \in Known \ {t, u} : TO!Clash(access[u][a], access[v][a]) => v \notin Granted' /\ Before(u, v)
    BY <1>1, <1>2, <1>5, <2>2, <2>4 DEF Clear
  <2>6. Clear(a, u, Known \ {t}, Granted \ {t}) <=>
          \A v \in Known \ {t, u} : TO!Clash(access[u][a], access[v][a]) => v \notin Granted /\ Before(u, v)
    BY DEF Clear
  <2>7. CASE u \in Granted'
    <3>1. u \notin blocked'[a]
      BY <1>1, <2>7
    <3>2. u \in holders'[a] \cup blocked'[a]
      BY <2>2, AccountIs, ReleaseQueues
    <3> QED
      BY <2>7, <3>1, <3>2
  <2>8. CASE u \notin Granted'
    <3>1. u \notin Granted
      BY <1>1, <2>2, <2>8
    <3>2. ASSUME Clear(a, u, Known \ {t}, Granted \ {t}), NEW v \in Known \ {t, u},
                 TO!Clash(access[u][a], access[v][a])
          PROVE  v \notin Granted'
      <4>1. Before(u, v) /\ v \notin Granted
        BY <2>6, <3>2
      <4>2. SUFFICES ASSUME v \in Successors(t) PROVE FALSE
        BY <4>1, <1>1
      <4>3. TO!Clash(access[v][a], access[u][a]) /\ access[v][a] # "None"
        BY <3>2, ClashIs
      <4>4. Clear(a, v, Known \ {t}, Granted \ {t})
        BY <4>2, <4>3 DEF Successors
      <4>5. Before(v, u)
        BY <2>2, <3>2, <4>3, <4>4 DEF Clear
      <4> QED
        BY <2>2, <4>1, <4>5, OrderIsTotal
    <3>3. Granted \ {t} \subseteq Granted'
      BY <1>1
    <3> QED
      BY <2>3, <2>5, <2>6, <2>8, <3>1, <3>2, <3>3
  <2> QED
    BY <2>7, <2>8
<1> QED
  BY <1>7, <1>8, <1>9, <1>10, <1>11, <1>12, <1>13, <1>14, <1>15 DEF SchedulerInv, SchedulerNoPanic

(***************************************************************************)
(* The other steps                                                         *)
(***************************************************************************)
\* The buffered tasks without the first one.
LEMMA TailRemains ==
    ASSUME SchedulerInv, unblocked_task_queue # <<>>
    PROVE  /\ Head(unblocked_task_queue) \in Queued /\ Head(unblocked_task_queue) \in Tasks
           /\ Remains(Tail(unblocked_task_queue), Head(unblocked_task_queue))
<1> DEFINE q == unblocked_task_queue
           h == Head(unblocked_task_queue)
           r == Tail(unblocked_task_queue)
<1>1. q \in Seq(Tasks) /\ \A i, j \in DOMAIN q : q[i] = q[j] => i = j
  BY DEF SchedulerInv, SchedulerTypeOK, GrantedExact
<1>2. /\ DOMAIN q = 1..Len(q) /\ Len(q) \in Nat /\ Len(q) # 0 /\ h = q[1]
      /\ r \in Seq(Tasks) /\ Len(r) = Len(q) - 1 /\ \A i \in 1..Len(r) : r[i] = q[i + 1]
  BY <1>1
<1>3. h \in Queued /\ h \in Tasks
  BY <1>1, <1>2 DEF Queued
<1>4. ASSUME NEW i \in 1..Len(r), NEW j \in 1..Len(r), r[i] = r[j] PROVE i = j
  <2>1. i + 1 \in DOMAIN q /\ j + 1 \in DOMAIN q
    BY <1>2
  <2>2. i + 1 = j + 1
    BY <1>1, <1>2, <1>4, <2>1
  <2> QED
    BY <2>2, <1>2
<1>5. ASSUME NEW i \in 1..Len(r) PROVE r[i] \in Queued \ {h}
  <2>1. i + 1 \in DOMAIN q /\ 1 \in DOMAIN q /\ i + 1 # 1
    BY <1>2
  <2> QED
    BY <1>1, <1>2, <2>1 DEF Queued
<1>6. ASSUME NEW x \in Queued \ {h} PROVE \E i \in 1..Len(r) : r[i] = x
  <2>1. PICK i \in DOMAIN q : x = q[i]
    BY DEF Queued
  <2>2. i # 1 /\ i - 1 \in 1..Len(r)
    BY <1>2, <2>1
  <2>3. r[i - 1] = q[(i - 1) + 1] /\ (i - 1) + 1 = i
    BY <1>2, <2>2
  <2> QED
    BY <2>1, <2>2, <2>3
<1> HIDE DEF q, h, r
<1>7. {r[i] : i \in 1..Len(r)} = Queued \ {h}
  BY <1>5, <1>6
<1> QED
  BY <1>2, <1>3, <1>4, <1>7 DEF Remains, q, h, r

\* A task that is with the caller is not buffered.
LEMMA QueueRemains ==
    ASSUME SchedulerInv, NEW t \in running
    PROVE  t \in Granted /\ Remains(unblocked_task_queue, t)
<1>1. /\ unblocked_task_queue \in Seq(Tasks) /\ t \notin Queued
      /\ DOMAIN unblocked_task_queue = 1..Len(unblocked_task_queue)
      /\ \A i, j \in DOMAIN unblocked_task_queue :
            unblocked_task_queue[i] = unblocked_task_queue[j] => i = j
  BY DEF SchedulerInv, SchedulerTypeOK, GrantedExact
<1> QED
  BY <1>1 DEF Remains, Granted, Queued

\* deschedule_task preserves the invariant.
LEMMA DescheduleKeeps ==
    ASSUME SchedulerInv, NEW t \in Tasks, DescheduleTask(t)
    PROVE  SchedulerInv'
<1>1. t \in running /\ running' = running \ {t} /\ Release(t, unblocked_task_queue)
  BY DEF DescheduleTask
<1> QED
  BY <1>1, QueueRemains, ReleaseKeeps

\* A turn of the clearing loop preserves the invariant.
LEMMA ClearOneKeeps ==
    ASSUME SchedulerInv, ClearOne
    PROVE  SchedulerInv'
<1>1. /\ unblocked_task_queue # <<>> /\ running' = running
      /\ Release(Head(unblocked_task_queue), Tail(unblocked_task_queue))
  BY DEF ClearOne
<1>2. Head(unblocked_task_queue) \in Granted /\ running' = running \ {Head(unblocked_task_queue)}
  BY <1>1, TailRemains DEF Granted, SchedulerInv, GrantedExact
<1> QED
  BY <1>1, <1>2, TailRemains, ReleaseKeeps

\* schedule_next_unblocked_task hands out the first buffered task.
LEMMA NextUnblockedKeeps ==
    ASSUME SchedulerInv, ScheduleNextUnblockedTask
    PROVE  /\ SchedulerInv' /\ Granted' = Granted /\ Known' = Known
           /\ Head(unblocked_task_queue) \in Granted \ running
<1> DEFINE h == Head(unblocked_task_queue)
           r == Tail(unblocked_task_queue)
<1>1. /\ running' = running \cup {h} /\ unblocked_task_queue' = r /\ unblocked_task_queue # <<>>
      /\ limits' = limits /\ access' = access /\ stamp' = stamp /\ usage' = usage
      /\ holders' = holders /\ blocked' = blocked /\ blocked_usage_count' = blocked_usage_count
      /\ active_task_count' = active_task_count /\ total_task_count' = total_task_count
      /\ unique_active_task_hashes' = unique_active_task_hashes
      /\ clearing' = clearing /\ ~ clearing /\ panicked' = panicked
  BY DEF ScheduleNextUnblockedTask, queues, counters
<1>2. h \in Queued /\ h \in Tasks /\ Remains(r, h)
  BY <1>1, TailRemains
<1>3. r \in Seq(Tasks) /\ DOMAIN r = 1..Len(r)
  BY <1>2 DEF Remains
<1> HIDE DEF h, r
<1>4. Queued' = Queued \ {h}
  BY <1>1, <1>2, <1>3 DEF Queued, Remains
<1>5. Granted' = Granted /\ Known' = Known /\ h \in Granted \ running
  <2>1. running \cap Queued = {}
    BY DEF SchedulerInv, GrantedExact
  <2>2. Granted' = Granted /\ h \in Granted \ running
    BY <1>1, <1>2, <1>4, <2>1 DEF Granted
  <2>3. Known' = Known
    BY <1>1, <2>2 DEF Known, Granted
  <2> QED
    BY <2>2, <2>3
<1>6. SchedulerTypeOK' /\ SchedulerNoPanic'
  BY <1>1, <1>2, <1>3 DEF SchedulerInv, SchedulerTypeOK, SchedulerNoPanic
<1>7. QueuesExact' /\ UsageExact' /\ CountsExact'
  <2>1. QueuesExact' /\ UsageExact'
    BY <1>1 DEF SchedulerInv, QueuesExact, UsageExact, Users
  <2>2. CountsExact'
    BY <1>1 DEF SchedulerInv, CountsExact, WaitsFor
  <2> QED
    BY <2>1, <2>2
<1>8. GrantedExact'
  <2>1. \A u \in Granted', a \in Addresses : u \notin blocked'[a]
    BY <1>1, <1>5, AccountIs
  <2>2. running' \cap Queued' = {}
    BY <1>1, <1>4 DEF SchedulerInv, GrantedExact
  <2>3. \A i, j \in DOMAIN unblocked_task_queue' :
           unblocked_task_queue'[i] = unblocked_task_queue'[j] => i = j
    BY <1>1, <1>2, <1>3 DEF Remains
  <2> QED
    BY <2>1, <2>2, <2>3 DEF GrantedExact
<1>9. ArrivalsExact' /\ CountersExact'
  <2>1. NoAccess' = NoAccess
    BY DEF NoAccess, TO!NoAccess
  <2> QED
    BY <1>1, <1>5, <2>1 DEF SchedulerInv, ArrivalsExact, CountersExact
<1>10. HeldExact'
  <2>1. \A u, v : Before(u, v)' <=> Before(u, v)
    BY <1>1 DEF Before, TO!Before, capability
  <2> QED
    BY <1>1, <1>5, <2>1 DEF SchedulerInv, HeldExact, Granted
<1> QED
  BY <1>5, <1>6, <1>7, <1>8, <1>9, <1>10 DEF SchedulerInv, h

\* A task that is turned away leaves only its number behind.
LEMMA DropKeeps ==
    ASSUME SchedulerInv, NEW t \in Tasks, DropTask(t)
    PROVE  /\ SchedulerInv' /\ Granted' = Granted /\ Known' = Known
           /\ \A u \in Tasks : stamp[u] < stamp'[t]
<1>1. /\ running' = running /\ unblocked_task_queue' = unblocked_task_queue
      /\ limits' = limits /\ access' = access /\ usage' = usage
      /\ holders' = holders /\ blocked' = blocked /\ blocked_usage_count' = blocked_usage_count
      /\ active_task_count' = active_task_count /\ total_task_count' = total_task_count + 1
      /\ unique_active_task_hashes' = unique_active_task_hashes
      /\ clearing' = clearing /\ ~ clearing /\ panicked' = panicked
      /\ stamp[t] = 0 /\ stamp' = [stamp EXCEPT ![t] = total_task_count']
  BY DEF DropTask, queues
<1>2. SchedulerTypeOK /\ ArrivalsExact /\ t \notin Known /\ Known \subseteq Tasks
  BY <1>1, KnownTasks DEF SchedulerInv, ArrivalsExact
<1>3. /\ total_task_count \in Nat
      /\ \A u \in Tasks : stamp[u] \in Nat /\ stamp[u] <= total_task_count
  BY <1>2 DEF SchedulerTypeOK, ArrivalsExact
<1>4. /\ stamp'[t] = total_task_count + 1 /\ \A u \in Tasks \ {t} : stamp'[u] = stamp[u]
      /\ stamp' \in [Tasks -> Nat] /\ total_task_count' \in Nat
  BY <1>1, <1>2, <1>3 DEF SchedulerTypeOK
<1>5. \A u \in Tasks : stamp[u] < stamp'[t]
  BY <1>3, <1>4
<1>6. Queued' = Queued /\ Granted' = Granted /\ Known' = Known
  BY <1>1 DEF Queued, Granted, Known
<1>7. SchedulerTypeOK' /\ SchedulerNoPanic'
  BY <1>1, <1>2, <1>4 DEF SchedulerInv, SchedulerTypeOK, SchedulerNoPanic
<1>8. QueuesExact' /\ UsageExact' /\ CountsExact' /\ GrantedExact'
  <2>1. QueuesExact' /\ UsageExact'
    BY <1>1 DEF SchedulerInv, QueuesExact, UsageExact, Users
  <2>2. CountsExact'
    BY <1>1 DEF SchedulerInv, CountsExact, WaitsFor
  <2>3. GrantedExact'
    BY <1>1, <1>6 DEF SchedulerInv, GrantedExact
  <2> QED
    BY <2>1, <2>2, <2>3
<1>9. ArrivalsExact'
  <2>1. NoAccess' = NoAccess
    BY DEF NoAccess, TO!NoAccess
  <2>2. \A u \in Tasks \ Known' : access'[u] = NoAccess
    BY <1>1, <1>2, <1>6 DEF ArrivalsExact
  <2>3. \A u \in Known' : stamp'[u] # 0
    BY <1>2, <1>4, <1>6 DEF ArrivalsExact
  <2>4. \A u \in Tasks : stamp'[u] <= total_task_count'
    BY <1>1, <1>3, <1>4
  <2>5. \A u, v \in Tasks : u # v /\ stamp'[u] # 0 => stamp'[u] # stamp'[v]
    BY <1>2, <1>3, <1>4, <1>5 DEF ArrivalsExact
  <2> QED
    BY <2>1, <2>2, <2>3, <2>4, <2>5 DEF ArrivalsExact
<1>10. CountersExact'
  BY <1>1, <1>6 DEF SchedulerInv, CountersExact
<1>11. HeldExact'
  <2>1. \A u, v \in Known : Before(u, v)' <=> Before(u, v)
    BY <1>1, <1>2, <1>4 DEF Before, TO!Before, capability
  <2> QED
    BY <1>1, <1>6, <2>1 DEF SchedulerInv, HeldExact, Granted
<1> QED
  BY <1>5, <1>6, <1>7, <1>8, <1>9, <1>10, <1>11 DEF SchedulerInv

\* When nothing is granted nothing is known: the first known task would hold
\* all its accounts.  This is what lets clear_and_reinitialize empty the machine.
LEMMA NothingLeft ==
    ASSUME SchedulerInv, Granted = {}
    PROVE  Known = {}
<1>1. SUFFICES ASSUME Known # {} PROVE FALSE
  OBVIOUS
<1>2. PICK m \in Known : \A u \in Known \ {m} : Before(m, u)
  BY <1>1, FirstOf
<1>3. PICK a \in Addresses : m \in blocked[a]
  BY KnownTasks DEF SchedulerInv
<1>4. Clear(a, m, Known, Granted)
  BY <1>2 DEF Clear
<1>5. m \in holders[a]
  BY <1>3, <1>4, AccountIs
<1> QED
  BY <1>3, <1>5, UsageIs

\* reinitialize finds the machine empty and leaves it as new.
LEMMA ReinitializeKeeps ==
    ASSUME SchedulerInv, Reinitialize
    PROVE  /\ SchedulerInv' /\ Known = {} /\ Known' = {} /\ Granted = {} /\ Granted' = {}
<1>1. /\ running' = running /\ unblocked_task_queue' = unblocked_task_queue
      /\ limits' = limits /\ access' = access /\ usage' = usage
      /\ holders' = holders /\ blocked' = blocked /\ blocked_usage_count' = blocked_usage_count
      /\ active_task_count' = 0 /\ total_task_count' = 0
      /\ unique_active_task_hashes' = unique_active_task_hashes
      /\ clearing' = FALSE /\ stamp' = [t \in Tasks |-> 0]
      /\ panicked' = \/ active_task_count # 0 \/ unique_active_task_hashes # {}
                     \/ running # {} \/ unblocked_task_queue # <<>>
  BY DEF Reinitialize, queues
<1>2. SchedulerTypeOK /\ CountersExact /\ Known \subseteq Tasks /\ Granted \subseteq Known
  BY KnownTasks DEF SchedulerInv
<1>3. IsFiniteSet(Known) /\ (Cardinality(Known) = 0 <=> Known = {})
  <2>1. IsFiniteSet(Known)
    BY <1>2, TasksAssumption, FS_Subset
  <2> QED
    BY <2>1, FS_EmptySet
<1>4. Known = {}
  <2>1. CASE clearing
    <3>1. unblocked_task_queue = <<>> /\ running = {}
      BY <2>1, <1>2 DEF Reinitialize, CountersExact
    <3>2. Granted = {}
      BY <3>1 DEF Granted, Queued
    <3> QED
      BY <3>2, NothingLeft
  <2>2. CASE ~ clearing
    <3>1. active_task_count = 0
      BY <2>2 DEF Reinitialize
    <3> QED
      BY <3>1, <1>2, <1>3 DEF CountersExact
  <2> QED
    BY <2>1, <2>2
<1>5. Granted = {} /\ running = {} /\ Queued = {}
  BY <1>2, <1>4 DEF Granted
<1>6. unblocked_task_queue = <<>>
  BY <1>5, TailRemains
<1>7. active_task_count = 0 /\ unique_active_task_hashes = {}
  BY <1>2, <1>3, <1>4 DEF CountersExact
<1>8. ~ panicked' /\ panicked' \in BOOLEAN
  BY <1>1, <1>5, <1>6, <1>7
<1>9. Queued' = Queued /\ Granted' = {} /\ Known' = {}
  BY <1>1, <1>4, <1>5 DEF Queued, Granted, Known
<1>10. SchedulerTypeOK' /\ SchedulerNoPanic'
  BY <1>1, <1>2, <1>8 DEF SchedulerTypeOK, SchedulerNoPanic
<1>11. QueuesExact' /\ UsageExact' /\ CountsExact'
  <2>1. QueuesExact' /\ UsageExact'
    BY <1>1 DEF SchedulerInv, QueuesExact, UsageExact, Users
  <2>2. CountsExact'
    BY <1>1 DEF SchedulerInv, CountsExact, WaitsFor
  <2> QED
    BY <2>1, <2>2
<1>12. GrantedExact'
  BY <1>1, <1>5, <1>9 DEF SchedulerInv, GrantedExact
<1>13. ArrivalsExact'
  <2>1. NoAccess' = NoAccess
    BY DEF NoAccess, TO!NoAccess
  <2> QED
    BY <1>1, <1>4, <1>9, <2>1 DEF SchedulerInv, ArrivalsExact
<1>14. CountersExact'
  <2>1. Cardinality(Known') = 0
    BY <1>9, FS_EmptySet
  <2> QED
    BY <1>1, <1>5, <1>7, <1>9, <2>1 DEF CountersExact
<1>15. HeldExact'
  BY <1>9 DEF HeldExact
<1> QED
  BY <1>4, <1>5, <1>9, <1>10, <1>11, <1>12, <1>13, <1>14, <1>15 DEF SchedulerInv

\* Clearing may begin whenever no task is with the caller.
LEMMA BeginClearKeeps ==
    ASSUME SchedulerInv, BeginClear
    PROVE  SchedulerInv' /\ Known' = Known /\ Granted' = Granted
<1>1. /\ running' = running /\ unblocked_task_queue' = unblocked_task_queue
      /\ limits' = limits /\ access' = access /\ stamp' = stamp /\ usage' = usage
      /\ holders' = holders /\ blocked' = blocked /\ blocked_usage_count' = blocked_usage_count
      /\ active_task_count' = active_task_count /\ total_task_count' = total_task_count
      /\ unique_active_task_hashes' = unique_active_task_hashes
      /\ clearing' = TRUE /\ panicked' = panicked /\ running = {}
  BY DEF BeginClear, queues, counters
<1>2. Queued' = Queued /\ Granted' = Granted /\ Known' = Known
  BY <1>1 DEF Queued, Granted, Known
<1>3. \A u, v : Before(u, v)' <=> Before(u, v)
  BY <1>1 DEF Before, TO!Before, capability
<1>4. NoAccess' = NoAccess
  BY DEF NoAccess, TO!NoAccess
<1>5. SchedulerTypeOK' /\ SchedulerNoPanic'
  BY <1>1 DEF SchedulerInv, SchedulerTypeOK, SchedulerNoPanic
<1>6. QueuesExact' /\ UsageExact' /\ CountsExact' /\ GrantedExact'
  <2>1. QueuesExact' /\ UsageExact'
    BY <1>1 DEF SchedulerInv, QueuesExact, UsageExact, Users
  <2>2. CountsExact'
    BY <1>1 DEF SchedulerInv, CountsExact, WaitsFor
  <2>3. GrantedExact'
    BY <1>1, <1>2 DEF SchedulerInv, GrantedExact
  <2> QED
    BY <2>1, <2>2, <2>3
<1>7. ArrivalsExact' /\ CountersExact'
  BY <1>1, <1>2, <1>4 DEF SchedulerInv, ArrivalsExact, CountersExact
<1>8. HeldExact'
  BY <1>1, <1>2, <1>3 DEF SchedulerInv, HeldExact, Granted
<1> QED
  BY <1>2, <1>5, <1>6, <1>7, <1>8 DEF SchedulerInv

\* A new machine satisfies the invariant.
LEMMA InitKeeps ==
    ASSUME Init
    PROVE  SchedulerInv /\ Known = {} /\ Granted = {}
<1>1. Queued = {} /\ Granted = {} /\ Known = {}
  BY DEF Init, Queued, Granted, Known
<1>2. SchedulerTypeOK /\ SchedulerNoPanic
  <2>1. NoAccess \in [Addresses -> TO!Usages] /\ "None" \in TO!Usages
    BY DEF TO!Usages, NoAccess, TO!NoAccess
  <2>2. access \in [Tasks -> [Addresses -> TO!Usages]] /\ usage \in [Addresses -> TO!Usages]
    BY <2>1 DEF Init
  <2>3. /\ holders \in [Addresses -> SUBSET Tasks] /\ blocked \in [Addresses -> SUBSET Tasks]
        /\ stamp \in [Tasks -> Nat] /\ blocked_usage_count \in [Tasks -> Nat]
    BY DEF Init
  <2>4. unblocked_task_queue \in Seq(Tasks)
    BY DEF Init
  <2>5. /\ active_task_count \in Nat /\ total_task_count \in Nat /\ running \subseteq Tasks
        /\ limits \in Limits /\ clearing \in BOOLEAN /\ panicked = FALSE
    BY DEF Init
  <2>6. unique_active_task_hashes \subseteq {TaskHash[t] : t \in Tasks}
    BY DEF Init
  <2> QED
    BY <2>2, <2>3, <2>4, <2>5, <2>6 DEF SchedulerTypeOK, SchedulerNoPanic
<1>3. QueuesExact /\ UsageExact /\ GrantedExact
  BY <1>1 DEF Init, QueuesExact, UsageExact, GrantedExact, Users, NoAccess, TO!NoAccess
<1>4. CountsExact
  <2>1. \A t \in Tasks : WaitsFor(t) = {} /\ blocked_usage_count[t] = 0
    BY DEF Init, WaitsFor
  <2> QED
    BY <2>1, FS_EmptySet DEF CountsExact
<1>5. ArrivalsExact
  BY <1>1 DEF Init, ArrivalsExact
<1>6. CountersExact
  BY <1>1, FS_EmptySet DEF Init, CountersExact
<1>7. HeldExact
  BY <1>1 DEF HeldExact
<1> QED
  BY <1>1, <1>2, <1>3, <1>4, <1>5, <1>6, <1>7 DEF SchedulerInv

\* Every call of the state machine preserves the invariant.
LEMMA NextKeeps ==
    ASSUME SchedulerInv, [Next]_vars
    PROVE  SchedulerInv'
<1>1. ASSUME NEW t \in Tasks, DropTask(t) PROVE SchedulerInv'
  BY <1>1, DropKeeps
<1>2. ASSUME NEW t \in Tasks, DescheduleTask(t) PROVE SchedulerInv'
  BY <1>2, DescheduleKeeps
<1>3. ASSUME NEW t \in Tasks, NEW acc \in Accesses, NEW force \in BOOLEAN,
             ScheduleOrBufferTask(t, acc, force)
      PROVE  SchedulerInv'
  BY <1>3, ScheduleKeeps
<1>4. CASE ScheduleNextUnblockedTask
  BY <1>4, NextUnblockedKeeps
<1>5. CASE BeginClear
  BY <1>5, BeginClearKeeps
<1>6. CASE ClearOne
  BY <1>6, ClearOneKeeps
<1>7. CASE Reinitialize
  BY <1>7, ReinitializeKeeps
<1>8. CASE UNCHANGED vars
  <2>1. /\ running' = running /\ unblocked_task_queue' = unblocked_task_queue
        /\ limits' = limits /\ access' = access /\ stamp' = stamp /\ usage' = usage
        /\ holders' = holders /\ blocked' = blocked /\ blocked_usage_count' = blocked_usage_count
        /\ active_task_count' = active_task_count /\ total_task_count' = total_task_count
        /\ unique_active_task_hashes' = unique_active_task_hashes
        /\ clearing' = clearing /\ panicked' = panicked
    BY <1>8 DEF vars, queues, counters
  <2>2. Queued' = Queued /\ Granted' = Granted /\ Known' = Known
    BY <2>1 DEF Queued, Granted, Known
  <2>3. \A u, v : Before(u, v)' <=> Before(u, v)
    BY <2>1 DEF Before, TO!Before, capability
  <2>4. NoAccess' = NoAccess
    BY DEF NoAccess, TO!NoAccess
  <2>5. SchedulerTypeOK' /\ SchedulerNoPanic'
    BY <2>1 DEF SchedulerInv, SchedulerTypeOK, SchedulerNoPanic
  <2>6. QueuesExact' /\ UsageExact' /\ CountsExact' /\ GrantedExact'
    <3>1. QueuesExact' /\ UsageExact'
      BY <2>1 DEF SchedulerInv, QueuesExact, UsageExact, Users
    <3>2. CountsExact'
      BY <2>1 DEF SchedulerInv, CountsExact, WaitsFor
    <3>3. GrantedExact'
      BY <2>1, <2>2 DEF SchedulerInv, GrantedExact
    <3> QED
      BY <3>1, <3>2, <3>3
  <2>7. ArrivalsExact' /\ CountersExact'
    BY <2>1, <2>2, <2>4 DEF SchedulerInv, ArrivalsExact, CountersExact
  <2>8. HeldExact'
    BY <2>1, <2>2, <2>3 DEF SchedulerInv, HeldExact, Granted
  <2> QED
    BY <2>5, <2>6, <2>7, <2>8 DEF SchedulerInv
<1> QED
  BY <1>1, <1>2, <1>3, <1>4, <1>5, <1>6, <1>7, <1>8 DEF Next

(***************************************************************************)
(* What holds of every run of the state machine                            *)
(***************************************************************************)
\* The invariant holds in every state, whatever the tasks, the accounts they
\* use, the limits, the kind of queueing and the calls the caller makes.
THEOREM SchedulerInvariance == Spec => []SchedulerInv
<1>1. Init => SchedulerInv
  BY InitKeeps
<1>2. SchedulerInv /\ [Next]_vars => SchedulerInv'
  BY NextKeeps
<1> QED
  BY <1>1, <1>2, PTL DEF Spec

\* No assertion of the state machine fails (lib.rs: prepare_lock, try_lock,
\* unlock, push_blocked, deschedule_task, reinitialize); in particular
\* clear_and_reinitialize ends with an empty machine.
THEOREM NeverPanics == Spec => []SchedulerNoPanic
<1>1. SchedulerInv => SchedulerNoPanic
  BY DEF SchedulerInv
<1> QED
  BY <1>1, SchedulerInvariance, PTL

\* A task holds an account exactly when it is granted or clear there: reblocking
\* never makes the queues of two accounts disagree on the order of two tasks.
THEOREM QueuesAgree == Spec => []HeldExact
<1>1. SchedulerInv => HeldExact
  BY DEF SchedulerInv
<1> QED
  BY <1>1, SchedulerInvariance, PTL

\* Two granted tasks never conflict: both would hold an account that one of
\* them writes.
THEOREM GrantedNeverConflict == Spec => []RunnableConflictFree
<1>1. SchedulerInv => RunnableConflictFree
  <2> SUFFICES ASSUME SchedulerInv, NEW t \in Granted, NEW u \in Granted, t # u,
                      NEW a \in Addresses, TO!Clash(access[t][a], access[u][a])
               PROVE  FALSE
    BY DEF RunnableConflictFree, TO!GrantedConflictFree, TO!Conflicts, Granted
  <2>1. t \in holders[a] /\ usage[a] = access[t][a] /\ u \in holders[a] /\ usage[a] = access[u][a]
    BY GrantedHolds, ClashIs
  <2>2. usage[a] = "Writable"
    BY <2>1, ClashIs
  <2> QED
    BY <2>1, <2>2, UsageIs
<1> QED
  BY <1>1, SchedulerInvariance, PTL

(***************************************************************************)
(* The machine implements TaskOrder                                        *)
(***************************************************************************)
\* A task may be granted exactly when it is clear on every account it uses.
LEMMA GrantableIs ==
    ASSUME NEW t, NEW act, NEW gr, gr \subseteq act,
           \A u \in act \ {t} : Before(t, u) <=> ~ Before(u, t)
    PROVE  TO!Grantable(t, act, gr) <=>
             \A a \in Addresses : access[t][a] # "None" => Clear(a, t, act, gr)
<1>1. TO!Grantable(t, act, gr) <=>
        \A u \in act \ {t}, a \in Addresses :
          TO!Clash(access[t][a], access[u][a]) => u \notin gr /\ ~ Before(u, t)
  BY DEF TO!Grantable, TO!Conflicts, Before
<1>2. TO!Grantable(t, act, gr) <=>
        \A a \in Addresses, u \in act \ {t} :
          TO!Clash(access[t][a], access[u][a]) => u \notin gr /\ Before(t, u)
  BY <1>1
<1>3. \A a \in Addresses : access[t][a] = "None" => Clear(a, t, act, gr)
  BY ClashIs DEF Clear
<1> QED
  BY <1>2, <1>3 DEF Clear

\* schedule_or_buffer_task is an arrival.
LEMMA ScheduleArrives ==
    ASSUME SchedulerInv, NEW t \in Tasks, NEW acc \in Accesses, NEW force \in BOOLEAN,
           ScheduleOrBufferTask(t, acc, force)
    PROVE  TO!Arrive(t)
<1>1. /\ Known' = Known \cup {t}
      /\ Granted' = Granted \cup {u \in {t} : \A a \in Addresses : t \notin blocked'[a]}
      /\ \A a \in Addresses : t \in blocked'[a] <=> acc[a] # "None" /\ ~ NewClear(a, t, acc[a])
  BY ScheduleSets
<1>2. /\ \A u \in Known : (Before(t, u)' <=> Passes(t, u)) /\ (Before(u, t)' <=> ~ Passes(t, u))
      /\ \A u \in Tasks : stamp[u] < stamp'[t]
      /\ access'[t] = acc /\ \A u \in Tasks \ {t} : access'[u] = access[u]
  BY ScheduleOrder
<1>3. /\ t \notin Known /\ stamp[t] = 0 /\ acc \in [Addresses -> {"None", "Readonly", "Writable"}]
      /\ Known \subseteq Tasks /\ Granted \subseteq Known
  BY ScheduleEffect, KnownTasks DEF SchedulerInv
<1>4. /\ stamp' = [stamp EXCEPT ![t] = stamp'[t]] /\ access' = [access EXCEPT ![t] = access'[t]]
      /\ limits' = limits
  BY DEF ScheduleOrBufferTask, SchedulerInv, SchedulerTypeOK
<1>5. TO!Grantable(t, Known, Granted)' <=> \A a \in Addresses : t \notin blocked'[a]
  <2>1. TO!Grantable(t, Known, Granted)' <=>
          \A a \in Addresses, u \in Known :
            TO!Clash(acc[a], access[u][a]) => u \notin Granted' /\ ~ Before(u, t)'
    <3>1. \A u : u \in Known' \ {t} <=> u \in Known
      BY <1>1, <1>3
    <3>2. \A u \in Known : access'[u] = access[u]
      BY <1>2, <1>3
    <3>3. Granted' \ {t} \subseteq Known
      BY <1>1, <1>3
    <3>4. TO!Grantable(t, Known, Granted)' <=>
            /\ \A u \in Granted' \ {t}, a \in Addresses : ~ TO!Clash(access'[t][a], access'[u][a])
            /\ \A u \in Known' \ {t} : Before(u, t)' =>
                 \A a \in Addresses : ~ TO!Clash(access'[t][a], access'[u][a])
      BY DEF TO!Grantable, TO!Conflicts, Before
    <3> QED
      BY <1>2, <1>3, <3>1, <3>2, <3>3, <3>4
  <2>2. \A u \in Known : u \in Granted' <=> u \in Granted
    BY <1>1, <1>3
  <2>3. TO!Grantable(t, Known, Granted)' <=> \A a \in Addresses : NewClear(a, t, acc[a])
    BY <1>2, <2>1, <2>2 DEF NewClear
  <2>4. \A a \in Addresses : acc[a] = "None" => NewClear(a, t, acc[a])
    BY ClashIs DEF NewClear
  <2> QED
    BY <1>1, <2>3, <2>4
<1>6. Granted' = Granted \cup {u \in {t} : TO!Grantable(t, Known, Granted)'}
  BY <1>1, <1>5
<1>7. running' \in {running, running \cup (Granted' \cap {t})}
  <2>1. running' = running \/ running' = running \cup {t}
    BY ScheduleHands DEF SchedulerInv
  <2>2. running' = running \cup {t} => t \in Granted'
    BY DEF Granted
  <2> QED
    BY <2>1, <2>2
<1>8. capability' = capability
  BY <1>4 DEF capability
<1>9. access'[t] \in [Addresses -> TO!Usages]
  BY <1>2, <1>3 DEF TO!Usages
<1> QED
  BY <1>1, <1>2, <1>3, <1>4, <1>6, <1>7, <1>8, <1>9 DEF TO!Arrive, TO!Stamped, Granted

\* The end of a task grants what the abstract specification grants.
LEMMA ReleaseGrants ==
    ASSUME SchedulerInv, NEW t \in Granted, NEW rest, Remains(rest, t),
           Release(t, rest), running' = running \ {t}
    PROVE  /\ Known' = Known \ {t}
           /\ Granted' = (Granted \ {t}) \cup
                {u \in Known \ {t} : TO!Grantable(u, Known \ {t}, Granted \ {t})}
           /\ access' = [access EXCEPT ![t] = NoAccess]
           /\ stamp' = stamp /\ capability' = capability
<1>1. Known' = Known \ {t} /\ Granted' = (Granted \ {t}) \cup Successors(t)
  BY ReleaseSets
<1>2. Granted \subseteq Known
  BY KnownTasks DEF SchedulerInv
<1>3. ASSUME NEW u \in Known \ {t}
      PROVE  TO!Grantable(u, Known \ {t}, Granted \ {t}) <=>
               \A a \in Addresses : access[u][a] # "None" => Clear(a, u, Known \ {t}, Granted \ {t})
  <2>1. \A v \in (Known \ {t}) \ {u} : Before(u, v) <=> ~ Before(v, u)
    BY OrderIsTotal
  <2>2. Granted \ {t} \subseteq Known \ {t}
    BY <1>2
  <2> QED
    BY <2>1, <2>2, GrantableIs
<1>4. \A u \in Known \ Granted : u \in Successors(t) <=> TO!Grantable(u, Known \ {t}, Granted \ {t})
  BY <1>3 DEF Successors
<1>5. Granted' = (Granted \ {t}) \cup
                {u \in Known \ {t} : TO!Grantable(u, Known \ {t}, Granted \ {t})}
  BY <1>1, <1>2, <1>4 DEF Successors
<1>6. access' = [access EXCEPT ![t] = NoAccess] /\ stamp' = stamp /\ capability' = capability
  BY DEF Release, capability
<1> QED
  BY <1>1, <1>5, <1>6

\* Every call of the state machine is a step of TaskOrder, or none.
LEMMA StepsImplement ==
    ASSUME SchedulerInv, [Next]_vars
    PROVE  [TO!Next]_(TO!taskVars)
<1>1. ASSUME NEW t \in Tasks, DropTask(t) PROVE TO!TurnAway(t)
  <2>1. Granted' = Granted /\ Known' = Known /\ \A u \in Tasks : stamp[u] < stamp'[t]
    BY <1>1, DropKeeps
  <2>2. /\ stamp[t] = 0 /\ stamp' = [stamp EXCEPT ![t] = stamp'[t]]
        /\ access' = access /\ running' = running /\ capability' = capability
    BY <1>1 DEF DropTask, capability, SchedulerInv, SchedulerTypeOK
  <2> QED
    BY <2>1, <2>2 DEF TO!TurnAway, TO!Stamped, Granted
<1>2. ASSUME NEW t \in Tasks, DescheduleTask(t) PROVE TO!Finish(t)
  <2>1. t \in running /\ running' = running \ {t} /\ Release(t, unblocked_task_queue)
    BY <1>2 DEF DescheduleTask
  <2>2. t \in Granted /\ Remains(unblocked_task_queue, t)
    BY <2>1, QueueRemains
  <2>3. /\ Known' = Known \ {t}
        /\ Granted' = (Granted \ {t}) \cup
             {u \in Known \ {t} : TO!Grantable(u, Known \ {t}, Granted \ {t})}
        /\ access' = [access EXCEPT ![t] = NoAccess]
        /\ stamp' = stamp /\ capability' = capability
    BY <2>1, <2>2, ReleaseGrants
  <2> QED
    BY <2>1, <2>3 DEF TO!Finish, Granted, NoAccess
<1>3. ASSUME NEW t \in Tasks, NEW acc \in Accesses, NEW force \in BOOLEAN,
             ScheduleOrBufferTask(t, acc, force)
      PROVE  TO!Arrive(t)
  BY <1>3, ScheduleArrives
<1>4. ASSUME ScheduleNextUnblockedTask PROVE \E t \in Tasks : TO!Start(t)
  <2>1. Granted' = Granted /\ Known' = Known /\ Head(unblocked_task_queue) \in Granted \ running
    BY <1>4, NextUnblockedKeeps
  <2>2. /\ running' = running \cup {Head(unblocked_task_queue)}
        /\ access' = access /\ stamp' = stamp /\ capability' = capability
    BY <1>4 DEF ScheduleNextUnblockedTask, capability
  <2>3. Head(unblocked_task_queue) \in Tasks
    BY <2>1, KnownTasks DEF SchedulerInv
  <2>4. TO!Start(Head(unblocked_task_queue))
    BY <2>1, <2>2 DEF TO!Start, Granted
  <2> QED
    BY <2>3, <2>4
<1>5. ASSUME BeginClear PROVE UNCHANGED TO!taskVars
  <2>1. Known' = Known /\ Granted' = Granted
    BY <1>5, BeginClearKeeps
  <2>2. access' = access /\ stamp' = stamp /\ capability' = capability /\ running' = running
    BY <1>5 DEF BeginClear, capability
  <2> QED
    BY <2>1, <2>2 DEF TO!taskVars, Granted
<1>6. ASSUME ClearOne PROVE \E t \in Tasks : TO!Discard(t)
  <2> DEFINE h == Head(unblocked_task_queue)
  <2>1. /\ unblocked_task_queue # <<>> /\ running' = running
        /\ Release(h, Tail(unblocked_task_queue))
    BY <1>6 DEF ClearOne
  <2>2. h \in Queued /\ h \in Tasks /\ Remains(Tail(unblocked_task_queue), h)
    BY <2>1, TailRemains
  <2>3. h \in Granted \ running /\ running' = running \ {h}
    BY <2>1, <2>2 DEF Granted, SchedulerInv, GrantedExact
  <2>4. /\ Known' = Known \ {h}
        /\ Granted' = (Granted \ {h}) \cup
             {u \in Known \ {h} : TO!Grantable(u, Known \ {h}, Granted \ {h})}
        /\ access' = [access EXCEPT ![h] = NoAccess]
        /\ stamp' = stamp /\ capability' = capability
    BY <2>1, <2>2, <2>3, ReleaseGrants
  <2> HIDE DEF h
  <2>5. TO!Discard(h)
    BY <2>1, <2>3, <2>4 DEF TO!Discard, Granted, NoAccess
  <2> QED
    BY <2>2, <2>5
<1>7. ASSUME Reinitialize PROVE TO!Renew
  <2>1. Known = {} /\ Known' = {} /\ Granted = {} /\ Granted' = {}
    BY <1>7, ReinitializeKeeps
  <2>2. /\ stamp' = [t \in Tasks |-> 0]
        /\ access' = access /\ capability' = capability /\ running' = running
    BY <1>7 DEF Reinitialize, capability
  <2> QED
    BY <2>1, <2>2 DEF TO!Renew, Granted
<1>8. ASSUME UNCHANGED vars PROVE UNCHANGED TO!taskVars
  BY <1>8 DEF vars, queues, counters, TO!taskVars, Known, Queued, capability
<1> QED
  BY <1>1, <1>2, <1>3, <1>4, <1>5, <1>6, <1>7, <1>8 DEF Next, TO!Next

\* The state machine implements TaskOrder: with its queues, its reblocking and
\* its counters it hands out exactly the tasks that may be handed out, in the
\* order of arrival or of priority.
THEOREM ImplementsTaskOrder == Spec => OrderImplemented
<1>1. Init => TO!Init
  <2> SUFFICES ASSUME Init PROVE TO!Init
    OBVIOUS
  <2>1. Known = {} /\ Granted = {}
    BY InitKeeps
  <2>2. capability \in {"FifoQueueing", "PriorityQueueing"}
    BY LimitsAssumption DEF Init, capability
  <2> QED
    BY <2>1, <2>2 DEF Init, TO!Init, Granted, NoAccess
<1>2. SchedulerInv /\ [Next]_vars => [TO!Next]_(TO!taskVars)
  BY StepsImplement
<1> QED
  BY <1>1, <1>2, SchedulerInvariance, PTL DEF Spec, OrderImplemented, TO!Spec
=============================================================================
