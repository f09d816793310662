---------------------- MODULE MCSchedulingStateMachine ----------------------
(***************************************************************************)
(* Instances of SchedulingStateMachine for TLC.                            *)
(***************************************************************************)
EXTENDS SchedulingStateMachine

CONSTANTS a1, a2

\* Tasks 3 and 4 are the same transaction.
MCTaskHash == [t \in Tasks |-> IF t = 4 THEN 3 ELSE t]

\* FIFO queueing as block verification uses it, and priority queueing with
\* both limits.
MCLimits ==
  {[capability |-> "FifoQueueing", max_running |-> Unlimited, max_unique |-> Unlimited],
   [capability |-> "PriorityQueueing", max_running |-> 2, max_unique |-> 3]}

\* The ways to use the accounts: one or both, read or written.  Two of the eight
\* are left out to bound the run: what they ask for, the others ask for with the
\* accounts exchanged.
MCAccesses ==
  [Addresses -> TO!Usages] \ {NoAccess,
     [a \in Addresses |-> IF a = a1 THEN "Writable" ELSE "Readonly"],
     [a \in Addresses |-> IF a = a1 THEN "None" ELSE "Readonly"]}
=============================================================================
