------------------------- MODULE MCSchedulerSessions -------------------------
(***************************************************************************)
(* Instance of SchedulerSessions for TLC.                                  *)
(***************************************************************************)
EXTENDS SchedulerSessions

CONSTANTS b1, b2

\* Transactions 1 and 2 of the first bank conflict.
MCBankOf == [t \in Tasks |-> IF t <= 2 THEN b1 ELSE b2]
MCAccess == [t \in Tasks |-> [a \in Addresses |-> "Writable"]]

\* Bound: a second timeout comes only while the second bank has not been started.
InBounds == fired > 1 => replay[b2] = "New"
=============================================================================
