--------------------------- MODULE MCVotorThreads ---------------------------
(***************************************************************************)
(* Kinds of pool events for the thread model.                              *)
(***************************************************************************)
EXTENDS VotorThreads

AllKinds == {"ParentReady", "ProduceWindow", "Notarized", "Finalized", "SafeTo"}
=============================================================================
