------------------------- MODULE MCBlockCreationLoop -------------------------
(***************************************************************************)
(* Windows of two slots, the first ours.  Two transactions race, with and  *)
(* without indexes, for a window that starts on slot 1 or after a skip;    *)
(* one is there when slot 1 has two versions and the next window is ours   *)
(* too, under the first identity or, with a change of identity at any      *)
(* time, under either.                                                     *)
(***************************************************************************)
EXTENDS BlockCreationLoop

MCStarts ==
  {[own |-> {2}, second |-> {}, calls |-> FALSE, others |-> {Block(0, 0), Block(1, 1)},
    track |-> t, pending |-> {1, 2}] : t \in BOOLEAN}
  \cup {[own |-> {2, 4}, second |-> w, calls |-> TRUE, others |-> {Block(1, 1), Block(1, 2)},
         track |-> FALSE, pending |-> {1}] : w \in {{}, {4}}}
=============================================================================
