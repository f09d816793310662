----------------------------- MODULE MCTimers -----------------------------
(***************************************************************************)
(* Durations for the timers: delta_timeout doubles with the second window  *)
(* and again with the third, instead of growing by 5% each.                *)
(***************************************************************************)
EXTENDS Timers

Doubling == [n \in 0..MaxSlot |-> IF n = 0 THEN 3 ELSE IF n = 1 THEN 6 ELSE 12]
NoStandstill == {}
=============================================================================
