---------------------------- MODULE LeaderWindows ----------------------------
(***************************************************************************)
(* Slots and leader windows (runtime/src/leader_schedule_utils.rs): a      *)
(* leader owns NUM_CONSECUTIVE_LEADER_SLOTS consecutive slots.             *)
(***************************************************************************)
EXTENDS Integers

CONSTANTS
    MaxSlot,       \* bound: the highest slot of an instance
    WindowSize     \* NUM_CONSECUTIVE_LEADER_SLOTS, 4 in the code

ASSUME MaxSlotAssumption == MaxSlot \in Nat \ {0}
ASSUME WindowSizeAssumption == WindowSize \in Nat \ {0}

Slots == 0..MaxSlot

\* leader_slot_index(slot) = 0, also written slot.is_multiple_of(...)
FirstOfWindow(s) == s % WindowSize = 0

\* first_of_consecutive_leader_slots
FirstSlot(s) == (s \div WindowSize) * WindowSize

\* last_of_consecutive_leader_slots
LastSlot(s) == FirstSlot(s) + WindowSize - 1

MaxOf(a, b) == IF a >= b THEN a ELSE b
MinOf(a, b) == IF a <= b THEN a ELSE b

=============================================================================
