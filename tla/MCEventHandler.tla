--------------------------- MODULE MCEventHandler ---------------------------
(***************************************************************************)
(* Small block trees and event sets for the event handler: two windows.   *)
(***************************************************************************)
EXTENDS EventHandler

g0 == [slot |-> 0, id |-> 0]
a1 == [slot |-> 1, id |-> 1]
c1 == [slot |-> 1, id |-> 2]

Fresh == {NewHistory(0)}
NoHistories == {}

\* Windows of three slots, so that a root can fall in the middle of one: a chain
\* a1, a3, b4 over two windows, and competing blocks c1 and c3.
a3 == [slot |-> 3, id |-> 1]
c3 == [slot |-> 3, id |-> 2]
b4 == [slot |-> 4, id |-> 1]
ForkBlocks == {g0, a1, c1, a3, c3, b4}
ForkParentOf == [b \in ForkBlocks |-> CASE b \in {a3, c3} -> a1 [] b = b4 -> a3 [] OTHER -> g0]

\* A history saved after the block a3 was rooted.
Rooted == [NewHistory(3) EXCEPT
              !.voted = {3}, !.voted_notar = {a3}, !.notarized_blocks = {a3},
              !.votes_cast = {BlockVote("Notarize", a3)}, !.parent_ready = {<<3, a1>>}]
StartHistories == {NewHistory(0), Rooted}

ForkInputs ==
    [blocks |-> {a1, a3, c3, b4}, notarized |-> {a3},
     ready |-> {<<3, a1>>}, shreds |-> {},
     safe_to_notar |-> {c3}, safe_to_skip |-> {4}, finalized |-> {a3, b4},
     standstill |-> FALSE, set_identity |-> TRUE]

\* The same tree with a second ready parent of slot 3: replay is asked to switch
\* between the versions of slot 1 while later blocks are rooted.
BankInputs ==
    [blocks |-> {a1, c1, a3, b4}, notarized |-> {}, ready |-> {<<3, a1>>, <<3, c1>>}, shreds |-> {},
     safe_to_notar |-> {}, safe_to_skip |-> {}, finalized |-> {a3, b4},
     standstill |-> FALSE, set_identity |-> FALSE]

\* Shreds of slot 3, which hold back the skips for a crashed leader, and a
\* standstill, while slot 3 is voted, skipped, switched to another version and
\* rooted.
ShredInputs ==
    [blocks |-> {a1, a3, c3}, notarized |-> {a3}, ready |-> {<<3, a1>>}, shreds |-> {3},
     safe_to_notar |-> {c3}, safe_to_skip |-> {3}, finalized |-> {a1, a3},
     standstill |-> TRUE, set_identity |-> TRUE]

HandlerInputs == {ForkInputs, BankInputs, ShredInputs}

\* Joining, with windows of two slots: the node sees the second slot of a window
\* finalized, and not its start.
b2 == [slot |-> 2, id |-> 1]
d3 == [slot |-> 3, id |-> 1]
JoinBlocks == {g0, a1, b2, d3}
JoinParentOf == [b \in JoinBlocks |-> CASE b = b2 -> a1 [] b = d3 -> b2 [] OTHER -> g0]
JoinInputs ==
    {[blocks |-> {a1, b2, d3}, notarized |-> {}, ready |-> {<<1, g0>>}, shreds |-> {},
      safe_to_notar |-> {}, safe_to_skip |-> {}, finalized |-> {d3},
      standstill |-> FALSE, set_identity |-> FALSE]}

=============================================================================
