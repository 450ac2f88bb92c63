------------------------------ MODULE AbstractHeap ------------------------------
(***************************************************************************)
(* What the packet allocator promises its client, without windows, lists   *)
(* or scans: a block is a set of memory cells, one of them for the         *)
(* allocator's own header, and no two blocks share a cell.                 *)
(***************************************************************************)
EXTENDS Integers, FiniteSets

CONSTANTS
    Blocks,     \* names of blocks
    CellBytes   \* bytes in a cell

VARIABLES
    asked,      \* bytes the client may use in a block, or NotHeld
    cells       \* the cells of a block; none when it is not held

absVars == <<asked, cells>>

NotHeld == -1

Taken == {b \in Blocks : asked[b] # NotHeld}
Room(b) == (Cardinality(cells[b]) - 1) * CellBytes

\* b gets cells of its own, apart from those of every block held before.
Placed(b, n) ==
    /\ \A other \in Blocks : cells'[b] \cap cells[other] = {}
    /\ n <= Room(b)'

OnlyChanges(touched) ==
    \A b \in Blocks \ touched : asked'[b] = asked[b] /\ cells'[b] = cells[b]

Init ==
    /\ asked = [b \in Blocks |-> NotHeld]
    /\ cells = [b \in Blocks |-> {}]

Acquire(b, n) ==
    /\ asked[b] = NotHeld /\ asked'[b] = n
    /\ Placed(b, n)
    /\ OnlyChanges({b})

Release(b) ==
    /\ asked[b] # NotHeld /\ asked'[b] = NotHeld
    /\ cells'[b] = {}
    /\ OnlyChanges({b})

\* Grown or cut down where it is.
Keep(b, n) ==
    /\ asked[b] # NotHeld /\ asked'[b] = n
    /\ cells'[b] \subseteq cells[b]
    /\ n <= Room(b)'
    /\ OnlyChanges({b})

\* The data is copied between the two, so they are apart.
Move(b, to, n) ==
    /\ asked[b] # NotHeld /\ asked'[b] = NotHeld /\ cells'[b] = {}
    /\ asked[to] = NotHeld /\ asked'[to] = n
    /\ Placed(to, n)
    /\ OnlyChanges({b, to})

End == \A b \in Blocks : asked'[b] = NotHeld /\ cells'[b] = {}

Next ==
    \/ \E b \in Taken :
        \/ Release(b)
        \/ asked'[b] # NotHeld /\ Keep(b, asked'[b])
        \/ \E to \in Blocks \ Taken : asked'[to] # NotHeld /\ Move(b, to, asked'[to])
    \/ \E b \in Blocks \ Taken : asked'[b] # NotHeld /\ Acquire(b, asked'[b])
    \/ End

Spec == Init /\ [][Next]_absVars
=============================================================================
