------------------------------ MODULE AbstractBulk ------------------------------
(***************************************************************************)
(* What the bulk memory operations of gf256.h promise: each treats the     *)
(* first bytes of its buffers element by element, in the field, and leaves *)
(* everything else alone.                                                  *)
(***************************************************************************)
EXTENDS Integers, Sequences

CONSTANTS Elements, Buffers, Size,                 \* Size: bytes of a buffer
          Plus(_, _), Times(_, _), Quotient(_, _)  \* the field

VARIABLES data,    \* contents of the buffers
          request  \* the operation that was asked for

vars == <<data, request>>

Idle == [op |-> "none"]

Places == 0..(Size - 1)
Memories == [Buffers -> [Places -> Elements]]

Requests ==
    [op : {"add", "add2", "addset", "mul", "muladd", "div", "swap"},
     z : Buffers, x : Buffers, y : Buffers, c : Elements, bytes : 0..Size]

\* What operation r makes of place i of its destination z.
Value(mem, r, i) ==
    CASE r.op = "add"    -> Plus(mem[r.z][i], mem[r.x][i])
      [] r.op = "add2"   -> Plus(mem[r.z][i], Plus(mem[r.x][i], mem[r.y][i]))
      [] r.op = "addset" -> Plus(mem[r.x][i], mem[r.y][i])
      [] r.op = "mul"    -> Times(mem[r.x][i], r.c)
      [] r.op = "muladd" -> Plus(mem[r.z][i], Times(mem[r.x][i], r.c))
      [] r.op = "div"    -> Quotient(mem[r.x][i], r.c)
      [] r.op = "swap"   -> mem[r.x][i]

\* The memory after the places below n were treated.
Treated(mem, r, n) ==
    LET z == [i \in Places |-> IF i < n THEN Value(mem, r, i) ELSE mem[r.z][i]]
        x == [i \in Places |-> IF i < n THEN mem[r.z][i] ELSE mem[r.x][i]]
    IN  IF r.op = "swap" THEN [mem EXCEPT ![r.z] = z, ![r.x] = x]
                         ELSE [mem EXCEPT ![r.z] = z]

Init == data \in Memories /\ request = Idle

\* A client writes its buffers and asks for an operation on them.
Ask ==
    /\ request = Idle
    /\ data' \in Memories
    /\ request' \in Requests

Answer ==
    /\ request # Idle
    /\ data' = Treated(data, request, request.bytes)
    /\ request' = Idle

Next == Ask \/ Answer

\* An operation that was asked for returns.
Spec == Init /\ [][Next]_vars /\ []<>(request = Idle)
=============================================================================
