------------------------------ MODULE AbstractLog ------------------------------
(***************************************************************************)
(* What the logger promises its callers: a line that is accepted comes out *)
(* once and in order, one that is refused is refused because many are      *)
(* pending, and is counted in a report.  Only a logger that was stopped    *)
(* forgets.                                                                *)
(***************************************************************************)
EXTENDS Integers, Sequences

CONSTANTS Lines,     \* the messages
          Capacity   \* pending lines from which one may be refused

VARIABLES pending,     \* accepted lines, oldest first
          unreported,  \* refused lines no report has counted
          output,      \* lines and reports that came out
          running

vars == <<pending, unreported, output, running>>

Init == pending = <<>> /\ unreported = 0 /\ output = <<>> /\ running = TRUE

Accept ==
    /\ \E m \in Lines : pending' = Append(pending, m)
    /\ UNCHANGED <<unreported, output, running>>

Refuse ==
    /\ Len(pending) >= Capacity
    /\ unreported' = unreported + 1
    /\ UNCHANGED <<pending, output, running>>

Emit ==
    /\ running /\ pending # <<>>
    /\ output' = Append(output, Head(pending))
    /\ pending' = Tail(pending)
    /\ UNCHANGED <<unreported, running>>

ReportRefused ==
    /\ running
    /\ \E n \in 1..unreported :
        /\ output' = Append(output, [lost |-> n])
        /\ unreported' = unreported - n
    /\ UNCHANGED <<pending, running>>

Halt == running /\ running' = FALSE /\ UNCHANGED <<pending, unreported, output>>

Forget ==
    /\ ~running
    /\ pending' \in {pending, <<>>} /\ unreported' \in {unreported, 0}
    /\ UNCHANGED <<output, running>>

Resume == ~running /\ running' = TRUE /\ UNCHANGED <<pending, unreported, output>>

Next == Accept \/ Refuse \/ Emit \/ ReportRefused \/ Halt \/ Forget \/ Resume

Spec == Init /\ [][Next]_vars
=============================================================================
