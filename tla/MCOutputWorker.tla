----------------------------- MODULE MCOutputWorker -----------------------------
(* Small instances of OutputWorker for TLC: which thread makes which calls. *)
EXTENDS OutputWorker, TLC

CONSTANTS a, b, c

\* A writer, a thread that logs and flushes, one that flushes and stops.
Shared == a :> {"Write"} @@ b :> {"Write", "Flush"} @@ c :> {"Flush", "Stop"}

\* One thread logs and restarts the logger, another stops it under its feet.
\* (Only the thread that starts it logs: Start clears the queue without its lock.)
Restarted == a :> {"Write", "Flush", "Stop", "Start"} @@ b :> {"Flush", "Stop"}

\* A logger that runs: writers, one of which flushes.
Running == a :> {"Write"} @@ b :> {"Write", "Flush"}

\* Two threads that log and flush.
Flushing == a :> {"Write", "Flush"} @@ b :> {"Write", "Flush"}
=============================================================================
