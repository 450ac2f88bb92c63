------------------------------ MODULE OutputWorker ------------------------------
(***************************************************************************)
(* The background logger of Logger.h and Logger.cpp: any thread writes,    *)
(* flushes, stops and starts; one worker thread prints.                    *)
(*                                                                         *)
(* Every section under QueueLock is one step: what another thread can      *)
(* change without that lock (Terminated, and all of it in Start) commutes  *)
(* with the rest of the section.  Start's accesses without the lock are    *)
(* steps of their own.  A condition variable is the set of the threads     *)
(* whose control is at its wait.  Wording, prefixes and the Windows        *)
(* branches are left out.                                                  *)
(***************************************************************************)
EXTENDS Integers, Sequences, FiniteSets, Functions

CONSTANTS
    Callers,          \* the threads of the application
    May,              \* what each of them calls: see Calls
    Levels,           \* the levels they log at
    kWorkQueueLimit,  \* queue length from which Write drops or flushes
    NeverDrop,        \* built with LOGGER_NEVER_DROP
    FlushErrors,      \* built with LOGGER_FLUSH_ERRORS
    SpuriousWakeups,  \* the condition variables may wake for no reason
    MaxCalls,         \* bound: calls of one thread
    NoOne             \* no holder of a lock

Calls == {"Write", "Flush", "Stop", "Start"}

ASSUME CallersAssumption == IsFiniteSet(Callers) /\ NoOne \notin Callers
ASSUME MayAssumption == May \in [Callers -> SUBSET Calls]
ASSUME LimitAssumption == kWorkQueueLimit \in Nat /\ kWorkQueueLimit > 0
ASSUME BuildAssumption == {NeverDrop, FlushErrors, SpuriousWakeups} \subseteq BOOLEAN
ASSUME BoundAssumption == MaxCalls \in Nat

VARIABLES
    QueuePublic, QueuePrivate, Overrun, FlushRequested, Terminated,
    Thread,           \* there is a std::thread object
    startStopLock,    \* the holder of StartStopLock
    worker,           \* control of the worker thread
    overrun, flushRequested,   \* locals of Loop
    pc,               \* control of each caller
    after,            \* where the Flush of a caller returns to
    msg,              \* the LogStringBuffer of a caller
    calls,            \* calls made by each caller
    output,           \* what reached stdout
    sent,             \* messages that passed Write
    owed              \* messages that were queued when a Flush began to wait

object == <<QueuePublic, QueuePrivate, Overrun, FlushRequested, Terminated>>
locks == <<Thread, startStopLock>>
locals == <<worker, overrun, flushRequested>>
buffers == <<msg, calls>>
history == <<output, sent, owed>>
vars == <<object, locks, locals, pc, after, buffers, history>>

Message == [from : Callers, number : 1..MaxCalls, level : Levels]
Report == [lost : Nat \ {0}]
IsMessage(line) == "from" \in DOMAIN line

\* Messages accepted and not printed, oldest first.
Pending == QueuePrivate \o QueuePublic

-----------------------------------------------------------------------------
(* Notifications *)

\* QueueCondition.notify_all(): only the worker waits on it.
Notified(w) == IF w = "waiting" THEN "woken" ELSE w

\* FlushCondition.notify_all()
FlushersWoken(control) ==
    [t \in Callers |-> IF control[t] = "flush_wait" THEN "flush_woken" ELSE control[t]]

Goto(t, label) == pc' = [pc EXCEPT ![t] = label]
At(t, label) == pc[t] = label

\* Flush() is called from t, which goes on at `back` when it returns.
EnterFlush(t, back) ==
    /\ Goto(t, "flush")
    /\ after' = [after EXCEPT ![t] = back]

LeaveFlush(t) ==
    /\ Goto(t, after[t])
    /\ after' = [after EXCEPT ![t] = "idle"]

Begin(t, call) ==
    /\ At(t, "idle") /\ call \in May[t]
    /\ calls[t] < MaxCalls /\ calls' = [calls EXCEPT ![t] = @ + 1]

-----------------------------------------------------------------------------
(* Write *)

FlushesAround(m) == FlushErrors /\ ~NeverDrop /\ m.level = "Error"

\* Channel::Log, and Channel::Error with its flush in front.
CallWrite(t) ==
    /\ Begin(t, "Write")
    /\ \E level \in Levels :
        LET m == [from |-> t, number |-> calls[t] + 1, level |-> level]
        IN  /\ msg' = [msg EXCEPT ![t] = m]
            /\ IF FlushesAround(m) THEN EnterFlush(t, "write")
               ELSE Goto(t, "write") /\ UNCHANGED after
    /\ UNCHANGED <<object, locks, locals, history>>

\* Mutants of Accept: the limit is off by one; messages go to the wrong end.
AcceptOneMore(t) ==
    /\ Len(QueuePublic) <= kWorkQueueLimit
    /\ QueuePublic' = Append(QueuePublic, msg[t])
    /\ UNCHANGED Overrun
AcceptInFront(t) ==
    /\ Len(QueuePublic) < kWorkQueueLimit
    /\ QueuePublic' = <<msg[t]>> \o QueuePublic
    /\ UNCHANGED Overrun

Accept(t) ==
    /\ Len(QueuePublic) < kWorkQueueLimit
    /\ QueuePublic' = Append(QueuePublic, msg[t])
    /\ UNCHANGED Overrun

\* Mutants of Drop: the limit is off by one; the build option is not looked at.
DropEarly ==
    /\ Len(QueuePublic) + 1 >= kWorkQueueLimit /\ ~NeverDrop
    /\ Overrun' = Overrun + 1
    /\ UNCHANGED QueuePublic
DropAnyway ==
    /\ Len(QueuePublic) >= kWorkQueueLimit
    /\ Overrun' = Overrun + 1
    /\ UNCHANGED QueuePublic

Drop ==
    /\ Len(QueuePublic) >= kWorkQueueLimit /\ ~NeverDrop
    /\ Overrun' = Overrun + 1
    /\ UNCHANGED QueuePublic

\* The section of Write under QueueLock.  With LOGGER_NEVER_DROP, Write flushes
\* and tries again.
Enqueue(t) ==
    /\ At(t, "write")
    /\ \/ /\ Accept(t) \/ Drop
          /\ sent' = sent + 1
          /\ Goto(t, "write_notify")
          /\ UNCHANGED after
       \/ /\ Len(QueuePublic) >= kWorkQueueLimit /\ NeverDrop
          /\ EnterFlush(t, "write")
          /\ UNCHANGED <<QueuePublic, Overrun, sent>>
    /\ UNCHANGED <<QueuePrivate, FlushRequested, Terminated, locks, locals, buffers,
                   output, owed>>

\* Mutant of NotifyWorker: nobody is notified.
NotifyNobody(t) ==
    /\ At(t, "write_notify")
    /\ Goto(t, "idle")
    /\ msg' = [msg EXCEPT ![t] = NoOne]
    /\ UNCHANGED <<object, locks, locals, after, calls, history>>

\* The notification at the end of Write, outside the lock; Channel::Error then
\* flushes again.
NotifyWorker(t) ==
    /\ At(t, "write_notify")
    /\ worker' = Notified(worker)
    /\ IF FlushesAround(msg[t]) THEN EnterFlush(t, "idle")
       ELSE Goto(t, "idle") /\ UNCHANGED after
    /\ msg' = [msg EXCEPT ![t] = NoOne]
    /\ UNCHANGED <<object, locks, overrun, flushRequested, calls, history>>

-----------------------------------------------------------------------------
(* Flush *)

CallFlush(t) ==
    /\ Begin(t, "Flush")
    /\ EnterFlush(t, "idle")
    /\ UNCHANGED <<object, locks, locals, msg, history>>

\* After Stop there is nobody to wait for.
FlushTerminated(t) ==
    /\ At(t, "flush") /\ Terminated
    /\ LeaveFlush(t)
    /\ UNCHANGED <<object, locks, locals, buffers, history>>

RequestFlush(t) ==
    /\ At(t, "flush") /\ ~Terminated
    /\ FlushRequested' = TRUE
    /\ worker' = Notified(worker)
    /\ Goto(t, "flush_wait")
    /\ owed' = [owed EXCEPT ![t] = Range(Pending)]
    /\ UNCHANGED <<QueuePublic, QueuePrivate, Overrun, Terminated, locks, overrun,
                   flushRequested, after, buffers, output, sent>>

\* The wait has no predicate: whatever woke the thread ends the Flush.
FlushReturn(t) ==
    /\ At(t, "flush_woken")
    /\ LeaveFlush(t)
    /\ owed' = [owed EXCEPT ![t] = {}]
    /\ UNCHANGED <<object, locks, locals, buffers, output, sent>>

FlushSpurious(t) ==
    /\ SpuriousWakeups /\ At(t, "flush_wait")
    /\ Goto(t, "flush_woken")
    /\ UNCHANGED <<object, locks, locals, after, buffers, history>>

-----------------------------------------------------------------------------
(* Stop *)

CallStop(t) ==
    /\ Begin(t, "Stop")
    /\ Goto(t, "stop")
    /\ UNCHANGED <<object, locks, locals, after, msg, history>>

\* Stop takes StartStopLock and, with a thread to stop, flushes.
StopLock(t) ==
    /\ At(t, "stop") /\ startStopLock = NoOne
    /\ startStopLock' = t
    /\ IF Thread THEN EnterFlush(t, "stop_terminate")
       ELSE Goto(t, "stop_wake") /\ UNCHANGED after
    /\ UNCHANGED <<object, Thread, locals, buffers, history>>

\* An atomic store, made without QueueLock.
StopTerminate(t) ==
    /\ At(t, "stop_terminate")
    /\ Terminated' = TRUE
    /\ Goto(t, "stop_notify")
    /\ UNCHANGED <<QueuePublic, QueuePrivate, Overrun, FlushRequested, locks, locals,
                   after, buffers, history>>

\* Mutant of StopJoin: the thread is detached.
StopDetach(t) ==
    /\ At(t, "stop_join")
    /\ Thread' = FALSE
    /\ Goto(t, "stop_wake")
    /\ UNCHANGED <<object, startStopLock, locals, after, buffers, history>>

StopNotify(t) ==
    /\ At(t, "stop_notify")
    /\ worker' = Notified(worker)
    /\ Goto(t, "stop_join")
    /\ UNCHANGED <<object, locks, overrun, flushRequested, after, buffers, history>>

StopJoin(t) ==
    /\ At(t, "stop_join") /\ worker = "done"
    /\ Thread' = FALSE
    /\ Goto(t, "stop_wake")
    /\ UNCHANGED <<object, startStopLock, locals, after, buffers, history>>

\* The last notification, and the return.
StopWake(t) ==
    /\ At(t, "stop_wake")
    /\ pc' = FlushersWoken([pc EXCEPT ![t] = "idle"])
    /\ startStopLock' = NoOne
    /\ UNCHANGED <<object, Thread, locals, after, buffers, history>>

-----------------------------------------------------------------------------
(* Start *)

CallStart(t) ==
    /\ Begin(t, "Start")
    /\ Goto(t, "start")
    /\ UNCHANGED <<object, locks, locals, after, msg, history>>

StartLock(t) ==
    /\ At(t, "start") /\ startStopLock = NoOne
    /\ IF Thread THEN Goto(t, "idle") /\ UNCHANGED startStopLock
       ELSE Goto(t, "start_clear") /\ startStopLock' = t
    /\ UNCHANGED <<object, Thread, locals, after, buffers, history>>

\* The queues are cleared without QueueLock.
StartClear(t) ==
    /\ At(t, "start_clear")
    /\ QueuePublic' = <<>> /\ QueuePrivate' = <<>>
    /\ Goto(t, "start_reset")
    /\ UNCHANGED <<Overrun, FlushRequested, Terminated, locks, locals, after, buffers, history>>

StartReset(t) ==
    /\ At(t, "start_reset")
    /\ Overrun' = 0 /\ FlushRequested' = FALSE
    /\ Goto(t, "start_run")
    /\ UNCHANGED <<QueuePublic, QueuePrivate, Terminated, locks, locals, after, buffers, history>>

StartRun(t) ==
    /\ At(t, "start_run")
    /\ Terminated' = FALSE
    /\ Goto(t, "start_spawn")
    /\ UNCHANGED <<QueuePublic, QueuePrivate, Overrun, FlushRequested, locks, locals, after,
                   buffers, history>>

\* The thread is made, and Start returns.
StartSpawn(t) ==
    /\ At(t, "start_spawn")
    /\ Thread' = TRUE /\ startStopLock' = NoOne
    /\ worker' = "test"
    /\ Goto(t, "idle")
    /\ UNCHANGED <<object, overrun, flushRequested, after, buffers, history>>

-----------------------------------------------------------------------------
(* Loop, the worker thread *)

\* while (!Terminated); the last message, "Terminating", is left out.
LoopTest ==
    /\ worker = "test"
    /\ worker' = IF Terminated THEN "done" ELSE "queue"
    /\ UNCHANGED <<object, locks, overrun, flushRequested, pc, after, buffers, history>>

NothingToDo == QueuePublic = <<>> /\ ~FlushRequested /\ ~Terminated

LoopWait ==
    /\ worker = "queue" /\ NothingToDo
    /\ worker' = "waiting"
    /\ UNCHANGED <<object, locks, overrun, flushRequested, pc, after, buffers, history>>

LoopSpurious ==
    /\ SpuriousWakeups /\ worker = "waiting"
    /\ worker' = "woken"
    /\ UNCHANGED <<object, locks, overrun, flushRequested, pc, after, buffers, history>>

\* Mutant of TakeOverrun: the count is not reset.
CopyOverrun == overrun' = Overrun /\ UNCHANGED Overrun
TakeOverrun == overrun' = Overrun /\ Overrun' = 0

\* Mutant of TakeFlushRequest: flushers are notified before anything is printed.
ServeFlushRequest ==
    /\ pc' = IF FlushRequested THEN FlushersWoken(pc) ELSE pc
    /\ FlushRequested' = FALSE
    /\ UNCHANGED flushRequested
TakeFlushRequest ==
    /\ flushRequested' = FlushRequested /\ FlushRequested' = FALSE
    /\ UNCHANGED pc

\* The rest of the section under QueueLock.
LoopSwap ==
    /\ worker = "woken" \/ (worker = "queue" /\ ~NothingToDo)
    /\ QueuePrivate' = QueuePublic /\ QueuePublic' = QueuePrivate
    /\ TakeOverrun /\ TakeFlushRequest
    /\ worker' = "log"
    /\ UNCHANGED <<Terminated, locks, after, buffers, history>>

\* for (auto& log : QueuePrivate) Log(log): a message leaves the list when it is
\* printed; the code clears the list after the loop.
LoopLog ==
    /\ worker = "log" /\ QueuePrivate # <<>>
    /\ output' = Append(output, Head(QueuePrivate))
    /\ QueuePrivate' = Tail(QueuePrivate)
    /\ UNCHANGED <<QueuePublic, Overrun, FlushRequested, Terminated, locks, locals, pc, after,
                   buffers, sent, owed>>

LoopReport ==
    /\ worker = "log" /\ QueuePrivate = <<>>
    /\ output' = IF overrun > 0 THEN Append(output, [lost |-> overrun]) ELSE output
    /\ overrun' = 0
    /\ worker' = "notify"
    /\ UNCHANGED <<object, locks, flushRequested, pc, after, buffers, sent, owed>>

\* The end of an iteration, which notifies the flushers or not.
LoopEnd(notifies) ==
    /\ worker = "notify"
    /\ pc' = IF notifies THEN FlushersWoken(pc) ELSE pc
    /\ flushRequested' = FALSE
    /\ worker' = "test"
    /\ UNCHANGED <<object, locks, overrun, after, buffers, history>>

LoopEndSilently == LoopEnd(FALSE)  \* a mutant of LoopNotify
LoopNotify == LoopEnd(flushRequested)

-----------------------------------------------------------------------------

\* GetInstance() constructs the object, whose constructor calls Start.
Init ==
    /\ QueuePublic = <<>> /\ QueuePrivate = <<>>
    /\ Overrun = 0 /\ FlushRequested = FALSE /\ Terminated = FALSE
    /\ Thread = TRUE /\ startStopLock = NoOne
    /\ worker = "test" /\ overrun = 0 /\ flushRequested = FALSE
    /\ pc = [t \in Callers |-> "idle"]
    /\ after = [t \in Callers |-> "idle"]
    /\ msg = [t \in Callers |-> NoOne]
    /\ calls = [t \in Callers |-> 0]
    /\ output = <<>> /\ sent = 0
    /\ owed = [t \in Callers |-> {}]

Call(t) == CallWrite(t) \/ CallFlush(t) \/ CallStop(t) \/ CallStart(t)

\* What a thread does inside a call.
Step(t) ==
    \/ Enqueue(t) \/ NotifyWorker(t)
    \/ FlushTerminated(t) \/ RequestFlush(t) \/ FlushReturn(t)
    \/ StopLock(t) \/ StopTerminate(t) \/ StopNotify(t) \/ StopJoin(t) \/ StopWake(t)
    \/ StartLock(t) \/ StartClear(t) \/ StartReset(t) \/ StartRun(t) \/ StartSpawn(t)

Loop == LoopTest \/ LoopWait \/ LoopSwap \/ LoopLog \/ LoopReport \/ LoopNotify

Next == (\E t \in Callers : Call(t) \/ Step(t) \/ FlushSpurious(t)) \/ Loop \/ LoopSpurious

Spec == Init /\ [][Next]_vars

\* The scheduler runs every thread that can run.  No thread has to call, and no
\* condition variable has to wake for no reason.
FairSpec == Spec /\ WF_vars(Loop) /\ \A t \in Callers : WF_vars(Step(t))

-----------------------------------------------------------------------------
(* Properties *)

InStop == {"stop_notify", "stop_join", "stop_wake"}
InStart == {"start_clear", "start_reset", "start_run", "start_spawn"}
Labels == {"idle", "write", "write_notify", "flush", "flush_wait", "flush_woken",
           "stop", "stop_terminate", "start"} \cup InStop \cup InStart

\* The variables have their types: no counter leaves its range.
TypeOK ==
    /\ QueuePublic \in Seq(Message) /\ Len(QueuePublic) <= kWorkQueueLimit
    /\ QueuePrivate \in Seq(Message)
    /\ Overrun \in Nat /\ overrun \in Nat /\ sent \in Nat
    /\ {FlushRequested, Terminated, Thread, flushRequested} \subseteq BOOLEAN
    /\ startStopLock \in Callers \cup {NoOne}
    /\ worker \in {"test", "queue", "waiting", "woken", "log", "notify", "done"}
    /\ pc \in [Callers -> Labels]
    /\ after \in [Callers -> {"idle", "write", "stop_terminate"}]
    /\ msg \in [Callers -> Message \cup {NoOne}]
    /\ calls \in [Callers -> 0..MaxCalls]
    /\ output \in Seq(Message \cup Report)
    /\ owed \in [Callers -> SUBSET Message]

\* The first of two lines is older: a thread numbers what it logs.
Precedes(first, second) ==
    IsMessage(first) /\ IsMessage(second) /\ first.from = second.from =>
        first.number < second.number

\* What one thread logs comes out in the order it logged it, and at most once,
\* through both queues, their swap and the restart (Logger.cpp:250).
PerThreadOrder ==
    LET all == output \o Pending
    IN  \A i, j \in DOMAIN all : i < j => Precedes(all[i], all[j])

\* How many messages a line of the output accounts for, and all its lines do.
Accounts(line) == IF IsMessage(line) THEN 1 ELSE line.lost
AccountedIn(lines) ==
    LET upTo[n \in 0..Len(lines)] ==
            IF n = 0 THEN 0 ELSE upTo[n - 1] + Accounts(lines[n])
    IN  upTo[Len(lines)]

\* Every message that passed Write is printed, is pending, or is counted: in
\* Overrun, in the worker's copy of it, or in a report (Logger.cpp:225, 252).
\* Start forgets what was left by Stop: for callers that do not start again.
NoSilentLoss == sent = AccountedIn(output) + Len(Pending) + Overrun + overrun

\* A thread that waits in Flush has a wakeup coming: the worker knows of the
\* request, or the Stop that terminated the worker has its last notification
\* still to make (Logger.cpp:185).
FlusherWillBeWoken ==
    (\E t \in Callers : At(t, "flush_wait")) =>
        \/ FlushRequested /\ worker # "done"
        \/ flushRequested
        \/ \E s \in Callers : pc[s] \in InStop
        \/ FlushRequested /\ \E s \in Callers : At(s, "start_spawn")

\* The worker sleeps only while there is nothing to do, or somebody who made
\* work is about to notify it (Logger.cpp:232, 173).
WorkerWillBeWoken ==
    worker = "waiting" =>
        NothingToDo \/ \E t \in Callers : pc[t] \in {"write_notify", "stop_notify"}

\* There is never a second worker, and none prints once Stop let go of it:
\* whatever Stop and Start calls overlap (Logger.cpp:124, 151).
OneWorker == (~Thread => worker = "done") /\ (worker = "done" => Terminated \/ ~Thread)

\* A Flush that waited returns when everything that was pending at its start is
\* out ("block here until the queue is flushed", Logger.h:221).
FlushDelivers ==
    \A t \in Callers : At(t, "flush_woken") => owed[t] \subseteq Range(output)

\* Every call returns, whatever the other threads call (Logger.cpp:185).
CallsReturn == \A t \in Callers : pc[t] # "idle" ~> pc[t] = "idle"

\* When the calls end, all that was accepted gets printed and all that was
\* dropped reported: the worker does not sleep on a full queue.
AllComesOut == <>[](Pending = <<>> /\ Overrun = 0 /\ overrun = 0)

\* With LOGGER_NEVER_DROP a message that passed Write is printed or pending, and
\* no loss is reported.
NothingDropped ==
    /\ sent = Len(output) + Len(Pending)
    /\ \A i \in DOMAIN output : IsMessage(output[i])

\* The logger is a lossy first-in first-out line that counts what it loses.
Abstract == INSTANCE AbstractLog
    WITH Lines <- Message, Capacity <- kWorkQueueLimit,
         pending <- Pending, unreported <- Overrun + overrun,
         running <- worker # "done"
ImplementsAbstractLog == Abstract!Spec
=============================================================================
