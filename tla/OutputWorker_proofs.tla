--------------------------- MODULE OutputWorker_proofs ---------------------------
(***************************************************************************)
(* The logger of OutputWorker, proved for every number of threads, queue   *)
(* limit and build: there is one worker, nobody sleeps without a wakeup on *)
(* its way, the logger is the lossy line of AbstractLog, and what a thread *)
(* logs stays in order, whatever the threads call; a lone flusher gets its *)
(* answer, and without restarts every message is accounted for.            *)
(***************************************************************************)
EXTENDS OutputWorker, WellFoundedInduction, TLAPS

-----------------------------------------------------------------------------
(* The invariant                                                             *)

InFlush(t) == pc[t] \in {"flush", "flush_wait", "flush_woken"}

\* A Stop that holds the lock, up to where it lets the thread go.
Stopping(t) ==
    \/ InFlush(t) /\ after[t] = "stop_terminate"
    \/ pc[t] \in {"stop_terminate", "stop_notify", "stop_join"}

Holding(t) == Stopping(t) \/ pc[t] = "stop_wake" \/ pc[t] \in InStart

\* StartStopLock is held by the Stop or the Start that is inside, so at most one is.
LockInv == \A t \in Callers : Holding(t) <=> startStopLock = t

\* How far Stop and Start got is told by the thread and by Terminated.
ThreadInv ==
    /\ ~Thread => worker = "done"
    /\ worker = "done" => Terminated \/ ~Thread
    /\ Thread /\ Terminated => \E t \in Callers : pc[t] \in {"stop_notify", "stop_join"}
    /\ ~Thread => Terminated \/ \E t \in Callers : pc[t] = "start_spawn"
    /\ \A t \in Callers :
        /\ Stopping(t) => Thread
        /\ pc[t] \in InStart \cup {"stop_wake"} => ~Thread
        /\ pc[t] \in InStop => Terminated
        /\ pc[t] \in {"start_clear", "start_reset", "start_run"} => Terminated
        /\ pc[t] = "start_spawn" => ~Terminated

\* The worker's locals and its queue are in use only while it prints.
WorkerInv ==
    /\ worker # "log" => QueuePrivate = <<>> /\ overrun = 0
    /\ flushRequested => worker \in {"log", "notify"}

\* Who is on the way through Write has a message.
MessageInv ==
    \A t \in Callers :
        pc[t] \in {"write", "write_notify"} \/ (InFlush(t) /\ after[t] = "write") =>
            msg[t] \in Message

\* TypeOK, part by part.
ControlTypes ==
    /\ startStopLock \in Callers \cup {NoOne}
    /\ worker \in {"test", "queue", "waiting", "woken", "log", "notify", "done"}
    /\ pc \in [Callers -> Labels]
    /\ after \in [Callers -> {"idle", "write", "stop_terminate"}]
FlagTypes == {FlushRequested, Terminated, Thread, flushRequested} \subseteq BOOLEAN
CountTypes == Overrun \in Nat /\ overrun \in Nat /\ sent \in Nat
CallTypes == msg \in [Callers -> Message \cup {NoOne}] /\ calls \in [Callers -> 0..MaxCalls]
QueueTypes ==
    /\ QueuePublic \in Seq(Message) /\ Len(QueuePublic) <= kWorkQueueLimit
    /\ QueuePrivate \in Seq(Message)
OutputTypes == output \in Seq(Message \cup Report)
OwedTypes == owed \in [Callers -> SUBSET Message]

IInv ==
    /\ TypeOK /\ LockInv /\ ThreadInv /\ WorkerInv /\ MessageInv
    /\ FlusherWillBeWoken /\ WorkerWillBeWoken

-----------------------------------------------------------------------------
(* Steps                                                                     *)

\* StartStopLock has one holder, from the lock of a Stop or Start to its return.
LEMMA LockStep == IInv /\ [Next]_vars => LockInv'
<1> SUFFICES ASSUME IInv, [Next]_vars PROVE LockInv'
    OBVIOUS
<1>0. /\ pc \in [Callers -> Labels]
      /\ after \in [Callers -> {"idle", "write", "stop_terminate"}]
      /\ NoOne \notin Callers
    BY CallersAssumption DEF IInv, TypeOK
<1>1. ASSUME NEW t \in Callers, CallWrite(t) PROVE LockInv'
    <2>1. /\ pc[t] = "idle"
          /\ \/ pc' = [pc EXCEPT ![t] = "write"] /\ after' = after
             \/ pc' = [pc EXCEPT ![t] = "flush"] /\ after' = [after EXCEPT ![t] = "write"]
          /\ UNCHANGED <<object, locks, locals>>
        BY Zenon, <1>1 DEF CallWrite, Begin, At, Goto, EnterFlush
    <2> QED  BY SMT, <1>0, <2>1 DEF IInv, LockInv, Holding, Stopping, InFlush, InStart,
            InStop, Labels, locks
<1>2. ASSUME NEW t \in Callers, CallFlush(t) \/ CallStop(t) \/ CallStart(t) PROVE LockInv'
    BY SMT, <1>0, <1>2 DEF CallFlush, Begin, EnterFlush, object, locks, locals, history, At,
        Goto, CallStop, CallStart, IInv, LockInv, Holding, Stopping, InFlush, InStart, InStop,
        Labels
<1>3. ASSUME NEW t \in Callers, Enqueue(t) PROVE LockInv'
    BY SMT, <1>0, <1>3 DEF Enqueue, Goto, At, EnterFlush, Accept, Drop, locks, locals, buffers,
        IInv, LockInv, Holding, Stopping, InFlush, InStart, InStop, Labels
<1>4. ASSUME NEW t \in Callers, NotifyWorker(t) PROVE LockInv'
    BY SMT, <1>0, <1>4 DEF NotifyWorker, Goto, At, EnterFlush, Notified, FlushesAround, object,
        locks, history, IInv, LockInv, Holding, Stopping, InFlush, InStart, InStop, Labels
<1>5. ASSUME NEW t \in Callers, FlushTerminated(t) PROVE LockInv'
    <2>1. after[t] \in {"idle", "write", "stop_terminate"} /\ pc[t] = "flush"
        BY <1>0, <1>5 DEF FlushTerminated, At
    <2>2. /\ pc' = [pc EXCEPT ![t] = after[t]] /\ after' = [after EXCEPT ![t] = "idle"]
          /\ UNCHANGED <<object, locks, locals, msg>>
        BY <1>5 DEF FlushTerminated, LeaveFlush, Goto, buffers
    <2> QED  BY SMT, <1>0, <2>1, <2>2 DEF IInv, LockInv, Holding, Stopping, InFlush, InStart,
            InStop, Labels, object, locks, locals
<1>6. ASSUME NEW t \in Callers, RequestFlush(t) \/ FlushSpurious(t) PROVE LockInv'
    BY SMT, <1>0, <1>6 DEF RequestFlush, Goto, At, Notified, locks, buffers, FlushSpurious,
        object, locals, history, IInv, LockInv, Holding, Stopping, InFlush, InStart, InStop,
        Labels
<1>7. ASSUME NEW t \in Callers, FlushReturn(t) PROVE LockInv'
    <2>1. after[t] \in {"idle", "write", "stop_terminate"} /\ pc[t] = "flush_woken"
        BY <1>0, <1>7 DEF FlushReturn, At
    <2>2. /\ pc' = [pc EXCEPT ![t] = after[t]] /\ after' = [after EXCEPT ![t] = "idle"]
          /\ UNCHANGED <<object, locks, locals, msg>>
        BY <1>7 DEF FlushReturn, LeaveFlush, Goto, buffers
    <2> QED  BY SMT, <1>0, <2>1, <2>2 DEF IInv, LockInv, Holding, Stopping, InFlush, InStart,
            InStop, Labels, object, locks, locals
<1>8. ASSUME NEW t \in Callers, StopLock(t) PROVE LockInv'
    BY SMT, <1>0, <1>8 DEF StopLock, Goto, At, EnterFlush, object, locals, buffers, history,
        IInv, LockInv, Holding, Stopping, InFlush, InStart, InStop, Labels
<1>9. ASSUME NEW t \in Callers, StopTerminate(t) \/ StopNotify(t) \/ StopJoin(t) PROVE LockInv'
    BY SMT, <1>0, <1>9 DEF StopTerminate, Goto, At, locks, locals, buffers, history, StopNotify,
        Notified, object, StopJoin, IInv, LockInv, Holding, Stopping, InFlush, InStart, InStop,
        Labels
<1>10. ASSUME NEW t \in Callers, StopWake(t) PROVE LockInv'
    BY SMT, <1>0, <1>10 DEF StopWake, At, FlushersWoken, object, locals, buffers, history, IInv,
        LockInv, Holding, Stopping, InFlush, InStart, InStop, Labels
<1>11. ASSUME NEW t \in Callers, StartLock(t) PROVE LockInv'
    BY SMT, <1>0, <1>11 DEF StartLock, Goto, At, object, locals, buffers, history, IInv,
        LockInv, Holding, Stopping, InFlush, InStart, InStop, Labels
<1>12. ASSUME NEW t \in Callers, StartClear(t) \/ StartReset(t) \/ StartRun(t) PROVE LockInv'
    BY SMT, <1>0, <1>12 DEF StartClear, Goto, At, locks, locals, buffers, history, StartReset,
        StartRun, IInv, LockInv, Holding, Stopping, InFlush, InStart, InStop, Labels
<1>13. ASSUME NEW t \in Callers, StartSpawn(t) PROVE LockInv'
    BY SMT, <1>0, <1>13 DEF StartSpawn, Goto, At, object, buffers, history, IInv, LockInv,
        Holding, Stopping, InFlush, InStart, InStop, Labels
<1>14. CASE LoopTest \/ LoopWait \/ LoopSpurious
    BY SMT, <1>0, <1>14 DEF LoopTest, object, locks, buffers, history, LoopWait, NothingToDo,
        LoopSpurious, IInv, LockInv, Holding, Stopping, InFlush, InStart, InStop, Labels
<1>15. CASE LoopSwap
    BY SMT, <1>0, <1>15 DEF LoopSwap, NothingToDo, TakeOverrun, TakeFlushRequest, locks,
        buffers, history, IInv, LockInv, Holding, Stopping, InFlush, InStart, InStop, Labels
<1>16. CASE LoopLog \/ LoopReport
    BY SMT, <1>0, <1>16 DEF LoopLog, locks, locals, buffers, LoopReport, object, IInv, LockInv,
        Holding, Stopping, InFlush, InStart, InStop, Labels
<1>17. CASE LoopNotify
    BY SMT, <1>0, <1>17 DEF LoopNotify, LoopEnd, FlushersWoken, object, locks, buffers, history,
        IInv, LockInv, Holding, Stopping, InFlush, InStart, InStop, Labels
<1>18. CASE UNCHANGED vars
    BY SMT, <1>0, <1>18 DEF vars, object, locks, locals, buffers, history, IInv, LockInv,
        Holding, Stopping, InFlush, InStart, InStop, Labels
<1> QED  BY <1>1, <1>2, <1>3, <1>4, <1>5, <1>6, <1>7, <1>8, <1>9, <1>10, <1>11, <1>12, <1>13,
         <1>14, <1>15, <1>16, <1>17, <1>18
    DEF Next, Call, Step, Loop

\* A Stop that is inside finds the thread, a Start that is inside finds none.
LEMMA ThreadStep == IInv /\ [Next]_vars => ThreadInv'
<1> SUFFICES ASSUME IInv, [Next]_vars PROVE ThreadInv'
    OBVIOUS
<1>0. /\ pc \in [Callers -> Labels]
      /\ after \in [Callers -> {"idle", "write", "stop_terminate"}]
      /\ NoOne \notin Callers
    BY CallersAssumption DEF IInv, TypeOK
<1>1. ASSUME NEW t \in Callers, CallWrite(t) PROVE ThreadInv'
    BY SMT, <1>0, <1>1 DEF CallWrite, Begin, Goto, EnterFlush, FlushesAround, object, locks,
        locals, history, At, IInv, LockInv, Holding, Stopping, InFlush, InStart, InStop, Labels,
        ThreadInv
<1>2. ASSUME NEW t \in Callers, CallFlush(t) \/ CallStop(t) \/ CallStart(t) PROVE ThreadInv'
    BY SMT, <1>0, <1>2 DEF CallFlush, Begin, EnterFlush, object, locks, locals, history, At,
        Goto, CallStop, CallStart, IInv, LockInv, Holding, Stopping, InFlush, InStart, InStop,
        Labels, ThreadInv
<1>3. ASSUME NEW t \in Callers, Enqueue(t) PROVE ThreadInv'
    BY SMT, <1>0, <1>3 DEF Enqueue, Goto, At, EnterFlush, Accept, Drop, locks, locals, buffers,
        IInv, LockInv, Holding, Stopping, InFlush, InStart, InStop, Labels, ThreadInv
<1>4. ASSUME NEW t \in Callers, NotifyWorker(t) PROVE ThreadInv'
    BY SMT, <1>0, <1>4 DEF NotifyWorker, Goto, At, EnterFlush, Notified, FlushesAround, object,
        locks, history, IInv, LockInv, Holding, Stopping, InFlush, InStart, InStop, Labels,
        ThreadInv
<1>5. ASSUME NEW t \in Callers, FlushTerminated(t) PROVE ThreadInv'
    <2>1. after[t] \in {"idle", "write", "stop_terminate"} /\ pc[t] = "flush"
        BY <1>0, <1>5 DEF FlushTerminated, At
    <2>2. /\ pc' = [pc EXCEPT ![t] = after[t]] /\ after' = [after EXCEPT ![t] = "idle"]
          /\ UNCHANGED <<object, locks, locals, msg>>
        BY <1>5 DEF FlushTerminated, LeaveFlush, Goto, buffers
    <2> QED  BY SMT, <1>0, <2>1, <2>2 DEF IInv, LockInv, Holding, Stopping, InFlush, InStart,
            InStop, Labels, ThreadInv, object, locks, locals
<1>6. ASSUME NEW t \in Callers, RequestFlush(t) \/ FlushSpurious(t) PROVE ThreadInv'
    BY SMT, <1>0, <1>6 DEF RequestFlush, Goto, At, Notified, locks, buffers, FlushSpurious,
        object, locals, history, IInv, LockInv, Holding, Stopping, InFlush, InStart, InStop,
        Labels, ThreadInv
<1>7. ASSUME NEW t \in Callers, FlushReturn(t) PROVE ThreadInv'
    <2>1. after[t] \in {"idle", "write", "stop_terminate"} /\ pc[t] = "flush_woken"
        BY <1>0, <1>7 DEF FlushReturn, At
    <2>2. /\ pc' = [pc EXCEPT ![t] = after[t]] /\ after' = [after EXCEPT ![t] = "idle"]
          /\ UNCHANGED <<object, locks, locals, msg>>
        BY <1>7 DEF FlushReturn, LeaveFlush, Goto, buffers
    <2> QED  BY SMT, <1>0, <2>1, <2>2 DEF IInv, LockInv, Holding, Stopping, InFlush, InStart,
            InStop, Labels, ThreadInv, object, locks, locals
<1>8. ASSUME NEW t \in Callers, StopLock(t) PROVE ThreadInv'
    BY SMT, <1>0, <1>8 DEF StopLock, Goto, At, EnterFlush, object, locals, buffers, history,
        IInv, LockInv, Holding, Stopping, InFlush, InStart, InStop, Labels, ThreadInv
<1>9. ASSUME NEW t \in Callers, StopTerminate(t) \/ StopNotify(t) \/ StopJoin(t)
       PROVE  ThreadInv'
    BY SMT, <1>0, <1>9 DEF StopTerminate, Goto, At, locks, locals, buffers, history, StopNotify,
        Notified, object, StopJoin, IInv, LockInv, Holding, Stopping, InFlush, InStart, InStop,
        Labels, ThreadInv
<1>10. ASSUME NEW t \in Callers, StopWake(t) PROVE ThreadInv'
    BY SMT, <1>0, <1>10 DEF StopWake, At, FlushersWoken, object, locals, buffers, history, IInv,
        LockInv, Holding, Stopping, InFlush, InStart, InStop, Labels, ThreadInv
<1>11. ASSUME NEW t \in Callers, StartLock(t) PROVE ThreadInv'
    BY SMT, <1>0, <1>11 DEF StartLock, Goto, At, object, locals, buffers, history, IInv,
        LockInv, Holding, Stopping, InFlush, InStart, InStop, Labels, ThreadInv
<1>12. ASSUME NEW t \in Callers, StartClear(t) \/ StartReset(t) \/ StartRun(t) PROVE ThreadInv'
    BY SMT, <1>0, <1>12 DEF StartClear, Goto, At, locks, locals, buffers, history, StartReset,
        StartRun, IInv, LockInv, Holding, Stopping, InFlush, InStart, InStop, Labels, ThreadInv
<1>13. ASSUME NEW t \in Callers, StartSpawn(t) PROVE ThreadInv'
    BY SMT, <1>0, <1>13 DEF StartSpawn, Goto, At, object, buffers, history, IInv, LockInv,
        Holding, Stopping, InFlush, InStart, InStop, Labels, ThreadInv
<1>14. CASE LoopTest \/ LoopWait \/ LoopSpurious
    BY SMT, <1>0, <1>14 DEF LoopTest, object, locks, buffers, history, LoopWait, NothingToDo,
        LoopSpurious, IInv, LockInv, Holding, Stopping, InFlush, InStart, InStop, Labels,
        ThreadInv
<1>15. CASE LoopSwap
    BY SMT, <1>0, <1>15 DEF LoopSwap, NothingToDo, TakeOverrun, TakeFlushRequest, locks,
        buffers, history, IInv, LockInv, Holding, Stopping, InFlush, InStart, InStop, Labels,
        ThreadInv
<1>16. CASE LoopLog \/ LoopReport
    BY SMT, <1>0, <1>16 DEF LoopLog, locks, locals, buffers, LoopReport, object, IInv, LockInv,
        Holding, Stopping, InFlush, InStart, InStop, Labels, ThreadInv
<1>17. CASE LoopNotify
    BY SMT, <1>0, <1>17 DEF LoopNotify, LoopEnd, FlushersWoken, object, locks, buffers, history,
        IInv, LockInv, Holding, Stopping, InFlush, InStart, InStop, Labels, ThreadInv
<1>18. CASE UNCHANGED vars
    BY SMT, <1>0, <1>18 DEF vars, object, locks, locals, buffers, history, IInv, LockInv,
        Holding, Stopping, InFlush, InStart, InStop, Labels, ThreadInv
<1> QED  BY <1>1, <1>2, <1>3, <1>4, <1>5, <1>6, <1>7, <1>8, <1>9, <1>10, <1>11, <1>12, <1>13,
         <1>14, <1>15, <1>16, <1>17, <1>18
    DEF Next, Call, Step, Loop

\* The queue of the worker is empty, and its locals are reset, when it tests again.
LEMMA WorkerStep == IInv /\ [Next]_vars => WorkerInv'
<1> SUFFICES ASSUME IInv, [Next]_vars PROVE WorkerInv'
    OBVIOUS
<1>0. /\ pc \in [Callers -> Labels]
      /\ after \in [Callers -> {"idle", "write", "stop_terminate"}]
      /\ NoOne \notin Callers
    BY CallersAssumption DEF IInv, TypeOK
<1>1. ASSUME NEW t \in Callers, CallWrite(t) PROVE WorkerInv'
    BY SMT, <1>0, <1>1 DEF CallWrite, Begin, Goto, EnterFlush, FlushesAround, object, locks,
        locals, history, At, IInv, WorkerInv, ThreadInv, Stopping, InStart
<1>2. ASSUME NEW t \in Callers, CallFlush(t) \/ CallStop(t) \/ CallStart(t) PROVE WorkerInv'
    BY SMT, <1>0, <1>2 DEF CallFlush, Begin, EnterFlush, object, locks, locals, history, At,
        Goto, CallStop, CallStart, IInv, WorkerInv, ThreadInv, Stopping, InStart
<1>3. ASSUME NEW t \in Callers, Enqueue(t) PROVE WorkerInv'
    BY SMT, <1>0, <1>3 DEF Enqueue, Goto, At, EnterFlush, Accept, Drop, locks, locals, buffers,
        IInv, WorkerInv, ThreadInv, Stopping, InStart
<1>4. ASSUME NEW t \in Callers, NotifyWorker(t) PROVE WorkerInv'
    BY SMT, <1>0, <1>4 DEF NotifyWorker, Goto, At, EnterFlush, Notified, FlushesAround, object,
        locks, history, IInv, WorkerInv, ThreadInv, Stopping, InStart
<1>5. ASSUME NEW t \in Callers, FlushTerminated(t) PROVE WorkerInv'
    BY SMT, <1>0, <1>5 DEF FlushTerminated, At, LeaveFlush, object, locks, locals, buffers,
        history, Goto, IInv, WorkerInv, ThreadInv, Stopping, InStart
<1>6. ASSUME NEW t \in Callers, RequestFlush(t) \/ FlushSpurious(t) PROVE WorkerInv'
    BY SMT, <1>0, <1>6 DEF RequestFlush, Goto, At, Notified, locks, buffers, FlushSpurious,
        object, locals, history, IInv, WorkerInv, ThreadInv, Stopping, InStart
<1>7. ASSUME NEW t \in Callers, FlushReturn(t) PROVE WorkerInv'
    BY SMT, <1>0, <1>7 DEF FlushReturn, At, LeaveFlush, object, locks, locals, buffers, Goto,
        IInv, WorkerInv, ThreadInv, Stopping, InStart
<1>8. ASSUME NEW t \in Callers, StopLock(t) PROVE WorkerInv'
    BY SMT, <1>0, <1>8 DEF StopLock, Goto, At, EnterFlush, object, locals, buffers, history,
        IInv, WorkerInv, ThreadInv, Stopping, InStart
<1>9. ASSUME NEW t \in Callers, StopTerminate(t) \/ StopNotify(t) \/ StopJoin(t)
       PROVE  WorkerInv'
    BY SMT, <1>0, <1>9 DEF StopTerminate, Goto, At, locks, locals, buffers, history, StopNotify,
        Notified, object, StopJoin, IInv, WorkerInv, ThreadInv, Stopping, InStart
<1>10. ASSUME NEW t \in Callers, StopWake(t) PROVE WorkerInv'
    BY SMT, <1>0, <1>10 DEF StopWake, At, FlushersWoken, object, locals, buffers, history, IInv,
        WorkerInv, ThreadInv, Stopping, InStart
<1>11. ASSUME NEW t \in Callers, StartLock(t) PROVE WorkerInv'
    BY SMT, <1>0, <1>11 DEF StartLock, Goto, At, object, locals, buffers, history, IInv,
        WorkerInv, ThreadInv, Stopping, InStart
<1>12. ASSUME NEW t \in Callers, StartClear(t) \/ StartReset(t) \/ StartRun(t) PROVE WorkerInv'
    BY SMT, <1>0, <1>12 DEF StartClear, Goto, At, locks, locals, buffers, history, StartReset,
        StartRun, IInv, WorkerInv, ThreadInv, Stopping, InStart
<1>13. ASSUME NEW t \in Callers, StartSpawn(t) PROVE WorkerInv'
    BY SMT, <1>0, <1>13 DEF StartSpawn, Goto, At, object, buffers, history, IInv, WorkerInv,
        ThreadInv, Stopping, InStart
<1>14. CASE LoopTest \/ LoopWait \/ LoopSpurious
    BY SMT, <1>0, <1>14 DEF LoopTest, object, locks, buffers, history, LoopWait, NothingToDo,
        LoopSpurious, IInv, WorkerInv, ThreadInv, Stopping, InStart
<1>15. CASE LoopSwap
    BY SMT, <1>0, <1>15 DEF LoopSwap, NothingToDo, TakeOverrun, TakeFlushRequest, locks,
        buffers, history, IInv, WorkerInv, ThreadInv, Stopping, InStart
<1>16. CASE LoopLog \/ LoopReport
    BY SMT, <1>0, <1>16 DEF LoopLog, locks, locals, buffers, LoopReport, object, IInv,
        WorkerInv, ThreadInv, Stopping, InStart
<1>17. CASE LoopNotify
    BY SMT, <1>0, <1>17 DEF LoopNotify, LoopEnd, FlushersWoken, object, locks, buffers, history,
        IInv, WorkerInv, ThreadInv, Stopping, InStart
<1>18. CASE UNCHANGED vars
    BY SMT, <1>0, <1>18 DEF vars, object, locks, locals, buffers, history, IInv, WorkerInv,
        ThreadInv, Stopping, InStart
<1> QED  BY <1>1, <1>2, <1>3, <1>4, <1>5, <1>6, <1>7, <1>8, <1>9, <1>10, <1>11, <1>12, <1>13,
         <1>14, <1>15, <1>16, <1>17, <1>18
    DEF Next, Call, Step, Loop

\* The message of a Write stays until it was queued, through the flushes around it.
LEMMA MessageStep == IInv /\ [Next]_vars => MessageInv'
<1> SUFFICES ASSUME IInv, [Next]_vars PROVE MessageInv'
    OBVIOUS
<1>0. /\ pc \in [Callers -> Labels]
      /\ after \in [Callers -> {"idle", "write", "stop_terminate"}]
      /\ NoOne \notin Callers
    BY CallersAssumption DEF IInv, TypeOK
<1>1. ASSUME NEW t \in Callers, CallWrite(t) PROVE MessageInv'
    <2>1. PICK level \in Levels :
              /\ msg' = [msg EXCEPT ![t] = [from |-> t, number |-> calls[t] + 1, level |-> level]]
              /\ pc[t] = "idle" /\ calls[t] < MaxCalls
              /\ \/ pc' = [pc EXCEPT ![t] = "write"] /\ after' = after
                 \/ pc' = [pc EXCEPT ![t] = "flush"] /\ after' = [after EXCEPT ![t] = "write"]
        BY Zenon, <1>1 DEF CallWrite, Begin, At, Goto, EnterFlush
    <2>2. [from |-> t, number |-> calls[t] + 1, level |-> level] \in Message
        BY <2>1, BoundAssumption DEF IInv, TypeOK, Message
    <2>3. msg \in [Callers -> Message \cup {NoOne}]
        BY DEF IInv, TypeOK
    <2> QED  BY SMT, <1>0, <2>1, <2>2, <2>3 DEF IInv, MessageInv, InFlush, Labels
<1>2. ASSUME NEW t \in Callers, CallFlush(t) \/ CallStop(t) \/ CallStart(t) PROVE MessageInv'
    BY SMT, <1>0, <1>2 DEF CallFlush, Begin, EnterFlush, object, locks, locals, history, At,
        Goto, CallStop, CallStart, IInv, TypeOK, MessageInv, InFlush, Labels
<1>3. ASSUME NEW t \in Callers, Enqueue(t) PROVE MessageInv'
    BY SMT, <1>0, <1>3 DEF Enqueue, Goto, At, EnterFlush, Accept, Drop, locks, locals, buffers,
        IInv, TypeOK, MessageInv, InFlush, Labels
<1>4. ASSUME NEW t \in Callers, NotifyWorker(t) PROVE MessageInv'
    BY SMT, <1>0, <1>4 DEF NotifyWorker, Goto, At, EnterFlush, Notified, FlushesAround, object,
        locks, history, IInv, TypeOK, MessageInv, InFlush, Labels
<1>5. ASSUME NEW t \in Callers, FlushTerminated(t) PROVE MessageInv'
    <2>1. after[t] \in {"idle", "write", "stop_terminate"} /\ pc[t] = "flush"
        BY <1>0, <1>5 DEF FlushTerminated, At
    <2>2. /\ pc' = [pc EXCEPT ![t] = after[t]] /\ after' = [after EXCEPT ![t] = "idle"]
          /\ UNCHANGED <<object, locks, locals, msg>>
        BY <1>5 DEF FlushTerminated, LeaveFlush, Goto, buffers
    <2> QED  BY SMT, <1>0, <2>1, <2>2 DEF IInv, MessageInv, InFlush, Labels, object, locks, locals
<1>6. ASSUME NEW t \in Callers, RequestFlush(t) \/ FlushSpurious(t) PROVE MessageInv'
    BY SMT, <1>0, <1>6 DEF RequestFlush, Goto, At, Notified, locks, buffers, FlushSpurious,
        object, locals, history, IInv, TypeOK, MessageInv, InFlush, Labels
<1>7. ASSUME NEW t \in Callers, FlushReturn(t) PROVE MessageInv'
    <2>1. after[t] \in {"idle", "write", "stop_terminate"} /\ pc[t] = "flush_woken"
        BY <1>0, <1>7 DEF FlushReturn, At
    <2>2. /\ pc' = [pc EXCEPT ![t] = after[t]] /\ after' = [after EXCEPT ![t] = "idle"]
          /\ UNCHANGED <<object, locks, locals, msg>>
        BY <1>7 DEF FlushReturn, LeaveFlush, Goto, buffers
    <2> QED  BY SMT, <1>0, <2>1, <2>2 DEF IInv, MessageInv, InFlush, Labels, object, locks, locals
<1>8. ASSUME NEW t \in Callers, StopLock(t) PROVE MessageInv'
    BY SMT, <1>0, <1>8 DEF StopLock, Goto, At, EnterFlush, object, locals, buffers, history,
        IInv, TypeOK, MessageInv, InFlush, Labels
<1>9. ASSUME NEW t \in Callers, StopTerminate(t) \/ StopNotify(t) \/ StopJoin(t)
       PROVE  MessageInv'
    BY SMT, <1>0, <1>9 DEF StopTerminate, Goto, At, locks, locals, buffers, history, StopNotify,
        Notified, object, StopJoin, IInv, TypeOK, MessageInv, InFlush, Labels
<1>10. ASSUME NEW t \in Callers, StopWake(t) PROVE MessageInv'
    BY SMT, <1>0, <1>10 DEF StopWake, At, FlushersWoken, object, locals, buffers, history, IInv,
        TypeOK, MessageInv, InFlush, Labels
<1>11. ASSUME NEW t \in Callers, StartLock(t) PROVE MessageInv'
    BY SMT, <1>0, <1>11 DEF StartLock, Goto, At, object, locals, buffers, history, IInv, TypeOK,
        MessageInv, InFlush, Labels
<1>12. ASSUME NEW t \in Callers, StartClear(t) \/ StartReset(t) \/ StartRun(t)
        PROVE  MessageInv'
    BY SMT, <1>0, <1>12 DEF StartClear, Goto, At, locks, locals, buffers, history, StartReset,
        StartRun, IInv, TypeOK, MessageInv, InFlush, Labels
<1>13. ASSUME NEW t \in Callers, StartSpawn(t) PROVE MessageInv'
    BY SMT, <1>0, <1>13 DEF StartSpawn, Goto, At, object, buffers, history, IInv, TypeOK,
        MessageInv, InFlush, Labels
<1>14. CASE LoopTest \/ LoopWait \/ LoopSpurious
    BY SMT, <1>0, <1>14 DEF LoopTest, object, locks, buffers, history, LoopWait, NothingToDo,
        LoopSpurious, IInv, TypeOK, MessageInv, InFlush, Labels
<1>15. CASE LoopSwap
    BY SMT, <1>0, <1>15 DEF LoopSwap, NothingToDo, TakeOverrun, TakeFlushRequest, locks,
        buffers, history, IInv, TypeOK, MessageInv, InFlush, Labels
<1>16. CASE LoopLog \/ LoopReport
    BY SMT, <1>0, <1>16 DEF LoopLog, locks, locals, buffers, LoopReport, object, IInv, TypeOK,
        MessageInv, InFlush, Labels
<1>17. CASE LoopNotify
    BY SMT, <1>0, <1>17 DEF LoopNotify, LoopEnd, FlushersWoken, object, locks, buffers, history,
        IInv, TypeOK, MessageInv, InFlush, Labels
<1>18. CASE UNCHANGED vars
    BY SMT, <1>0, <1>18 DEF vars, object, locks, locals, buffers, history, IInv, TypeOK,
        MessageInv, InFlush, Labels
<1> QED  BY <1>1, <1>2, <1>3, <1>4, <1>5, <1>6, <1>7, <1>8, <1>9, <1>10, <1>11, <1>12, <1>13,
         <1>14, <1>15, <1>16, <1>17, <1>18
    DEF Next, Call, Step, Loop

\* A request moves from FlushRequested to the local of the worker, or to a Stop.
LEMMA FlusherStep == IInv /\ [Next]_vars => FlusherWillBeWoken'
<1> SUFFICES ASSUME IInv, [Next]_vars PROVE FlusherWillBeWoken'
    OBVIOUS
<1>0. /\ pc \in [Callers -> Labels]
      /\ after \in [Callers -> {"idle", "write", "stop_terminate"}]
      /\ NoOne \notin Callers
    BY CallersAssumption DEF IInv, TypeOK
<1>1. ASSUME NEW t \in Callers, CallWrite(t) PROVE FlusherWillBeWoken'
    BY SMT, <1>0, <1>1 DEF CallWrite, Begin, Goto, EnterFlush, FlushesAround, object, locks,
        locals, history, At, IInv, LockInv, Holding, Stopping, InFlush, InStart, InStop, Labels,
        ThreadInv, WorkerInv, FlusherWillBeWoken
<1>2. ASSUME NEW t \in Callers, CallFlush(t) \/ CallStop(t) \/ CallStart(t)
       PROVE  FlusherWillBeWoken'
    BY SMT, <1>0, <1>2 DEF CallFlush, Begin, EnterFlush, object, locks, locals, history, At,
        Goto, CallStop, CallStart, IInv, LockInv, Holding, Stopping, InFlush, InStart, InStop,
        Labels, ThreadInv, WorkerInv, FlusherWillBeWoken
<1>3. ASSUME NEW t \in Callers, Enqueue(t) PROVE FlusherWillBeWoken'
    BY SMT, <1>0, <1>3 DEF Enqueue, Goto, At, EnterFlush, Accept, Drop, locks, locals, buffers,
        IInv, LockInv, Holding, Stopping, InFlush, InStart, InStop, Labels, ThreadInv,
        WorkerInv, FlusherWillBeWoken
<1>4. ASSUME NEW t \in Callers, NotifyWorker(t) PROVE FlusherWillBeWoken'
    BY SMT, <1>0, <1>4 DEF NotifyWorker, Goto, At, EnterFlush, Notified, FlushesAround, object,
        locks, history, IInv, LockInv, Holding, Stopping, InFlush, InStart, InStop, Labels,
        ThreadInv, WorkerInv, FlusherWillBeWoken
<1>5. ASSUME NEW t \in Callers, FlushTerminated(t) PROVE FlusherWillBeWoken'
    <2>1. after[t] \in {"idle", "write", "stop_terminate"} /\ pc[t] = "flush"
        BY <1>0, <1>5 DEF FlushTerminated, At
    <2>2. /\ pc' = [pc EXCEPT ![t] = after[t]] /\ after' = [after EXCEPT ![t] = "idle"]
          /\ UNCHANGED <<object, locks, locals, msg>>
        BY <1>5 DEF FlushTerminated, LeaveFlush, Goto, buffers
    <2> QED  BY SMT, <1>0, <2>1, <2>2 DEF IInv, LockInv, Holding, Stopping, InFlush, InStart,
            InStop, Labels, ThreadInv, WorkerInv, FlusherWillBeWoken, object, locks, locals,
            At
<1>6. ASSUME NEW t \in Callers, RequestFlush(t) \/ FlushSpurious(t) PROVE FlusherWillBeWoken'
    BY SMT, <1>0, <1>6 DEF RequestFlush, Goto, At, Notified, locks, buffers, FlushSpurious,
        object, locals, history, IInv, LockInv, Holding, Stopping, InFlush, InStart, InStop,
        Labels, ThreadInv, WorkerInv, FlusherWillBeWoken
<1>7. ASSUME NEW t \in Callers, FlushReturn(t) PROVE FlusherWillBeWoken'
    <2>1. after[t] \in {"idle", "write", "stop_terminate"} /\ pc[t] = "flush_woken"
        BY <1>0, <1>7 DEF FlushReturn, At
    <2>2. /\ pc' = [pc EXCEPT ![t] = after[t]] /\ after' = [after EXCEPT ![t] = "idle"]
          /\ UNCHANGED <<object, locks, locals, msg>>
        BY <1>7 DEF FlushReturn, LeaveFlush, Goto, buffers
    <2> QED  BY SMT, <1>0, <2>1, <2>2 DEF IInv, LockInv, Holding, Stopping, InFlush, InStart,
            InStop, Labels, ThreadInv, WorkerInv, FlusherWillBeWoken, object, locks, locals,
            At
<1>8. ASSUME NEW t \in Callers, StopLock(t) PROVE FlusherWillBeWoken'
    BY SMT, <1>0, <1>8 DEF StopLock, Goto, At, EnterFlush, object, locals, buffers, history,
        IInv, LockInv, Holding, Stopping, InFlush, InStart, InStop, Labels, ThreadInv,
        WorkerInv, FlusherWillBeWoken
<1>9. ASSUME NEW t \in Callers, StopTerminate(t) \/ StopNotify(t) \/ StopJoin(t)
       PROVE  FlusherWillBeWoken'
    BY SMT, <1>0, <1>9 DEF StopTerminate, Goto, At, locks, locals, buffers, history, StopNotify,
        Notified, object, StopJoin, IInv, LockInv, Holding, Stopping, InFlush, InStart, InStop,
        Labels, ThreadInv, WorkerInv, FlusherWillBeWoken
<1>10. ASSUME NEW t \in Callers, StopWake(t) PROVE FlusherWillBeWoken'
    BY SMT, <1>0, <1>10 DEF StopWake, At, FlushersWoken, object, locals, buffers, history, IInv,
        LockInv, Holding, Stopping, InFlush, InStart, InStop, Labels, ThreadInv, WorkerInv,
        FlusherWillBeWoken
<1>11. ASSUME NEW t \in Callers, StartLock(t) PROVE FlusherWillBeWoken'
    BY SMT, <1>0, <1>11 DEF StartLock, Goto, At, object, locals, buffers, history, IInv,
        LockInv, Holding, Stopping, InFlush, InStart, InStop, Labels, ThreadInv, WorkerInv,
        FlusherWillBeWoken
<1>12. ASSUME NEW t \in Callers, StartClear(t) \/ StartReset(t) \/ StartRun(t)
        PROVE  FlusherWillBeWoken'
    BY SMT, <1>0, <1>12 DEF StartClear, Goto, At, locks, locals, buffers, history, StartReset,
        StartRun, IInv, LockInv, Holding, Stopping, InFlush, InStart, InStop, Labels, ThreadInv,
        WorkerInv, FlusherWillBeWoken
<1>13. ASSUME NEW t \in Callers, StartSpawn(t) PROVE FlusherWillBeWoken'
    BY SMT, <1>0, <1>13 DEF StartSpawn, Goto, At, object, buffers, history, IInv, LockInv,
        Holding, Stopping, InFlush, InStart, InStop, Labels, ThreadInv, WorkerInv,
        FlusherWillBeWoken
<1>14. CASE LoopTest \/ LoopWait \/ LoopSpurious
    BY SMT, <1>0, <1>14 DEF LoopTest, object, locks, buffers, history, LoopWait, NothingToDo,
        LoopSpurious, IInv, LockInv, Holding, Stopping, InFlush, InStart, InStop, Labels,
        ThreadInv, WorkerInv, FlusherWillBeWoken, At
<1>15. CASE LoopSwap
    BY SMT, <1>0, <1>15 DEF LoopSwap, NothingToDo, TakeOverrun, TakeFlushRequest, locks,
        buffers, history, IInv, LockInv, Holding, Stopping, InFlush, InStart, InStop, Labels,
        ThreadInv, WorkerInv, FlusherWillBeWoken, At
<1>16. CASE LoopLog \/ LoopReport
    BY SMT, <1>0, <1>16 DEF LoopLog, locks, locals, buffers, LoopReport, object, IInv, LockInv,
        Holding, Stopping, InFlush, InStart, InStop, Labels, ThreadInv, WorkerInv,
        FlusherWillBeWoken, At
<1>17. CASE LoopNotify
    BY SMT, <1>0, <1>17 DEF LoopNotify, LoopEnd, FlushersWoken, object, locks, buffers, history,
        IInv, LockInv, Holding, Stopping, InFlush, InStart, InStop, Labels, ThreadInv,
        WorkerInv, FlusherWillBeWoken, At
<1>18. CASE UNCHANGED vars
    BY SMT, <1>0, <1>18 DEF vars, object, locks, locals, buffers, history, IInv, LockInv,
        Holding, Stopping, InFlush, InStart, InStop, Labels, ThreadInv, WorkerInv,
        FlusherWillBeWoken, At
<1> QED  BY <1>1, <1>2, <1>3, <1>4, <1>5, <1>6, <1>7, <1>8, <1>9, <1>10, <1>11, <1>12, <1>13,
         <1>14, <1>15, <1>16, <1>17, <1>18
    DEF Next, Call, Step, Loop

\* Who makes work for a worker that waits has its notification to make.
LEMMA WakeStep == IInv /\ [Next]_vars => WorkerWillBeWoken'
<1> SUFFICES ASSUME IInv, [Next]_vars PROVE WorkerWillBeWoken'
    OBVIOUS
<1>0. /\ pc \in [Callers -> Labels]
      /\ after \in [Callers -> {"idle", "write", "stop_terminate"}]
      /\ NoOne \notin Callers
    BY CallersAssumption DEF IInv, TypeOK
<1>1. ASSUME NEW t \in Callers, CallWrite(t) PROVE WorkerWillBeWoken'
    BY SMT, <1>0, <1>1 DEF CallWrite, Begin, Goto, EnterFlush, FlushesAround, object, locks,
        locals, history, At, IInv, ThreadInv, InStart, InStop, Labels, WorkerWillBeWoken,
        NothingToDo
<1>2. ASSUME NEW t \in Callers, CallFlush(t) \/ CallStop(t) \/ CallStart(t)
       PROVE  WorkerWillBeWoken'
    BY SMT, <1>0, <1>2 DEF CallFlush, Begin, EnterFlush, object, locks, locals, history, At,
        Goto, CallStop, CallStart, IInv, ThreadInv, InStart, InStop, Labels, WorkerWillBeWoken,
        NothingToDo
<1>3. ASSUME NEW t \in Callers, Enqueue(t) PROVE WorkerWillBeWoken'
    BY SMT, <1>0, <1>3 DEF Enqueue, Goto, At, EnterFlush, Accept, Drop, locks, locals, buffers,
        IInv, ThreadInv, InStart, InStop, Labels, WorkerWillBeWoken, NothingToDo
<1>4. ASSUME NEW t \in Callers, NotifyWorker(t) PROVE WorkerWillBeWoken'
    BY SMT, <1>0, <1>4 DEF NotifyWorker, Goto, At, EnterFlush, Notified, FlushesAround, object,
        locks, history, IInv, ThreadInv, InStart, InStop, Labels, WorkerWillBeWoken, NothingToDo
<1>5. ASSUME NEW t \in Callers, FlushTerminated(t) PROVE WorkerWillBeWoken'
    BY SMT, <1>0, <1>5 DEF FlushTerminated, At, LeaveFlush, object, locks, locals, buffers,
        history, Goto, IInv, ThreadInv, InStart, InStop, Labels, WorkerWillBeWoken, NothingToDo
<1>6. ASSUME NEW t \in Callers, RequestFlush(t) \/ FlushSpurious(t) PROVE WorkerWillBeWoken'
    BY SMT, <1>0, <1>6 DEF RequestFlush, Goto, At, Notified, locks, buffers, FlushSpurious,
        object, locals, history, IInv, ThreadInv, InStart, InStop, Labels, WorkerWillBeWoken,
        NothingToDo
<1>7. ASSUME NEW t \in Callers, FlushReturn(t) PROVE WorkerWillBeWoken'
    BY SMT, <1>0, <1>7 DEF FlushReturn, At, LeaveFlush, object, locks, locals, buffers, Goto,
        IInv, ThreadInv, InStart, InStop, Labels, WorkerWillBeWoken, NothingToDo
<1>8. ASSUME NEW t \in Callers, StopLock(t) PROVE WorkerWillBeWoken'
    BY SMT, <1>0, <1>8 DEF StopLock, Goto, At, EnterFlush, object, locals, buffers, history,
        IInv, ThreadInv, InStart, InStop, Labels, WorkerWillBeWoken, NothingToDo
<1>9. ASSUME NEW t \in Callers, StopTerminate(t) \/ StopNotify(t) \/ StopJoin(t)
       PROVE  WorkerWillBeWoken'
    BY SMT, <1>0, <1>9 DEF StopTerminate, Goto, At, locks, locals, buffers, history, StopNotify,
        Notified, object, StopJoin, IInv, ThreadInv, InStart, InStop, Labels, WorkerWillBeWoken,
        NothingToDo
<1>10. ASSUME NEW t \in Callers, StopWake(t) PROVE WorkerWillBeWoken'
    BY SMT, <1>0, <1>10 DEF StopWake, At, FlushersWoken, object, locals, buffers, history, IInv,
        ThreadInv, InStart, InStop, Labels, WorkerWillBeWoken, NothingToDo
<1>11. ASSUME NEW t \in Callers, StartLock(t) PROVE WorkerWillBeWoken'
    BY SMT, <1>0, <1>11 DEF StartLock, Goto, At, object, locals, buffers, history, IInv,
        ThreadInv, InStart, InStop, Labels, WorkerWillBeWoken, NothingToDo
<1>12. ASSUME NEW t \in Callers, StartClear(t) \/ StartReset(t) \/ StartRun(t)
        PROVE  WorkerWillBeWoken'
    BY SMT, <1>0, <1>12 DEF StartClear, Goto, At, locks, locals, buffers, history, StartReset,
        StartRun, IInv, ThreadInv, InStart, InStop, Labels, WorkerWillBeWoken, NothingToDo
<1>13. ASSUME NEW t \in Callers, StartSpawn(t) PROVE WorkerWillBeWoken'
    BY SMT, <1>0, <1>13 DEF StartSpawn, Goto, At, object, buffers, history, IInv, ThreadInv,
        InStart, InStop, Labels, WorkerWillBeWoken, NothingToDo
<1>14. CASE LoopTest \/ LoopWait \/ LoopSpurious
    BY SMT, <1>0, <1>14 DEF LoopTest, object, locks, buffers, history, LoopWait, NothingToDo,
        LoopSpurious, IInv, ThreadInv, InStart, InStop, Labels, WorkerWillBeWoken
<1>15. CASE LoopSwap
    BY SMT, <1>0, <1>15 DEF LoopSwap, NothingToDo, TakeOverrun, TakeFlushRequest, locks,
        buffers, history, IInv, ThreadInv, InStart, InStop, Labels, WorkerWillBeWoken
<1>16. CASE LoopLog \/ LoopReport
    BY SMT, <1>0, <1>16 DEF LoopLog, locks, locals, buffers, LoopReport, object, IInv,
        ThreadInv, InStart, InStop, Labels, WorkerWillBeWoken, NothingToDo
<1>17. CASE LoopNotify
    BY SMT, <1>0, <1>17 DEF LoopNotify, LoopEnd, FlushersWoken, object, locks, buffers, history,
        IInv, ThreadInv, InStart, InStop, Labels, WorkerWillBeWoken, NothingToDo
<1>18. CASE UNCHANGED vars
    BY SMT, <1>0, <1>18 DEF vars, object, locks, locals, buffers, history, IInv, ThreadInv,
        InStart, InStop, Labels, WorkerWillBeWoken, NothingToDo
<1> QED  BY <1>1, <1>2, <1>3, <1>4, <1>5, <1>6, <1>7, <1>8, <1>9, <1>10, <1>11, <1>12, <1>13,
         <1>14, <1>15, <1>16, <1>17, <1>18
    DEF Next, Call, Step, Loop

\* The types: what a step can assign to the variables of each part.
LEMMA FlagStep == IInv /\ [Next]_vars => FlagTypes'
<1> SUFFICES ASSUME IInv, [Next]_vars PROVE FlagTypes'
    OBVIOUS
<1>1. /\ FlushRequested' = FlushRequested \/ FlushRequested' = TRUE \/ FlushRequested' = FALSE
      /\ flushRequested' = flushRequested \/ flushRequested' = FlushRequested \/ flushRequested' = FALSE
      /\ Terminated' = Terminated \/ Terminated' = TRUE \/ Terminated' = FALSE
      /\ Thread' = Thread \/ Thread' = TRUE \/ Thread' = FALSE
    BY Zenon DEF Next, Call, Step, Loop, vars, object, locks, locals, buffers, history,
        CallWrite, Begin, Goto, EnterFlush, FlushesAround, At, CallFlush, CallStop, CallStart,
        Enqueue, Accept, Drop, NotifyWorker, Notified, FlushTerminated, LeaveFlush,
        RequestFlush, FlushReturn, FlushSpurious, StopLock, StopTerminate, StopNotify, StopJoin,
        StopWake, FlushersWoken, StartLock, StartClear, StartReset, StartRun, StartSpawn,
        LoopTest, LoopWait, NothingToDo, LoopSpurious, LoopSwap, TakeOverrun, TakeFlushRequest,
        LoopLog, LoopReport, LoopNotify, LoopEnd
<1>2. /\ FlushRequested \in BOOLEAN /\ flushRequested \in BOOLEAN
      /\ Terminated \in BOOLEAN /\ Thread \in BOOLEAN
    BY Zenon DEF IInv, TypeOK
<1> QED  BY Zenon, <1>1, <1>2 DEF FlagTypes

LEMMA CountStep == IInv /\ [Next]_vars => CountTypes'
<1> SUFFICES ASSUME IInv, [Next]_vars PROVE CountTypes'
    OBVIOUS
<1>1. /\ Overrun' = Overrun \/ Overrun' = Overrun + 1 \/ Overrun' = 0
      /\ overrun' = overrun \/ overrun' = Overrun \/ overrun' = 0
      /\ sent' = sent \/ sent' = sent + 1
    BY Zenon DEF Next, Call, Step, Loop, vars, object, locks, locals, buffers, history,
        CallWrite, Begin, Goto, EnterFlush, FlushesAround, At, CallFlush, CallStop, CallStart,
        Enqueue, Accept, Drop, NotifyWorker, Notified, FlushTerminated, LeaveFlush,
        RequestFlush, FlushReturn, FlushSpurious, StopLock, StopTerminate, StopNotify, StopJoin,
        StopWake, FlushersWoken, StartLock, StartClear, StartReset, StartRun, StartSpawn,
        LoopTest, LoopWait, NothingToDo, LoopSpurious, LoopSwap, TakeOverrun, TakeFlushRequest,
        LoopLog, LoopReport, LoopNotify, LoopEnd
<1> QED  BY <1>1 DEF IInv, TypeOK, CountTypes

LEMMA QueueStep == IInv /\ [Next]_vars => QueueTypes'
<1> SUFFICES ASSUME IInv, [Next]_vars PROVE QueueTypes'
    OBVIOUS
<1>1. \/ UNCHANGED <<QueuePublic, QueuePrivate>>
      \/ /\ Len(QueuePublic) < kWorkQueueLimit
         /\ \E t \in Callers : pc[t] = "write" /\ QueuePublic' = Append(QueuePublic, msg[t])
         /\ QueuePrivate' = QueuePrivate
      \/ QueuePublic' = <<>> /\ QueuePrivate' = <<>>
      \/ worker # "log" /\ QueuePublic' = QueuePrivate /\ QueuePrivate' = QueuePublic
      \/ QueuePrivate # <<>> /\ QueuePrivate' = Tail(QueuePrivate) /\ QueuePublic' = QueuePublic
    BY SMT DEF Next, Call, Step, Loop, vars, object, locks, locals, buffers, history, CallWrite,
        Begin, Goto, EnterFlush, FlushesAround, At, CallFlush, CallStop, CallStart, Enqueue,
        Accept, Drop, NotifyWorker, Notified, FlushTerminated, LeaveFlush, RequestFlush,
        FlushReturn, FlushSpurious, StopLock, StopTerminate, StopNotify, StopJoin, StopWake,
        FlushersWoken, StartLock, StartClear, StartReset, StartRun, StartSpawn, LoopTest,
        LoopWait, NothingToDo, LoopSpurious, LoopSwap, TakeOverrun, TakeFlushRequest, LoopLog,
        LoopReport, LoopNotify, LoopEnd
<1>2. QueuePublic \in Seq(Message) /\ QueuePrivate \in Seq(Message) /\ Len(QueuePublic) <= kWorkQueueLimit
    BY DEF IInv, TypeOK
<1>3. \A t \in Callers : pc[t] = "write" => msg[t] \in Message
    BY DEF IInv, MessageInv
<1>4. worker # "log" => QueuePrivate = <<>>
    BY DEF IInv, WorkerInv
<1>5. CASE UNCHANGED <<QueuePublic, QueuePrivate>>
    BY <1>2, <1>5 DEF QueueTypes
<1>6. ASSUME NEW m \in Message, Len(QueuePublic) < kWorkQueueLimit,
             QueuePublic' = Append(QueuePublic, m), QueuePrivate' = QueuePrivate
      PROVE  QueueTypes'
    BY <1>2, <1>6, LimitAssumption DEF QueueTypes
<1>7. CASE QueuePublic' = <<>> /\ QueuePrivate' = <<>>
    BY <1>7, LimitAssumption DEF QueueTypes
<1>8. CASE worker # "log" /\ QueuePublic' = QueuePrivate /\ QueuePrivate' = QueuePublic
    BY <1>2, <1>4, <1>8, LimitAssumption DEF QueueTypes
<1>9. CASE QueuePrivate # <<>> /\ QueuePrivate' = Tail(QueuePrivate) /\ QueuePublic' = QueuePublic
    BY <1>2, <1>9 DEF QueueTypes
<1> QED  BY Zenon, <1>1, <1>3, <1>5, <1>6, <1>7, <1>8, <1>9

LEMMA OutputStep == IInv /\ [Next]_vars => OutputTypes'
<1> SUFFICES ASSUME IInv, [Next]_vars PROVE OutputTypes'
    OBVIOUS
<1>1. \/ output' = output
      \/ QueuePrivate # <<>> /\ output' = Append(output, Head(QueuePrivate))
      \/ overrun > 0 /\ output' = Append(output, [lost |-> overrun])
    BY Zenon DEF Next, Call, Step, Loop, vars, object, locks, locals, buffers, history,
        CallWrite, Begin, Goto, EnterFlush, FlushesAround, At, CallFlush, CallStop, CallStart,
        Enqueue, Accept, Drop, NotifyWorker, Notified, FlushTerminated, LeaveFlush,
        RequestFlush, FlushReturn, FlushSpurious, StopLock, StopTerminate, StopNotify, StopJoin,
        StopWake, FlushersWoken, StartLock, StartClear, StartReset, StartRun, StartSpawn,
        LoopTest, LoopWait, NothingToDo, LoopSpurious, LoopSwap, TakeOverrun, TakeFlushRequest,
        LoopLog, LoopReport, LoopNotify, LoopEnd
<1>2. /\ output \in Seq(Message \cup Report) /\ QueuePrivate \in Seq(Message)
      /\ overrun \in Nat
    BY DEF IInv, TypeOK
<1>3. QueuePrivate # <<>> => Head(QueuePrivate) \in Message
    BY <1>2
<1>4. overrun > 0 => [lost |-> overrun] \in Report
    BY <1>2 DEF Report
<1>5. \A line \in Message \cup Report : Append(output, line) \in Seq(Message \cup Report)
    BY <1>2
<1> QED  BY Zenon, <1>1, <1>2, <1>3, <1>4, <1>5 DEF OutputTypes

LEMMA OwedStep == IInv /\ [Next]_vars => OwedTypes'
<1> SUFFICES ASSUME IInv, [Next]_vars PROVE OwedTypes'
    OBVIOUS
<1>1. \/ owed' = owed
      \/ \E t \in Callers : owed' = [owed EXCEPT ![t] = Range(Pending)]
      \/ \E t \in Callers : owed' = [owed EXCEPT ![t] = {}]
    BY Zenon DEF Next, Call, Step, Loop, vars, object, locks, locals, buffers, history,
        CallWrite, Begin, Goto, EnterFlush, FlushesAround, At, CallFlush, CallStop, CallStart,
        Enqueue, Accept, Drop, NotifyWorker, Notified, FlushTerminated, LeaveFlush,
        RequestFlush, FlushReturn, FlushSpurious, StopLock, StopTerminate, StopNotify, StopJoin,
        StopWake, FlushersWoken, StartLock, StartClear, StartReset, StartRun, StartSpawn,
        LoopTest, LoopWait, NothingToDo, LoopSpurious, LoopSwap, TakeOverrun, TakeFlushRequest,
        LoopLog, LoopReport, LoopNotify, LoopEnd
<1>2. owed \in [Callers -> SUBSET Message] /\ QueuePublic \in Seq(Message) /\ QueuePrivate \in Seq(Message)
    BY DEF IInv, TypeOK
<1>3. Pending \in Seq(Message)
    BY <1>2 DEF Pending
<1>4. Range(Pending) \subseteq Message
    BY <1>3 DEF Range
<1> QED  BY <1>1, <1>2, <1>4 DEF OwedTypes

LEMMA CallStep == IInv /\ [Next]_vars => CallTypes'
<1> SUFFICES ASSUME IInv, [Next]_vars PROVE CallTypes'
    OBVIOUS
<1>1. /\ \/ calls' = calls
         \/ \E t \in Callers : calls[t] < MaxCalls /\ calls' = [calls EXCEPT ![t] = @ + 1]
      /\ \/ msg' = msg
         \/ \E t \in Callers, level \in Levels :
                /\ calls[t] < MaxCalls
                /\ msg' = [msg EXCEPT ![t] = [from |-> t, number |-> calls[t] + 1, level |-> level]]
         \/ \E t \in Callers : msg' = [msg EXCEPT ![t] = NoOne]
    BY Zenon DEF Next, Call, Step, Loop, vars, object, locks, locals, buffers, history,
        CallWrite, Begin, Goto, EnterFlush, FlushesAround, At, CallFlush, CallStop, CallStart,
        Enqueue, Accept, Drop, NotifyWorker, Notified, FlushTerminated, LeaveFlush,
        RequestFlush, FlushReturn, FlushSpurious, StopLock, StopTerminate, StopNotify, StopJoin,
        StopWake, FlushersWoken, StartLock, StartClear, StartReset, StartRun, StartSpawn,
        LoopTest, LoopWait, NothingToDo, LoopSpurious, LoopSwap, TakeOverrun, TakeFlushRequest,
        LoopLog, LoopReport, LoopNotify, LoopEnd
<1>2. calls \in [Callers -> 0..MaxCalls] /\ msg \in [Callers -> Message \cup {NoOne}]
    BY DEF IInv, TypeOK
<1>3. calls' \in [Callers -> 0..MaxCalls]
    BY <1>1, <1>2, BoundAssumption
<1>4. \A t \in Callers, level \in Levels :
          calls[t] < MaxCalls => [from |-> t, number |-> calls[t] + 1, level |-> level] \in Message
    BY <1>2, BoundAssumption DEF Message
<1>5. msg' \in [Callers -> Message \cup {NoOne}]
    BY <1>1, <1>2, <1>4
<1> QED  BY <1>3, <1>5 DEF CallTypes

LEMMA ControlStep == IInv /\ [Next]_vars => ControlTypes'
<1> SUFFICES ASSUME IInv, [Next]_vars PROVE ControlTypes'
    OBVIOUS
<1> DEFINE Workers == {"test", "queue", "waiting", "woken", "log", "notify", "done"}
           Backs == {"idle", "write", "stop_terminate"}
<1>1. /\ pc \in [Callers -> Labels] /\ after \in [Callers -> Backs]
      /\ worker \in Workers /\ startStopLock \in Callers \cup {NoOne}
    BY DEF IInv, TypeOK
<1>2. \A label \in {"idle", "write", "write_notify", "flush", "flush_wait", "flush_woken", "stop",
                    "stop_terminate", "stop_notify", "stop_join", "stop_wake", "start", "start_clear",
                    "start_reset", "start_run", "start_spawn"} : label \in Labels
    BY DEF Labels, InStop, InStart
<1>3. \A t \in Callers, label \in Labels : [pc EXCEPT ![t] = label] \in [Callers -> Labels]
    BY <1>1
<1>4. \A control \in [Callers -> Labels] : FlushersWoken(control) \in [Callers -> Labels]
    BY <1>2 DEF FlushersWoken
<1>5. \A t \in Callers : [pc EXCEPT ![t] = after[t]] \in [Callers -> Labels]
    BY <1>1, <1>2
<1>6. /\ startStopLock' = startStopLock \/ startStopLock' = NoOne
         \/ \E t \in Callers : startStopLock' = t
      /\ worker' \in Workers
      /\ after' = after \/ \E t \in Callers, back \in Backs : after' = [after EXCEPT ![t] = back]
    BY SMT, <1>1 DEF Next, Call, Step, Loop, vars, object, locks, locals, buffers, history,
        CallWrite, Begin, Goto, EnterFlush, FlushesAround, At, CallFlush, CallStop, CallStart,
        Enqueue, Accept, Drop, NotifyWorker, Notified, FlushTerminated, LeaveFlush,
        RequestFlush, FlushReturn, FlushSpurious, StopLock, StopTerminate, StopNotify, StopJoin,
        StopWake, FlushersWoken, StartLock, StartClear, StartReset, StartRun, StartSpawn,
        LoopTest, LoopWait, NothingToDo, LoopSpurious, LoopSwap, TakeOverrun, TakeFlushRequest,
        LoopLog, LoopReport, LoopNotify, LoopEnd
<1>7. pc' \in [Callers -> Labels]
    BY SMT, <1>1, <1>2, <1>3, <1>4, <1>5 DEF Next, Call, Step, Loop, vars, object, locks,
        locals, buffers, history, CallWrite, Begin, Goto, EnterFlush, FlushesAround, At,
        CallFlush, CallStop, CallStart, Enqueue, Accept, Drop, NotifyWorker, Notified,
        FlushTerminated, LeaveFlush, RequestFlush, FlushReturn, FlushSpurious, StopLock,
        StopTerminate, StopNotify, StopJoin, StopWake, FlushersWoken, StartLock, StartClear,
        StartReset, StartRun, StartSpawn, LoopTest, LoopWait, NothingToDo, LoopSpurious,
        LoopSwap, TakeOverrun, TakeFlushRequest, LoopLog, LoopReport, LoopNotify, LoopEnd
<1> QED  BY <1>1, <1>6, <1>7 DEF ControlTypes

LEMMA InitHolds == Init => IInv
<1> SUFFICES ASSUME Init PROVE IInv
    OBVIOUS
<1>1. ControlTypes /\ CountTypes /\ CallTypes /\ QueueTypes /\ OutputTypes /\ OwedTypes
    BY LimitAssumption, BoundAssumption
    DEF Init, ControlTypes, CountTypes, CallTypes, QueueTypes, OutputTypes, OwedTypes, Labels
<1>2. FlagTypes
    BY Zenon DEF Init, FlagTypes
<1>3. LockInv
    BY CallersAssumption DEF Init, LockInv, Holding, Stopping, InFlush, InStart
<1>4. ThreadInv
    BY DEF Init, ThreadInv, Stopping, InFlush, InStart, InStop
<1>5. WorkerInv /\ MessageInv
    BY DEF Init, WorkerInv, MessageInv, InFlush
<1>6. FlusherWillBeWoken /\ WorkerWillBeWoken
    BY DEF Init, FlusherWillBeWoken, WorkerWillBeWoken, At
<1> QED  BY Zenon, <1>1, <1>2, <1>3, <1>4, <1>5, <1>6
         DEF IInv, TypeOK, ControlTypes, FlagTypes, CountTypes, CallTypes, QueueTypes,
                 OutputTypes, OwedTypes

LEMMA NextHolds == IInv /\ [Next]_vars => IInv'
<1> SUFFICES ASSUME IInv, [Next]_vars PROVE IInv'
    OBVIOUS
<1>1. TypeOK'
    BY Zenon, ControlStep, FlagStep, CountStep, CallStep, QueueStep, OutputStep, OwedStep
    DEF TypeOK, ControlTypes, FlagTypes, CountTypes, CallTypes, QueueTypes, OutputTypes, OwedTypes
<1> QED  BY Zenon, <1>1, LockStep, ThreadStep, WorkerStep, MessageStep, FlusherStep, WakeStep DEF
        IInv

-----------------------------------------------------------------------------
(* Theorems                                                                  *)

\* The invariant holds for every number of threads, every queue limit and build,
\* whatever the threads call.
THEOREM Invariance == Spec => []IInv
BY PTL, InitHolds, NextHolds DEF Spec

\* No counter, queue or control leaves its range, however the calls interleave.
THEOREM TypeCorrect == Spec => []TypeOK
<1>1. IInv => TypeOK
    BY DEF IInv
<1> QED  BY PTL, <1>1, Invariance

\* However Stop and Start calls overlap there is never a second worker, and none
\* prints once Stop let go of it.
THEOREM WorkerIsAlone == Spec => []OneWorker
<1>1. IInv => OneWorker
    BY DEF IInv, ThreadInv, OneWorker
<1> QED  BY PTL, <1>1, Invariance

\* Whoever waits in Flush has a wakeup coming, also when the logger is stopped
\* and started under its feet.
THEOREM FlushersAreWoken == Spec => []FlusherWillBeWoken
<1>1. IInv => FlusherWillBeWoken
    BY DEF IInv
<1> QED  BY PTL, <1>1, Invariance

\* The worker never sleeps on work: no notification is lost, although they are
\* made outside the lock.
THEOREM WorkerIsWoken == Spec => []WorkerWillBeWoken
<1>1. IInv => WorkerWillBeWoken
    BY DEF IInv
<1> QED  BY PTL, <1>1, Invariance

\* Swapping the queues of an idle worker moves no message.
LEMMA PendingSwapped ==
    ASSUME NEW first, first \in Seq(Message)
    PROVE  <<>> \o first = first /\ first \o <<>> = first
OBVIOUS

\* Two queues behave as one line: an accepted message goes to its end, a printed
\* one leaves its front, a dropped one is counted until a report counts it, and
\* only a logger without a worker forgets.
THEOREM LogIsLossyLine == Spec => ImplementsAbstractLog
<1>1. Init => Abstract!Init
    BY DEF Init, Abstract!Init, Pending
<1>2. ASSUME IInv, [Next]_vars
      PROVE  [Abstract!Next]_(Abstract!vars)
    <2>1. /\ QueuePublic \in Seq(Message) /\ QueuePrivate \in Seq(Message)
          /\ Overrun \in Nat /\ overrun \in Nat
          /\ worker # "log" => QueuePrivate = <<>> /\ overrun = 0
        BY <1>2 DEF IInv, TypeOK, WorkerInv
    <2>2. \A t \in Callers : pc[t] = "write" => msg[t] \in Message
        BY <1>2 DEF IInv, MessageInv
    <2>3. \A t \in Callers : pc[t] \in InStart => worker = "done"
        BY <1>2 DEF IInv, ThreadInv
    <2>4. ASSUME UNCHANGED <<QueuePublic, QueuePrivate, Overrun, overrun, output>>,
                 (worker # "done")' = (worker # "done")
          PROVE  UNCHANGED Abstract!vars
        BY <2>4 DEF Abstract!vars, Pending
    <2>5. CASE \/ UNCHANGED vars
               \/ LoopWait \/ LoopSpurious \/ LoopNotify
               \/ \E t \in Callers :
                     \/ Call(t) \/ NotifyWorker(t) \/ FlushTerminated(t) \/ RequestFlush(t)
                     \/ FlushReturn(t) \/ FlushSpurious(t)
                     \/ StopLock(t) \/ StopTerminate(t) \/ StopNotify(t) \/ StopJoin(t) \/ StopWake(t)
                     \/ StartLock(t) \/ StartRun(t)
        <3>1. /\ UNCHANGED <<QueuePublic, QueuePrivate, Overrun, overrun, output>>
              /\ worker' = worker \/ (worker # "done" /\ worker' # "done")
            BY SMT, <2>5 DEF Call, vars, object, locks, locals, buffers, history, CallWrite,
                Begin, Goto, EnterFlush, FlushesAround, At, CallFlush, CallStop, CallStart,
                Accept, Drop, NotifyWorker, Notified, FlushTerminated, LeaveFlush, RequestFlush,
                FlushReturn, FlushSpurious, StopLock, StopTerminate, StopNotify, StopJoin,
                StopWake, FlushersWoken, StartLock, StartRun, LoopWait, NothingToDo,
                LoopSpurious, TakeOverrun, TakeFlushRequest, LoopNotify, LoopEnd
        <3> QED  BY <2>4, <3>1
    <2>6. ASSUME NEW t \in Callers, Enqueue(t)
          PROVE  [Abstract!Next]_(Abstract!vars)
        <3>1. /\ pc[t] = "write" /\ QueuePrivate' = QueuePrivate /\ overrun' = overrun
              /\ output' = output /\ worker' = worker
              /\ \/ QueuePublic' = Append(QueuePublic, msg[t]) /\ Overrun' = Overrun
                 \/ /\ Len(QueuePublic) >= kWorkQueueLimit /\ Overrun' = Overrun + 1
                    /\ QueuePublic' = QueuePublic
                 \/ QueuePublic' = QueuePublic /\ Overrun' = Overrun
            BY <2>6 DEF Enqueue, Accept, Drop, At, locals
        <3>2. CASE QueuePublic' = Append(QueuePublic, msg[t]) /\ Overrun' = Overrun
            <4>1. Pending' = Append(Pending, msg[t])
                BY <2>1, <2>2, <3>1, <3>2 DEF Pending
            <4> QED  BY <2>2, <3>1, <3>2, <4>1 DEF Abstract!Next, Abstract!Accept
        <3>3. CASE /\ Len(QueuePublic) >= kWorkQueueLimit /\ Overrun' = Overrun + 1
                   /\ QueuePublic' = QueuePublic
            <4>1. Pending' = Pending /\ Len(Pending) >= kWorkQueueLimit
                BY <2>1, <3>1, <3>3, LimitAssumption DEF Pending
            <4>2. Overrun' + overrun' = (Overrun + overrun) + 1
                BY <2>1, <3>1, <3>3
            <4> QED  BY <3>1, <4>1, <4>2 DEF Abstract!Next, Abstract!Refuse
        <3>4. CASE QueuePublic' = QueuePublic /\ Overrun' = Overrun
            BY <2>4, <3>1, <3>4
        <3> QED  BY <3>1, <3>2, <3>3, <3>4
    <2>7. ASSUME NEW t \in Callers, StartClear(t) \/ StartReset(t) \/ StartSpawn(t)
          PROVE  [Abstract!Next]_(Abstract!vars)
        <3>1. worker = "done"
            BY <2>3, <2>7 DEF StartClear, StartReset, StartSpawn, At, InStart
        <3>2. CASE StartClear(t) \/ StartReset(t)
            <4>1. /\ Pending' = Pending \/ Pending' = <<>>
                  /\ Overrun' + overrun' = Overrun + overrun \/ Overrun' + overrun' = 0
                  /\ output' = output /\ worker' = "done"
                BY <2>1, <3>1, <3>2 DEF StartClear, StartReset, Pending, history, locals
            <4> QED  BY <3>1, <4>1 DEF Abstract!Next, Abstract!Forget
        <3>3. CASE StartSpawn(t)
            BY <3>1, <3>3 DEF StartSpawn, object, history, Pending, Abstract!Next, Abstract!Resume
        <3> QED  BY <2>7, <3>2, <3>3
    <2>8. CASE LoopTest
        BY <2>4, <2>8 DEF LoopTest, object, history, Pending, Abstract!Next, Abstract!Halt
    <2>9. CASE LoopSwap
        <3>1. /\ QueuePrivate' = QueuePublic /\ QueuePublic' = QueuePrivate
              /\ overrun' = Overrun /\ Overrun' = 0
              /\ worker \in {"woken", "queue"} /\ worker' = "log" /\ output' = output
            BY <2>9 DEF LoopSwap, TakeOverrun, history
        <3>2. Pending' = Pending
            BY <2>1, <3>1, PendingSwapped DEF Pending
        <3>3. Overrun' + overrun' = Overrun + overrun
            BY <2>1, <3>1
        <3> QED  BY <3>1, <3>2, <3>3 DEF Abstract!vars
    <2>10. CASE LoopLog
        <3>1. /\ QueuePrivate # <<>> /\ output' = Append(output, Head(QueuePrivate))
              /\ QueuePrivate' = Tail(QueuePrivate) /\ QueuePublic' = QueuePublic
              /\ Overrun' = Overrun /\ overrun' = overrun
              /\ worker = "log" /\ worker' = "log"
            BY <2>10 DEF LoopLog, locals
        <3>2. Pending # <<>> /\ Head(Pending) = Head(QueuePrivate) /\ Pending' = Tail(Pending)
            BY <2>1, <3>1 DEF Pending
        <3> QED  BY <3>1, <3>2 DEF Abstract!Next, Abstract!Emit
    <2>11. CASE LoopReport
        <3>1. /\ QueuePrivate' = QueuePrivate /\ QueuePublic' = QueuePublic /\ Overrun' = Overrun
              /\ worker = "log" /\ worker' = "notify" /\ overrun' = 0
              /\ output' = IF overrun > 0 THEN Append(output, [lost |-> overrun]) ELSE output
            BY <2>11 DEF LoopReport, object
        <3>2. CASE overrun > 0
            <4>1. /\ overrun \in 1..(Overrun + overrun) /\ Overrun' + overrun' = (Overrun + overrun) - overrun
                  /\ Pending' = Pending
                BY <2>1, <3>1, <3>2 DEF Pending
            <4> QED  BY <3>1, <3>2, <4>1 DEF Abstract!Next, Abstract!ReportRefused
        <3>3. CASE ~(overrun > 0)
            BY <2>1, <2>4, <3>1, <3>3
        <3> QED  BY <3>2, <3>3
    <2> QED  BY <1>2, <2>5, <2>6, <2>7, <2>8, <2>9, <2>10, <2>11 DEF Next, Step, Loop
<1> QED  BY PTL, <1>1, <1>2, Invariance DEF Spec, ImplementsAbstractLog, Abstract!Spec

-----------------------------------------------------------------------------
(* Flushing                                                                  *)

\* Who may come to wait in Flush: a caller of Flush or Stop, and a writer where
\* Write flushes.
MayFlush(t) ==
    \/ May[t] \cap {"Flush", "Stop"} # {}
    \/ "Write" \in May[t] /\ (NeverDrop \/ (FlushErrors /\ "Error" \in Levels))
OneFlusher == \A t, s \in Callers : MayFlush(t) /\ MayFlush(s) => t = s

\* A Write that is still to queue its message.
BeforeQueue(t) == pc[t] = "write" \/ (InFlush(t) /\ after[t] = "write")

\* Nobody is in a call it does not make.
CallInv ==
    \A t \in Callers :
        /\ InFlush(t) \/ pc[t] \in {"stop", "stop_terminate"} \cup InStop => MayFlush(t)
        /\ BeforeQueue(t) \/ pc[t] = "write_notify" => "Write" \in May[t]

LEMMA CallsStep == IInv /\ CallInv /\ [Next]_vars => CallInv'
<1> SUFFICES ASSUME IInv, CallInv, [Next]_vars PROVE CallInv'
    OBVIOUS
<1>0. /\ pc \in [Callers -> Labels]
      /\ after \in [Callers -> {"idle", "write", "stop_terminate"}]
    BY DEF IInv, TypeOK
<1>1. ASSUME NEW t \in Callers, CallWrite(t) PROVE CallInv'
    <2>1. PICK level \in Levels :
              /\ pc[t] = "idle" /\ "Write" \in May[t]
              /\ \/ pc' = [pc EXCEPT ![t] = "write"] /\ after' = after
                 \/ /\ FlushErrors /\ level = "Error"
                    /\ pc' = [pc EXCEPT ![t] = "flush"] /\ after' = [after EXCEPT ![t] = "write"]
        BY Zenon, <1>1 DEF CallWrite, Begin, At, Goto, EnterFlush, FlushesAround
    <2> QED  BY SMT, <1>0, <2>1 DEF CallInv, MayFlush, BeforeQueue, InFlush, InStop, Labels
<1>2. ASSUME NEW t \in Callers, CallFlush(t) \/ CallStop(t) \/ CallStart(t) PROVE CallInv'
    BY SMT, <1>0, <1>2 DEF CallFlush, CallStop, CallStart, Begin, EnterFlush, Goto, At,
        CallInv, MayFlush, BeforeQueue, InFlush, InStop, Labels
<1>3. ASSUME NEW t \in Callers, Enqueue(t) PROVE CallInv'
    <2>1. /\ pc[t] = "write"
          /\ \/ pc' = [pc EXCEPT ![t] = "write_notify"] /\ after' = after
             \/ /\ NeverDrop
                /\ pc' = [pc EXCEPT ![t] = "flush"] /\ after' = [after EXCEPT ![t] = "write"]
        BY Zenon, <1>3 DEF Enqueue, Goto, At, EnterFlush
    <2> QED  BY SMT, <1>0, <2>1 DEF CallInv, MayFlush, BeforeQueue, InFlush, InStop, Labels
<1>4. ASSUME NEW t \in Callers, NotifyWorker(t) PROVE CallInv'
    <2>1. /\ pc[t] = "write_notify" /\ msg[t] \in Message
          /\ \/ pc' = [pc EXCEPT ![t] = "idle"] /\ after' = after
             \/ /\ FlushErrors /\ msg[t].level = "Error"
                /\ pc' = [pc EXCEPT ![t] = "flush"] /\ after' = [after EXCEPT ![t] = "idle"]
        BY Zenon, <1>4 DEF NotifyWorker, Goto, At, EnterFlush, FlushesAround, IInv, MessageInv
    <2>2. msg[t].level \in Levels
        BY <2>1 DEF Message
    <2> QED  BY SMT, <1>0, <2>1, <2>2 DEF CallInv, MayFlush, BeforeQueue, InFlush, InStop, Labels
<1>5. ASSUME NEW t \in Callers, FlushTerminated(t) \/ FlushReturn(t) PROVE CallInv'
    <2>1. /\ pc[t] \in {"flush", "flush_woken"} /\ after[t] \in {"idle", "write", "stop_terminate"}
          /\ pc' = [pc EXCEPT ![t] = after[t]] /\ after' = [after EXCEPT ![t] = "idle"]
        BY <1>0, <1>5 DEF FlushTerminated, FlushReturn, LeaveFlush, Goto, At
    <2> QED  BY SMT, <1>0, <2>1 DEF CallInv, MayFlush, BeforeQueue, InFlush, InStop, Labels
<1>6. ASSUME NEW t \in Callers, RequestFlush(t) \/ FlushSpurious(t) PROVE CallInv'
    BY SMT, <1>0, <1>6 DEF RequestFlush, FlushSpurious, Goto, At, locals,
        CallInv, MayFlush, BeforeQueue, InFlush, InStop, Labels
<1>7. ASSUME NEW t \in Callers,
             \/ StopLock(t) \/ StopTerminate(t) \/ StopNotify(t) \/ StopJoin(t) \/ StartLock(t)
             \/ StartClear(t) \/ StartReset(t) \/ StartRun(t) \/ StartSpawn(t)
      PROVE  CallInv'
    <2>1. \/ /\ pc[t] = "stop"
             /\ pc' = [pc EXCEPT ![t] = "flush"] /\ after' = [after EXCEPT ![t] = "stop_terminate"]
          \/ /\ pc[t] \in {"stop", "stop_terminate"} \cup InStop
             /\ \E label \in InStop : pc' = [pc EXCEPT ![t] = label]
             /\ after' = after
          \/ /\ pc[t] \in {"start"} \cup InStart
             /\ \E label \in {"idle"} \cup InStart : pc' = [pc EXCEPT ![t] = label]
             /\ after' = after
        BY SMT, <1>7 DEF StopLock, StopTerminate, StopNotify, StopJoin, StartLock, StartClear,
            StartReset, StartRun, StartSpawn, EnterFlush, Goto, At, InStop, InStart
    <2> QED  BY SMT, <1>0, <2>1 DEF CallInv, MayFlush, BeforeQueue, InFlush, InStop, InStart, Labels
<1>8. ASSUME NEW t \in Callers, StopWake(t) PROVE CallInv'
    BY SMT, <1>0, <1>8 DEF StopWake, At, FlushersWoken, CallInv, MayFlush, BeforeQueue, InFlush,
        InStop, Labels
<1>9. CASE Loop \/ LoopSpurious
    <2>1. after' = after /\ (pc' = pc \/ pc' = FlushersWoken(pc))
        BY SMT, <1>9 DEF Loop, LoopSpurious, LoopTest, LoopWait, LoopSwap, TakeFlushRequest,
            LoopLog, LoopReport, LoopNotify, LoopEnd
    <2> QED  BY SMT, <1>0, <2>1 DEF FlushersWoken, CallInv, MayFlush, BeforeQueue, InFlush,
            InStop, Labels
<1>10. CASE UNCHANGED vars
    BY SMT, <1>0, <1>10 DEF vars, CallInv, MayFlush, BeforeQueue, InFlush, InStop, Labels
<1> QED  BY Zenon, <1>1, <1>2, <1>3, <1>4, <1>5, <1>6, <1>7, <1>8, <1>9, <1>10 DEF Next, Call, Step

\* The request of the flusher that waits, on its way to the worker and back.
RequestInv ==
    /\ FlushRequested \/ flushRequested => \E t \in Callers : At(t, "flush_wait")
    /\ ~(FlushRequested /\ flushRequested)

\* What was pending when the Flush began is printed or is still ahead of the
\* worker: in either queue until the worker took the request, then in its own.
OwedInv ==
    \A t \in Callers :
        /\ At(t, "flush_wait") =>
                owed[t] \subseteq Range(output) \cup Range(QueuePrivate) \cup Range(QueuePublic)
        /\ At(t, "flush_wait") /\ flushRequested =>
                owed[t] \subseteq Range(output) \cup Range(QueuePrivate)
        /\ At(t, "flush_woken") => owed[t] \subseteq Range(output)

FlushInv == CallInv /\ RequestInv /\ OwedInv

LEMMA RangeOfAppend ==
    ASSUME NEW S, NEW s \in Seq(S), NEW e \in S
    PROVE  Range(Append(s, e)) = Range(s) \cup {e}
<1>1. ASSUME NEW i \in DOMAIN Append(s, e) PROVE Append(s, e)[i] \in Range(s) \cup {e}
    BY <1>1 DEF Range
<1>2. ASSUME NEW i \in DOMAIN s PROVE s[i] \in Range(Append(s, e))
    BY <1>2 DEF Range
<1>3. e \in Range(Append(s, e))
    <2>1. Len(s) + 1 \in DOMAIN Append(s, e) /\ Append(s, e)[Len(s) + 1] = e
        OBVIOUS
    <2> QED  BY <2>1 DEF Range
<1> QED  BY Zenon, <1>1, <1>2, <1>3 DEF Range

LEMMA RangeOfConcatenation ==
    ASSUME NEW S, NEW s \in Seq(S), NEW r \in Seq(S)
    PROVE  Range(s \o r) = Range(s) \cup Range(r)
<1>1. ASSUME NEW i \in DOMAIN (s \o r) PROVE (s \o r)[i] \in Range(s) \cup Range(r)
    BY <1>1 DEF Range
<1>2. ASSUME NEW i \in DOMAIN s PROVE s[i] \in Range(s \o r)
    BY <1>2 DEF Range
<1>3. ASSUME NEW i \in DOMAIN r PROVE r[i] \in Range(s \o r)
    <2>1. Len(s) + i \in DOMAIN (s \o r) /\ (s \o r)[Len(s) + i] = r[i]
        BY <1>3
    <2> QED  BY <2>1 DEF Range
<1> QED  BY Zenon, <1>1, <1>2, <1>3 DEF Range

LEMMA RangeOfFront ==
    ASSUME NEW S, NEW s \in Seq(S), s # <<>>
    PROVE  Range(s) = {Head(s)} \cup Range(Tail(s))
<1>1. ASSUME NEW i \in DOMAIN s PROVE s[i] \in {Head(s)} \cup Range(Tail(s))
    <2>1. CASE i = 1
        BY <2>1
    <2>2. CASE i # 1
        <3>1. i - 1 \in DOMAIN Tail(s) /\ Tail(s)[i - 1] = s[i]
            BY <1>1, <2>2
        <3> QED  BY <3>1 DEF Range
    <2> QED  BY <2>1, <2>2
<1>2. Head(s) \in Range(s)
    BY DEF Range
<1>3. ASSUME NEW i \in DOMAIN Tail(s) PROVE Tail(s)[i] \in Range(s)
    <2>1. i + 1 \in DOMAIN s /\ s[i + 1] = Tail(s)[i]
        BY <1>3
    <2> QED  BY <2>1 DEF Range
<1> QED  BY Zenon, <1>1, <1>2, <1>3 DEF Range

\* With one flusher, a wakeup it gets is the answer to its own request.
LEMMA FlushStep ==
    ASSUME OneFlusher, ~SpuriousWakeups
    PROVE  IInv /\ FlushInv /\ [Next]_vars => (RequestInv /\ OwedInv)'
<1> SUFFICES ASSUME IInv, FlushInv, [Next]_vars PROVE RequestInv' /\ OwedInv'
    OBVIOUS
<1>0. /\ pc \in [Callers -> Labels]
      /\ after \in [Callers -> {"idle", "write", "stop_terminate"}]
      /\ owed \in [Callers -> SUBSET Message]
      /\ QueuePublic \in Seq(Message) /\ QueuePrivate \in Seq(Message)
      /\ output \in Seq(Message \cup Report) /\ overrun \in Nat
      /\ RequestInv /\ OwedInv /\ CallInv
    BY DEF IInv, TypeOK, FlushInv
<1>1. \A t, s \in Callers : MayFlush(t) /\ MayFlush(s) => t = s
    BY DEF OneFlusher
<1>2. \A t \in Callers : pc[t] \in {"flush", "flush_wait", "flush_woken"} \cup InStop => MayFlush(t)
    BY <1>0 DEF CallInv, InFlush
<1>3. ASSUME UNCHANGED <<QueuePrivate, FlushRequested, flushRequested, owed, output>>,
             Range(QueuePublic) \subseteq Range(QueuePublic'),
             \A t \in Callers :
                 /\ pc'[t] = "flush_wait" <=> pc[t] = "flush_wait"
                 /\ pc'[t] = "flush_woken" => pc[t] = "flush_woken"
      PROVE  RequestInv' /\ OwedInv'
    BY SMT, <1>0, <1>3 DEF RequestInv, OwedInv, At
<1>4. ASSUME NEW t \in Callers, Call(t) \/ NotifyWorker(t) \/ FlushTerminated(t)
      PROVE  RequestInv' /\ OwedInv'
    <2>1. /\ UNCHANGED <<QueuePrivate, QueuePublic, FlushRequested, flushRequested, owed, output>>
          /\ pc[t] = "idle" \/ pc[t] = "write_notify" \/ pc[t] = "flush"
          /\ \/ pc' = [pc EXCEPT ![t] = "idle"] \/ pc' = [pc EXCEPT ![t] = "write"]
             \/ pc' = [pc EXCEPT ![t] = "flush"] \/ pc' = [pc EXCEPT ![t] = "stop"]
             \/ pc' = [pc EXCEPT ![t] = "start"] \/ pc' = [pc EXCEPT ![t] = after[t]]
        BY Zenon, <1>4 DEF Call, CallWrite, CallFlush, CallStop, CallStart, NotifyWorker,
            FlushTerminated, LeaveFlush, Begin, EnterFlush, Goto, At, object, locals, history
    <2>2. after[t] \in {"idle", "write", "stop_terminate"}
        BY <1>0
    <2> QED  BY SMT, <1>0, <1>3, <2>1, <2>2
<1>5. ASSUME NEW t \in Callers, Enqueue(t) PROVE RequestInv' /\ OwedInv'
    <2>1. /\ UNCHANGED <<QueuePrivate, FlushRequested, flushRequested, owed, output>>
          /\ QueuePublic' = QueuePublic \/ QueuePublic' = Append(QueuePublic, msg[t])
          /\ pc[t] = "write"
          /\ \E label \in {"write_notify", "flush"} : pc' = [pc EXCEPT ![t] = label]
        BY SMT, <1>5 DEF Enqueue, Accept, Drop, EnterFlush, Goto, At, locals
    <2>2. msg[t] \in Message
        BY <2>1 DEF IInv, MessageInv
    <2>3. Range(QueuePublic) \subseteq Range(QueuePublic')
        <3>1. Range(Append(QueuePublic, msg[t])) = Range(QueuePublic) \cup {msg[t]}
            BY <1>0, <2>2, RangeOfAppend
        <3>2. CASE QueuePublic' = QueuePublic
            BY <3>2
        <3>3. CASE QueuePublic' = Append(QueuePublic, msg[t])
            BY Zenon, <3>1, <3>3
        <3> QED  BY <2>1, <3>2, <3>3
    <2> QED  BY SMT, <1>0, <1>3, <2>1, <2>3
<1>6. ASSUME NEW t \in Callers, RequestFlush(t) PROVE RequestInv' /\ OwedInv'
    <2>1. /\ pc[t] = "flush" /\ pc' = [pc EXCEPT ![t] = "flush_wait"]
          /\ FlushRequested' = TRUE /\ owed' = [owed EXCEPT ![t] = Range(Pending)]
          /\ UNCHANGED <<QueuePublic, QueuePrivate, flushRequested, output>>
        BY Zenon, <1>6 DEF RequestFlush, Goto, At
    <2>2. Range(Pending) = Range(QueuePrivate) \cup Range(QueuePublic)
        BY Zenon, <1>0, RangeOfConcatenation DEF Pending
    <2>3. \A s \in Callers : s # t => pc[s] # "flush_wait" /\ pc[s] # "flush_woken"
        BY Zenon, <1>1, <1>2, <2>1
    <2>4. ~flushRequested
        BY SMT, <1>0, <2>1, <2>3 DEF RequestInv, At
    <2> QED  BY SMT, <1>0, <2>1, <2>2, <2>3, <2>4 DEF RequestInv, OwedInv, At
<1>7. ASSUME NEW t \in Callers, FlushReturn(t) PROVE RequestInv' /\ OwedInv'
    <2>1. /\ pc[t] = "flush_woken" /\ pc' = [pc EXCEPT ![t] = after[t]]
          /\ owed' = [owed EXCEPT ![t] = {}]
          /\ UNCHANGED <<QueuePublic, QueuePrivate, FlushRequested, flushRequested, output>>
        BY SMT, <1>7 DEF FlushReturn, LeaveFlush, Goto, At, object, locals
    <2> QED  BY SMT, <1>0, <2>1 DEF RequestInv, OwedInv, At
<1>8. ASSUME NEW t \in Callers,
             \/ StopLock(t) \/ StopTerminate(t) \/ StopNotify(t) \/ StopJoin(t)
             \/ StartLock(t) \/ StartRun(t) \/ StartSpawn(t)
      PROVE  RequestInv' /\ OwedInv'
    <2>1. /\ UNCHANGED <<QueuePrivate, QueuePublic, FlushRequested, flushRequested, owed, output>>
          /\ pc[t] \notin {"flush_wait", "flush_woken"}
          /\ \E label \in {"idle", "flush", "start_clear", "start_spawn"} \cup InStop :
                pc' = [pc EXCEPT ![t] = label]
        BY SMT, <1>8 DEF StopLock, StopTerminate, StopNotify, StopJoin, StartLock, StartRun,
            StartSpawn, EnterFlush, Goto, At, object, locals, history, InStop
    <2> QED  BY SMT, <1>0, <1>3, <2>1 DEF InStop
<1>9. ASSUME NEW t \in Callers, StopWake(t) PROVE RequestInv' /\ OwedInv'
    <2>1. /\ UNCHANGED <<QueuePrivate, QueuePublic, FlushRequested, flushRequested, owed, output>>
          /\ pc[t] = "stop_wake" /\ pc' = FlushersWoken([pc EXCEPT ![t] = "idle"])
        BY Zenon, <1>9 DEF StopWake, At, object, locals, history
    <2>2. \A s \in Callers : pc[s] # "flush_wait"
        BY Zenon, <1>1, <1>2, <2>1 DEF InStop
    <2> QED  BY SMT, <1>0, <1>3, <2>1, <2>2 DEF FlushersWoken
<1>10. ASSUME NEW t \in Callers, StartClear(t) \/ StartReset(t) PROVE RequestInv' /\ OwedInv'
    <2>1. /\ pc[t] \in {"start_clear", "start_reset"}
          /\ \/ pc' = [pc EXCEPT ![t] = "start_reset"] \/ pc' = [pc EXCEPT ![t] = "start_run"]
          /\ FlushRequested' = FlushRequested \/ FlushRequested' = FALSE
          /\ UNCHANGED <<flushRequested, owed, output>>
        BY Zenon, <1>10 DEF StartClear, StartReset, Goto, At, locals, history
    <2>2. worker = "done" /\ ~flushRequested
        BY SMT, <2>1 DEF IInv, ThreadInv, WorkerInv, InStart
    <2>3. \A s \in Callers : pc[s] # "start_spawn" /\ pc[s] # "flush_wait"
        <3>1. \A s \in Callers : Holding(s) => s = t
            BY SMT, <2>1 DEF IInv, LockInv, Holding, InStart
        <3>2. \A s \in Callers : pc[s] \notin InStop \cup {"start_spawn"}
            BY SMT, <2>1, <3>1 DEF Holding, Stopping, InStart, InStop
        <3> QED  BY SMT, <2>1, <2>2, <3>2 DEF IInv, FlusherWillBeWoken, At
    <2>4. ~FlushRequested
        BY SMT, <1>0, <2>3 DEF RequestInv, At
    <2>5. ~FlushRequested' /\ ~flushRequested'
        <3>1. FlushRequested = FALSE /\ flushRequested = FALSE
            BY Zenon, <2>2, <2>4 DEF IInv, TypeOK
        <3>2. FlushRequested' = FALSE /\ flushRequested' = FALSE
            BY Zenon, <2>1, <3>1
        <3> QED  BY Zenon, <3>2
    <2>6. \A s \in Callers : pc'[s] # "flush_wait" /\ (pc'[s] = "flush_woken" => pc[s] = "flush_woken")
        BY SMT, <1>0, <2>1, <2>3
    <2> QED  BY SMT, <1>0, <2>1, <2>5, <2>6 DEF RequestInv, OwedInv, At
<1>11. CASE LoopTest \/ LoopWait
    <2>1. UNCHANGED <<QueuePrivate, QueuePublic, FlushRequested, flushRequested, owed, output, pc>>
        BY Zenon, <1>11 DEF LoopTest, LoopWait, object, history
    <2> QED  BY SMT, <1>3, <2>1
<1>12. CASE LoopSwap
    <2>1. /\ QueuePrivate' = QueuePublic /\ QueuePublic' = QueuePrivate
          /\ flushRequested' = FlushRequested /\ FlushRequested' = FALSE
          /\ worker \in {"woken", "queue"} /\ UNCHANGED <<pc, owed, output>>
        BY SMT, <1>12 DEF LoopSwap, TakeFlushRequest, history
    <2>2. QueuePrivate = <<>> /\ ~flushRequested
        BY SMT, <2>1 DEF IInv, WorkerInv
    <2>3. Range(QueuePrivate) = {}
        BY <2>2 DEF Range
    <2> QED  BY SMT, <1>0, <2>1, <2>2, <2>3 DEF RequestInv, OwedInv, At
<1>13. CASE LoopLog
    <2>1. /\ QueuePrivate # <<>> /\ QueuePrivate' = Tail(QueuePrivate)
          /\ output' = Append(output, Head(QueuePrivate))
          /\ UNCHANGED <<QueuePublic, FlushRequested, flushRequested, pc, owed>>
        BY Zenon, <1>13 DEF LoopLog, locals
    <2>2. Head(QueuePrivate) \in Message \cup Report
        BY <1>0, <2>1
    <2>3. /\ Range(output') = Range(output) \cup {Head(QueuePrivate)}
          /\ Range(QueuePrivate) = {Head(QueuePrivate)} \cup Range(QueuePrivate')
        <3>1. Range(Append(output, Head(QueuePrivate))) = Range(output) \cup {Head(QueuePrivate)}
            BY <1>0, <2>2, RangeOfAppend
        <3>2. Range(QueuePrivate) = {Head(QueuePrivate)} \cup Range(Tail(QueuePrivate))
            BY Zenon, <1>0, <2>1, RangeOfFront
        <3> QED  BY Zenon, <2>1, <3>1, <3>2
    <2> QED  BY SMT, <1>0, <2>1, <2>3 DEF RequestInv, OwedInv, At
<1>14. CASE LoopReport
    <2>1. /\ \/ output' = output
             \/ overrun > 0 /\ output' = Append(output, [lost |-> overrun])
          /\ UNCHANGED <<QueuePublic, QueuePrivate, FlushRequested, flushRequested, pc, owed>>
        BY Zenon, <1>14 DEF LoopReport, object
    <2>2. overrun > 0 => [lost |-> overrun] \in Message \cup Report
        BY <1>0 DEF Report
    <2>3. Range(output) \subseteq Range(output')
        <3>1. CASE output' = output
            BY <3>1
        <3>2. CASE overrun > 0 /\ output' = Append(output, [lost |-> overrun])
            <4>1. Range(Append(output, [lost |-> overrun])) = Range(output) \cup {[lost |-> overrun]}
                <5>1. \A line \in Message \cup Report :
                          Range(Append(output, line)) = Range(output) \cup {line}
                    BY <1>0, RangeOfAppend
                <5> QED  BY Zenon, <2>2, <3>2, <5>1
            <4> QED  BY <3>2, <4>1
        <3> QED  BY <2>1, <3>1, <3>2
    <2> QED  BY SMT, <1>0, <2>1, <2>3 DEF RequestInv, OwedInv, At
<1>15. CASE LoopNotify
    <2>1. /\ worker = "notify" /\ flushRequested' = FALSE
          /\ pc' = IF flushRequested THEN FlushersWoken(pc) ELSE pc
          /\ UNCHANGED <<QueuePublic, QueuePrivate, FlushRequested, owed, output>>
        BY Zenon, <1>15 DEF LoopNotify, LoopEnd, object, history
    <2>2. Range(QueuePrivate) = {}
        BY <2>1 DEF IInv, WorkerInv, Range
    <2> QED  BY SMT, <1>0, <2>1, <2>2 DEF RequestInv, OwedInv, At, FlushersWoken
<1>16. CASE UNCHANGED vars
    <2>1. UNCHANGED <<QueuePrivate, QueuePublic, FlushRequested, flushRequested, owed, output, pc>>
        BY Zenon, <1>16 DEF vars, object, locals, history
    <2> QED  BY SMT, <1>3, <2>1
<1> QED  BY Zenon, <1>4, <1>5, <1>6, <1>7, <1>8, <1>9, <1>10, <1>11, <1>12, <1>13, <1>14, <1>15,
         <1>16 DEF Next, Step, Loop, FlushSpurious, LoopSpurious

\* In a logger whose condition variables wake for a reason only, and in which one
\* thread flushes, writes through a flush or stops, whoever else logs or starts:
\* what was pending when its Flush began is out when it returns.
THEOREM FlushWaitsForOutput ==
    ASSUME OneFlusher, ~SpuriousWakeups
    PROVE  Spec => []FlushDelivers
<1>1. Init => FlushInv
    BY DEF Init, FlushInv, CallInv, RequestInv, OwedInv, At, InFlush, BeforeQueue, InStop
<1>2. IInv /\ FlushInv /\ [Next]_vars => FlushInv'
    BY Zenon, CallsStep, FlushStep DEF FlushInv
<1>3. FlushInv => FlushDelivers
    BY DEF FlushInv, OwedInv, FlushDelivers
<1> QED  BY PTL, <1>1, <1>2, <1>3, Invariance DEF Spec

-----------------------------------------------------------------------------
(* Order                                                                     *)

\* What the output is made of.
Line == Message \cup Report

\* A thread's messages are numbered upwards in s, and by its calls.
InOrder(s) == \A i, j \in DOMAIN s : i < j => Precedes(s[i], s[j])
Older(line, number, t) == IsMessage(line) /\ line.from = t => line.number < number
AllOlder(s, number, t) == \A i \in DOMAIN s : Older(s[i], number, t)

OrderInv ==
    /\ InOrder(output \o Pending)
    /\ \A t \in Callers :
        /\ AllOlder(output \o Pending, calls[t] + 1, t)
        /\ BeforeQueue(t) =>
            /\ msg[t].from = t /\ msg[t].number = calls[t]
            /\ AllOlder(output \o Pending, calls[t], t)

LEMMA OrderGivesProperty == OrderInv => PerThreadOrder
BY DEF OrderInv, InOrder, PerThreadOrder

LEMMA LineTypes ==
    /\ \A line \in Message : line \in Line /\ IsMessage(line) /\ line.from \in Callers /\ line.number \in Nat
    /\ \A line \in Report : line \in Line /\ ~IsMessage(line)
BY BoundAssumption DEF Line, Message, Report, IsMessage

\* A younger message at the end keeps the order.
LEMMA OrderOfAppend ==
    ASSUME NEW s \in Seq(Line), NEW m \in Message, InOrder(s), AllOlder(s, m.number, m.from)
    PROVE  /\ InOrder(Append(s, m))
           /\ \A t \in Callers, number \in Nat :
                AllOlder(s, number, t) /\ (m.from = t => m.number < number) =>
                    AllOlder(Append(s, m), number, t)
<1>1. /\ Len(Append(s, m)) = Len(s) + 1 /\ Append(s, m)[Len(s) + 1] = m
      /\ \A i \in 1..Len(s) : Append(s, m)[i] = s[i]
      /\ DOMAIN s = 1..Len(s) /\ DOMAIN Append(s, m) = 1..(Len(s) + 1) /\ Len(s) \in Nat
    BY LineTypes
<1>2. InOrder(Append(s, m))
    <2> SUFFICES ASSUME NEW i \in DOMAIN Append(s, m), NEW j \in DOMAIN Append(s, m), i < j
                 PROVE  Precedes(Append(s, m)[i], Append(s, m)[j])
        BY DEF InOrder
    <2>1. CASE j \in 1..Len(s)
        <3>1. i \in DOMAIN s /\ j \in DOMAIN s /\ Append(s, m)[i] = s[i] /\ Append(s, m)[j] = s[j]
            BY <1>1, <2>1
        <3> QED  BY Zenon, <3>1 DEF InOrder
    <2>2. CASE j = Len(s) + 1
        <3>1. i \in DOMAIN s /\ Append(s, m)[i] = s[i] /\ Append(s, m)[j] = m
            BY <1>1, <2>2
        <3>2. Older(s[i], m.number, m.from)
            BY Zenon, <3>1 DEF AllOlder
        <3> QED  BY Zenon, <3>1, <3>2 DEF Older, Precedes
    <2> QED  BY <1>1, <2>1, <2>2
<1>3. ASSUME NEW t \in Callers, NEW number \in Nat, AllOlder(s, number, t),
             m.from = t => m.number < number
      PROVE  AllOlder(Append(s, m), number, t)
    <2> SUFFICES ASSUME NEW i \in DOMAIN Append(s, m) PROVE Older(Append(s, m)[i], number, t)
        BY DEF AllOlder
    <2>1. CASE i \in 1..Len(s)
        BY Zenon, <1>1, <1>3, <2>1 DEF AllOlder
    <2>2. CASE i = Len(s) + 1
        BY Zenon, <1>1, <1>3, <2>2 DEF Older
    <2> QED  BY <1>1, <2>1, <2>2
<1> QED  BY <1>2, <1>3

\* So does a line that is no message, wherever it comes in.
LEMMA OrderOfReport ==
    ASSUME NEW s \in Seq(Line), NEW q \in Seq(Line), NEW r \in Report
    PROVE  /\ InOrder(s \o q) => InOrder(Append(s, r) \o q)
           /\ \A t, number : AllOlder(s \o q, number, t) => AllOlder(Append(s, r) \o q, number, t)
<1> DEFINE old == s \o q
           new == Append(s, r) \o q
           place(i) == IF i <= Len(s) THEN i ELSE i - 1
<1>1. \A i \in DOMAIN new :
          \/ ~IsMessage(new[i])
          \/ i # Len(s) + 1 /\ place(i) \in DOMAIN old /\ new[i] = old[place(i)]
    BY LineTypes
<1>2. ASSUME InOrder(old), NEW i \in DOMAIN new, NEW j \in DOMAIN new, i < j
      PROVE  Precedes(new[i], new[j])
    <2>1. CASE ~IsMessage(new[i]) \/ ~IsMessage(new[j])
        BY Zenon, <2>1 DEF Precedes
    <2>2. CASE IsMessage(new[i]) /\ IsMessage(new[j])
        <3>1. place(i) \in DOMAIN old /\ place(j) \in DOMAIN old /\ place(i) < place(j)
            BY <1>1, <1>2, <2>2
        <3>2. new[i] = old[place(i)] /\ new[j] = old[place(j)]
            BY Zenon, <1>1, <2>2
        <3> HIDE DEF old, new, place
        <3>3. Precedes(old[place(i)], old[place(j)])
            BY Zenon, <1>2, <3>1 DEF InOrder
        <3> QED  BY Zenon, <3>2, <3>3
    <2> QED  BY <2>1, <2>2
<1>3. ASSUME NEW t, NEW number, AllOlder(old, number, t), NEW i \in DOMAIN new
      PROVE  Older(new[i], number, t)
    <2>1. CASE ~IsMessage(new[i])
        BY Zenon, <2>1 DEF Older
    <2>2. CASE IsMessage(new[i])
        <3>1. place(i) \in DOMAIN old /\ new[i] = old[place(i)]
            BY Zenon, <1>1, <2>2
        <3> HIDE DEF old, new, place
        <3> QED  BY Zenon, <1>3, <3>1 DEF AllOlder
    <2> QED  BY <2>1, <2>2
<1> QED  BY Zenon, <1>2, <1>3 DEF InOrder, AllOlder

\* What is older than one message is older than a younger one.
LEMMA OlderThanMore ==
    ASSUME NEW s \in Seq(Line), NEW t, NEW number \in Nat, NEW more \in Nat,
           number <= more, AllOlder(s, number, t)
    PROVE  AllOlder(s, more, t)
<1> SUFFICES ASSUME NEW i \in DOMAIN s, IsMessage(s[i]), s[i].from = t
             PROVE  s[i].number < more
    BY DEF AllOlder, Older
<1>1. s[i] \in Line /\ s[i].number < number
    BY DEF AllOlder, Older
<1>2. s[i].number \in Nat
    BY Zenon, <1>1, LineTypes DEF Line
<1> QED  BY <1>1, <1>2

\* Clearing the queues leaves the lines that were in front of them.
LEMMA OrderOfFront ==
    ASSUME NEW s \in Seq(Line), NEW q \in Seq(Line)
    PROVE  /\ s \o <<>> = s
           /\ InOrder(s \o q) => InOrder(s)
           /\ \A t, number : AllOlder(s \o q, number, t) => AllOlder(s, number, t)
<1>1. \A i \in DOMAIN s : i \in DOMAIN (s \o q) /\ s[i] = (s \o q)[i]
    OBVIOUS
<1>2. s \o <<>> = s
    OBVIOUS
<1> QED  BY Zenon, <1>1, <1>2 DEF InOrder, AllOlder

\* Moving the front of the worker's queue to the output moves no line.
LEMMA LinesMoved ==
    ASSUME NEW s \in Seq(Line), NEW q \in Seq(Line), NEW r \in Seq(Line)
    PROVE  /\ s \o (<<>> \o r) = s \o r /\ s \o (r \o <<>>) = s \o r
           /\ q # <<>> => Append(s, Head(q)) \o (Tail(q) \o r) = s \o (q \o r)
           /\ \A m \in Line : s \o (q \o Append(r, m)) = Append(s \o (q \o r), m)
<1>1. s \o (<<>> \o r) = s \o r /\ s \o (r \o <<>>) = s \o r
    OBVIOUS
<1>2. ASSUME q # <<>> PROVE Append(s, Head(q)) \o (Tail(q) \o r) = s \o (q \o r)
    BY <1>2
<1>3. ASSUME NEW m \in Line PROVE s \o (q \o Append(r, m)) = Append(s \o (q \o r), m)
    OBVIOUS
<1> QED  BY <1>1, <1>2, <1>3

LEMMA OrderStep == IInv /\ OrderInv /\ [Next]_vars => OrderInv'
<1> SUFFICES ASSUME IInv, OrderInv, [Next]_vars PROVE OrderInv'
    OBVIOUS
<1> DEFINE all == output \o Pending
<1>0. /\ pc \in [Callers -> Labels]
      /\ after \in [Callers -> {"idle", "write", "stop_terminate"}]
      /\ calls \in [Callers -> 0..MaxCalls] /\ msg \in [Callers -> Message \cup {NoOne}]
      /\ overrun \in Nat
    BY DEF IInv, TypeOK
<1>1. /\ QueuePublic \in Seq(Line) /\ QueuePrivate \in Seq(Line) /\ output \in Seq(Line)
      /\ Pending \in Seq(Line) /\ all \in Seq(Line)
    <2>1. QueuePublic \in Seq(Line) /\ QueuePrivate \in Seq(Line) /\ output \in Seq(Line)
        BY DEF IInv, TypeOK, Line
    <2> QED  BY <2>1 DEF Pending
<1>2. \A t \in Callers : calls[t] \in Nat
    BY <1>0, BoundAssumption
\* Steps that print nothing, queue nothing and start no Write.
<1>3. ASSUME UNCHANGED <<output, Pending, calls>>,
             \A t \in Callers : BeforeQueue(t)' => BeforeQueue(t) /\ msg'[t] = msg[t]
      PROVE  OrderInv'
    BY Zenon, <1>3 DEF OrderInv
\* A call that is no Write.
<1>4. ASSUME NEW t \in Callers, UNCHANGED <<output, Pending, msg>>,
             calls' = [calls EXCEPT ![t] = @ + 1], ~BeforeQueue(t)',
             \A s \in Callers : s # t => (BeforeQueue(s)' => BeforeQueue(s))
      PROVE  OrderInv'
    <2>1. calls'[t] = calls[t] + 1 /\ \A s \in Callers : s # t => calls'[s] = calls[s]
        BY <1>0, <1>4
    <2>2. AllOlder(all, calls[t] + 2, t)
        <3>1. AllOlder(all, calls[t] + 1, t)
            BY Zenon DEF OrderInv
        <3>2. calls[t] + 1 \in Nat /\ calls[t] + 2 \in Nat /\ calls[t] + 1 <= calls[t] + 2
            BY <1>2
        <3> QED  BY Zenon, <1>1, <3>1, <3>2, OlderThanMore
    <2>3. calls'[t] + 1 = calls[t] + 2
        BY <1>2, <2>1
    <2> QED  BY Zenon, <1>4, <2>1, <2>2, <2>3 DEF OrderInv
<1>5. ASSUME NEW t \in Callers, CallWrite(t) PROVE OrderInv'
    <2>1. PICK level \in Levels :
              /\ msg' = [msg EXCEPT ![t] = [from |-> t, number |-> calls[t] + 1, level |-> level]]
              /\ calls' = [calls EXCEPT ![t] = @ + 1]
              /\ UNCHANGED <<output, Pending>>
              /\ \/ pc' = [pc EXCEPT ![t] = "write"] /\ after' = after
                 \/ pc' = [pc EXCEPT ![t] = "flush"] /\ after' = [after EXCEPT ![t] = "write"]
        BY Zenon, <1>5 DEF CallWrite, Begin, Goto, EnterFlush, object, history, Pending
    <2>2. calls'[t] = calls[t] + 1 /\ \A s \in Callers : s # t => calls'[s] = calls[s]
        BY <1>0, <2>1
    <2>3. /\ msg'[t].from = t /\ msg'[t].number = calls[t] + 1
          /\ \A s \in Callers : s # t => msg'[s] = msg[s]
        BY <1>0, <2>1
    <2>4. \A s \in Callers : s # t => (BeforeQueue(s)' => BeforeQueue(s))
        BY SMT, <1>0, <2>1 DEF BeforeQueue, InFlush
    <2>5. AllOlder(all, calls[t] + 1, t)
        BY Zenon DEF OrderInv
    <2>6. AllOlder(all, calls[t] + 2, t)
        <3>1. calls[t] + 1 \in Nat /\ calls[t] + 2 \in Nat /\ calls[t] + 1 <= calls[t] + 2
            BY <1>2
        <3> QED  BY Zenon, <1>1, <2>5, <3>1, OlderThanMore
    <2>7. calls'[t] + 1 = calls[t] + 2
        BY <1>2, <2>2
    <2>8. (output \o Pending)' = all /\ InOrder(all)
        BY Zenon, <2>1 DEF OrderInv
    <2> HIDE DEF all
    <2>9. \A s \in Callers : AllOlder(all, calls'[s] + 1, s)
        BY Zenon, <2>2, <2>6, <2>7 DEF OrderInv, all
    <2>10. ASSUME NEW s \in Callers, BeforeQueue(s)'
           PROVE  msg'[s].from = s /\ msg'[s].number = calls'[s] /\ AllOlder(all, calls'[s], s)
        <3>1. CASE s = t
            BY Zenon, <2>2, <2>3, <2>5, <3>1
        <3>2. CASE s # t
            BY Zenon, <2>2, <2>3, <2>4, <2>10, <3>2 DEF OrderInv, all
        <3> QED  BY Zenon, <3>1, <3>2
    <2> QED  BY Zenon, <2>8, <2>9, <2>10 DEF OrderInv
<1>6. ASSUME NEW t \in Callers, CallFlush(t) \/ CallStop(t) \/ CallStart(t) PROVE OrderInv'
    <2>1. /\ UNCHANGED <<output, Pending, msg>> /\ calls' = [calls EXCEPT ![t] = @ + 1]
          /\ \/ pc' = [pc EXCEPT ![t] = "flush"] /\ after' = [after EXCEPT ![t] = "idle"]
             \/ pc' = [pc EXCEPT ![t] = "stop"] /\ after' = after
             \/ pc' = [pc EXCEPT ![t] = "start"] /\ after' = after
        BY Zenon, <1>6 DEF CallFlush, CallStop, CallStart, Begin, Goto, EnterFlush, object,
            history, Pending
    <2>2. ~BeforeQueue(t)' /\ \A s \in Callers : s # t => (BeforeQueue(s)' => BeforeQueue(s))
        BY SMT, <1>0, <2>1 DEF BeforeQueue, InFlush
    <2> QED  BY <1>4, <2>1, <2>2
<1>7. ASSUME NEW t \in Callers, Enqueue(t) PROVE OrderInv'
    <2>1. /\ UNCHANGED <<output, QueuePrivate, calls, msg>> /\ pc[t] = "write"
          /\ \/ QueuePublic' = Append(QueuePublic, msg[t]) /\ pc' = [pc EXCEPT ![t] = "write_notify"]
                /\ after' = after
             \/ QueuePublic' = QueuePublic /\ pc' = [pc EXCEPT ![t] = "write_notify"]
                /\ after' = after
             \/ QueuePublic' = QueuePublic /\ pc' = [pc EXCEPT ![t] = "flush"]
                /\ after' = [after EXCEPT ![t] = "write"]
        BY SMT, <1>7 DEF Enqueue, Accept, Drop, EnterFlush, Goto, At, buffers
    <2>2. BeforeQueue(t) /\ \A s \in Callers : s # t => (BeforeQueue(s)' => BeforeQueue(s))
        BY SMT, <1>0, <2>1 DEF BeforeQueue, InFlush
    <2>3. CASE QueuePublic' = QueuePublic
        <3>1. UNCHANGED <<output, Pending, calls>>
            BY Zenon, <2>1, <2>3 DEF Pending
        <3>2. \A s \in Callers : BeforeQueue(s)' => BeforeQueue(s) /\ msg'[s] = msg[s]
            BY Zenon, <2>1, <2>2
        <3> QED  BY Zenon, <1>3, <3>1, <3>2
    <2>4. CASE QueuePublic' = Append(QueuePublic, msg[t]) /\ pc' = [pc EXCEPT ![t] = "write_notify"]
        <3>1. msg[t] \in Message /\ msg[t] \in Line
            BY Zenon, <2>1, LineTypes DEF IInv, MessageInv
        <3>2. (output \o Pending)' = Append(all, msg[t])
            <4>1. (output \o Pending)' = output \o (QueuePrivate \o Append(QueuePublic, msg[t]))
                BY Zenon, <2>1, <2>4 DEF Pending
            <4>2. all = output \o (QueuePrivate \o QueuePublic)
                BY DEF Pending
            <4> HIDE DEF all
            <4>3. \A m \in Line : output \o (QueuePrivate \o Append(QueuePublic, m))
                                    = Append(output \o (QueuePrivate \o QueuePublic), m)
                BY <1>1, LinesMoved
            <4> QED  BY Zenon, <3>1, <4>1, <4>2, <4>3
        <3>3. msg[t].from = t /\ msg[t].number = calls[t] /\ AllOlder(all, calls[t], t)
            BY Zenon, <2>2 DEF OrderInv
        <3>4. InOrder(all) /\ AllOlder(all, msg[t].number, msg[t].from)
            BY Zenon, <3>3 DEF OrderInv
        <3>5. /\ InOrder(Append(all, msg[t]))
              /\ \A s \in Callers, number \in Nat :
                    AllOlder(all, number, s) /\ (msg[t].from = s => msg[t].number < number) =>
                        AllOlder(Append(all, msg[t]), number, s)
            <4> HIDE DEF all
            <4> QED  BY <1>1, <3>1, <3>4, OrderOfAppend
        <3>6. \A s \in Callers : AllOlder(Append(all, msg[t]), calls[s] + 1, s)
            <4> SUFFICES ASSUME NEW s \in Callers PROVE AllOlder(Append(all, msg[t]), calls[s] + 1, s)
                OBVIOUS
            <4>1. calls[s] + 1 \in Nat /\ (t = s => calls[t] < calls[s] + 1)
                BY <1>2
            <4>2. AllOlder(all, calls[s] + 1, s)
                BY Zenon DEF OrderInv
            <4> QED  BY Zenon, <3>3, <3>5, <4>1, <4>2
        <3>7. \A s \in Callers : s # t /\ BeforeQueue(s) => AllOlder(Append(all, msg[t]), calls[s], s)
            BY Zenon, <1>2, <3>3, <3>5 DEF OrderInv
        <3>8. ~BeforeQueue(t)'
            BY SMT, <1>0, <2>4 DEF BeforeQueue, InFlush
        <3> QED  BY Zenon, <2>1, <2>2, <3>2, <3>5, <3>6, <3>7, <3>8 DEF OrderInv
    <2> QED  BY Zenon, <2>1, <2>3, <2>4
<1>8. ASSUME NEW t \in Callers,
             \/ FlushTerminated(t) \/ RequestFlush(t) \/ FlushReturn(t) \/ FlushSpurious(t)
      PROVE  OrderInv'
    <2>1. /\ UNCHANGED <<output, Pending, calls, msg>>
          /\ pc[t] \in {"flush", "flush_wait", "flush_woken"}
          /\ \/ pc' = [pc EXCEPT ![t] = after[t]] /\ after' = [after EXCEPT ![t] = "idle"]
             \/ pc' = [pc EXCEPT ![t] = "flush_wait"] /\ after' = after
             \/ pc' = [pc EXCEPT ![t] = "flush_woken"] /\ after' = after
        BY SMT, <1>8 DEF FlushTerminated, RequestFlush, FlushReturn, FlushSpurious, LeaveFlush,
            Goto, At, object, buffers, history, Pending
    <2>2. after[t] \in {"idle", "write", "stop_terminate"}
        BY <1>0
    <2>3. \A s \in Callers : BeforeQueue(s)' => BeforeQueue(s)
        BY SMT, <1>0, <2>1, <2>2 DEF BeforeQueue, InFlush
    <2> QED  BY Zenon, <1>3, <2>1, <2>3
<1>9. ASSUME NEW t \in Callers,
             \/ NotifyWorker(t)
             \/ StopLock(t) \/ StopTerminate(t) \/ StopNotify(t) \/ StopJoin(t) \/ StartLock(t)
             \/ StartReset(t) \/ StartRun(t) \/ StartSpawn(t)
      PROVE  OrderInv'
    <2>1. /\ UNCHANGED <<output, Pending, calls>>
          /\ msg' = msg \/ msg' = [msg EXCEPT ![t] = NoOne]
          /\ \/ pc' = [pc EXCEPT ![t] = "flush"] /\ after' = [after EXCEPT ![t] = "stop_terminate"]
             \/ pc' = [pc EXCEPT ![t] = "flush"] /\ after' = [after EXCEPT ![t] = "idle"]
             \/ /\ after' = after
                /\ \/ pc' = [pc EXCEPT ![t] = "idle"] \/ pc' = [pc EXCEPT ![t] = "stop_wake"]
                   \/ pc' = [pc EXCEPT ![t] = "stop_notify"] \/ pc' = [pc EXCEPT ![t] = "stop_join"]
                   \/ pc' = [pc EXCEPT ![t] = "start_clear"] \/ pc' = [pc EXCEPT ![t] = "start_run"]
                   \/ pc' = [pc EXCEPT ![t] = "start_spawn"]
        BY Zenon, <1>9 DEF NotifyWorker, StopLock, StopTerminate, StopNotify, StopJoin,
            StartLock, StartReset, StartRun, StartSpawn, EnterFlush, Goto,
            object, buffers, history, Pending
    <2>2. \A s \in Callers : BeforeQueue(s)' => BeforeQueue(s) /\ msg'[s] = msg[s]
        BY SMT, <1>0, <2>1 DEF BeforeQueue, InFlush
    <2> QED  BY Zenon, <1>3, <2>1, <2>2
<1>10. ASSUME NEW t \in Callers, StopWake(t) PROVE OrderInv'
    <2>1. /\ UNCHANGED <<output, Pending, calls, msg, after>>
          /\ pc' = FlushersWoken([pc EXCEPT ![t] = "idle"])
        BY Zenon, <1>10 DEF StopWake, object, buffers, history, Pending
    <2>2. \A s \in Callers : BeforeQueue(s)' => BeforeQueue(s)
        BY SMT, <1>0, <2>1 DEF FlushersWoken, BeforeQueue, InFlush
    <2> QED  BY Zenon, <1>3, <2>1, <2>2
<1>11. ASSUME NEW t \in Callers, StartClear(t) PROVE OrderInv'
    <2>1. /\ UNCHANGED <<output, calls, msg, after>>
          /\ QueuePublic' = <<>> /\ QueuePrivate' = <<>> /\ pc' = [pc EXCEPT ![t] = "start_reset"]
        BY Zenon, <1>11 DEF StartClear, Goto, buffers, history
    <2>2. \A s \in Callers : BeforeQueue(s)' => BeforeQueue(s)
        BY SMT, <1>0, <2>1 DEF BeforeQueue, InFlush
    <2>3. Pending' = <<>>
        BY <2>1 DEF Pending
    <2>4. /\ (output \o Pending)' = output
          /\ InOrder(all) => InOrder(output)
          /\ \A s, number : AllOlder(all, number, s) => AllOlder(output, number, s)
        BY Zenon, <1>1, <2>1, <2>3, OrderOfFront
    <2> QED  BY Zenon, <2>1, <2>2, <2>4 DEF OrderInv
<1>12. CASE LoopTest \/ LoopWait \/ LoopSpurious \/ LoopNotify
    <2>1. /\ UNCHANGED <<output, Pending, calls, msg, after>>
          /\ pc' = pc \/ pc' = FlushersWoken(pc)
        BY Zenon, <1>12 DEF LoopTest, LoopWait, LoopSpurious, LoopNotify, LoopEnd, object, buffers,
            history, Pending
    <2>2. \A s \in Callers : BeforeQueue(s)' => BeforeQueue(s)
        BY SMT, <1>0, <2>1 DEF FlushersWoken, BeforeQueue, InFlush
    <2> QED  BY Zenon, <1>3, <2>1, <2>2
<1>13. CASE LoopSwap \/ LoopLog
    <2>1. UNCHANGED <<calls, msg, after, pc>>
        BY Zenon, <1>13 DEF LoopSwap, LoopLog, TakeFlushRequest, buffers
    <2>2. (output \o Pending)' = all
        <3>1. CASE LoopSwap
            <4>1. /\ QueuePrivate' = QueuePublic /\ QueuePublic' = QueuePrivate /\ output' = output
                  /\ worker \in {"woken", "queue"}
                BY SMT, <3>1 DEF LoopSwap, history
            <4>2. QueuePrivate = <<>>
                BY <4>1 DEF IInv, WorkerInv
            <4>3. /\ all = output \o (<<>> \o QueuePublic)
                  /\ (output \o Pending)' = output \o (QueuePublic \o <<>>)
                BY Zenon, <4>1, <4>2 DEF Pending
            <4> HIDE DEF all
            <4> QED  BY <1>1, <4>3, LinesMoved
        <3>2. CASE LoopLog
            BY Zenon, <1>1, <3>2, LinesMoved DEF LoopLog, Pending
        <3> QED  BY <1>13, <3>1, <3>2
    <2>3. \A s \in Callers : BeforeQueue(s)' => BeforeQueue(s)
        BY Zenon, <2>1 DEF BeforeQueue, InFlush
    <2> QED  BY Zenon, <2>1, <2>2, <2>3 DEF OrderInv
<1>14. CASE LoopReport
    <2>1. /\ UNCHANGED <<Pending, calls, msg, after, pc>>
          /\ \/ output' = output
             \/ overrun > 0 /\ output' = Append(output, [lost |-> overrun])
        BY Zenon, <1>14 DEF LoopReport, object, buffers, Pending
    <2>2. \A s \in Callers : BeforeQueue(s)' => BeforeQueue(s)
        BY Zenon, <2>1 DEF BeforeQueue, InFlush
    <2>3. CASE output' = output
        BY Zenon, <1>3, <2>1, <2>2, <2>3
    <2>4. CASE overrun > 0 /\ output' = Append(output, [lost |-> overrun])
        <3>1. [lost |-> overrun] \in Report
            BY <1>0, <2>4 DEF Report
        <3>2. /\ InOrder(all) => InOrder((output \o Pending)')
              /\ \A s, number : AllOlder(all, number, s) => AllOlder((output \o Pending)', number, s)
            BY Zenon, <1>1, <2>1, <2>4, <3>1, OrderOfReport
        <3> QED  BY Zenon, <2>1, <2>2, <3>2 DEF OrderInv
    <2> QED  BY <2>1, <2>3, <2>4
<1>15. CASE UNCHANGED vars
    BY Zenon, <1>3, <1>15 DEF vars, object, buffers, history, Pending, BeforeQueue, InFlush
<1> QED  BY Zenon, <1>5, <1>6, <1>7, <1>8, <1>9, <1>10, <1>11, <1>12, <1>13, <1>14, <1>15
    DEF Next, Call, Step, Loop

\* What a thread logs is printed in the order it logged it and at most once,
\* whatever is called: two queues, drops and restarts reorder nothing.
THEOREM ThreadsAreInOrder == Spec => []PerThreadOrder
<1>1. Init => OrderInv
    <2> SUFFICES ASSUME Init PROVE OrderInv
        OBVIOUS
    <2>1. output \o Pending = <<>>
        BY DEF Init, Pending
    <2>2. \A t \in Callers : ~BeforeQueue(t)
        BY DEF Init, BeforeQueue, InFlush
    <2>3. InOrder(<<>>) /\ \A number, t : AllOlder(<<>>, number, t)
        BY DEF InOrder, AllOlder
    <2> QED  BY Zenon, <2>1, <2>2, <2>3 DEF OrderInv
<1> QED  BY PTL, <1>1, OrderStep, OrderGivesProperty, Invariance DEF Spec

-----------------------------------------------------------------------------
(* Accounting                                                                *)

\* Of some natural numbers one is the least.
LEMMA LeastNumber ==
    ASSUME NEW S \in SUBSET Nat, S # {}
    PROVE  \E x \in S : \A y \in S : x <= y
<1> DEFINE R == {ss \in Nat \X Nat : ss[1] < ss[2]}
<1>1. OpToRel(<, Nat) = R
    BY DEF OpToRel
<1>2. PICK x \in S : \A y \in S : ~(<<y, x>> \in R)
    BY <1>1, NatLessThanWellFounded, WFMin, ZenonT(60)
<1>3. ASSUME NEW y \in S PROVE x <= y
    <2>1. x \in Nat /\ y \in Nat /\ <<y, x>> \notin R
        BY <1>2
    <2>2. <<y, x>> \in Nat \X Nat
        BY <2>1
    <2>3. ~(y < x)
        BY <2>1, <2>2
    <2> QED  BY <2>1, <2>3
<1> QED  BY <1>2, <1>3

\* The running sum that AccountedIn is defined by, and the facts that determine it.
Weighs(f, s) == f = [n \in 0..Len(s) |-> IF n = 0 THEN 0 ELSE f[n - 1] + Accounts(s[n])]
SumsUp(f, k, s) ==
    /\ f \in [0..k -> Nat] /\ f[0] = 0
    /\ \A i \in 1..k : f[i] = f[i - 1] + Accounts(s[i])

LEMMA AccountsType == \A line \in Line : Accounts(line) \in Nat
BY DEF Line, Message, Report, Accounts, IsMessage

LEMMA SumExists ==
    ASSUME NEW s \in Seq(Line)
    PROVE  \E f : SumsUp(f, Len(s), s)
<1> DEFINE Bad == {k \in 0..Len(s) : ~\E f : SumsUp(f, k, s)}
<1>1. Len(s) \in Nat /\ Bad \subseteq Nat
    OBVIOUS
<1>2. CASE Bad = {}
    BY <1>1, <1>2
<1>3. CASE Bad # {}
    <2>1. PICK k \in Bad : \A j \in Bad : k <= j
        BY Zenon, <1>1, <1>3, LeastNumber
    <2>2. k \in 0..Len(s) /\ ~\E f : SumsUp(f, k, s)
        OBVIOUS
    <2>3. k # 0
        <3>1. SumsUp([i \in 0..0 |-> 0], 0, s)
            BY DEF SumsUp
        <3> QED  BY Zenon, <2>2, <3>1
    <2>4. k - 1 \in 0..Len(s) /\ ~(k <= k - 1) /\ k \in 1..Len(s)
        BY <1>1, <2>2, <2>3
    <2>5. PICK f : SumsUp(f, k - 1, s)
        BY Zenon, <2>1, <2>4
    <2> DEFINE g == [i \in 0..k |-> IF i = k THEN f[k - 1] + Accounts(s[k]) ELSE f[i]]
    <2>6. Accounts(s[k]) \in Nat
        BY <2>4, AccountsType
    <2>7. SumsUp(g, k, s)
        BY <2>4, <2>5, <2>6 DEF SumsUp
    <2> QED  BY Zenon, <2>2, <2>7
<1> QED  BY <1>2, <1>3

LEMMA SumIsUnique ==
    ASSUME NEW s \in Seq(Line), NEW f, SumsUp(f, Len(s), s)
    PROVE  AccountedIn(s) = f[Len(s)]
<1>1. Len(s) \in Nat
    OBVIOUS
<1>2. Weighs(f, s)
    <2>1. f = [i \in 0..Len(s) |-> f[i]]
        BY DEF SumsUp
    <2>2. \A i \in 0..Len(s) : f[i] = IF i = 0 THEN 0 ELSE f[i - 1] + Accounts(s[i])
        BY <1>1 DEF SumsUp
    <2> QED  BY Zenon, <2>1, <2>2 DEF Weighs
<1> DEFINE h == CHOOSE h : Weighs(h, s)
<1>3. AccountedIn(s) = h[Len(s)]
    BY DEF AccountedIn, Weighs
<1>4. Weighs(h, s)
    BY Zenon, <1>2
<1> HIDE DEF h
<1> DEFINE Bad == {i \in 0..Len(s) : h[i] # f[i]}
<1>5. CASE Bad = {}
    BY <1>1, <1>3, <1>5
<1>6. CASE Bad # {}
    <2>1. Bad \subseteq Nat
        BY <1>1
    <2>2. PICK k \in Bad : \A j \in Bad : k <= j
        BY Zenon, <1>6, <2>1, LeastNumber
    <2>3. k \in 0..Len(s) /\ h[k] # f[k]
        OBVIOUS
    <2>4. h[k] = IF k = 0 THEN 0 ELSE h[k - 1] + Accounts(s[k])
        BY Zenon, <1>4, <2>3 DEF Weighs
    <2>5. f[k] = IF k = 0 THEN 0 ELSE f[k - 1] + Accounts(s[k])
        BY Zenon, <1>2, <2>3 DEF Weighs
    <2>6. k # 0
        BY Zenon, <2>3, <2>4, <2>5
    <2>7. k - 1 \in 0..Len(s) /\ ~(k <= k - 1)
        BY <1>1, <2>3, <2>6
    <2>8. h[k - 1] = f[k - 1]
        BY Zenon, <2>2, <2>7
    <2> QED  BY Zenon, <2>3, <2>4, <2>5, <2>6, <2>8
<1> QED  BY <1>5, <1>6

\* A line that is appended adds what it accounts for.
LEMMA SumOfAppend ==
    ASSUME NEW s \in Seq(Line), NEW line \in Line
    PROVE  /\ AccountedIn(s) \in Nat
           /\ AccountedIn(Append(s, line)) = AccountedIn(s) + Accounts(line)
<1> DEFINE more == Append(s, line)
<1>1. /\ Len(s) \in Nat /\ more \in Seq(Line) /\ Len(more) = Len(s) + 1
      /\ more[Len(s) + 1] = line /\ \A i \in 1..Len(s) : more[i] = s[i]
    OBVIOUS
<1> HIDE DEF more
<1>2. PICK f : SumsUp(f, Len(more), more)
    BY Zenon, <1>1, SumExists
<1> DEFINE g == [i \in 0..Len(s) |-> f[i]]
<1>3. SumsUp(g, Len(s), s)
    BY <1>1, <1>2 DEF SumsUp
<1>4. f[Len(s) + 1] = f[Len(s)] + Accounts(line)
    BY <1>1, <1>2 DEF SumsUp
<1>5. AccountedIn(more) = f[Len(s) + 1]
    BY Zenon, <1>1, <1>2, SumIsUnique
<1>6. AccountedIn(s) = g[Len(s)]
    BY Zenon, <1>3, SumIsUnique
<1>7. g[Len(s)] = f[Len(s)] /\ g[Len(s)] \in Nat
    BY <1>1, <1>3 DEF SumsUp
<1> QED  BY Zenon, <1>4, <1>5, <1>6, <1>7 DEF more

LEMMA SumOfNothing == AccountedIn(<<>>) = 0
<1>1. <<>> \in Seq(Line) /\ Len(<<>>) = 0
    OBVIOUS
<1>2. SumsUp([i \in 0..0 |-> 0], 0, <<>>)
    BY DEF SumsUp
<1>3. AccountedIn(<<>>) = [i \in 0..0 |-> 0][0]
    BY <1>1, <1>2, SumIsUnique
<1> QED  BY <1>3

\* The callers do not start the logger again.
NoRestart == \A t \in Callers : "Start" \notin May[t]
NobodyStarts == \A t \in Callers : pc[t] \notin {"start"} \cup InStart

LEMMA StartsStep ==
    ASSUME NoRestart
    PROVE  IInv /\ NobodyStarts /\ [Next]_vars => NobodyStarts'
<1> SUFFICES ASSUME IInv, NobodyStarts, [Next]_vars PROVE NobodyStarts'
    OBVIOUS
<1>0. /\ pc \in [Callers -> Labels]
      /\ after \in [Callers -> {"idle", "write", "stop_terminate"}]
    BY DEF IInv, TypeOK
<1>1. \/ pc' = pc \/ pc' = FlushersWoken(pc)
      \/ \E t \in Callers :
            \/ pc' = [pc EXCEPT ![t] = after[t]]
            \/ \E label \in {"idle", "write", "write_notify", "flush", "flush_wait", "flush_woken",
                              "stop", "stop_terminate", "stop_notify", "stop_join", "stop_wake"} :
                  \/ pc' = [pc EXCEPT ![t] = label]
                  \/ pc' = FlushersWoken([pc EXCEPT ![t] = label])
    <2>1. ASSUME NEW t \in Callers, Call(t)
          PROVE  \/ pc' = [pc EXCEPT ![t] = "write"] \/ pc' = [pc EXCEPT ![t] = "flush"]
                 \/ pc' = [pc EXCEPT ![t] = "stop"]
        BY Zenon, <2>1 DEF NoRestart, Call, CallWrite, CallFlush, CallStop, CallStart, Begin, Goto, EnterFlush
    <2>2. ASSUME NEW t \in Callers, Step(t) \/ FlushSpurious(t)
          PROVE  \/ pc' = [pc EXCEPT ![t] = after[t]]
                 \/ \E label \in {"idle", "write", "write_notify", "flush", "flush_wait", "flush_woken",
                              "stop", "stop_terminate", "stop_notify", "stop_join", "stop_wake"} :
                  \/ pc' = [pc EXCEPT ![t] = label]
                  \/ pc' = FlushersWoken([pc EXCEPT ![t] = label])
        BY SMT, <2>2 DEF NobodyStarts, InStart, Step, Goto, EnterFlush, At, Enqueue, NotifyWorker,
            FlushTerminated, LeaveFlush, RequestFlush, FlushReturn, FlushSpurious, StopLock,
            StopTerminate, StopNotify, StopJoin, StopWake, StartLock, StartClear, StartReset,
            StartRun, StartSpawn
    <2>3. CASE Loop \/ LoopSpurious \/ UNCHANGED vars
        BY Zenon, <2>3 DEF Loop, LoopSpurious, vars, LoopTest, LoopWait, LoopSwap,
            TakeFlushRequest, LoopLog, LoopReport, LoopNotify, LoopEnd
    <2> QED  BY Zenon, <2>1, <2>2, <2>3 DEF Next
<1> QED  BY SMT, <1>0, <1>1 DEF NobodyStarts, FlushersWoken, InStart

\* What a step of a logger that is not restarted does to what is counted.
Unaccounted == <<QueuePublic, QueuePrivate, Overrun, overrun, output, sent>>

LEMMA StepAccounts ==
    ASSUME IInv, NobodyStarts, [Next]_vars
    PROVE  \/ UNCHANGED Unaccounted
           \/ /\ \E t \in Callers : pc[t] = "write" /\ QueuePublic' = Append(QueuePublic, msg[t])
              /\ sent' = sent + 1
              /\ UNCHANGED <<QueuePrivate, Overrun, overrun, output>>
           \/ /\ ~NeverDrop /\ Overrun' = Overrun + 1 /\ sent' = sent + 1
              /\ UNCHANGED <<QueuePublic, QueuePrivate, overrun, output>>
           \/ /\ QueuePrivate' = QueuePublic /\ QueuePublic' = QueuePrivate
              /\ worker # "log" /\ overrun' = Overrun /\ Overrun' = 0
              /\ UNCHANGED <<output, sent>>
           \/ /\ QueuePrivate # <<>> /\ QueuePrivate' = Tail(QueuePrivate)
              /\ output' = Append(output, Head(QueuePrivate))
              /\ UNCHANGED <<QueuePublic, Overrun, overrun, sent>>
           \/ /\ overrun > 0 /\ output' = Append(output, [lost |-> overrun]) /\ overrun' = 0
              /\ UNCHANGED <<QueuePublic, QueuePrivate, Overrun, sent>>
           \/ /\ ~(overrun > 0) /\ overrun' = 0
              /\ UNCHANGED <<QueuePublic, QueuePrivate, Overrun, output, sent>>
<1>1. ASSUME NEW t \in Callers, Call(t) \/ FlushSpurious(t) PROVE UNCHANGED Unaccounted
    BY Zenon, <1>1 DEF Call, CallWrite, CallFlush, CallStop, CallStart, FlushSpurious, object, locals,
        history, Unaccounted
<1>2. ASSUME NEW t \in Callers, Enqueue(t)
      PROVE  \/ UNCHANGED Unaccounted
             \/ /\ pc[t] = "write" /\ QueuePublic' = Append(QueuePublic, msg[t])
                /\ sent' = sent + 1
                /\ UNCHANGED <<QueuePrivate, Overrun, overrun, output>>
             \/ /\ ~NeverDrop /\ Overrun' = Overrun + 1 /\ sent' = sent + 1
                /\ UNCHANGED <<QueuePublic, QueuePrivate, overrun, output>>
    BY Zenon, <1>2 DEF Enqueue, Accept, Drop, At, locals, Unaccounted
<1>3. ASSUME NEW t \in Callers, Step(t), ~Enqueue(t) PROVE UNCHANGED Unaccounted
    <2>1. ~StartClear(t) /\ ~StartReset(t)
        BY SMT DEF NobodyStarts, InStart, StartClear, StartReset, At
    <2> QED  BY Zenon, <1>3, <2>1 DEF Step, NotifyWorker, FlushTerminated, RequestFlush, FlushReturn,
            StopLock, StopTerminate, StopNotify, StopJoin, StopWake, StartLock, StartRun,
            StartSpawn, object, locals, history, Unaccounted
<1>4. CASE LoopTest \/ LoopWait \/ LoopSpurious \/ LoopNotify \/ UNCHANGED vars
    BY Zenon, <1>4 DEF LoopTest, LoopWait, LoopSpurious, LoopNotify, LoopEnd, vars, object, locals,
        history, Unaccounted
<1>5. CASE LoopSwap
    BY SMT, <1>5 DEF LoopSwap, TakeOverrun, history
<1>6. CASE LoopLog
    BY Zenon, <1>6 DEF LoopLog, locals
<1>7. CASE LoopReport
    BY Zenon, <1>7 DEF LoopReport, object
<1> QED  BY Zenon, <1>1, <1>2, <1>3, <1>4, <1>5, <1>6, <1>7 DEF Next, Loop

LEMMA LossStep == IInv /\ NobodyStarts /\ NoSilentLoss /\ [Next]_vars => NoSilentLoss'
<1> SUFFICES ASSUME IInv, NobodyStarts, NoSilentLoss, [Next]_vars PROVE NoSilentLoss'
    OBVIOUS
<1>1. /\ QueuePublic \in Seq(Message) /\ QueuePrivate \in Seq(Message) /\ output \in Seq(Line)
      /\ Overrun \in Nat /\ overrun \in Nat /\ sent \in Nat
      /\ worker # "log" => QueuePrivate = <<>> /\ overrun = 0
    BY DEF IInv, TypeOK, WorkerInv, Line
<1>2. Len(Pending) = Len(QueuePrivate) + Len(QueuePublic)
      /\ Len(Pending') = Len(QueuePrivate') + Len(QueuePublic')
    <2>1. QueuePublic' \in Seq(Message) /\ QueuePrivate' \in Seq(Message)
        BY Zenon, QueueStep DEF QueueTypes
    <2> QED  BY <1>1, <2>1 DEF Pending
<1>3. AccountedIn(output) \in Nat /\ Len(QueuePublic) \in Nat /\ Len(QueuePrivate) \in Nat
    <2>1. \A line \in Line : AccountedIn(output) \in Nat
        BY <1>1, SumOfAppend
    <2>2. [lost |-> 1] \in Line
        BY DEF Line, Report
    <2> QED  BY <1>1, <2>1, <2>2
<1>4. sent = AccountedIn(output) + (Len(QueuePrivate) + Len(QueuePublic)) + Overrun + overrun
    BY Zenon, <1>2 DEF NoSilentLoss
<1> SUFFICES sent' = AccountedIn(output') + (Len(QueuePrivate') + Len(QueuePublic')) + Overrun' + overrun'
    BY Zenon, <1>2 DEF NoSilentLoss
<1>5. CASE UNCHANGED Unaccounted
    BY Zenon, <1>4, <1>5 DEF Unaccounted
<1>6. CASE /\ \E t \in Callers : pc[t] = "write" /\ QueuePublic' = Append(QueuePublic, msg[t])
           /\ sent' = sent + 1
           /\ UNCHANGED <<QueuePrivate, Overrun, overrun, output>>
    <2>1. Len(QueuePublic') = Len(QueuePublic) + 1
        BY <1>1, <1>6 DEF IInv, MessageInv
    <2> QED  BY <1>1, <1>3, <1>4, <1>6, <2>1
<1>7. CASE /\ ~NeverDrop /\ Overrun' = Overrun + 1 /\ sent' = sent + 1
           /\ UNCHANGED <<QueuePublic, QueuePrivate, overrun, output>>
    BY <1>1, <1>3, <1>4, <1>7
<1>8. CASE /\ QueuePrivate' = QueuePublic /\ QueuePublic' = QueuePrivate
           /\ worker # "log" /\ overrun' = Overrun /\ Overrun' = 0
           /\ UNCHANGED <<output, sent>>
    BY <1>1, <1>3, <1>4, <1>8
<1>9. CASE /\ QueuePrivate # <<>> /\ QueuePrivate' = Tail(QueuePrivate)
           /\ output' = Append(output, Head(QueuePrivate))
           /\ UNCHANGED <<QueuePublic, Overrun, overrun, sent>>
    <2>1. Head(QueuePrivate) \in Message /\ Len(QueuePrivate') = Len(QueuePrivate) - 1
        BY <1>1, <1>9
    <2>2. Head(QueuePrivate) \in Line /\ Accounts(Head(QueuePrivate)) = 1
        BY <2>1 DEF Line, Accounts, IsMessage, Message
    <2>3. AccountedIn(Append(output, Head(QueuePrivate)))
              = AccountedIn(output) + Accounts(Head(QueuePrivate))
        BY <1>1, <2>2, SumOfAppend
    <2> QED  BY <1>1, <1>3, <1>4, <1>9, <2>1, <2>2, <2>3
<1>10. CASE /\ overrun > 0 /\ output' = Append(output, [lost |-> overrun]) /\ overrun' = 0
            /\ UNCHANGED <<QueuePublic, QueuePrivate, Overrun, sent>>
    <2>1. [lost |-> overrun] \in Line /\ Accounts([lost |-> overrun]) = overrun
        BY <1>1, <1>10 DEF Line, Report, Accounts, IsMessage
    <2>2. AccountedIn(output') = AccountedIn(output) + overrun
        <3>1. \A line \in Line : AccountedIn(Append(output, line)) = AccountedIn(output) + Accounts(line)
            BY <1>1, SumOfAppend
        <3> QED  BY Zenon, <1>10, <2>1, <3>1
    <2> QED  BY <1>1, <1>3, <1>4, <1>10, <2>2
<1>11. CASE /\ ~(overrun > 0) /\ overrun' = 0
            /\ UNCHANGED <<QueuePublic, QueuePrivate, Overrun, output, sent>>
    BY <1>1, <1>3, <1>4, <1>11
<1> QED  BY Zenon, <1>5, <1>6, <1>7, <1>8, <1>9, <1>10, <1>11, StepAccounts

\* A logger that drops nothing counts nothing and reports nothing.
DropInv == NothingDropped /\ Overrun = 0 /\ overrun = 0

LEMMA DropStep ==
    ASSUME NeverDrop
    PROVE  IInv /\ NobodyStarts /\ DropInv /\ [Next]_vars => DropInv'
<1> SUFFICES ASSUME IInv, NobodyStarts, DropInv, [Next]_vars PROVE DropInv'
    OBVIOUS
<1>1. /\ QueuePublic \in Seq(Message) /\ QueuePrivate \in Seq(Message) /\ output \in Seq(Line)
      /\ sent \in Nat
    BY DEF IInv, TypeOK, Line
<1>2. Len(Pending) = Len(QueuePrivate) + Len(QueuePublic)
      /\ Len(Pending') = Len(QueuePrivate') + Len(QueuePublic')
    <2>1. QueuePublic' \in Seq(Message) /\ QueuePrivate' \in Seq(Message)
        BY Zenon, QueueStep DEF QueueTypes
    <2> QED  BY <1>1, <2>1 DEF Pending
<1>3. /\ Overrun = 0 /\ overrun = 0 /\ \A i \in DOMAIN output : IsMessage(output[i])
      /\ sent = Len(output) + (Len(QueuePrivate) + Len(QueuePublic))
    BY Zenon, <1>2 DEF DropInv, NothingDropped
<1> SUFFICES /\ Overrun' = 0 /\ overrun' = 0 /\ \A i \in DOMAIN output' : IsMessage(output'[i])
             /\ sent' = Len(output') + (Len(QueuePrivate') + Len(QueuePublic'))
    BY Zenon, <1>2 DEF DropInv, NothingDropped
<1>4. CASE UNCHANGED Unaccounted
    BY Zenon, <1>3, <1>4 DEF Unaccounted
<1>5. CASE /\ \E t \in Callers : pc[t] = "write" /\ QueuePublic' = Append(QueuePublic, msg[t])
           /\ sent' = sent + 1
           /\ UNCHANGED <<QueuePrivate, Overrun, overrun, output>>
    <2>1. Len(QueuePublic') = Len(QueuePublic) + 1
        BY <1>1, <1>5 DEF IInv, MessageInv
    <2> QED  BY <1>1, <1>3, <1>5, <2>1
<1>6. CASE /\ QueuePrivate' = QueuePublic /\ QueuePublic' = QueuePrivate
           /\ worker # "log" /\ overrun' = Overrun /\ Overrun' = 0
           /\ UNCHANGED <<output, sent>>
    BY <1>1, <1>3, <1>6
<1>7. CASE /\ QueuePrivate # <<>> /\ QueuePrivate' = Tail(QueuePrivate)
           /\ output' = Append(output, Head(QueuePrivate))
           /\ UNCHANGED <<QueuePublic, Overrun, overrun, sent>>
    <2>1. Head(QueuePrivate) \in Message /\ Len(QueuePrivate') = Len(QueuePrivate) - 1
        BY <1>1, <1>7
    <2>2. IsMessage(Head(QueuePrivate)) /\ Head(QueuePrivate) \in Line
        BY <2>1 DEF IsMessage, Message, Line
    <2>3. /\ Len(output') = Len(output) + 1 /\ output'[Len(output) + 1] = Head(QueuePrivate)
          /\ \A i \in 1..Len(output) : output'[i] = output[i]
          /\ DOMAIN output = 1..Len(output) /\ DOMAIN output' = 1..(Len(output) + 1)
        BY <1>1, <1>7, <2>2
    <2>4. ASSUME NEW i \in DOMAIN output' PROVE IsMessage(output'[i])
        <3>1. i \in 1..Len(output) \/ i = Len(output) + 1
            BY <1>1, <2>3, <2>4
        <3> QED  BY Zenon, <1>3, <2>2, <2>3, <3>1
    <2> QED  BY <1>1, <1>3, <1>7, <2>1, <2>3, <2>4
<1>8. CASE /\ ~(overrun > 0) /\ overrun' = 0
           /\ UNCHANGED <<QueuePublic, QueuePrivate, Overrun, output, sent>>
    BY <1>3, <1>8
<1>9. ~(overrun > 0) /\ NeverDrop
    BY <1>3
<1> QED  BY Zenon, <1>4, <1>5, <1>6, <1>7, <1>8, <1>9, StepAccounts

LEMMA AccountsInit == Init => NobodyStarts /\ NoSilentLoss /\ DropInv
<1> SUFFICES ASSUME Init PROVE NobodyStarts /\ NoSilentLoss /\ DropInv
    OBVIOUS
<1>1. NobodyStarts
    BY DEF Init, NobodyStarts, InStart
<1>2. Pending = <<>> /\ Len(Pending) = 0
    BY DEF Init, Pending
<1>3. NoSilentLoss
    BY <1>2, SumOfNothing DEF Init, NoSilentLoss
<1>4. DropInv
    BY <1>2 DEF Init, DropInv, NothingDropped
<1> QED  BY <1>1, <1>3, <1>4

\* Unless the logger is started again, every message that passed Write is
\* printed, pending or counted, in every build and for every interleaving.
THEOREM LossesAreCounted == ASSUME NoRestart PROVE Spec => []NoSilentLoss
<1>1. IInv /\ NobodyStarts /\ NoSilentLoss /\ [Next]_vars => (NobodyStarts /\ NoSilentLoss)'
    BY Zenon, StartsStep, LossStep
<1> QED  BY PTL, <1>1, AccountsInit, Invariance DEF Spec

\* And with LOGGER_NEVER_DROP it is printed or pending.
THEOREM NeverDropKeepsAll == ASSUME NoRestart, NeverDrop PROVE Spec => []NothingDropped
<1>1. IInv /\ NobodyStarts /\ DropInv /\ [Next]_vars => (NobodyStarts /\ DropInv)'
    BY Zenon, StartsStep, DropStep
<1>2. DropInv => NothingDropped
    BY DEF DropInv
<1> QED  BY PTL, <1>1, <1>2, AccountsInit, Invariance DEF Spec
=============================================================================
