------------------------- MODULE BackgroundExecutor -------------------------
(***************************************************************************)
(* core/BackgroundExecutor: a background thread for short jobs of the      *)
(* views.  A task is posted to m_dispatcher, which lives in that thread;   *)
(* a result is posted back to Impl, which lives in the GUI thread.         *)
(*                                                                         *)
(* QThread and the posted events are Qt's, as in WorkerThread: exit() is   *)
(* remembered until exec() returns, and a pass over the posted events goes *)
(* on to the end of the list even after exit().                            *)
(***************************************************************************)
EXTENDS BackgroundTasks, Naturals, Sequences, FiniteSets

VARIABLES
    impl,           \* m_ptrImpl: "alive", "destroying" (in ~Impl) or "gone"
    threadStarted,  \* m_threadStarted
    dispatcherQ,    \* TaskEvents posted to m_dispatcher
    ownerQ,         \* ResultEvents posted to Impl
    pc,             \* where the background thread is, "none" if there is none
    exitCalled,     \* QThread::exit() not yet obeyed
    task,           \* the task being run, while pc is "task"
    enqueued,       \* history: tasks given to enqueueTask
    done            \* history: tasks that ended

vars == <<impl, threadStarted, dispatcherQ, ownerQ, pc, exitCalled, task,
          enqueued, done>>

TypeOK ==
    /\ impl \in {"alive", "destroying", "gone"}
    /\ threadStarted \in BOOLEAN
    /\ dispatcherQ \in Seq(Tasks)
    /\ ownerQ \in Seq(Tasks)
    /\ pc \in {"none", "exec", "loop", "pass", "task", "return"}
    /\ exitCalled \in BOOLEAN
    /\ task \in IF pc = "task" THEN Tasks ELSE {NoTask}
    /\ enqueued \subseteq Tasks /\ done \subseteq Tasks

Init ==
    /\ impl = "alive"
    /\ threadStarted = FALSE
    /\ dispatcherQ = <<>> /\ ownerQ = <<>>
    /\ pc = "none" /\ exitCalled = FALSE /\ task = NoTask
    /\ enqueued = {} /\ done = {}

-----------------------------------------------------------------------------
\* The GUI thread.

\* Mutant: the thread is not started for the first task.
EnqueueTaskOnly(t) ==
    /\ impl = "alive"
    /\ t \notin enqueued
    /\ enqueued' = enqueued \cup {t}
    /\ dispatcherQ' = Append(dispatcherQ, t)
    /\ UNCHANGED <<impl, threadStarted, ownerQ, pc, exitCalled, task, done>>

\* enqueueTask(); without an Impl the task is ignored.
EnqueueTask(t) ==
    /\ impl = "alive"
    /\ t \notin enqueued
    /\ enqueued' = enqueued \cup {t}
    /\ dispatcherQ' = Append(dispatcherQ, t)
    /\ threadStarted' = TRUE
    /\ IF threadStarted THEN UNCHANGED <<pc, exitCalled>>
                        ELSE pc' = "exec" /\ exitCalled' = FALSE
    /\ UNCHANGED <<impl, ownerQ, task, done>>

\* Impl::customEvent
ResultEvent ==
    /\ impl = "alive"
    /\ ownerQ # <<>>
    /\ ownerQ' = Tail(ownerQ)
    /\ UNCHANGED <<impl, threadStarted, dispatcherQ, pc, exitCalled, task,
                   enqueued, done>>

\* Mutant: the destructor does not call exit() before it waits.
ShutdownWithoutExit ==
    /\ impl = "alive"
    /\ impl' = "destroying"
    /\ UNCHANGED <<threadStarted, dispatcherQ, ownerQ, pc, exitCalled, task,
                   enqueued, done>>

\* shutdown(), or the destructor: ~Impl calls exit(), then wait().  exit() of
\* a thread that was never started is forgotten by start(), which nobody calls.
Shutdown ==
    /\ impl = "alive"
    /\ impl' = "destroying"
    /\ exitCalled' = TRUE
    /\ UNCHANGED <<threadStarted, dispatcherQ, ownerQ, pc, task, enqueued, done>>

\* Mutant: the destructor does not wait for the thread.
DestroyedAtOnce ==
    /\ impl = "destroying"
    /\ impl' = "gone"
    /\ dispatcherQ' = <<>> /\ ownerQ' = <<>>
    /\ UNCHANGED <<threadStarted, pc, exitCalled, task, enqueued, done>>

\* wait() returned; the events nobody has received are dropped.
Destroyed ==
    /\ impl = "destroying" /\ pc = "none"
    /\ impl' = "gone"
    /\ dispatcherQ' = <<>> /\ ownerQ' = <<>>
    /\ UNCHANGED <<threadStarted, pc, exitCalled, task, enqueued, done>>

-----------------------------------------------------------------------------
\* The background thread: Impl::run() is exec().

\* exec() finds an exit() already made, or enters its loop.
EnterExec ==
    /\ pc = "exec"
    /\ pc' = IF exitCalled THEN "return" ELSE "loop"
    /\ UNCHANGED <<impl, threadStarted, dispatcherQ, ownerQ, exitCalled, task,
                   enqueued, done>>

\* The loop wakes up, or falls asleep at the end of the posted events.
WakeUp ==
    /\ \/ pc = "loop" /\ dispatcherQ # <<>> /\ pc' = "pass"
       \/ pc = "pass" /\ dispatcherQ = <<>> /\ pc' = "loop"
    /\ UNCHANGED <<impl, threadStarted, dispatcherQ, ownerQ, exitCalled, task,
                   enqueued, done>>

\* Dispatcher::customEvent
DispatchTask ==
    /\ pc = "pass" /\ dispatcherQ # <<>>
    /\ task' = Head(dispatcherQ) /\ dispatcherQ' = Tail(dispatcherQ)
    /\ pc' = "task"
    /\ UNCHANGED <<impl, threadStarted, ownerQ, exitCalled, enqueued, done>>

\* Mutant: the task ended is not forgotten.
TaskReturnsKept ==
    /\ pc = "task"
    /\ ownerQ' \in {ownerQ, Append(ownerQ, task)}
    /\ done' = done \cup {task}
    /\ pc' = "pass"
    /\ UNCHANGED <<impl, threadStarted, dispatcherQ, exitCalled, task, enqueued>>

\* The task has a result, or has none: it was cancelled, or out of memory.
TaskReturns ==
    /\ pc = "task"
    /\ ownerQ' \in {ownerQ, Append(ownerQ, task)}
    /\ done' = done \cup {task}
    /\ task' = NoTask /\ pc' = "pass"
    /\ UNCHANGED <<impl, threadStarted, dispatcherQ, exitCalled, enqueued>>

LeaveExec ==
    /\ pc = "loop" /\ exitCalled
    /\ pc' = "return"
    /\ UNCHANGED <<impl, threadStarted, dispatcherQ, ownerQ, exitCalled, task,
                   enqueued, done>>

ThreadFinished ==
    /\ pc = "return"
    /\ pc' = "none"
    /\ UNCHANGED <<impl, threadStarted, dispatcherQ, ownerQ, exitCalled, task,
                   enqueued, done>>

ThreadNext ==
    \/ EnterExec \/ WakeUp \/ DispatchTask \/ TaskReturns \/ LeaveExec
    \/ ThreadFinished

EventLoop == ResultEvent \/ Destroyed

Next ==
    \/ \E t \in Tasks : EnqueueTask(t)
    \/ EventLoop
    \/ Shutdown
    \/ ThreadNext

Spec == Init /\ [][Next]_vars

\* The system runs both threads, and tasks end.
FairSpec == Spec /\ WF_vars(ThreadNext) /\ WF_vars(EventLoop)

-----------------------------------------------------------------------------
\* What it implements: a serial executor (see SerialExecutor).

Stage == [alive |-> "open", destroying |-> "closing", gone |-> "closed"][impl]

Serial == INSTANCE SerialExecutor
              WITH stage <- Stage, pending <- dispatcherQ, running <- task,
                   results <- ownerQ

(***************************************************************************)
(* The events of two threads, exit() at any time and the dropping of what  *)
(* is left amount to a serial executor: one task at a time, in order, and  *)
(* the results in order, none of them after shutdown() has begun.          *)
(***************************************************************************)
ImplementsSerial == Serial!ExecutorSpec

\* An enqueued task is run, or the executor is shut down.
TaskServed == \A t \in Tasks : t \in enqueued ~> t \in done \/ impl # "alive"

\* ~Impl does not wait for ever, wherever the thread was when exit() came.
ShutdownCompletes == impl = "destroying" ~> impl = "gone"

\* Tasks are served, and then there is an end to it.
Liveness == TaskServed /\ ShutdownCompletes
=============================================================================
