---------------------------- MODULE WorkerThread ----------------------------
(***************************************************************************)
(* core/WorkerThread: the one background thread that runs the filter tasks *)
(* of the main window.  The GUI thread posts a task to m_dispatcher, which *)
(* lives in the background thread; the background thread posts a result    *)
(* back to Impl, which lives in the GUI thread.                            *)
(*                                                                         *)
(* On Linux a thread may raise its nice level but not lower it again, so a *)
(* task that wants a lower level than the thread has makes the thread exit *)
(* with ExitForRestart; the GUI thread then starts a new thread, which     *)
(* first runs the task kept in m_ptrQueuedTask.                            *)
(*                                                                         *)
(* QThread and the posted-event lists are Qt's (not under src/).  What the *)
(* model uses of them: start() does nothing while the thread is running;   *)
(* exit() is remembered and makes the current or the next exec() return;   *)
(* one pass over the posted events delivers the list to its end, whether   *)
(* or not exit() was called on the way; events outlive the thread.         *)
(***************************************************************************)
EXTENDS Naturals, Sequences

CONSTANTS
    Interactive,    \* BackgroundTask objects of type INTERACTIVE
    Batch,          \* BackgroundTask objects of type BATCH
    BatchLevels,    \* nice levels the user's batch priority may have
    NoTask          \* a null BackgroundTaskPtr

Tasks == Interactive \cup Batch

ASSUME TaskAssumption ==
    /\ Interactive \cap Batch = {}
    /\ NoTask \notin Tasks
ASSUME LevelAssumption == BatchLevels \subseteq Nat

VARIABLES
    impl,           \* m_ptrImpl: "alive", "destroying" (in ~Impl) or "gone"
    threadStarted,  \* m_threadStarted
    dispatcherQ,    \* PerformTaskEvents posted to m_dispatcher
    ownerQ,         \* events posted to Impl
    queuedTask,     \* m_ptrQueuedTask
    pc,             \* where the background thread is, "none" if there is none
    exitCode,       \* the pending exit() of QThread, or "no"
    task,           \* the task being run, while pc is "task" or "queued"
    nice,           \* the nice level of the background thread
    posted,         \* history: tasks in the order given to performTask
    cancelled,      \* tasks whose cancel flag is set
    ran,            \* history: tasks in the order they were begun
    delivered       \* history: tasks in the order taskResult was emitted

vars == <<impl, threadStarted, dispatcherQ, ownerQ, queuedTask, pc, exitCode,
          task, nice, posted, cancelled, ran, delivered>>

Elements(q) == {q[i] : i \in DOMAIN q}

ThreadPC == {"none", "starting", "queued", "exec", "loop", "pass", "task",
             "return", "restart", "leaving"}

Restart == [type |-> "ThreadRestart"]
Result(t) == [type |-> "TaskResult", task |-> t]
OwnerEvents == {Restart} \cup {Result(t) : t \in Tasks}

TypeOK ==
    /\ impl \in {"alive", "destroying", "gone"}
    /\ threadStarted \in BOOLEAN
    /\ dispatcherQ \in Seq(Tasks)
    /\ ownerQ \in Seq(OwnerEvents)
    /\ queuedTask \in Tasks \cup {NoTask}
    /\ pc \in ThreadPC
    /\ exitCode \in {"no", "NormalExit", "ExitForRestart"}
    /\ task \in IF pc \in {"task", "queued"} THEN Tasks ELSE {NoTask}
    /\ nice \in {0} \cup BatchLevels
    /\ posted \in Seq(Tasks)
    /\ cancelled \subseteq Tasks
    /\ ran \in Seq(Tasks)
    /\ delivered \in Seq(Tasks)

Init ==
    /\ impl = "alive"
    /\ threadStarted = FALSE
    /\ dispatcherQ = <<>>
    /\ ownerQ = <<>>
    /\ queuedTask = NoTask
    /\ pc = "none"
    /\ exitCode = "no"
    /\ task = NoTask
    /\ nice = 0
    /\ posted = <<>>
    /\ cancelled = {}
    /\ ran = <<>>
    /\ delivered = <<>>

-----------------------------------------------------------------------------
\* The GUI thread.

\* QThread::start().  A new thread inherits the nice level of the GUI thread.
StartThread ==
    IF pc = "none"
    THEN pc' = "starting" /\ exitCode' = "no" /\ nice' = 0
    ELSE UNCHANGED <<pc, exitCode, nice>>

\* Mutant: the thread is not started for the first task.
PerformTaskOnly(t) ==
    /\ impl = "alive"
    /\ t \notin Elements(posted)
    /\ posted' = Append(posted, t)
    /\ dispatcherQ' = Append(dispatcherQ, t)
    /\ UNCHANGED <<impl, threadStarted, ownerQ, queuedTask, pc, exitCode, task,
                   nice, cancelled, ran, delivered>>

PerformTask(t) ==
    /\ impl = "alive"
    /\ t \notin Elements(posted)
    /\ posted' = Append(posted, t)
    /\ dispatcherQ' = Append(dispatcherQ, t)
    /\ threadStarted' = TRUE
    /\ IF threadStarted THEN UNCHANGED <<pc, exitCode, nice>> ELSE StartThread
    /\ UNCHANGED <<impl, ownerQ, queuedTask, task, cancelled, ran, delivered>>

Cancel(t) ==
    /\ t \in Elements(posted) \ cancelled
    /\ cancelled' = cancelled \cup {t}
    /\ UNCHANGED <<impl, threadStarted, dispatcherQ, ownerQ, queuedTask, pc,
                   exitCode, task, nice, posted, ran, delivered>>

\* Impl::customEvent
RestartEvent ==
    /\ impl = "alive"
    /\ ownerQ # <<>> /\ Head(ownerQ) = Restart
    /\ ownerQ' = Tail(ownerQ)
    /\ StartThread
    /\ UNCHANGED <<impl, threadStarted, dispatcherQ, queuedTask, task, posted,
                   cancelled, ran, delivered>>

ResultEvent ==
    /\ impl = "alive"
    /\ ownerQ # <<>> /\ Head(ownerQ) # Restart
    /\ ownerQ' = Tail(ownerQ)
    /\ delivered' = Append(delivered, Head(ownerQ).task)
    /\ UNCHANGED <<impl, threadStarted, dispatcherQ, queuedTask, pc, exitCode,
                   task, nice, posted, cancelled, ran>>

\* Mutant: the destructor does not call exit() before it waits.
ShutdownWithoutExit ==
    /\ impl = "alive"
    /\ impl' = "destroying"
    /\ UNCHANGED <<threadStarted, dispatcherQ, ownerQ, queuedTask, pc, exitCode,
                   task, nice, posted, cancelled, ran, delivered>>

\* shutdown() resets m_ptrImpl: ~Impl calls exit(NormalExit), then wait().
Shutdown ==
    /\ impl = "alive"
    /\ impl' = "destroying"
    /\ exitCode' = "NormalExit"
    /\ UNCHANGED <<threadStarted, dispatcherQ, ownerQ, queuedTask, pc, task,
                   nice, posted, cancelled, ran, delivered>>

\* wait() returned; the destructors drop the events nobody has received.
Destroyed ==
    /\ impl = "destroying" /\ pc = "none"
    /\ impl' = "gone"
    /\ dispatcherQ' = <<>> /\ ownerQ' = <<>> /\ queuedTask' = NoTask
    /\ UNCHANGED <<threadStarted, pc, exitCode, task, nice, posted, cancelled,
                   ran, delivered>>

-----------------------------------------------------------------------------
\* The background thread.

Levels(t) == IF t \in Interactive THEN {0} ELSE BatchLevels

\* Mutant: a refused setpriority() is taken for a success.
PriorityUpdatedAlways(level) == nice' = IF level >= nice THEN level ELSE nice

\* updateThreadPriority() for a wanted level: setpriority() succeeds when the
\* level is not lowered, and fails with EACCES when it is.
PriorityUpdated(level) == level >= nice /\ nice' = level
ThreadRestartRequired(level) == level < nice /\ nice' = nice

\* processTask(t) up to the call of the task; otherwise is where the thread
\* goes on when the task has been cancelled.
ProcessTask(t, during, otherwise) ==
    IF t \in cancelled
    THEN pc' = otherwise /\ UNCHANGED <<task, ran>>
    ELSE pc' = during /\ task' = t /\ ran' = Append(ran, t)

\* Mutant: m_ptrQueuedTask is not reset when its task is run.
RunQueuedNotReset ==
    /\ pc = "starting"
    /\ IF queuedTask = NoTask
       THEN pc' = "exec" /\ UNCHANGED <<nice, task, ran>>
       ELSE /\ \E level \in Levels(queuedTask) :
                  PriorityUpdated(level) \/ ThreadRestartRequired(level)
            /\ ProcessTask(queuedTask, "queued", "exec")
    /\ UNCHANGED <<impl, threadStarted, dispatcherQ, ownerQ, queuedTask,
                   exitCode, posted, cancelled, delivered>>

\* Impl::run up to exec(): maybeProcessQueuedTask, which ignores a second
\* ThreadRestartRequired.
RunQueued ==
    /\ pc = "starting"
    /\ IF queuedTask = NoTask
       THEN pc' = "exec" /\ UNCHANGED <<queuedTask, nice, task, ran>>
       ELSE /\ queuedTask' = NoTask
            /\ \E level \in Levels(queuedTask) :
                  PriorityUpdated(level) \/ ThreadRestartRequired(level)
            /\ ProcessTask(queuedTask, "queued", "exec")
    /\ UNCHANGED <<impl, threadStarted, dispatcherQ, ownerQ, exitCode, posted,
                   cancelled, delivered>>

\* A call of exec() finds an exit() already made, or enters its loop.
ExecReturns == pc' = IF exitCode = "ExitForRestart" THEN "restart" ELSE "return"

EnterExec ==
    /\ pc = "exec"
    /\ IF exitCode = "no"
       THEN pc' = "loop" /\ UNCHANGED exitCode
       ELSE ExecReturns /\ exitCode' = "no"
    /\ UNCHANGED <<impl, threadStarted, dispatcherQ, ownerQ, queuedTask, task,
                   nice, posted, cancelled, ran, delivered>>

LeaveExec ==
    /\ pc = "loop" /\ exitCode # "no"
    /\ ExecReturns /\ exitCode' = "no"
    /\ UNCHANGED <<impl, threadStarted, dispatcherQ, ownerQ, queuedTask, task,
                   nice, posted, cancelled, ran, delivered>>

\* The loop wakes up, or falls asleep at the end of the posted events.
WakeUp ==
    /\ \/ pc = "loop" /\ dispatcherQ # <<>> /\ pc' = "pass"
       \/ pc = "pass" /\ dispatcherQ = <<>> /\ pc' = "loop"
    /\ UNCHANGED <<impl, threadStarted, dispatcherQ, ownerQ, queuedTask,
                   exitCode, task, nice, posted, cancelled, ran, delivered>>

\* Mutant: the task that needs a restart is posted again instead of kept.
DispatchTaskReposted ==
    /\ pc = "pass" /\ dispatcherQ # <<>>
    /\ \E level \in Levels(Head(dispatcherQ)) :
          \/ /\ ThreadRestartRequired(level)
             /\ dispatcherQ' = Append(Tail(dispatcherQ), Head(dispatcherQ))
             /\ exitCode' = "ExitForRestart" /\ pc' = "loop"
             /\ UNCHANGED <<task, ran>>
          \/ /\ PriorityUpdated(level)
             /\ dispatcherQ' = Tail(dispatcherQ)
             /\ ProcessTask(Head(dispatcherQ), "task", "pass")
             /\ UNCHANGED exitCode
    /\ UNCHANGED <<impl, threadStarted, ownerQ, queuedTask, posted, cancelled,
                   delivered>>

\* Dispatcher::customEvent, one PerformTaskEvent of the pass.
DispatchTask ==
    /\ pc = "pass" /\ dispatcherQ # <<>>
    /\ dispatcherQ' = Tail(dispatcherQ)
    /\ \E level \in Levels(Head(dispatcherQ)) :
          \/ /\ ThreadRestartRequired(level)
             /\ queuedTask' = Head(dispatcherQ)
             /\ exitCode' = "ExitForRestart"
             /\ UNCHANGED <<pc, task, ran>>
          \/ /\ PriorityUpdated(level)
             /\ ProcessTask(Head(dispatcherQ), "task", "pass")
             /\ UNCHANGED <<queuedTask, exitCode>>
    /\ UNCHANGED <<impl, threadStarted, ownerQ, posted, cancelled, delivered>>

\* Mutants: the result overtakes earlier ones; the task ended is not forgotten.
TaskReturnsFirst ==
    /\ pc \in {"task", "queued"}
    /\ pc' = IF pc = "task" THEN "pass" ELSE "exec"
    /\ task' = NoTask
    /\ ownerQ' \in {ownerQ, <<Result(task)>> \o ownerQ}
    /\ UNCHANGED <<impl, threadStarted, dispatcherQ, queuedTask, exitCode, nice,
                   posted, cancelled, ran, delivered>>

TaskReturnsKept ==
    /\ pc \in {"task", "queued"}
    /\ pc' = IF pc = "task" THEN "pass" ELSE "exec"
    /\ ownerQ' \in {ownerQ, Append(ownerQ, Result(task))}
    /\ UNCHANGED <<impl, threadStarted, dispatcherQ, queuedTask, exitCode, task,
                   nice, posted, cancelled, ran, delivered>>

\* The task returns a result, or none: it noticed that it was cancelled, has
\* nothing to show, or ran out of memory.
TaskReturns ==
    /\ pc \in {"task", "queued"}
    /\ pc' = IF pc = "task" THEN "pass" ELSE "exec"
    /\ task' = NoTask
    /\ ownerQ' \in {ownerQ, Append(ownerQ, Result(task))}
    /\ UNCHANGED <<impl, threadStarted, dispatcherQ, queuedTask, exitCode, nice,
                   posted, cancelled, ran, delivered>>

\* Impl::run after exec().
RunReturns ==
    /\ pc \in {"return", "restart"}
    /\ pc' = "leaving"
    /\ ownerQ' = IF pc = "restart" THEN Append(ownerQ, Restart) ELSE ownerQ
    /\ UNCHANGED <<impl, threadStarted, dispatcherQ, queuedTask, exitCode, task,
                   nice, posted, cancelled, ran, delivered>>

\* QThread marks itself as no longer running some time after run() returned.
ThreadFinished ==
    /\ pc = "leaving"
    /\ pc' = "none"
    /\ UNCHANGED <<impl, threadStarted, dispatcherQ, ownerQ, queuedTask,
                   exitCode, task, nice, posted, cancelled, ran, delivered>>

ThreadNext ==
    \/ RunQueued \/ EnterExec \/ LeaveExec \/ WakeUp \/ DispatchTask
    \/ TaskReturns \/ RunReturns \/ ThreadFinished

EventLoop == RestartEvent \/ ResultEvent \/ Destroyed

Next ==
    \/ \E t \in Tasks : PerformTask(t) \/ Cancel(t)
    \/ EventLoop
    \/ Shutdown
    \/ ThreadNext

Spec == Init /\ [][Next]_vars

\* The scheduler runs both threads; tasks end.  The user owes nothing.
FairSpec == Spec /\ WF_vars(ThreadNext) /\ WF_vars(EventLoop)

-----------------------------------------------------------------------------
(***************************************************************************)
(* A task object is run at most once: being re-queued for a restart, and   *)
(* the events that survive the old thread, never run one a second time.    *)
(***************************************************************************)
RunsOnce ==
    /\ \A i, j \in DOMAIN ran : ran[i] = ran[j] => i = j
    /\ Elements(ran) \cap (Elements(dispatcherQ) \cup {queuedTask}) = {}

(***************************************************************************)
(* The restart keeps its promise: an interactive task never runs at the    *)
(* lowered priority a batch task left the thread with.                     *)
(***************************************************************************)
InteractiveAtNormalPriority ==
    pc \in {"task", "queued"} /\ task \in Interactive => nice = 0

(***************************************************************************)
(* Interactive tasks are begun in the order they were posted, although one *)
(* of them may wait in m_ptrQueuedTask while the others wait as events.    *)
(* (Batch tasks may overtake an interactive one that waits for a restart.) *)
(***************************************************************************)
InteractiveInOrder ==
    \A i, j \in DOMAIN ran : \A m, n \in DOMAIN posted :
        /\ i < j /\ ran[i] \in Interactive /\ ran[j] \in Interactive
        /\ ran[i] = posted[m] /\ ran[j] = posted[n]
        => m < n

(***************************************************************************)
(* Each result belongs to a task that was run, and the results come in the *)
(* order the tasks were run in, across restarts of the thread.             *)
(***************************************************************************)
ResultsInOrder ==
    \A i, j \in DOMAIN delivered : i < j =>
        \E m, n \in DOMAIN ran :
            m < n /\ ran[m] = delivered[i] /\ ran[n] = delivered[j]

(***************************************************************************)
(* What comes first stays first, whatever waits for a restart meanwhile.   *)
(***************************************************************************)
InOrder == InteractiveInOrder /\ ResultsInOrder

RestartPending == \E i \in DOMAIN ownerQ : ownerQ[i] = Restart
RestartLost == threadStarted /\ pc = "none" /\ ~RestartPending

(***************************************************************************)
(* The last task posted is run, unless it is cancelled, the thread is shut *)
(* down, or the restart it waits for was lost (a start() too early). An    *)
(* earlier one may lose its place in m_ptrQueuedTask to a later one; but   *)
(* the main window cancels a task before it posts another.                 *)
(***************************************************************************)
TaskServed ==
    \A t \in Tasks :
        t \in Elements(posted) ~> \/ t \in Elements(ran) \cup cancelled
                                  \/ posted # <<>> /\ t # posted[Len(posted)]
                                  \/ impl # "alive"
                                  \/ RestartLost

\* ~Impl does not wait for ever, wherever the thread was when exit() came.
ShutdownCompletes == impl = "destroying" ~> impl = "gone"

\* Tasks are served, and then there is an end to it.
Liveness == TaskServed /\ ShutdownCompletes
=============================================================================
