------------------------- MODULE WorkerThreadProofs -------------------------
(***************************************************************************)
(* Proofs about WorkerThread for every set of tasks and of nice levels.    *)
(***************************************************************************)
EXTENDS WorkerThread, TLAPS

USE TaskAssumption, LevelAssumption

-----------------------------------------------------------------------------
\* Facts about the two sequence operations the queues are built from.

Distinct(q) == \A i, j \in DOMAIN q : q[i] = q[j] => i = j

\* Posting an event adds it to the list and keeps distinct events distinct.
LEMMA AppendElements ==
    ASSUME NEW S, NEW q \in Seq(S), NEW e \in S
    PROVE  /\ Append(q, e) \in Seq(S)
           /\ Elements(Append(q, e)) = Elements(q) \cup {e}
           /\ Distinct(q) /\ e \notin Elements(q) => Distinct(Append(q, e))
<1>1. /\ Append(q, e) \in Seq(S)
      /\ Len(Append(q, e)) = Len(q) + 1
      /\ DOMAIN Append(q, e) = 1 .. Len(q) + 1
      /\ DOMAIN q = 1 .. Len(q)
      /\ Len(q) \in Nat
      /\ Append(q, e)[Len(q) + 1] = e
      /\ \A i \in 1 .. Len(q) : Append(q, e)[i] = q[i]
    OBVIOUS
<1>2. Elements(Append(q, e)) = Elements(q) \cup {e}
    <2>1. \A i \in 1 .. Len(q) + 1 : i \in 1 .. Len(q) \/ i = Len(q) + 1
        BY <1>1
    <2>2. \A i \in 1 .. Len(q) : i \in 1 .. Len(q) + 1
        BY <1>1
    <2>3. Len(q) + 1 \in 1 .. Len(q) + 1
        BY <1>1
    <2> QED BY <1>1, <2>1, <2>2, <2>3 DEF Elements
<1>3. ASSUME Distinct(q), e \notin Elements(q)
      PROVE  Distinct(Append(q, e))
    <2>1. \A i \in 1 .. Len(q) : q[i] # e
        BY <1>1, <1>3 DEF Elements
    <2> QED BY <1>1, <1>3, <2>1 DEF Distinct
<1> QED BY <1>1, <1>2, <1>3

\* Delivering the first event removes it and keeps the others.
LEMMA TailElements ==
    ASSUME NEW S, NEW q \in Seq(S), q # <<>>
    PROVE  /\ Tail(q) \in Seq(S)
           /\ Head(q) \in S
           /\ Head(q) \in Elements(q)
           /\ Elements(Tail(q)) \subseteq Elements(q)
           /\ Distinct(q) => Distinct(Tail(q)) /\ Head(q) \notin Elements(Tail(q))
<1>1. /\ Tail(q) \in Seq(S)
      /\ Len(q) \in Nat /\ Len(q) >= 1
      /\ DOMAIN q = 1 .. Len(q)
      /\ DOMAIN Tail(q) = 1 .. Len(q) - 1
      /\ \A i \in 1 .. Len(q) - 1 : Tail(q)[i] = q[i + 1]
      /\ Head(q) = q[1]
      /\ 1 \in DOMAIN q
      /\ q[1] \in S
    OBVIOUS
<1>2. \A i \in 1 .. Len(q) - 1 : i + 1 \in 1 .. Len(q) /\ i + 1 # 1
    BY <1>1
<1>3. Elements(Tail(q)) \subseteq Elements(q)
    BY <1>1, <1>2 DEF Elements
<1>4. ASSUME Distinct(q)
      PROVE  Distinct(Tail(q)) /\ Head(q) \notin Elements(Tail(q))
    <2>1. Distinct(Tail(q))
        BY <1>1, <1>2, <1>4 DEF Distinct
    <2>2. Head(q) \notin Elements(Tail(q))
        BY <1>1, <1>2, <1>4 DEF Distinct, Elements
    <2> QED BY <2>1, <2>2
<1> QED BY <1>1, <1>3, <1>4 DEF Elements

\* The empty list.
LEMMA EmptyElements ==
    ASSUME NEW S
    PROVE  <<>> \in Seq(S) /\ Elements(<<>>) = {} /\ Distinct(<<>>)
BY DEF Elements, Distinct

-----------------------------------------------------------------------------
\* The variables keep their types, whatever the two threads do.
THEOREM TypeCorrect == Spec => []TypeOK
<1>1. Init => TypeOK
    BY EmptyElements DEF Init, TypeOK, ThreadPC
<1>2. ASSUME TypeOK, [Next]_vars
      PROVE  TypeOK'
    <2> USE <1>2 DEF TypeOK
    <2>1. ASSUME NEW t \in Tasks, PerformTask(t) PROVE TypeOK'
        BY <2>1, AppendElements DEF PerformTask, StartThread, ThreadPC
    <2>2. ASSUME NEW t \in Tasks, Cancel(t) PROVE TypeOK'
        BY <2>2 DEF Cancel
    <2>3. CASE RestartEvent
        BY <2>3, TailElements DEF RestartEvent, StartThread, ThreadPC
    <2>4. CASE ResultEvent
        <3>1. Head(ownerQ) \in OwnerEvents /\ Tail(ownerQ) \in Seq(OwnerEvents)
            BY <2>4, TailElements DEF ResultEvent
        <3>2. Head(ownerQ).task \in Tasks
            BY <2>4, <3>1 DEF ResultEvent, OwnerEvents, Result
        <3> QED BY <2>4, <3>1, <3>2, AppendElements DEF ResultEvent
    <2>5. CASE Destroyed
        BY <2>5, EmptyElements DEF Destroyed
    <2>6. CASE Shutdown
        BY <2>6 DEF Shutdown
    <2>7. CASE RunQueued
        <3>1. CASE queuedTask = NoTask
            BY <2>7, <3>1 DEF RunQueued, ThreadPC
        <3>2. CASE queuedTask # NoTask
            <4>1. PICK level \in Levels(queuedTask) :
                     PriorityUpdated(level) \/ ThreadRestartRequired(level)
                BY <2>7, <3>2 DEF RunQueued
            <4>2. level \in {0} \cup BatchLevels
                BY DEF Levels
            <4>3. nice' \in {0} \cup BatchLevels
                BY <4>1, <4>2 DEF PriorityUpdated, ThreadRestartRequired
            <4>4. queuedTask \in Tasks /\ Append(ran, queuedTask) \in Seq(Tasks)
                BY <3>2, AppendElements
            <4>5. /\ pc' \in ThreadPC /\ ran' \in Seq(Tasks)
                  /\ task' \in IF pc' \in {"task", "queued"} THEN Tasks ELSE {NoTask}
                BY <2>7, <3>2, <4>4 DEF RunQueued, ProcessTask, ThreadPC
            <4> QED BY <2>7, <3>2, <4>3, <4>5 DEF RunQueued
        <3> QED BY <3>1, <3>2
    <2>8. CASE EnterExec
        BY <2>8 DEF EnterExec, ExecReturns, ThreadPC
    <2>9. CASE LeaveExec
        BY <2>9 DEF LeaveExec, ExecReturns, ThreadPC
    <2>10. CASE WakeUp
        BY <2>10 DEF WakeUp, ThreadPC
    <2>11. CASE DispatchTask
        <3>1. /\ Head(dispatcherQ) \in Tasks
              /\ Tail(dispatcherQ) \in Seq(Tasks)
            BY <2>11, TailElements DEF DispatchTask
        <3>2. PICK level \in Levels(Head(dispatcherQ)) :
                 \/ /\ ThreadRestartRequired(level)
                    /\ queuedTask' = Head(dispatcherQ)
                    /\ exitCode' = "ExitForRestart"
                    /\ UNCHANGED <<pc, task, ran>>
                 \/ /\ PriorityUpdated(level)
                    /\ ProcessTask(Head(dispatcherQ), "task", "pass")
                    /\ UNCHANGED <<queuedTask, exitCode>>
            BY <2>11 DEF DispatchTask
        <3>3. level \in {0} \cup BatchLevels
            BY DEF Levels
        <3>4. nice' \in {0} \cup BatchLevels
            BY <3>2, <3>3 DEF PriorityUpdated, ThreadRestartRequired
        <3>5. /\ queuedTask' \in Tasks \cup {NoTask}
              /\ exitCode' \in {"no", "NormalExit", "ExitForRestart"}
              /\ pc' \in ThreadPC
              /\ task' \in IF pc' \in {"task", "queued"} THEN Tasks ELSE {NoTask}
              /\ ran' \in Seq(Tasks)
            <4>1. Append(ran, Head(dispatcherQ)) \in Seq(Tasks)
                BY <3>1, AppendElements
            <4>2. pc = "pass"
                BY <2>11 DEF DispatchTask
            <4> QED BY <3>1, <3>2, <4>1, <4>2 DEF ProcessTask, ThreadPC
        <3> QED BY <2>11, <3>1, <3>4, <3>5 DEF DispatchTask
    <2>12. CASE TaskReturns
        <3>1. task \in Tasks
            BY <2>12 DEF TaskReturns
        <3>2. Result(task) \in OwnerEvents
            BY <3>1 DEF OwnerEvents
        <3>3. Append(ownerQ, Result(task)) \in Seq(OwnerEvents)
            BY <3>2, AppendElements
        <3>4. ownerQ' \in Seq(OwnerEvents)
            BY <2>12, <3>3 DEF TaskReturns
        <3> QED BY <2>12, <3>4 DEF TaskReturns, ThreadPC
    <2>13. CASE RunReturns
        BY <2>13, AppendElements DEF RunReturns, ThreadPC, OwnerEvents
    <2>14. CASE ThreadFinished
        BY <2>14 DEF ThreadFinished, ThreadPC
    <2>15. CASE UNCHANGED vars
        BY <2>15 DEF vars
    <2> QED BY <2>1, <2>2, <2>3, <2>4, <2>5, <2>6, <2>7, <2>8, <2>9, <2>10,
               <2>11, <2>12, <2>13, <2>14, <2>15
            DEF Next, EventLoop, ThreadNext
<1> QED BY <1>1, <1>2, PTL DEF Spec

-----------------------------------------------------------------------------
\* A thread that has just been started runs at the normal level, so that the
\* task it was restarted for can be given whatever level it wants.
FreshThreadAtNormal ==
    /\ pc = "starting" => nice = 0
    /\ InteractiveAtNormalPriority

\* An interactive task never runs at the level a batch task lowered the
\* thread to, for any levels the batch priority may have.
THEOREM InteractivePriority == Spec => []InteractiveAtNormalPriority
<1>1. Init => FreshThreadAtNormal
    BY DEF Init, FreshThreadAtNormal, InteractiveAtNormalPriority
<1>2. ASSUME TypeOK, FreshThreadAtNormal, [Next]_vars
      PROVE  FreshThreadAtNormal'
    <2> USE <1>2 DEF FreshThreadAtNormal, InteractiveAtNormalPriority
    <2>1. ASSUME NEW t \in Tasks, PerformTask(t) PROVE FreshThreadAtNormal'
        BY <2>1 DEF PerformTask, StartThread
    <2>2. ASSUME NEW t \in Tasks, Cancel(t) PROVE FreshThreadAtNormal'
        BY <2>2 DEF Cancel
    <2>3. CASE RestartEvent
        BY <2>3 DEF RestartEvent, StartThread
    <2>4. CASE ResultEvent \/ Destroyed \/ Shutdown
        BY <2>4 DEF ResultEvent, Destroyed, Shutdown
    <2>5. CASE RunQueued
        <3>1. CASE queuedTask = NoTask
            BY <2>5, <3>1 DEF RunQueued
        <3>2. CASE queuedTask # NoTask
            <4>1. PICK level \in Levels(queuedTask) :
                     PriorityUpdated(level) \/ ThreadRestartRequired(level)
                BY <2>5, <3>2 DEF RunQueued
            <4>2. nice = 0 /\ level \in Nat
                BY <2>5 DEF RunQueued, Levels
            <4>3. nice' = level
                BY <4>1, <4>2 DEF PriorityUpdated, ThreadRestartRequired
            <4>4. queuedTask \in Interactive => nice' = 0
                BY <4>3 DEF Levels
            <4>5. /\ pc' \in {"queued", "exec"}
                  /\ pc' = "queued" => task' = queuedTask
                BY <2>5, <3>2 DEF RunQueued, ProcessTask
            <4> QED BY <4>4, <4>5
        <3> QED BY <3>1, <3>2
    <2>6. CASE EnterExec \/ LeaveExec \/ WakeUp
        BY <2>6 DEF EnterExec, LeaveExec, ExecReturns, WakeUp
    <2>7. CASE DispatchTask
        <3>1. PICK level \in Levels(Head(dispatcherQ)) :
                 \/ /\ ThreadRestartRequired(level)
                    /\ queuedTask' = Head(dispatcherQ)
                    /\ exitCode' = "ExitForRestart"
                    /\ UNCHANGED <<pc, task, ran>>
                 \/ /\ PriorityUpdated(level)
                    /\ ProcessTask(Head(dispatcherQ), "task", "pass")
                    /\ UNCHANGED <<queuedTask, exitCode>>
            BY <2>7 DEF DispatchTask
        <3>2. pc = "pass"
            BY <2>7 DEF DispatchTask
        <3>3. CASE ThreadRestartRequired(level) /\ UNCHANGED <<pc, task>>
            BY <3>2, <3>3
        <3>4. CASE PriorityUpdated(level)
                   /\ ProcessTask(Head(dispatcherQ), "task", "pass")
            <4>1. Head(dispatcherQ) \in Interactive => nice' = 0
                BY <3>4 DEF PriorityUpdated, Levels
            <4> QED BY <3>4, <4>1 DEF ProcessTask
        <3> QED BY <3>1, <3>3, <3>4
    <2>8. CASE TaskReturns \/ RunReturns \/ ThreadFinished
        BY <2>8 DEF TaskReturns, RunReturns, ThreadFinished
    <2>9. CASE UNCHANGED vars
        BY <2>9 DEF vars
    <2> QED BY <2>1, <2>2, <2>3, <2>4, <2>5, <2>6, <2>7, <2>8, <2>9
            DEF Next, EventLoop, ThreadNext
<1>3. FreshThreadAtNormal => InteractiveAtNormalPriority
    BY DEF FreshThreadAtNormal
<1> QED BY <1>1, <1>2, <1>3, TypeCorrect, PTL DEF Spec

-----------------------------------------------------------------------------
\* Each posted task is in one place: an event, m_ptrQueuedTask, or run.
OnePlace ==
    /\ Distinct(dispatcherQ) /\ Distinct(ran)
    /\ Elements(dispatcherQ) \subseteq Elements(posted)
    /\ Elements(ran) \subseteq Elements(posted)
    /\ queuedTask \in Elements(posted) \cup {NoTask}
    /\ Elements(ran) \cap Elements(dispatcherQ) = {}
    /\ queuedTask \notin Elements(ran)
    /\ queuedTask \notin Elements(dispatcherQ)

LEMMA TasksInOnePlace == Spec => []OnePlace
<1>1. Init => OnePlace
    <2>1. Elements(<<>>) = {} /\ Distinct(<<>>)
        BY EmptyElements
    <2> QED BY <2>1 DEF Init, OnePlace
<1>2. ASSUME TypeOK, OnePlace, [Next]_vars
      PROVE  OnePlace'
    <2> USE <1>2 DEF OnePlace
    <2> DEFINE Kept == UNCHANGED <<dispatcherQ, queuedTask, posted, ran>>
    <2>1. ASSUME Kept PROVE OnePlace'
        BY <2>1 DEF Distinct, Elements
    <2>2. ASSUME NEW t \in Tasks, PerformTask(t) PROVE OnePlace'
        <3>1. dispatcherQ \in Seq(Tasks) /\ posted \in Seq(Tasks)
            BY DEF TypeOK
        <3>2. /\ t \notin Elements(dispatcherQ) /\ t \notin Elements(ran)
              /\ t # queuedTask
            BY <2>2 DEF PerformTask
        <3>3. /\ Elements(dispatcherQ') = Elements(dispatcherQ) \cup {t}
              /\ Distinct(dispatcherQ')
            BY <2>2, <3>1, <3>2, AppendElements DEF PerformTask
        <3>4. Elements(posted') = Elements(posted) \cup {t}
            BY <2>2, <3>1, AppendElements DEF PerformTask
        <3>5. UNCHANGED <<queuedTask, ran>>
            BY <2>2 DEF PerformTask
        <3> QED BY <3>2, <3>3, <3>4, <3>5
    <2>3. CASE Destroyed
        <3>1. /\ Elements(dispatcherQ') = {} /\ Distinct(dispatcherQ')
              /\ queuedTask' = NoTask /\ UNCHANGED <<posted, ran>>
            BY <2>3, EmptyElements DEF Destroyed
        <3>2. NoTask \notin Elements(ran)
            BY DEF TypeOK, Elements
        <3> QED BY <3>1, <3>2
    <2>4. ASSUME NEW t \in Tasks, ran' = Append(ran, t), t \in Elements(posted),
                 t \notin Elements(ran), t \notin Elements(dispatcherQ'),
                 t # queuedTask',
                 Elements(dispatcherQ') \subseteq Elements(dispatcherQ),
                 Distinct(dispatcherQ'),
                 queuedTask' \in {NoTask, queuedTask}, posted' = posted
          PROVE  OnePlace'
        <3>1. Elements(ran') = Elements(ran) \cup {t} /\ Distinct(ran')
            BY <2>4, AppendElements DEF TypeOK
        <3>2. NoTask \notin Elements(ran) /\ NoTask \notin Elements(dispatcherQ)
            BY DEF TypeOK, Elements
        <3> QED BY <2>4, <3>1, <3>2
    <2>5. CASE RunQueued
        <3>1. CASE queuedTask = NoTask
            BY <2>1, <2>5, <3>1 DEF RunQueued
        <3>2. CASE queuedTask # NoTask /\ queuedTask \in cancelled
            <4>1. queuedTask' = NoTask /\ UNCHANGED <<dispatcherQ, posted, ran>>
                BY <2>5, <3>2 DEF RunQueued, ProcessTask
            <4>2. NoTask \notin Elements(ran) /\ NoTask \notin Elements(dispatcherQ)
                BY DEF TypeOK, Elements
            <4> QED BY <4>1, <4>2
        <3>3. CASE queuedTask # NoTask /\ queuedTask \notin cancelled
            <4>1. /\ queuedTask' = NoTask /\ UNCHANGED <<dispatcherQ, posted>>
                  /\ ran' = Append(ran, queuedTask)
                BY <2>5, <3>3 DEF RunQueued, ProcessTask
            <4>2. queuedTask \in Tasks
                BY <3>3 DEF TypeOK
            <4> QED BY <2>4, <3>3, <4>1, <4>2
        <3> QED BY <3>1, <3>2, <3>3
    <2>6. CASE DispatchTask
        <3> DEFINE h == Head(dispatcherQ)
        <3>1. PICK level \in Levels(h) :
                 \/ /\ ThreadRestartRequired(level)
                    /\ queuedTask' = h
                    /\ exitCode' = "ExitForRestart"
                    /\ UNCHANGED <<pc, task, ran>>
                 \/ /\ PriorityUpdated(level)
                    /\ ProcessTask(h, "task", "pass")
                    /\ UNCHANGED <<queuedTask, exitCode>>
            BY <2>6 DEF DispatchTask
        <3>2. /\ h \in Tasks /\ h \in Elements(dispatcherQ)
              /\ Elements(dispatcherQ') \subseteq Elements(dispatcherQ)
              /\ Distinct(dispatcherQ') /\ h \notin Elements(dispatcherQ')
            BY <2>6, TailElements DEF DispatchTask, TypeOK
        <3>3. posted' = posted
            BY <2>6 DEF DispatchTask
        <3>4. CASE queuedTask' = h /\ UNCHANGED ran
            BY <3>2, <3>3, <3>4
        <3>5. CASE ProcessTask(h, "task", "pass") /\ UNCHANGED queuedTask
            <4>1. CASE h \in cancelled
                BY <3>2, <3>3, <3>5, <4>1 DEF ProcessTask
            <4>2. CASE h \notin cancelled
                <5>1. ran' = Append(ran, h)
                    BY <3>5, <4>2 DEF ProcessTask
                <5>2. h \notin Elements(ran) /\ h # queuedTask
                    BY <3>2
                <5> HIDE DEF h
                <5> QED BY <2>4, <3>2, <3>3, <3>5, <5>1, <5>2
            <4> QED BY <4>1, <4>2
        <3> QED BY <3>1, <3>4, <3>5
    <2>7. ASSUME NEW t \in Tasks, Cancel(t) PROVE OnePlace'
        BY <2>1, <2>7 DEF Cancel
    <2>8. CASE RestartEvent \/ ResultEvent \/ Shutdown
        BY <2>1, <2>8 DEF RestartEvent, ResultEvent, Shutdown
    <2>9. CASE EnterExec \/ LeaveExec \/ WakeUp
        BY <2>1, <2>9 DEF EnterExec, LeaveExec, WakeUp
    <2>10. CASE TaskReturns \/ RunReturns \/ ThreadFinished
        BY <2>1, <2>10 DEF TaskReturns, RunReturns, ThreadFinished
    <2>11. CASE UNCHANGED vars
        BY <2>1, <2>11 DEF vars
    <2> QED BY <2>2, <2>3, <2>5, <2>6, <2>7, <2>8, <2>9, <2>10, <2>11
            DEF Next, EventLoop, ThreadNext
<1> QED BY <1>1, <1>2, TypeCorrect, PTL DEF Spec

\* No restart of the thread makes it run a task a second time.
THEOREM RunOnce == Spec => []RunsOnce
<1>1. OnePlace => RunsOnce
    BY DEF OnePlace, RunsOnce, Distinct
<1> QED BY <1>1, TasksInOnePlace, PTL
-----------------------------------------------------------------------------
\* Tasks in the order they have in a list.

Before(q, s, t) == \E m, n \in DOMAIN q : m < n /\ q[m] = s /\ q[n] = t

\* What is added to a list comes after what it has, and changes nothing there.
LEMMA AppendBefore ==
    ASSUME NEW S, NEW q \in Seq(S), NEW e \in S
    PROVE  /\ \A s, t : Before(q, s, t) => Before(Append(q, e), s, t)
           /\ \A s \in Elements(q) : Before(Append(q, e), s, e)
<1>1. /\ DOMAIN Append(q, e) = 1 .. Len(q) + 1
      /\ DOMAIN q = 1 .. Len(q)
      /\ Len(q) \in Nat
      /\ Append(q, e)[Len(q) + 1] = e
      /\ \A i \in 1 .. Len(q) : Append(q, e)[i] = q[i]
    OBVIOUS
<1>2. ASSUME NEW s, NEW t, Before(q, s, t)
      PROVE  Before(Append(q, e), s, t)
    <2>1. PICK m, n \in 1 .. Len(q) : m < n /\ q[m] = s /\ q[n] = t
        BY <1>1, <1>2 DEF Before
    <2>2. m \in 1 .. Len(q) + 1 /\ n \in 1 .. Len(q) + 1
        BY <1>1
    <2> QED BY <1>1, <2>1, <2>2 DEF Before
<1>3. ASSUME NEW s \in Elements(q)
      PROVE  Before(Append(q, e), s, e)
    <2>1. PICK m \in 1 .. Len(q) : q[m] = s
        BY <1>1, <1>3 DEF Elements
    <2>2. m \in 1 .. Len(q) + 1 /\ m < Len(q) + 1 /\ Len(q) + 1 \in 1 .. Len(q) + 1
        BY <1>1
    <2> QED BY <1>1, <2>1, <2>2 DEF Before
<1> QED BY <1>2, <1>3

\* The elements of a list that is in the order of another.
Ordered(q, by) == \A i, j \in DOMAIN q : i < j => Before(by, q[i], q[j])

LEMMA OrderedAppend ==
    ASSUME NEW S, NEW q \in Seq(S), NEW e \in S, NEW by,
           Ordered(q, by), \A s \in Elements(q) : Before(by, s, e)
    PROVE  Ordered(Append(q, e), by)
<1>1. /\ DOMAIN Append(q, e) = 1 .. Len(q) + 1
      /\ DOMAIN q = 1 .. Len(q)
      /\ Len(q) \in Nat
      /\ Append(q, e)[Len(q) + 1] = e
      /\ \A i \in 1 .. Len(q) : Append(q, e)[i] = q[i]
    OBVIOUS
<1>2. \A i \in 1 .. Len(q) : Before(by, q[i], e)
    BY <1>1 DEF Elements
<1> QED BY <1>1, <1>2 DEF Ordered

LEMMA OrderedTail ==
    ASSUME NEW S, NEW q \in Seq(S), q # <<>>, NEW by, Ordered(q, by)
    PROVE  /\ Ordered(Tail(q), by)
           /\ \A t \in Elements(Tail(q)) : Before(by, Head(q), t)
<1>1. /\ Len(q) \in Nat /\ Len(q) >= 1
      /\ DOMAIN q = 1 .. Len(q)
      /\ DOMAIN Tail(q) = 1 .. Len(q) - 1
      /\ \A i \in 1 .. Len(q) - 1 : Tail(q)[i] = q[i + 1]
      /\ Head(q) = q[1]
    OBVIOUS
<1>2. \A i \in 1 .. Len(q) - 1 : i + 1 \in 1 .. Len(q) /\ 1 < i + 1
    BY <1>1
<1> QED BY <1>1, <1>2 DEF Ordered, Elements

-----------------------------------------------------------------------------
\* The interactive tasks, wherever they are, are in the order of posted: those
\* that ran, then the one that waits for a restart, then the events.  While
\* one waits, the thread is at a lowered priority, where no other can be run.
PostedOrder ==
    /\ Distinct(posted)
    /\ Ordered(dispatcherQ, posted)
    /\ \A i, j \in DOMAIN ran :
          i < j /\ ran[i] \in Interactive /\ ran[j] \in Interactive
              => Before(posted, ran[i], ran[j])
    /\ \A s \in Elements(ran) \cap Interactive, t \in Elements(dispatcherQ) :
          Before(posted, s, t)
    /\ queuedTask # NoTask =>
          /\ \A s \in Elements(ran) \cap Interactive : Before(posted, s, queuedTask)
          /\ \A t \in Elements(dispatcherQ) : Before(posted, queuedTask, t)
          /\ nice > 0 \/ pc = "starting"

\* The results not yet delivered, and those that were, are in the order of ran.
ResultOrder ==
    /\ Ordered(delivered, ran) /\ Elements(delivered) \subseteq Elements(ran)
    /\ \A j \in DOMAIN ownerQ : ownerQ[j] # Restart =>
          /\ ownerQ[j].task \in Elements(ran)
          /\ \A s \in Elements(delivered) : Before(ran, s, ownerQ[j].task)
          /\ \A i \in DOMAIN ownerQ : i < j /\ ownerQ[i] # Restart =>
                Before(ran, ownerQ[i].task, ownerQ[j].task)
    /\ task # NoTask =>
          /\ task \in Elements(ran)
          /\ \A s \in Elements(delivered) : Before(ran, s, task)
          /\ \A i \in DOMAIN ownerQ :
                ownerQ[i] # Restart => Before(ran, ownerQ[i].task, task)

\* Interactive tasks are begun, and results come, in the order they should.
THEOREM TasksInOrder == Spec => []InOrder
<1>1. Init => PostedOrder /\ ResultOrder
    <2>1. Elements(<<>>) = {} /\ Distinct(<<>>) /\ \A by : Ordered(<<>>, by)
        BY EmptyElements DEF Ordered
    <2>2. DOMAIN <<>> = {}
        OBVIOUS
    <2> QED BY <2>1, <2>2 DEF Init, PostedOrder, ResultOrder
<1>2. ASSUME TypeOK, OnePlace, PostedOrder, [Next]_vars
      PROVE  PostedOrder'
    <2> USE <1>2 DEF PostedOrder
    <2>1. ASSUME UNCHANGED <<dispatcherQ, queuedTask, posted, ran>>,
                 \/ nice' = nice /\ (pc = "starting" => pc' = "starting")
                 \/ pc' = "starting"
          PROVE  PostedOrder'
        BY <2>1 DEF Distinct, Elements, Ordered, Before
    <2>2. ASSUME NEW t \in Tasks, PerformTask(t) PROVE PostedOrder'
        <3>1. posted \in Seq(Tasks) /\ dispatcherQ \in Seq(Tasks)
            BY DEF TypeOK
        <3>2. /\ posted' = Append(posted, t) /\ dispatcherQ' = Append(dispatcherQ, t)
              /\ t \notin Elements(posted) /\ UNCHANGED <<queuedTask, ran>>
            BY <2>2 DEF PerformTask
        <3>3. /\ \A s, u : Before(posted, s, u) => Before(posted', s, u)
              /\ \A s \in Elements(posted) : Before(posted', s, t)
            BY <3>1, <3>2, AppendBefore
        <3>4. Distinct(posted') /\ Elements(dispatcherQ') = Elements(dispatcherQ) \cup {t}
            BY <3>1, <3>2, AppendElements
        <3>5. Ordered(dispatcherQ, posted') /\ \A s \in Elements(dispatcherQ) : Before(posted', s, t)
            BY <3>3 DEF OnePlace, Ordered
        <3>6. Ordered(dispatcherQ', posted')
            BY <3>1, <3>2, <3>5, OrderedAppend
        <3>7. /\ Elements(ran) \subseteq Elements(posted)
              /\ queuedTask # NoTask => queuedTask \in Elements(posted)
            BY DEF OnePlace
        <3>8. \/ nice' = nice /\ (pc = "starting" => pc' = "starting")
              \/ pc' = "starting"
            BY <2>2 DEF PerformTask, StartThread
        <3>9. Elements(ran') = Elements(ran)
            BY <3>2
        <3> QED BY <3>2, <3>3, <3>4, <3>6, <3>7, <3>8, <3>9
    <2>3. CASE Destroyed
        <3>1. Elements(<<>>) = {} /\ Ordered(<<>>, posted)
            BY EmptyElements DEF Ordered
        <3> QED BY <2>3, <3>1 DEF Destroyed
    <2>4. ASSUME NEW t \in Tasks, ran' = Append(ran, t), UNCHANGED posted,
                 Ordered(dispatcherQ', posted),
                 Elements(dispatcherQ') \subseteq Elements(dispatcherQ),
                 \A u \in Elements(dispatcherQ') : Before(posted, t, u),
                 \A s \in Elements(ran) \cap Interactive : Before(posted, s, t),
                 \/ queuedTask' = NoTask
                 \/ /\ UNCHANGED queuedTask /\ t \notin Interactive
                    /\ nice' > 0 \/ pc' = "starting"
          PROVE  PostedOrder'
        <3>1. /\ ran \in Seq(Tasks)
              /\ DOMAIN ran' = 1 .. Len(ran) + 1
              /\ DOMAIN ran = 1 .. Len(ran) /\ Len(ran) \in Nat
              /\ ran'[Len(ran) + 1] = t
              /\ \A i \in 1 .. Len(ran) : ran'[i] = ran[i]
            BY <2>4 DEF TypeOK
        <3>2. Elements(ran') = Elements(ran) \cup {t}
            BY <2>4, <3>1, AppendElements
        <3>3. \A i \in DOMAIN ran : ran[i] \in Elements(ran)
            BY DEF Elements
        <3>4. ASSUME NEW i \in DOMAIN ran', NEW j \in DOMAIN ran', i < j,
                     ran'[i] \in Interactive, ran'[j] \in Interactive
              PROVE  Before(posted, ran'[i], ran'[j])
            <4>1. CASE j \in 1 .. Len(ran)
                BY <3>1, <3>4, <4>1
            <4>2. CASE j = Len(ran) + 1
                BY <2>4, <3>1, <3>3, <3>4, <4>2
            <4> QED BY <3>1, <4>1, <4>2
        <3> QED BY <2>4, <3>2, <3>4
    <2>5. CASE RunQueued
        <3>1. CASE queuedTask = NoTask
            BY <2>5, <3>1 DEF RunQueued, Elements, Ordered
        <3>2. CASE queuedTask # NoTask /\ queuedTask \in cancelled
            BY <2>5, <3>2 DEF RunQueued, ProcessTask
        <3>3. CASE queuedTask # NoTask /\ queuedTask \notin cancelled
            <4>1. /\ queuedTask' = NoTask /\ UNCHANGED <<dispatcherQ, posted>>
                  /\ ran' = Append(ran, queuedTask)
                BY <2>5, <3>3 DEF RunQueued, ProcessTask
            <4>2. queuedTask \in Tasks
                BY <3>3 DEF TypeOK
            <4> QED BY <2>4, <3>3, <4>1, <4>2
        <3> QED BY <3>1, <3>2, <3>3
    <2>6. CASE DispatchTask
        <3> DEFINE h == Head(dispatcherQ)
        <3>1. PICK level \in Levels(h) :
                 \/ /\ ThreadRestartRequired(level)
                    /\ queuedTask' = h
                    /\ exitCode' = "ExitForRestart"
                    /\ UNCHANGED <<pc, task, ran>>
                 \/ /\ PriorityUpdated(level)
                    /\ ProcessTask(h, "task", "pass")
                    /\ UNCHANGED <<queuedTask, exitCode>>
            BY <2>6 DEF DispatchTask
        <3>2. /\ dispatcherQ \in Seq(Tasks) /\ dispatcherQ # <<>>
              /\ dispatcherQ' = Tail(dispatcherQ) /\ UNCHANGED posted
              /\ pc = "pass"
            BY <2>6 DEF DispatchTask, TypeOK
        <3>3. /\ h \in Tasks /\ h \in Elements(dispatcherQ)
              /\ Elements(dispatcherQ') \subseteq Elements(dispatcherQ)
            BY <3>2, TailElements
        <3>4. /\ Ordered(dispatcherQ', posted)
              /\ \A u \in Elements(dispatcherQ') : Before(posted, h, u)
            BY <3>2, OrderedTail
        <3>5. \A s \in Elements(ran) \cap Interactive : Before(posted, s, h)
            BY <3>3
        <3>6. level \in Nat /\ nice \in Nat
            BY DEF Levels, TypeOK
        <3> HIDE DEF h
        <3>7. CASE ThreadRestartRequired(level) /\ queuedTask' = h /\ UNCHANGED ran
            <4>1. nice' > 0
                BY <3>6, <3>7 DEF ThreadRestartRequired
            <4> QED BY <3>2, <3>3, <3>4, <3>5, <3>7, <4>1
        <3>8. CASE /\ PriorityUpdated(level) /\ ProcessTask(h, "task", "pass")
                   /\ UNCHANGED queuedTask
            <4>1. queuedTask # NoTask => nice' > 0 /\ h \notin Interactive
                <5>1. queuedTask # NoTask => nice > 0
                    BY <3>2
                <5>2. level >= nice /\ nice' = level
                    BY <3>8 DEF PriorityUpdated
                <5>3. h \in Interactive => level = 0
                    BY <3>1 DEF Levels
                <5> QED BY <3>6, <5>1, <5>2, <5>3
            <4>2. CASE h \in cancelled
                <5>1. UNCHANGED ran
                    BY <3>8, <4>2 DEF ProcessTask
                <5> QED BY <3>2, <3>3, <3>4, <3>8, <4>1, <5>1
            <4>3. CASE h \notin cancelled
                <5>1. ran' = Append(ran, h)
                    BY <3>8, <4>3 DEF ProcessTask
                <5> QED BY <2>4, <3>2, <3>3, <3>4, <3>5, <3>8, <4>1, <5>1
            <4> QED BY <4>2, <4>3
        <3> QED BY <3>1, <3>7, <3>8
    <2>7. ASSUME NEW t \in Tasks, Cancel(t) PROVE PostedOrder'
        BY <2>1, <2>7 DEF Cancel
    <2>8. CASE RestartEvent \/ ResultEvent \/ Shutdown
        BY <2>1, <2>8 DEF RestartEvent, StartThread, ResultEvent, Shutdown
    <2>9. CASE EnterExec \/ LeaveExec \/ WakeUp
        BY <2>1, <2>9 DEF EnterExec, LeaveExec, WakeUp
    <2>10. CASE TaskReturns \/ RunReturns \/ ThreadFinished
        BY <2>1, <2>10 DEF TaskReturns, RunReturns, ThreadFinished
    <2>11. CASE UNCHANGED vars
        BY <2>1, <2>11 DEF vars
    <2> QED BY <2>2, <2>3, <2>5, <2>6, <2>7, <2>8, <2>9, <2>10, <2>11
            DEF Next, EventLoop, ThreadNext
<1>3. ASSUME TypeOK, ResultOrder, [Next]_vars
      PROVE  ResultOrder'
    <2> USE <1>3 DEF ResultOrder
    <2>1. ASSUME UNCHANGED <<delivered, ownerQ, task, ran>>
          PROVE  ResultOrder'
        BY <2>1 DEF Elements, Ordered, Before
    <2>2. CASE ResultEvent
        <3>1. /\ ownerQ \in Seq(OwnerEvents) /\ ownerQ # <<>> /\ Head(ownerQ) # Restart
              /\ ownerQ' = Tail(ownerQ) /\ UNCHANGED <<task, ran>>
              /\ delivered' = Append(delivered, Head(ownerQ).task)
            BY <2>2 DEF ResultEvent, TypeOK
        <3>2. /\ Len(ownerQ) \in Nat /\ 1 \in DOMAIN ownerQ
              /\ Head(ownerQ) = ownerQ[1]
              /\ DOMAIN ownerQ' = 1 .. Len(ownerQ) - 1
              /\ \A i \in DOMAIN ownerQ' : /\ ownerQ'[i] = ownerQ[i + 1]
                                           /\ i + 1 \in DOMAIN ownerQ /\ 1 < i + 1
            BY <3>1
        <3>3. Head(ownerQ).task \in Tasks
            BY <3>1, <3>2 DEF OwnerEvents, Result
        <3>4. /\ Elements(delivered') = Elements(delivered) \cup {Head(ownerQ).task}
              /\ Ordered(delivered', ran)
            BY <3>1, <3>2, <3>3, AppendElements, OrderedAppend DEF TypeOK
        <3>5. Elements(delivered') \subseteq Elements(ran)
            BY <3>1, <3>2, <3>4
        <3>6. ASSUME NEW j \in DOMAIN ownerQ', ownerQ'[j] # Restart
              PROVE  /\ ownerQ'[j].task \in Elements(ran)
                     /\ \A s \in Elements(delivered') : Before(ran, s, ownerQ'[j].task)
                     /\ \A i \in DOMAIN ownerQ' : i < j /\ ownerQ'[i] # Restart =>
                           Before(ran, ownerQ'[i].task, ownerQ'[j].task)
            <4>1. ownerQ'[j] = ownerQ[j + 1] /\ j + 1 \in DOMAIN ownerQ /\ 1 < j + 1
                BY <3>2
            <4>2. ASSUME NEW i \in DOMAIN ownerQ', i < j, ownerQ'[i] # Restart
                  PROVE  Before(ran, ownerQ'[i].task, ownerQ'[j].task)
                <5>1. ownerQ'[i] = ownerQ[i + 1] /\ i + 1 \in DOMAIN ownerQ /\ i + 1 < j + 1
                    BY <3>2, <4>2
                <5> QED BY <3>6, <4>1, <4>2, <5>1
            <4>3. Before(ran, Head(ownerQ).task, ownerQ'[j].task)
                BY <3>1, <3>2, <3>6, <4>1
            <4> QED BY <3>4, <3>6, <4>1, <4>2, <4>3
        <3>7. task # NoTask =>
                 /\ \A s \in Elements(delivered') : Before(ran, s, task)
                 /\ \A i \in DOMAIN ownerQ' :
                       ownerQ'[i] # Restart => Before(ran, ownerQ'[i].task, task)
            BY <3>1, <3>2, <3>4
        <3> QED BY <3>1, <3>4, <3>5, <3>6, <3>7
    <2>3. CASE RestartEvent
        <3>1. /\ ownerQ \in Seq(OwnerEvents) /\ ownerQ # <<>>
              /\ ownerQ' = Tail(ownerQ) /\ UNCHANGED <<delivered, task, ran>>
            BY <2>3 DEF RestartEvent, TypeOK
        <3>2. /\ Len(ownerQ) \in Nat
              /\ DOMAIN ownerQ = 1 .. Len(ownerQ)
              /\ DOMAIN ownerQ' = 1 .. Len(ownerQ) - 1
              /\ \A i \in DOMAIN ownerQ' : ownerQ'[i] = ownerQ[i + 1]
            BY <3>1
        <3>3. \A i \in DOMAIN ownerQ' : i + 1 \in DOMAIN ownerQ
            BY <3>2
        <3>4. \A i, j \in DOMAIN ownerQ' : i < j => i + 1 < j + 1
            BY <3>2
        <3> QED BY <3>1, <3>2, <3>3, <3>4
    <2>4. CASE Destroyed
        <3>1. /\ ownerQ' = <<>> /\ UNCHANGED <<delivered, task, ran>>
            BY <2>4 DEF Destroyed
        <3>2. DOMAIN ownerQ' = {}
            BY <3>1
        <3> QED BY <3>1, <3>2
    <2>5. ASSUME NEW t \in Tasks, task' = t, ran' = Append(ran, t), UNCHANGED <<delivered, ownerQ>>
          PROVE  ResultOrder'
        <3>1. /\ \A s, u : Before(ran, s, u) => Before(ran', s, u)
              /\ \A s \in Elements(ran) : Before(ran', s, t)
            BY <2>5, AppendBefore DEF TypeOK
        <3>2. Elements(ran') = Elements(ran) \cup {t}
            BY <2>5, AppendElements DEF TypeOK
        <3>3. Ordered(delivered', ran')
            BY <2>5, <3>1 DEF Ordered
        <3>4. Elements(delivered') \subseteq Elements(ran)
            BY <2>5
        <3> QED BY <2>5, <3>1, <3>2, <3>3, <3>4
    <2>6. CASE RunQueued
        <3>1. CASE ran' = ran
            BY <2>1, <2>6, <3>1 DEF RunQueued, ProcessTask, TypeOK
        <3>2. CASE queuedTask # NoTask /\ queuedTask \notin cancelled
            BY <2>5, <2>6, <3>2 DEF RunQueued, ProcessTask, TypeOK
        <3>3. CASE queuedTask = NoTask \/ queuedTask \in cancelled
            BY <2>6, <3>1, <3>3 DEF RunQueued, ProcessTask
        <3> QED BY <3>2, <3>3
    <2>7. CASE DispatchTask
        <3> DEFINE h == Head(dispatcherQ)
        <3>1. /\ h \in Tasks
              /\ UNCHANGED <<delivered, ownerQ>>
            BY <2>7, TailElements DEF DispatchTask, TypeOK
        <3>2. UNCHANGED <<task, ran>> \/ (task' = h /\ ran' = Append(ran, h))
            BY <2>7 DEF DispatchTask, ProcessTask
        <3> HIDE DEF h
        <3> QED BY <2>1, <2>5, <3>1, <3>2
    <2>8. ASSUME NEW e \in OwnerEvents, ownerQ' = Append(ownerQ, e), UNCHANGED <<delivered, ran>>,
                 task' \in {task, NoTask},
                 e # Restart => task # NoTask /\ e.task = task /\ task' = NoTask,
                 e = Restart => task = NoTask
          PROVE  ResultOrder'
        <3>1. /\ ownerQ \in Seq(OwnerEvents) /\ Len(ownerQ) \in Nat
              /\ DOMAIN ownerQ = 1 .. Len(ownerQ)
              /\ DOMAIN ownerQ' = 1 .. Len(ownerQ) + 1
              /\ ownerQ'[Len(ownerQ) + 1] = e
              /\ \A i \in 1 .. Len(ownerQ) : ownerQ'[i] = ownerQ[i]
            BY <2>8 DEF TypeOK
        <3>2. task' = NoTask
            BY <2>8
        <3>3. ASSUME NEW j \in DOMAIN ownerQ', ownerQ'[j] # Restart
              PROVE  /\ ownerQ'[j].task \in Elements(ran)
                     /\ \A s \in Elements(delivered) : Before(ran, s, ownerQ'[j].task)
                     /\ \A i \in DOMAIN ownerQ' : i < j /\ ownerQ'[i] # Restart =>
                           Before(ran, ownerQ'[i].task, ownerQ'[j].task)
            <4>1. CASE j \in 1 .. Len(ownerQ)
                BY <3>1, <3>3, <4>1
            <4>2. CASE j = Len(ownerQ) + 1
                BY <2>8, <3>1, <3>3, <4>2
            <4> QED BY <3>1, <4>1, <4>2
        <3> QED BY <2>8, <3>2, <3>3
    <2>9. CASE TaskReturns
        <3>1. /\ task \in Tasks /\ task' = NoTask /\ UNCHANGED <<delivered, ran>>
              /\ ownerQ' \in {ownerQ, Append(ownerQ, Result(task))}
            BY <2>9 DEF TaskReturns, TypeOK
        <3>2. /\ Result(task) \in OwnerEvents /\ Result(task) # Restart
              /\ Result(task).task = task /\ task # NoTask
            BY <3>1 DEF OwnerEvents, Result, Restart
        <3>3. CASE ownerQ' = ownerQ
            BY <3>1, <3>3
        <3> QED BY <2>8, <3>1, <3>2, <3>3
    <2>10. CASE RunReturns
        <3>1. CASE pc = "restart"
            BY <2>8, <2>10, <3>1 DEF RunReturns, OwnerEvents, TypeOK
        <3>2. CASE pc = "return"
            BY <2>1, <2>10, <3>2 DEF RunReturns
        <3> QED BY <2>10, <3>1, <3>2 DEF RunReturns
    <2>11. ASSUME NEW t \in Tasks, PerformTask(t) \/ Cancel(t) PROVE ResultOrder'
        BY <2>1, <2>11 DEF PerformTask, Cancel
    <2>12. CASE Shutdown \/ EnterExec \/ LeaveExec \/ WakeUp \/ ThreadFinished
        BY <2>1, <2>12 DEF Shutdown, EnterExec, LeaveExec, WakeUp, ThreadFinished
    <2>13. CASE UNCHANGED vars
        BY <2>1, <2>13 DEF vars
    <2> QED BY <2>2, <2>3, <2>4, <2>6, <2>7, <2>9, <2>10, <2>11, <2>12, <2>13
            DEF Next, EventLoop, ThreadNext
<1>4. ASSUME TypeOK, PostedOrder, ResultOrder PROVE InOrder
    <2>1. InteractiveInOrder
        <3>1. SUFFICES ASSUME NEW i \in DOMAIN ran, NEW j \in DOMAIN ran,
                              NEW m \in DOMAIN posted, NEW n \in DOMAIN posted, i < j,
                              ran[i] \in Interactive, ran[j] \in Interactive,
                              ran[i] = posted[m], ran[j] = posted[n]
                       PROVE  m < n
            BY DEF InteractiveInOrder
        <3>2. PICK k, l \in DOMAIN posted : k < l /\ posted[k] = ran[i] /\ posted[l] = ran[j]
            BY <1>4, <3>1 DEF PostedOrder, Before
        <3>3. k = m /\ l = n
            BY <1>4, <3>1, <3>2 DEF PostedOrder, Distinct
        <3> QED BY <3>2, <3>3
    <2>2. ResultsInOrder
        BY <1>4 DEF ResultOrder, ResultsInOrder, Ordered, Before
    <2> QED BY <2>1, <2>2 DEF InOrder
<1> QED BY <1>1, <1>2, <1>3, <1>4, TypeCorrect, TasksInOnePlace, PTL DEF Spec
=============================================================================
