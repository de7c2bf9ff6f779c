--------------------------- MODULE SerialExecutor ---------------------------
(***************************************************************************)
(* What a user of core/BackgroundExecutor may rely on: tasks are run one   *)
(* at a time in the order they were enqueued, and their results, for those *)
(* that have one, are run by the GUI thread in that order.  Closing it     *)
(* ends the delivery of results at once; how many more of the waiting      *)
(* tasks are run is left open.                                             *)
(***************************************************************************)
EXTENDS BackgroundTasks, Sequences

VARIABLES
    stage,      \* "open", "closing" or "closed"
    pending,    \* the tasks not begun, in order
    running,    \* the task being run, or NoTask
    results     \* the tasks whose results have not been run, in order

executor == <<stage, pending, running, results>>

ExecutorInit ==
    /\ stage = "open"
    /\ pending = <<>>
    /\ running = NoTask
    /\ results = <<>>

Enqueue(t) ==
    /\ stage = "open"
    /\ pending' = Append(pending, t)
    /\ UNCHANGED <<stage, running, results>>

Begin ==
    /\ stage # "closed" /\ running = NoTask
    /\ pending # <<>>
    /\ running' = Head(pending) /\ pending' = Tail(pending)
    /\ UNCHANGED <<stage, results>>

\* The task being run ends; hasResult says whether it returned a result.
End(hasResult) ==
    /\ running # NoTask
    /\ running' = NoTask
    /\ results' = IF hasResult THEN Append(results, running) ELSE results
    /\ UNCHANGED <<stage, pending>>

Deliver(t) ==
    /\ stage = "open"
    /\ results # <<>> /\ t = Head(results)
    /\ results' = Tail(results)
    /\ UNCHANGED <<stage, pending, running>>

Close ==
    /\ stage = "open"
    /\ stage' = "closing"
    /\ UNCHANGED <<pending, running, results>>

Closed ==
    /\ stage = "closing" /\ running = NoTask
    /\ stage' = "closed"
    /\ pending' = <<>> /\ results' = <<>>
    /\ UNCHANGED running

ExecutorNext ==
    \/ \E t \in Tasks : Enqueue(t) \/ Deliver(t)
    \/ Begin \/ End(TRUE) \/ End(FALSE)
    \/ Close \/ Closed

ExecutorSpec == ExecutorInit /\ [][ExecutorNext]_executor
=============================================================================
