------------------------- MODULE ProcessingTaskQueue -------------------------
(***************************************************************************)
(* core/ProcessingTaskQueue: the list of (page, task) entries from which   *)
(* the main window feeds the background thread.  The class has no thread   *)
(* of its own, so its methods are operators from a queue to a queue.  The  *)
(* tasks a method cancels are given by TakenTasks: an entry that has not   *)
(* been taken is dropped without cancelling its task.                      *)
(***************************************************************************)
EXTENDS Ascending, Sequences, FiniteSetsExt, SequencesExt

CONSTANT NoPage     \* a null PageInfo

Entry(page, task) == [page |-> page, task |-> task, takenForProcessing |-> FALSE]

\* order is SEQUENTIAL_ORDER or RANDOM_ORDER: when a page becomes selectedPage.
EmptyQueue(order) == [order |-> order, queue |-> <<>>, selectedPage |-> NoPage]

AddProcessingTask(q, page, task) ==
    [q EXCEPT !.queue = Append(@, Entry(page, task))]

Untaken(q) == {i \in DOMAIN q.queue : ~q.queue[i].takenForProcessing}

\* The task takeForProcessing() returns, as a set: empty for a null task.
TaskToTake(q) == {q.queue[i].task : i \in {j \in Untaken(q) : j = Min(Untaken(q))}}

TakeForProcessing(q) ==
    IF Untaken(q) = {} THEN q
    ELSE LET first == Min(Untaken(q)) IN
         [q EXCEPT !.queue[first].takenForProcessing = TRUE,
                   !.selectedPage = IF q.order = "RANDOM_ORDER"
                                    THEN q.queue[first].page ELSE @]

\* The search gives up at the first entry that has not been taken.
EntriesOf(q, task) ==
    {i \in DOMAIN q.queue : /\ q.queue[i].task = task
                            /\ \A j \in 1..i : q.queue[j].takenForProcessing}

ProcessingFinished(q, task) ==
    IF EntriesOf(q, task) = {} THEN q
    ELSE LET found == Min(EntriesOf(q, task)) IN
         [q EXCEPT !.queue = RemoveAt(@, found),
                   !.selectedPage = IF q.order = "SEQUENTIAL_ORDER"
                                    THEN q.queue[found].page ELSE @]

\* Mutant: the queue passes for processed as soon as all is taken.
AllProcessedWhenTaken(q) ==
    \A i \in DOMAIN q.queue : q.queue[i].takenForProcessing

AllProcessed(q) == q.queue = <<>>

TakenTasks(q, pages) ==
    {q.queue[i].task : i \in {j \in DOMAIN q.queue : /\ q.queue[j].takenForProcessing
                                                     /\ q.queue[j].page \in pages}}

CancelAndRemove(q, pages) ==
    LET kept == {i \in DOMAIN q.queue : q.queue[i].page \notin pages}
        removed == {q.queue[i].page : i \in DOMAIN q.queue} \cap pages
    IN  [q EXCEPT !.queue = Only(@, kept),
                  !.selectedPage = IF @ \in removed THEN NoPage ELSE @]

CancelAndClear(q) == [q EXCEPT !.queue = <<>>, !.selectedPage = NoPage]
=============================================================================
