--------------------------- MODULE BatchProcessing ---------------------------
(***************************************************************************)
(* app/MainWindow as the scheduler of filter tasks: the page being viewed  *)
(* is loaded by an interactive task, batch processing runs one task per    *)
(* page, and both kinds go through a ProcessingTaskQueue to the background *)
(* thread.  A result comes back as an event, which the user's actions, a   *)
(* queued reloadRequested() or the modal loop of the start dialog may      *)
(* overtake.                                                               *)
(*                                                                         *)
(* The members of the window are one record, and the private methods that  *)
(* the slots call in a row are operators from such a record to the next    *)
(* one, or to the set of those it may leave behind; the field "posted"     *)
(* collects the tasks one slot hands to WorkerThread::performTask.  The    *)
(* thread itself is a list served in order; WorkerThread has the rest.     *)
(***************************************************************************)
EXTENDS ProcessingTaskQueue

CONSTANTS
    NumPages,           \* pages of the project are 1..NumPages
    NumFilters,         \* filters are 1..NumFilters, the last one is Output
    Orders,             \* the orders a batch may be started with
    UserSteps           \* bound on the number of user actions

ASSUME PageAssumption == NumPages \in Nat \ {0} /\ NoPage \notin 1..NumPages
ASSUME FilterAssumption == NumFilters \in Nat \ {0}
ASSUME BoundAssumption == /\ Orders \subseteq {"SEQUENTIAL_ORDER", "RANDOM_ORDER"}
                          /\ UserSteps \in Nat

Pages == 1..NumPages
Filters == 1..NumFilters
OutputFilter == NumFilters
NoFilter == 0           \* the result of a file that could not be loaded

VARIABLES
    window,     \* the members of MainWindow
    workerQ,    \* tasks posted to the background thread and not done
    results,    \* TaskResultEvents on their way to filterResult()
    dialog,     \* is the modal dialog of startBatchProcessing() open?
    reloads,    \* queued calls of reloadRequested()
    steps,      \* user actions so far
    batched,    \* history: pages of the current or last batch
    applied     \* history: pages of it whose result reached the window

vars == <<window, workerQ, results, dialog, reloads, steps, batched, applied>>

NewTask(s, page, type) ==
    [id |-> s.nextId, page |-> page, filter |-> s.curFilter, type |-> type]

Area(kind, page, filter) == [kind |-> kind, page |-> page, filter |-> filter]
PlainArea(kind) == Area(kind, NoPage, NoFilter)

-----------------------------------------------------------------------------
\* Methods of MainWindow, from the state s of the window to the next one.

SetSelection(s, page) ==
    [s EXCEPT !.selectionLeader = IF page \in s.pages THEN page ELSE @]

\* Mutant: the old request is cancelled, but keeps its entry.
CancelInteractiveOnly(s) ==
    [s EXCEPT !.cancelled = @ \cup TakenTasks(s.interactiveQueue, Pages)]

CancelAndClearInteractive(s) ==
    [s EXCEPT !.cancelled = @ \cup TakenTasks(s.interactiveQueue, Pages),
              !.interactiveQueue = CancelAndClear(@)]

CancelAndClearBatch(s) ==
    [s EXCEPT !.cancelled = @ \cup TakenTasks(s.batchQueue, Pages),
              !.batchQueue = CancelAndClear(@)]

PerformTask(s, tasks) == [s EXCEPT !.posted = @ \o SetToSeq(tasks)]

\* Mutant: the request is queued, but its task is not passed on.
LoadPageUnposted(s, page) ==
    LET c == CancelAndClearInteractive(s)
        q == AddProcessingTask(c.interactiveQueue, page, NewTask(c, page, "INTERACTIVE"))
    IN  {[c EXCEPT !.interactiveQueue = TakeForProcessing(q),
                   !.nextId = @ + 1,
                   !.mainArea = Area("processing", page, s.curFilter)]}

\* The page is not loaded if checkReadyForOutput() finds that the final size
\* of some page is not known yet.
LoadPageInteractive(s, page) ==
    LET c == CancelAndClearInteractive(s)
        q == AddProcessingTask(c.interactiveQueue, page, NewTask(c, page, "INTERACTIVE"))
        notReady == [SetSelection(c, Min(c.pages)) EXCEPT !.mainArea = PlainArea("error")]
        loading == [PerformTask(c, TaskToTake(q)) EXCEPT
                       !.interactiveQueue = TakeForProcessing(q),
                       !.nextId = @ + 1,
                       !.mainArea = Area("processing", page, s.curFilter)]
    IN  IF s.curFilter = OutputFilter THEN {loading, notReady} ELSE {loading}

UpdateMainArea(s) ==
    CASE s.pages = {} -> {[s EXCEPT !.mainArea = PlainArea("panel")]}
      [] s.pages # {} /\ s.inBatch -> {[s EXCEPT !.mainArea = PlainArea("batch")]}
      [] s.pages # {} /\ ~s.inBatch -> LoadPageInteractive(s, s.selectionLeader)

\* To be called while a batch is running.
StopBatchProcessing(s) ==
    UpdateMainArea([CancelAndClearBatch(SetSelection(s, s.batchQueue.selectedPage))
                        EXCEPT !.inBatch = FALSE])

GoToPage(s, page) == UpdateMainArea(SetSelection(s, page))

\* Mutant: the batch selects the page, but does not pass the task on.
TakeNextUnposted(s) ==
    LET t == [s EXCEPT !.batchQueue = TakeForProcessing(@)]
    IN  SetSelection(t, t.batchQueue.selectedPage)

\* The batch takes its next task, if there is one.
TakeNext(s) ==
    LET t == [PerformTask(s, TaskToTake(s.batchQueue)) EXCEPT
                 !.batchQueue = TakeForProcessing(@)]
    IN  SetSelection(t, t.batchQueue.selectedPage)

\* The rest of startBatchProcessing() once the dialog has been accepted.
FillBatchQueue(s, order, todo) ==
    LET first == s.nextId
        task(i) == [NewTask(s, todo[i], "BATCH") EXCEPT !.id = first + i - 1]
    IN  [s EXCEPT
           !.inBatch = TRUE,
           !.nextId = first + Len(todo),
           !.batchQueue = [EmptyQueue(order) EXCEPT
               !.queue = [i \in DOMAIN todo |-> Entry(todo[i], task(i))]]]

\* A project has just been opened, and its first page is being loaded.
Opened ==
    [pages |-> Pages, selectionLeader |-> 1, curFilter |-> 1,
     interactiveQueue |-> EmptyQueue("RANDOM_ORDER"),
     batchQueue |-> EmptyQueue("SEQUENTIAL_ORDER"),
     inBatch |-> FALSE,         \* m_ptrBatchQueue is not null
     cancelled |-> {}, nextId |-> 1, posted |-> <<>>,
     mainArea |-> PlainArea("none")]

Init ==
    /\ \E s \in UpdateMainArea(Opened) :
          window = [s EXCEPT !.posted = <<>>] /\ workerQ = s.posted
    /\ results = <<>>
    /\ dialog = FALSE
    /\ reloads = 0
    /\ steps = 0
    /\ batched = {} /\ applied = {}

-----------------------------------------------------------------------------
\* A slot of the window leaves it in one of the states.
Slot(states) ==
    \E s \in states : /\ window' = [s EXCEPT !.posted = <<>>]
                      /\ workerQ' = workerQ \o s.posted

UserStep == steps < UserSteps /\ steps' = steps + 1 /\ ~dialog

\* currentPageChanged() for a page the user clicked.
UserSelects(page) ==
    /\ UserStep
    /\ page \in window.pages
    /\ LET s == SetSelection(window, page) IN
       Slot(CASE window.inBatch -> StopBatchProcessing(s)
              [] ~window.inBatch /\ page # window.selectionLeader -> UpdateMainArea(s)
              [] OTHER -> {s})
    /\ UNCHANGED <<results, dialog, reloads, batched, applied>>

\* goNextPage(), goFirstPage(), ...: refused during a batch.
UserGoesTo(page) ==
    /\ UserStep
    /\ ~window.inBatch /\ page \in window.pages
    /\ Slot(GoToPage(window, page))
    /\ UNCHANGED <<results, dialog, reloads, batched, applied>>

\* Mutant: the filter changes under the request that is on its way.
SwitchFilterOnly(filter) ==
    /\ UserStep
    /\ ~window.inBatch
    /\ window.curFilter # filter
    /\ window' = [window EXCEPT !.curFilter = filter]
    /\ UNCHANGED <<workerQ, results, dialog, reloads, batched, applied>>

\* switchFilterN() -> filterSelectionChanged(), also in a batch: the list of
\* stages is gone then, but the shortcuts are not.
SwitchFilter(filter) ==
    /\ UserStep
    /\ window.curFilter # filter
    /\ LET s == CancelAndClearInteractive(window)
           t == IF s.inBatch THEN CancelAndClearBatch(s) ELSE s
           u == [t EXCEPT !.curFilter = filter]
       IN  Slot(UpdateMainArea(u))
    /\ UNCHANGED <<results, dialog, reloads, batched, applied>>

\* A change in the options panel queues a reload; there is no such panel
\* while a batch is running.
ChangeOptions ==
    /\ UserStep
    /\ ~window.inBatch
    /\ reloads' = reloads + 1
    /\ UNCHANGED <<window, workerQ, results, dialog, batched, applied>>

\* startBatchProcessing() up to the modal loop of its dialog ...
OpenStartDialog ==
    /\ UserStep
    /\ ~window.inBatch /\ window.pages # {}
    /\ Slot({CancelAndClearInteractive(window)})
    /\ dialog' = TRUE
    /\ UNCHANGED <<results, reloads, batched, applied>>

RejectStartDialog ==
    /\ dialog
    /\ dialog' = FALSE
    /\ UNCHANGED <<window, workerQ, results, reloads, steps, batched, applied>>

\* ... and from there to its end.
StartBatch ==
    /\ dialog
    /\ dialog' = FALSE
    /\ \E order \in Orders, processAll \in BOOLEAN :
          LET start == IF processAll THEN Min(window.pages)
                                     ELSE window.selectionLeader
              todo == Ascending({p \in window.pages : p >= start})
              s == FillBatchQueue(window, order, todo)
          IN  /\ Slot(UpdateMainArea(TakeNext(s)))
              /\ batched' = {todo[i] : i \in DOMAIN todo}
    /\ applied' = {}
    /\ UNCHANGED <<results, reloads, steps>>

\* The "stop" button of the batch processing screen.
StopBatch ==
    /\ UserStep
    /\ window.inBatch
    /\ Slot(StopBatchProcessing(window))
    /\ UNCHANGED <<results, dialog, reloads, batched, applied>>

\* removeFromProject(), which the context menu offers outside of a batch.
RemovePages(gone) ==
    /\ UserStep
    /\ ~window.inBatch
    /\ gone # {} /\ gone \subseteq window.pages
    /\ LET kept == window.pages \ gone
           before == {p \in kept : \A g \in gone : p < g}
           leader == CASE kept = {} -> NoPage
                       [] kept # {} /\ before # {} -> Max(before)
                       [] kept # {} /\ before = {} -> Min(kept)
           s == [window EXCEPT
                   !.cancelled = @ \cup TakenTasks(window.interactiveQueue, gone),
                   !.interactiveQueue = CancelAndRemove(@, gone),
                   !.pages = kept,
                   !.selectionLeader = leader]
       IN  Slot(UpdateMainArea(s))
    /\ UNCHANGED <<results, dialog, reloads, batched, applied>>

-----------------------------------------------------------------------------
\* Events that reach the window in any of its loops, the dialog's included.

ReloadRequested ==
    /\ reloads > 0
    /\ reloads' = reloads - 1
    /\ Slot(UpdateMainArea(window))
    /\ UNCHANGED <<results, dialog, steps, batched, applied>>

\* The result of a task nobody cancelled.  It is shown, under the filter that
\* made it; in a batch it makes room for the next task, or ends the batch,
\* and then the view goes from the last page to the first one.
ShowResult(s, task, filter) ==
    LET c == IF filter = NoFilter THEN s.curFilter ELSE filter
    IN  {[s EXCEPT !.curFilter = c, !.mainArea = Area("result", task.page, c)]}

EndBatch(s) ==
    UNION {IF t.selectionLeader = Max(t.pages) THEN GoToPage(t, Min(t.pages)) ELSE {t} :
              t \in StopBatchProcessing(s)}

FilterResult ==
    /\ results # <<>>
    /\ results' = Tail(results)
    /\ LET task == Head(results).task
           s == [window EXCEPT
                   !.interactiveQueue = ProcessingFinished(@, task),
                   !.batchQueue = IF window.inBatch
                                  THEN ProcessingFinished(@, task) ELSE @]
       IN  /\ Slot(CASE task \in s.cancelled -> {s}
                     [] task \notin s.cancelled /\ ~s.inBatch ->
                           ShowResult(s, task, Head(results).filter)
                     [] task \notin s.cancelled /\ s.inBatch ->
                           IF AllProcessed(s.batchQueue) THEN EndBatch(s)
                                                         ELSE {TakeNext(s)})
           /\ applied' = IF task \notin s.cancelled /\ task.type = "BATCH"
                         THEN applied \cup {task.page} ELSE applied
    /\ UNCHANGED <<dialog, reloads, steps, batched>>

\* The background thread.  A task that finds itself cancelled has no result;
\* the others have one, of their own filter, of an earlier one that failed,
\* or of none when the file could not be loaded.
WorkerDone ==
    /\ workerQ # <<>>
    /\ workerQ' = Tail(workerQ)
    /\ LET task == Head(workerQ) IN
       IF task \in window.cancelled THEN UNCHANGED results
       ELSE \E f \in NoFilter..task.filter :
               results' = Append(results, [task |-> task, filter |-> f])
    /\ UNCHANGED <<window, dialog, reloads, steps, batched, applied>>

User ==
    \/ \E p \in Pages : UserSelects(p) \/ UserGoesTo(p)
    \/ \E f \in Filters : SwitchFilter(f)
    \/ ChangeOptions \/ OpenStartDialog \/ StopBatch
    \/ \E gone \in SUBSET Pages : RemovePages(gone)

DialogCloses == RejectStartDialog \/ StartBatch

Events == DialogCloses \/ ReloadRequested \/ FilterResult \/ WorkerDone

Next == User \/ Events

Spec == Init /\ [][Next]_vars

\* The thread and the event loop run; the user closes the dialog some day.
\* (Each of these steps uses something up, so one fairness serves them all.)
FairSpec == Spec /\ WF_vars(Events)

-----------------------------------------------------------------------------
Queues == {window.interactiveQueue, window.batchQueue}
InFlight == {workerQ[i] : i \in DOMAIN workerQ}
            \cup {results[i].task : i \in DOMAIN results}
Live == InFlight \ window.cancelled

TypeOK ==
    /\ window.pages \subseteq Pages
    /\ window.selectionLeader \in IF window.pages = {} THEN {NoPage} ELSE window.pages
    /\ window.curFilter \in Filters
    /\ window.inBatch \in BOOLEAN
    /\ window.posted = <<>>
    /\ window.mainArea.kind \in {"none", "panel", "processing", "batch",
                                 "error", "result"}
    /\ dialog \in BOOLEAN
    /\ batched \subseteq Pages /\ applied \subseteq Pages

(***************************************************************************)
(* processingFinished() stops its search at the first entry that has not   *)
(* been taken ("There is no point in looking further").  That is right: no *)
(* taken entry comes after one that is not.                                *)
(***************************************************************************)
TakenFirst ==
    \A q \in Queues : \A i, j \in DOMAIN q.queue :
        i < j /\ q.queue[j].takenForProcessing => q.queue[i].takenForProcessing

(***************************************************************************)
(* An entry that has been taken has its task under way: its result is yet  *)
(* to come, so that the entry will be removed.                             *)
(***************************************************************************)
TakenInFlight ==
    \A q \in Queues : TakenTasks(q, Pages) \subseteq Live

(***************************************************************************)
(* A task nobody cancelled still has its entry: no result is applied for a *)
(* request the window has forgotten.                                       *)
(***************************************************************************)
LiveIsTaken ==
    Live \subseteq UNION {TakenTasks(q, Pages) : q \in Queues}

(***************************************************************************)
(* The two queues and the tasks under way are in step: the entries taken   *)
(* come first, have their tasks under way, and every task that will have a *)
(* say has its entry.                                                      *)
(***************************************************************************)
QueuesInStep == TypeOK /\ TakenFirst /\ TakenInFlight /\ LiveIsTaken

(***************************************************************************)
(* What is on display belongs to the page that is selected and to the      *)
(* current filter: no late result of another page or filter replaces it.   *)
(***************************************************************************)
DisplayedIsSelected ==
    window.mainArea.kind \in {"processing", "result"} =>
        /\ window.mainArea.page = window.selectionLeader
        /\ window.mainArea.filter = window.curFilter

(***************************************************************************)
(* A batch that ends by itself has applied the result of each of its pages.*)
(***************************************************************************)
BatchComplete ==
    [][FilterResult /\ window.inBatch /\ ~window'.inBatch => applied' = batched]_vars

\* A shortcut of a stage has cleared the queue of the batch ("Should not
\* happen, but just in case."), and the batch stays open.
BatchCleared == window.inBatch /\ window.batchQueue.queue = <<>>

\* A batch comes to an end, unless its queue was cleared.
BatchEnds == window.inBatch ~> ~window.inBatch \/ BatchCleared

\* The page that was asked for last is displayed in the end, or the request
\* is withdrawn.
RequestEnds ==
    window.interactiveQueue.queue # <<>> ~> window.interactiveQueue.queue = <<>>

\* Whatever was begun comes to an end, although results, cancellations and
\* reloads cross one another.
Liveness == BatchEnds /\ RequestEnds
=============================================================================
