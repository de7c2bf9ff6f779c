--------------------------- MODULE RelinkingModel ---------------------------
(***************************************************************************)
(* app/RelinkingModel and the parts of app/RelinkingDialog that drive it:  *)
(* the paths of a project, the replacements the user tries, commits or     *)
(* rolls back, and the thread that finds out which of the paths exist.     *)
(*                                                                         *)
(* The GUI thread asks for the status of a row's path under a mutex; the   *)
(* thread looks at the file system with the mutex unlocked and posts the   *)
(* answer, for that path and that row, to the GUI thread.  The files do    *)
(* not change meanwhile.                                                   *)
(***************************************************************************)
EXTENDS Integers, SequencesExt

CONSTANTS
    NumRows,        \* rows of the list
    Paths,          \* normalized paths
    NoPath,         \* an empty QString
    Replacements    \* bound: so many replacements are tried

ASSUME RelinkingAssumption ==
    /\ NumRows \in Nat
    /\ NoPath \notin Paths
    /\ Replacements \in Nat

VARIABLES
    items,          \* m_items
    relinker,       \* m_mappings of m_ptrRelinker, identity where there is none
    haveUncommitted,\* m_haveUncommittedChanges
    error,          \* is the label of a merge shown?
    todo,           \* rows whose status the running handler has yet to ask for, in order
    responses,      \* events posted to the model
    tasks,          \* m_tasks by priority
    processed,      \* m_pathBeingProcessed
    exiting,        \* m_exiting
    place,          \* where the thread is
    task,           \* the task it has taken
    tries,          \* replacements tried so far
    exists,         \* which files there are
    dropped         \* history: requests that were ignored

thread == <<tasks, processed, exiting, place, task>>
model == <<items, relinker, haveUncommitted, error>>
relinkingVars == <<model, todo, responses, thread, tries, exists, dropped>>

Rows == 1..NumRows

Status(p) == IF exists[p] THEN "Exists" ELSE "Missing"
Statuses == {"Exists", "Missing", "StatusUpdatePending"}
Requests == [path : Paths, row : Rows]
NoTask == [path |-> NoPath]

\* The dialog opens with the paths of the project, and addPath() asks for the
\* status of each.
RelinkingInit ==
    /\ \E orig \in [Rows -> Paths] :
          /\ IsInjective(orig)
          /\ items = [r \in Rows |->
                 [orig |-> orig[r],
                  committedPath |-> orig[r], uncommittedPath |-> orig[r],
                  committedStatus |-> "StatusUpdatePending",
                  uncommittedStatus |-> "StatusUpdatePending"]]
    /\ relinker = [p \in Paths |-> p]
    /\ haveUncommitted = TRUE
    /\ error = FALSE
    /\ todo = Rows
    /\ responses = <<>>
    /\ tasks = <<>> /\ processed = NoPath
    /\ exiting = FALSE
    /\ place = "none" /\ task = NoTask
    /\ tries = 0
    /\ exists \in [Paths -> BOOLEAN]
    /\ dropped = {}

-----------------------------------------------------------------------------
\* The GUI thread.  Between its handlers, nothing is left to be asked for.

AtRest == ~exiting /\ todo = {}

\* StatusUpdateThread::requestStatusUpdate() for a path.
QueuedPaths == {tasks[i].path : i \in DOMAIN tasks}

PlaceOf(path) == CHOOSE k \in DOMAIN tasks : tasks[k].path = path

\* Mutant: the task of the path is not put back.
AskAgainLost(path) == RemoveAt(tasks, PlaceOf(path))

\* Of a path there is one task at most: it goes to the end.
AskAgain(path) == Append(RemoveAt(tasks, PlaceOf(path)), tasks[PlaceOf(path)])

\* Mutant: the condition is not signalled.
WakeNone(there) == there

\* wakeAll() or wakeOne() of m_cond, for a thread that is there.
WakeAll(there) == IF there = "wait" THEN "woken" ELSE there

RequestStatusUpdate ==
    /\ ~exiting
    /\ \E row \in todo :
        LET path == items[row].uncommittedPath
            asked == [path |-> path, row |-> row]
        IN  /\ \A other \in todo : row <= other
            /\ todo' = todo \ {row}
            /\ \/ /\ path = processed
                  /\ dropped' = dropped \cup {asked}
                  /\ UNCHANGED <<tasks, place>>
               \/ /\ path # processed
                  /\ tasks' = IF path \in QueuedPaths THEN AskAgain(path)
                              ELSE Append(tasks, asked)
                  /\ dropped' = IF asked \in Range(tasks')
                                THEN dropped \ {asked} ELSE dropped \cup {asked}
                  /\ place' = IF place = "none" THEN "loop" ELSE WakeAll(place)
    /\ UNCHANGED <<model, responses, processed, exiting, task, tries, exists>>

\* pathButtonClicked(), replacePrefix(): a file, or the files of a directory,
\* are sought elsewhere; f says where.  checkForMerges() is about the result.
Replace(f) ==
    /\ AtRest /\ tries < Replacements
    /\ LET path(r) == f[items[r].uncommittedPath]
           modified == {r \in Rows : path(r) # items[r].uncommittedPath}
       IN  /\ items' = [r \in Rows |->
                  IF r \notin modified THEN items[r]
                  ELSE [items[r] EXCEPT !.uncommittedPath = path(r),
                                        !.uncommittedStatus = "StatusUpdatePending"]]
           /\ haveUncommitted' = (haveUncommitted \/ modified # {})
           /\ todo' = modified
           /\ error' = \E r, s \in Rows : r # s /\ path(r) = path(s)
    /\ tries' = tries + 1
    /\ UNCHANGED <<relinker, responses, thread, exists, dropped>>

\* Different paths under one prefix stay different under another.
Moves ==
    {f \in [Paths -> Paths] :
        \A p, q \in Paths : f[p] # p /\ f[q] # q /\ f[p] = f[q] => p = q}

Uncommitted(r) == haveUncommitted /\ items[r].committedPath # items[r].uncommittedPath

\* Mutant: the relinker is not told of what is committed.
CommitChangesUntold ==
    /\ items' = [r \in Rows |->
           IF Uncommitted(r)
           THEN [items[r] EXCEPT !.committedPath = items[r].uncommittedPath,
                                 !.committedStatus = items[r].uncommittedStatus]
           ELSE items[r]]
    /\ UNCHANGED relinker

CommitChanges ==
    /\ items' = [r \in Rows |->
           IF Uncommitted(r)
           THEN [items[r] EXCEPT !.committedPath = items[r].uncommittedPath,
                                 !.committedStatus = items[r].uncommittedStatus]
           ELSE items[r]]
    /\ relinker' = [p \in Paths |->
           IF \E r \in Rows : items[r].orig = p
           THEN LET r == CHOOSE r \in Rows : items[r].orig = p
                IN  IF items'[r] # items[r] THEN items'[r].committedPath ELSE relinker[p]
           ELSE relinker[p]]

RollbackChanges ==
    /\ items' = [r \in Rows |->
           IF Uncommitted(r)
           THEN [items[r] EXCEPT !.uncommittedPath = items[r].committedPath,
                                 !.uncommittedStatus = items[r].committedStatus]
           ELSE items[r]]
    /\ UNCHANGED relinker

\* selectionChanged() with a selection.
Select ==
    /\ AtRest
    /\ IF error THEN RollbackChanges ELSE CommitChanges
    /\ haveUncommitted' = FALSE /\ error' = FALSE
    /\ UNCHANGED <<todo, responses, thread, tries, exists, dropped>>

\* selectionChanged() to nothing: only the error is hidden, after which the
\* changes it was about are committed with the next selection.
Deselect ==
    /\ AtRest
    /\ error' = FALSE
    /\ UNCHANGED <<items, relinker, haveUncommitted, todo, responses, thread, tries,
                   exists, dropped>>

\* undoButtonClicked(): what selectionChanged() then commits or rolls back has
\* been rolled back.
Undo ==
    /\ AtRest
    /\ RollbackChanges
    /\ haveUncommitted' = FALSE /\ error' = FALSE
    /\ UNCHANGED <<todo, responses, thread, tries, exists, dropped>>

\* The dialog closes, accepted or not, and the model is deleted: the thread is
\* told to exit, and is waited for.
CloseDialog ==
    /\ AtRest
    /\ \/ CommitChanges /\ haveUncommitted' = FALSE
       \/ UNCHANGED <<items, relinker, haveUncommitted>>
    /\ exiting' = TRUE
    /\ place' = WakeAll(place)
    /\ UNCHANGED <<error, todo, responses, tasks, processed, task, tries, exists,
                   dropped>>

\* Mutant: the answer is taken for an answer to the last request.
AnswersAny(answer, path) == TRUE

\* The path of the row may have changed since it was asked for.
Answers(answer, path) == answer.path = path

\* customEvent()
Response ==
    /\ AtRest
    /\ responses # <<>> /\ responses' = Tail(responses)
    /\ LET answer == Head(responses)
       IN  items' = [r \in Rows |->
              IF r # answer.row THEN items[r]
              ELSE [items[r] EXCEPT
                       !.uncommittedStatus =
                           IF Answers(answer, items[r].uncommittedPath) THEN answer.status ELSE @,
                       !.committedStatus =
                           IF Answers(answer, items[r].committedPath) THEN answer.status ELSE @]]
    /\ UNCHANGED <<relinker, haveUncommitted, error, todo, thread, tries, exists,
                   dropped>>

-----------------------------------------------------------------------------
\* The thread: run(), a step for each scope in which it holds the mutex.

TakeTask ==
    /\ tasks # <<>>
    /\ task' = Head(tasks) /\ tasks' = Tail(tasks)
    /\ processed' = Head(tasks).path
    /\ place' = "work"
    /\ UNCHANGED exiting

LoopTop ==
    /\ place = "loop"
    /\ \/ exiting /\ place' = "done" /\ UNCHANGED <<tasks, processed, exiting, task>>
       \/ ~exiting /\ TakeTask
       \/ ~exiting /\ tasks = <<>> /\ place' = "wait"
          /\ UNCHANGED <<tasks, processed, exiting, task>>
    /\ UNCHANGED <<model, todo, responses, tries, exists, dropped>>

\* After the wait m_exiting is not looked at before a task is taken.
Woken ==
    /\ place = "woken"
    /\ \/ TakeTask
       \/ tasks = <<>> /\ place' = "loop" /\ UNCHANGED <<tasks, processed, exiting, task>>
    /\ UNCHANGED <<model, todo, responses, tries, exists, dropped>>

\* With the mutex unlocked.
PostResponse ==
    /\ place = "work"
    /\ place' = "posted"
    /\ responses' = Append(responses, [path |-> task.path, row |-> task.row,
                                       status |-> Status(task.path)])
    /\ UNCHANGED <<model, todo, tasks, processed, exiting, task, tries, exists, dropped>>

ClearProcessed ==
    /\ place = "posted"
    /\ processed' = NoPath /\ task' = NoTask
    /\ place' = "loop"
    /\ UNCHANGED <<model, todo, responses, tasks, exiting, tries, exists, dropped>>

ThreadNext == LoopTop \/ Woken \/ PostResponse \/ ClearProcessed

GuiThread == RequestStatusUpdate \/ Response

RelinkingNext ==
    \/ \E f \in Moves : Replace(f)
    \/ Select \/ Deselect \/ Undo \/ CloseDialog
    \/ GuiThread
    \/ ThreadNext

RelinkingSpec == RelinkingInit /\ [][RelinkingNext]_relinkingVars

\* The system runs the thread and delivers the events.
FairRelinkingSpec == RelinkingSpec /\ WF_relinkingVars(ThreadNext) /\ WF_relinkingVars(GuiThread)

-----------------------------------------------------------------------------
TypeOK ==
    /\ items \in [Rows -> [orig : Paths, committedPath : Paths, uncommittedPath : Paths,
                           committedStatus : Statuses, uncommittedStatus : Statuses]]
    /\ relinker \in [Paths -> Paths]
    /\ haveUncommitted \in BOOLEAN /\ error \in BOOLEAN /\ exiting \in BOOLEAN
    /\ todo \subseteq Rows
    /\ responses \in Seq([path : Paths, row : Rows, status : Statuses])
    /\ tasks \in Seq(Requests)
    /\ processed \in Paths \cup {NoPath}
    /\ place \in {"none", "loop", "wait", "woken", "work", "posted", "done"}
    /\ task \in IF place \in {"work", "posted"} THEN Requests ELSE {NoTask}
    /\ tries \in 0..Replacements
    /\ exists \in [Paths -> BOOLEAN]
    /\ dropped \subseteq Requests

(***************************************************************************)
(* A status that is shown is that of the path it is shown with, although   *)
(* answers to the paths a row had before still come in, and commits and    *)
(* rollbacks copy status and path.                                         *)
(***************************************************************************)
StatusOfPath ==
    \A r \in Rows :
        /\ items[r].uncommittedStatus \in
               {"StatusUpdatePending", Status(items[r].uncommittedPath)}
        /\ items[r].committedStatus \in
               {"StatusUpdatePending", Status(items[r].committedPath)}

Served(path, row) ==
    \/ [path |-> path, row |-> row] \in Range(tasks) \cup dropped
    \/ place = "work" /\ task = [path |-> path, row |-> row]
    \/ \E i \in DOMAIN responses : responses[i].path = path /\ responses[i].row = row

(***************************************************************************)
(* A row whose status is pending has an answer under way, for its path and *)
(* for that row, unless its request was ignored.                           *)
(***************************************************************************)
PendingIsUnderWay ==
    \A r \in Rows \ todo :
        /\ items[r].uncommittedStatus = "StatusUpdatePending" =>
               Served(items[r].uncommittedPath, r)
        /\ items[r].committedStatus = "StatusUpdatePending" =>
               Served(items[r].committedPath, r)

(***************************************************************************)
(* "Same as committedPath when m_haveUncommittedChanges == false"; and the *)
(* relinker, which the project is relinked with, has what is committed.    *)
(***************************************************************************)
CommittedIsRelinked ==
    /\ ~haveUncommitted => \A r \in Rows : items[r].uncommittedPath = items[r].committedPath
    /\ \A r \in Rows : relinker[items[r].orig] = items[r].committedPath

(***************************************************************************)
(* The state of the dialog and its thread: the types, the requests behind  *)
(* the rows that are pending, the statuses shown, and what is committed.   *)
(***************************************************************************)
Inv == TypeOK /\ PendingIsUnderWay /\ StatusOfPath /\ CommittedIsRelinked

\* A row that is pending gets its status, unless its request was ignored.
StatusArrives ==
    \A r \in Rows :
        items[r].uncommittedStatus = "StatusUpdatePending" ~>
            \/ items[r].uncommittedStatus # "StatusUpdatePending"
            \/ [path |-> items[r].uncommittedPath, row |-> r] \in dropped
            \/ exiting

\* The destructor of the thread does not wait for ever.
ThreadStops == exiting ~> place \in {"none", "done"}

\* The thread neither leaves a row pending nor the dialog waiting.
Liveness == StatusArrives /\ ThreadStops
=============================================================================
