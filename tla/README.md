# Verification of Scan Tailor Deviant in TLA+

Scan Tailor Deviant is a Qt program that turns scanned pages into clean ones.
Its pages go through six filters (fix orientation, split pages, deskew, select
content, page layout, output); the work is done by background threads while the
user goes on looking at pages, starting and stopping batches, relinking files,
editing the project and exporting.  This directory holds TLA+ modules of the
parts where threads, events, queues, timers and files meet and of the records
they share, the TLC configurations that check them, and proofs checked by
TLAPS.  Source paths are relative to `src/src/`.

## 1. Inventory

The GUI thread owns nearly all state.  What runs beside it:

| thread | owner | talks to the GUI thread by |
|---|---|---|
| filter tasks | `core/WorkerThread` | events to `Dispatcher` and back to `Impl` |
| short jobs of the views | `core/BackgroundExecutor` | events to `Dispatcher` and back to `Impl` |
| thumbnails | `core/ThumbnailPixmapCache` | a mutex, wake-up events, `LoadResultEvent`s |
| existence of files | `app/RelinkingModel` | a mutex, a condition, `StatusUpdateResponse`s |
| export | `exporting/ExportThread` | an OpenMP loop, queued signals, a condition |

| component | state | operations | what is hard | what makes it correct |
|---|---|---|---|---|
| WorkerThread | events both ways, `m_ptrQueuedTask`, `m_threadStarted`, the thread, its nice level | performTask, cancel, restart, shutdown | the thread must end and start again to regain its priority, while events survive it | a task runs once, interactive ones at normal priority and in order; a task is served; shutdown ends |
| BackgroundExecutor | events both ways, the thread | enqueueTask, results, shutdown | shutdown at any moment | it is a serial executor |
| ProcessingTaskQueue | entries, taken or not, `m_selectedPage` | add, take, finished, cancel | the search stops at the first entry not taken | taken entries come first |
| MainWindow (processing) | selection, filter, two queues, what is displayed, modal dialog | select, go to, switch filter, batch start/stop, remove pages, reload, result | a result is on its way while the user does something else; a modal dialog runs an event loop | queues and tasks in step; the display is of the selected page; a batch is complete and ends |
| ThumbnailPixmapCache | items with three views, counters, `m_endOfLoadedItems`, files on disk | request, load, expire, evict, ensure, recreate, set directory, destroy | three threads; iterators outside of the mutex; files that change | views agree; iterators stay valid; no request forgotten; no outdated pixmap |
| ImageViewBase (high quality version) | two pixmaps, wanted and potential transform, timer, task | paint, scroll, zoom, switch image, build | repaints restart the timer; results of old transforms | a valid pixmap is of what is displayed; it comes in the end |
| DespeckleView | stack of two widgets, level, cancel handle | show, hide, change level, result | hidden and shown with a task under way | shows the chosen level; an indicator has a task and goes away |
| RelinkingModel | rows with committed and uncommitted path and status, tasks of the thread | replace, commit, roll back, answers | answers for earlier paths; a request like the one in progress | a status is of its path; pending rows are answered; the relinker has what is committed |
| ExportThread | loop threads, `m_interrupted`, `m_orig_fore_subscan`, condition | export, reprocess, cancel | a wait and a wake-up without a common lock; shared members | no image of another page; completed means all; it ends |
| ProjectPages | images, their number of pages, removed halves | insert, remove, unremove, set layout, page sequences | counts kept by hand while tasks, thumbnails and the user set layouts | removed halves and counts agree; the list shows the project |
| Thumbnail sequence | items in two orders, selection flags, leader | reset, select, insert, remove, invalidate | flags, leader and indexes are changed one by one; items move while others are not sorted | selection and index agree; sorted when at rest |
| page_split | per-image records, default layout | update, conditional update, for all | the task reads, computes and conditionally writes, then retries | no conflict of layout and parameters; the loop ends |
| fix_orientation | rotations | set, propagate to page_split | stale dependencies | seen in the number of pages |
| Project file | `m_projectFile`, the file, its `.as`, `.bak` and `Backup.`, the timer | save, save as, autosave, close, open | a crash or an error between two file operations; nested dialogs; comparison by size | what was saved is not lost; the autosave goes on |
| select_content | boxes with dependencies and mode | task, edit, apply to, propagate | a cancelled task may still write; boxes are propagated when the stage is switched | layout sizes are of the boxes; choices are kept |
| page_layout | content sizes, alignments, the aggregate | set size, alignment | an aggregate kept over a changing set | all aligned pages have one size |
| output | parameters, output parameters, files | task, edit, regenerate, write, discard | a file, and what is stored of it, change at different times and may fail apart | a file taken for current is current |
| FileNameDisambiguator, OutputFileNameGenerator | labels and given names by file and page | register, rename, relink, save, suggest | labels survive the removal of files, but not a crash; relinking makes files equal | names are distinct, kept, and lead to a page's own file |
| deskew, zones, interaction, OutOfMemoryHandler, settings, dialogs, ConsoleBatch | mostly sequential | | | |
| imageproc, dewarping, math, foundation | pure algorithms | | numerical | |

How they interact: a slot of `MainWindow` puts a task in a `ProcessingTaskQueue`
and hands it to `WorkerThread`; its result comes back through `filterResult()`.
The task may write a thumbnail into `ThumbnailPixmapCache` (`recreateThumbnail`,
`ensureThumbnailExists`), whose own thread reads it for `ThumbnailSequence`.
A result shows an `ImageViewBase` (and, for the output, a `DespeckleView`), which
use the one `BackgroundExecutor`.  `ExportThread` asks `MainWindow` to make a
page's output again.  `RelinkingModel` gives the `FileNameDisambiguator`,
`ProjectPages` and the settings of all filters the committed paths.  A filter's
task reads and writes the settings of its page, each call under its own mutex,
while the options widgets and dialogs write them from the GUI thread, and
thumbnails, made by `CacheDrivenTask`s on the GUI thread, read and repair them.
The names that `OutputFileNameGenerator` makes tie a page to its output file.

`PROJECT.json` lists the components with what is left out of each, and the
hazards that matter most at their lines.

## 2. The modules

Each `Next` names the handlers of the code; comments on the definitions give the
function where its name differs.  Definitions called "Mutant" are plausible bugs
of the definition that follows; no specification uses them.  Each property has
one, listed in `PROJECT.json`, that breaks it.

**`WorkerThread`** - `core/WorkerThread.cpp`.  The posted events are sequences
(`dispatcherQ`, `ownerQ`); `pc` is where the background thread is: before
`exec()`, asleep in its loop, in one pass over its events, in a task, or
leaving.  `PerformTask`, `Cancel`, `RestartEvent`, `ResultEvent`, `Shutdown`,
`Destroyed` are the GUI thread's; `RunQueued`, `EnterExec`, `DispatchTask`,
`TaskReturns`, `RunReturns`, `ThreadFinished` the other's.  QThread is Qt's: the
model has `start()` ignored while the thread runs, `exit()` remembered until an
`exec()` returns, a pass that goes to the end of the list although `exit()` was
called, events that outlive the thread, and a `run()` that returned some time
before the thread counts as finished.  A batch task may want any level of
`BatchLevels`, since the user may change the setting between tasks.

**`SerialExecutor`, `BackgroundExecutor`** - the first is what the views rely on:
tasks one at a time, in order, results in order, none after it is closed.  The
second is `core/BackgroundExecutor.cpp`, with the refinement mapping `Serial`;
the tasks themselves are declared once, in `BackgroundTasks`.
`HqPixmap` and `DespeckleView` extend the first, so that they are checked
against any executor that keeps its promises, and `BackgroundExecutor` is shown
to be one.

**`Ascending`, `ProcessingTaskQueue`, `BatchProcessing`** - numbers in order and
parts of a list; the class as operators from queue to queue, and the parts of `app/MainWindow.cpp` that use it.  The window is one
record; private methods are operators from such a record to the next (or to the
set of those possible), and each slot is an action that applies them in the
code's order.  The thread is a list served in order: what the main window may
see of `WorkerThread`, which also drops the tasks that were cancelled.  The
modal dialog of `startBatchProcessing()` is two actions, and the events that its
loop delivers come between them.

**`ThumbnailPixmapCache`** - `core/ThumbnailPixmapCache.cpp`, and of
`core/ThumbnailBase.cpp` when a thumbnail is painted and destroyed.  Every
section under the mutex is one action; what is read outside of it and used
afterwards is in `loader` and `writer`.  The items are a function by key and the
two list orders are sequences, since the container is Boost's.  Image and
thumbnail files are the version of the image that they show.
`MCThumbnailPixmapCache` gives the images their files.

**`HqPixmap`** - the high quality version in `core/ImageViewBase.cpp`.  A picture
is the image and the transform it was made from; the geometry is a set of
transforms.  **`DespeckleView`** - `core/filters/output/DespeckleView.cpp`, and
of `OptionsWidget.cpp` whether a change of level reaches the view or reloads the
page.  **`RelinkingModel`** - `app/RelinkingModel.cpp` and the calls of
`app/RelinkingDialog.cpp`; a handler that asks for the status of several rows
does so row by row (`todo`, the lowest row first), as the code takes the mutex
anew for each; `PlaceOf` and `AskAgain` are the search by path and the relocation
of a task to the end.
**`ExportThread`** - `exporting/ExportThread.cpp`: each iteration of the OpenMP
loop in steps between its accesses to shared members, and
`MainWindow::exportRequestedReprocessing()`.

**`ProjectPages`, `PageSplitSettings`, `ThumbnailSequence`, `PageList`** - the
first three are classes as operators on their state: `core/ProjectPages.cpp`,
`page_split/Settings.cpp` with its dependencies, and `app/ThumbnailSequence.cpp`
(items, both indexes, selection).  `PageList` composes them: the slots of
`MainWindow`, of the list and of page_split's options widget are the user's
actions; `page_split/Task.cpp` is a task in four steps, one for each time it
takes a mutex (`RecordRead`, `LayoutEstimated`, `LayoutStored`, `PagesSet`); and
whatever makes thumbnails also does what `CacheDrivenTask::process` does to
records and images (`Thumbnails`).  The estimator may find any type of layout
that is allowed for what was asked.

**`ProjectFile`** - `app/AutoSaveTimer.cpp`, `core/ProjectWriter.cpp` and the
slots of `MainWindow` that save, close and open.  Each file operation is a step
and may fail; a project is a version and the size of its file, since closing
compares files by size; `saved` is the newest version of which the user was told
that it is saved, and `spoiled` the names whose file was replaced by a Backup cut
off in writing.  Dialogs split a slot in two, and the timer may fire between when
its signals are not blocked.

**`FilterChain`** - select content, page layout and output on one task, with the
settings they share with the GUI thread.  The task's position (`pc`) stands
where it asks whether it was cancelled and where it takes a mutex.  The
geometry of a page stands for the earlier filters, the size of a box for the
box, a colour mode for all parameters of the output.  `disturbed`, `suspect` and
`clean` remember what the properties except.  `MCFilterChain` has the pages and
the budgets of what the user, failures and crashes do.  A batch whose stage is
changed by a shortcut stays in progress with nothing left; a project that is closed
may leave a task that still writes its file (`pc = "closed"`).

**`OutputNames`** - `core/FileNameDisambiguator.cpp` and
`core/OutputFileNameGenerator.cpp` with the operations of `MainWindow` that use
them.  A name is a stem, labels and an order number, so that names that the code
makes equal are equal.  The output files are a function from names to the image
in each.  Images registered at once get their labels in closed form, not one
after the other.  `renamed`, `relinked` and `taken` remember what the properties
except: who was given a name, what relinking touched, and the names that are no
longer a page's own.  No file of the user's is called like that of the empty
pages.  `MCOutputNames` has four files, two of one name and two that differ in
the extension.

## 3. The runs

| run | bounds | distinct states | checks |
|---|---|---|---|
| `worker` | 2 interactive tasks, 1 batch task, levels 0 and 6 | 39 thousand | `TypeOK`, `RunsOnce`, `InteractiveAtNormalPriority`, `InOrder`, `Liveness` |
| `executor` | 3 tasks | 713 | `TypeOK`, `ImplementsSerial`, `Liveness` |
| `batch` | 2 pages, 2 filters, both orders, 3 user actions | 72 thousand | `QueuesInStep`, `DisplayedIsSelected`, `BatchComplete`, `Liveness` |
| `cache` | 2 images, one of them changing, 2 versions, room for 1 pixmap | 308 thousand | `Inv`, `FreshUnlessRaced`, `Liveness` |
| `hq` | 3 tasks under way, 2 transforms, 2 images | 1.1 million | `HqInv`, `EventuallySharp` |
| `despeckle` | 3 tasks under way, 2 levels | 39 thousand | `DespeckleInv`, `IndicatorGoes` |
| `relink` | 2 rows, 2 paths, 2 replacements | 332 thousand | `Inv`, `Liveness` |
| `export` | 3 pages, up to 3 threads, with and without reprocessing | 98 thousand | `Inv`, `ExportEnds` |
| `pages` | 3 images, 2 of them wide, 2 loaded, 3 user actions | 442 thousand | `TypeOK`, `ListShowsProject`, `SelectionSound`, `LeaderIsLoaded`, `NoConflict`, `ThumbnailsInOrder`, `Settles` |
| `project` | 2 names, 2 sizes, 2 edits or new projects, 1 failure, 1 crash | 1.5 million | `SavedIsKept`, `PauseEnds`, `Autosaved` |
| `filters` | 2 pages, 2 sizes, 2 modes, 3 budgets of changes, failures and crashes | 1.6 million | `SizesFinal`, `OutputIsCurrent`, `TasksKeepChoices`, `PagesMatch` |
| `names` | 4 files, 2 of them loaded, 9 budgets of operations | 555 thousand | `OwnOutput`, `NamesKept`, `EmptyPagesInOrder` |

Where a run checks `Inv` or `Liveness`, that is the conjunction of the parts the
module names: in `WorkerThread` `InOrder` is `InteractiveInOrder` and
`ResultsInOrder`, `Liveness` is `TaskServed` and `ShutdownCompletes`, as in
`BackgroundExecutor`; in `BatchProcessing` `QueuesInStep` holds the types,
`TakenFirst`, `TakenInFlight` and `LiveIsTaken`, and `Liveness` `BatchEnds` and
`RequestEnds`; in the cache `Inv` holds `ViewsAgree`, `ReferencesValid` and
`NotForgotten`, and `Liveness` `RequestAnswered` and `ShutdownCompletes`; and
likewise in the other modules, where `Inv` (`HqInv`, `DespeckleInv`) begins with
the types.

Why the bounds are enough to meet the interesting cases:

- `worker`: a restart needs one batch task that lowers the priority and one
  interactive task that wants it back; order and overtaking need a second
  interactive task, which may be in the same pass, behind the restart, or posted
  during it.  Level 0 is there for a batch priority that is normal.
- `executor`: one task done, one running and one waiting at shutdown.
- `batch`: two pages make a batch with a task under way and one not taken; three
  user actions are, for instance, an interactive request, a batch and its stop,
  with results, reloads and the dialog anywhere between.  With three pages and
  two actions (8 thousand states) the run passes as well.
- `cache`: room for one pixmap makes the second image evict the first; a
  threshold of 0 makes requests expire at once; two versions make a file
  outdated.  Every image may be requested and dismissed without end.
- `hq` and `despeckle`: tasks return to the pool when they are done, so the
  histories are endless; three may be under way at a time: the one listened to,
  one running, one waiting.
- `relink`: the second replacement may undo or repeat the first while the
  thread still works on the answers of it; two rows may have one path.
- `export`: with three threads each may find the cancellation for itself, and
  there are as many pages as threads.
- `pages`: a wide image may be split and one that is not wide may not; the third
  image is there to be inserted between the others.  Three actions are, for
  instance, a change of layout while a task is at the image, a removal of a half
  and its return, or a switch of stages between two selections.
- `project`: one failure and one crash, at any step, of either the user's save
  or the autosave; a second failure breaks the promise (see below), and the
  property says so.
- `filters`: two pages are enough for the larger one to decide the size of both,
  and for a task to be cancelled by the loading of the other.  The budgets are
  given in sets of which each exercises some kinds: a change of a box, two of the
  output with a failure, one with a crash.  With a change of a box and one of the
  output together (2.1 million states) the run passes as well.
- `names`: a distance of 4 between order numbers and a last number of 15 stand
  for 1000 and 9999: numbers run out between two pages and at the end within
  five insertions.  The other budgets pair insertion and removal with output,
  saving and opening, and each with one renaming or relinking.  The last of them
  lets a page that was relinked be output twice, before and after the project
  is loaded again, which `FilesBelong` has to except.

Deadlock is not checked: the programs stop when there is nothing to do, the
executor is gone or a bound on the user's actions is reached.  That nothing is
stuck is what the liveness properties say.

**Fairness.** Each background thread and the GUI thread's event loop are weakly
fair: the operating system schedules them, tasks return, and a loop delivers
what has been posted.  The user owes nothing, but for closing a modal dialog
some day (`batch`), and where the user can for ever prevent something (new
requests are served first, each change of the view cancels the task) the
property says so with `[]<><<...>>_vars`.  In `export` each thread of the loop is
fair by itself.  In `pages` the task, its results and the thumbnails are fair
together, the user is not and has three actions; in `project` the steps of a
slot that was begun and of the autosave are, and `Autosaved` speaks of a user who
leaves the project alone.  `FilterChain` and `OutputNames` have no liveness
property and no fairness.  No strong fairness is used.

### Departures from comments and texts, met while modelling

The models do what the code does; where a property excepts it, its comment says
so.

Threads and events:

- The worker thread posts its restart event before QThread knows that it has
  ended.  If the GUI thread handles the event first, `start()` does nothing, and
  no one starts the thread again ("In this case, we restart the thread.",
  WorkerThread.cpp:192): the queued task waits for ever.  `TaskServed` holds but
  for this (`RestartLost`).
- Shortcuts of stages stay enabled during a batch.  `filterSelectionChanged()`
  then clears the queue of the batch ("Should not happen, but just in case.")
  but leaves it open, and a cancelled task has no result, so that nothing ends
  the batch.  `BatchEnds` holds but for this (`BatchCleared`).
- The cache's thread has loaded an image, a task writes a newer thumbnail
  ("Re-create and replace the existing thumnail."), and then the first saves its
  own, older one over it.  `FreshUnlessRaced` holds but for this, and but for the
  moment in which a second `recreateThumbnail()` has replaced that older file and
  is about to remove its pixmap.  The second takes three versions to see; the
  invariant of the proof was checked with three, and with both images in one
  file, before it was proved.
- In the export the GUI thread's `wakeAll()` may come between the signal and the
  `wait()`; the thread then sleeps, and cancelling only sets a flag that it
  cannot look at.  `ExportEnds` holds but for this (`WakeUpLost`).
- `BackgroundExecutor::shutdown()` ("Waits for pending jobs to finish") drops
  the tasks not begun: `SerialExecutor!Closed` empties `pending`.
- Rejecting the dialog of a batch leaves the processing indicator for a task
  that was cancelled (`RejectStartDialog`).
- `m_endOfLoadedItems` may stay on an item that becomes `LOADED`, since moving
  it before itself does nothing; `ListsInOrder` holds all the same.
- `ThumbId::operator<` leaves out the page, so that the pages of one file share
  a thumbnail; the runs have files of one page.
- A visualization given to `DespeckleView` is computed again when the view is
  shown before the single-shot timer of the constructor.
- In `RelinkingModel` the two statuses of a row may differ without uncommitted
  changes; a request for the path in progress is ignored even for another row
  (`dropped`, hence the exception in `StatusArrives`); requests are served first
  to last, where a comment says last to first.
- Deselecting the row of the relinking dialog hides the error "This change would
  merge several files into one." (RelinkingDialog.cpp:131) and keeps the changes it
  was about, which the next selection then commits (`Deselect`).
- With reprocessing the export has one thread, `std::min(1, n - 1)`, where the
  comment says one less than before; `NotMixedUp` depends on it.
- A second task that needs a restart replaces the first in `m_ptrQueuedTask`.
  The main window never posts a task without cancelling the one before it, hence
  `TaskServed` speaks of the last one posted.

Pages and thumbnails:

- From right to left, inserting before an image goes between its halves, although
  "we won't allow inserting a page between two halves of another page"
  (ThumbnailSequence.h:200): `insert()` starts from `lower_bound(PageId(image))`,
  the left half, which is then the second of the two.  With
  `Direction = "RightToLeft"` TLC refutes `NothingBetweenHalves` in two actions;
  `ListShowsProject` asserts it from left to right only.
- After a rotation or a change of layout, going from fix orientation directly to
  deskew shows the old number of pages, although the thumbnails "must
  additionally ensure here that we display right number of pages"
  (page_split/CacheDrivenTask.cpp:133).  Thus `ListShowsProject` is of the stages
  that show images.
- In the list of pages a task that finds an image single leaves both halves on
  display, and removing one of them then removes the image.  The other half stays
  in the list; the image inserted again could then be put next to a page of its
  former self, and `InsertNewImage` leaves this out.
- A list that has an order of its own is not always in that order: a layout button
  that makes the page be processed again changes the record and not the thumbnail,
  so that the list is out of order until the result is shown.  If another page is
  selected first, it stays so until a page is processed or the order chosen again.
  `ThumbnailsInOrder` says which steps put it in order and that no other step
  puts it out of order.
- `setSelection()` of pages none of which is displayed flags the old leader
  without moving it in the index, and later there may be two leaders;
  `SelectionSound` excepts this (`unseen`).
- The layout buttons use the layout of the page shown before while a new page is
  being processed; the widget may show a layout other than the record's.
- The task sets the number of pages also after it was cancelled, by a layout
  that the user may have replaced.
- The dialog of the layout is not modal and may be accepted at any stage.  It looks
  for parameters when it is opened, and `layoutTypeSet()` takes them without looking
  (page_split/OptionsWidget.cpp:283); for a page that has none, as one still being
  processed may, that is undefined and `LayoutTypeSet` has no step.
- `layoutTypeButtonToggled()` sets the number of pages and the record under two
  mutexes, and `CacheDrivenTask` reads and repairs a record under two; each is one
  action in `PageList`.  A task that comes between them sees a number of pages that
  is not the record's yet; all writes of a record still go through `updatePage()`.

Project file:

- `ProjectWriter::write()` truncates the file and writes in place, and only
  looks whether it could be opened; `AtomicFileOverwriter` is not used.  From the
  opening until all is written `SavedIsKept` excepts the file.
- A single unnoticed failure can lose what is saved: closing writes
  `Backup.<name>`, which is cut off (`ProjectWriter.cpp:126`); it differs from the
  file in size, so the user is asked; and with the answer Save
  `overwritingRename` (`MainWindow.cpp:2453`) puts it over the file, which may be the
  only good one.  `SavedIsKept` excepts these names (`spoiled`) until they are saved
  again; without the exception TLC finds this behaviour.
- With the disk full both copies of an autosave fail, and the next one truncates
  the only file left: `SavedIsKept` is of one failure.
- Autosaving a named project removes the unnamed autosave of its input
  directory, which may be another project's.
- "Closes the currently project, prompting to save it if necessary": files of
  the same size are taken for equal ("The project hasn't really changed."), and
  when a project without a name is to be saved and the file dialog is cancelled,
  it is closed unsaved.
- A cancelled dialog while no project is loaded leaves the autosave blocked until
  the next project; `PauseEnds` is of loaded projects.

Filters:

- Output files are compared by size only (the time is commented out in
  OutputFileParams.cpp:73), so that after a crash or discarded changes a file of
  other settings may be taken for current; `OutputIsCurrent` excepts the files
  replaced since the project was saved (`suspect`).
- A task of select content stores the whole record it has read, also when it was
  cancelled meanwhile, over what the user changed; the flag of the output that
  asks for regeneration is likewise stored with the parameters read before.
  `TasksKeepChoices` excepts what is chosen between the reading and the storing.
- A box applied to pages from a dialog that is accepted below select content,
  and one that a cancelled task finds after the propagation, leave the sizes of
  the layout behind (`disturbed`); `checkReadyForOutput()` asks only whether they
  are defined.
- "Regenerate" of select content is never cleared, and its results are dropped.
  Its flag for thumbnails, with which a page is not collected, is taken back by the
  thumbnail that is made in the same slot (MainWindow.cpp:1373,
  select_content/CacheDrivenTask.cpp:57).  `Collected` leaves out the task that reads
  the record between the two and stores the flag again.
- A project is closed while its task is past its last check: the task writes its
  file after the project was opened again (`ClosedTaskEnds`), and the page is
  `suspect` like after a crash.

Names:

- The dialog for the name of a result offers the name with its label and stores
  what is accepted as the name without it, so that accepting "x(1)" unchanged
  names the page "x(1)(1)" and leaves its file behind.
- Names lose the extension, but labels are given by names with it: `x.jpg` and
  `x.png` share one output file (`Ambiguous`).
- Order numbers of empty pages run out between two pages after some eleven
  insertions, and at the end after ten; the page then shares a file with its
  neighbour, where MainWindow.cpp:2671 wants it "to stick into right place of
  alphabetically sorted output files" (`Room`).
- Relinking drops one of two items that have become equal, whose page then has
  no label until the project is loaded again; `NamesDistinct` is of pages with an
  item.  When it is loaded, the page is given the next label after those in the
  project file.  A page inserted after the project was saved, and lost when it
  was closed unsaved, may have had that label, and its output file is then
  taken for the other's (`relinked`).
- A renaming or relinking while the page is output leaves the file under the old
  name (`taken`).
- An empty page inserted next to a half gets a name by that half alone: the page
  beside it is looked for among the images (MainWindow.cpp:2673), where halves are not
  found.  An image has one page in `OutputNames`, so that `EmptyPagesInOrder` says
  nothing of this case.

## 4. What is proved

Each theorem is for every value of the constants that the named assumptions of
its module allow; for `WorkerThreadProofs`, for every set of tasks and of
levels, from the assumptions that interactive and batch tasks are disjoint,
`NoTask` is no task and levels are natural numbers.

`WorkerThreadProofs`
: `TypeCorrect` (`Spec => []TypeOK`): `TypeOK` is inductive.
: `InteractivePriority` (`Spec => []InteractiveAtNormalPriority`): not inductive
  by itself, as the task of a new thread runs at whatever level the thread has
  when `setpriority()` refuses a second time.  `FreshThreadAtNormal` adds that a
  thread that is starting is at level 0, from which no level is refused.
: `RunOnce` (`Spec => []RunsOnce`): the strengthening `OnePlace` says that a
  posted task is in one place: once among the events, in `m_ptrQueuedTask`, or
  once among those run; and that nothing else is.  Without the events being
  distinct and posted a task could be dispatched twice.
: `TasksInOrder` (`Spec => []InOrder`): `PostedOrder` puts the interactive tasks,
  wherever they are, in the order in which they were posted: those that ran, then
  the one that waits for a restart, then the events.  While one waits, the thread
  has a lowered priority, at which no other interactive task is run.
  `ResultOrder` does the same for the results: those delivered, those posted, and
  that of the task under way.

`BatchProcessingProofs`
: `QueuesAreInStep` (`Spec => []QueuesInStep`), `DisplayIsOfSelection`
  (`Spec => []DisplayedIsSelected`) and `BatchIsComplete`
  (`Spec => BatchComplete`), from one invariant, for any number of pages and
  filters, any orders and any number of user actions.  `Base` says that each task
  under way is in one place, posted or with a result, and that the entries taken
  are just those of the tasks under way that nobody cancelled; an entry not yet
  taken has its task nowhere else, ids are not used again, and each queue has
  tasks of one type.  That the search of `processingFinished()` may stop early
  follows: no taken entry comes after one that is not.  `Shown` adds that the
  page asked for is the selected one, so that its result may be displayed;
  `updateMainArea()`, with which most slots end, establishes it (`Updates`).
  `Account` is for the last theorem: in a batch, the pages applied and those
  still in the queue are all its pages, unless a shortcut of a stage has cleared
  both queues; then nothing under way is listened to, so that no result can end
  the batch.  The methods are followed one by one, as they call one another.  The
  lists are described by `Ascending` and `Only` (positions in order) instead of
  sorting and `SelectSeq`, so that nothing has to be proved by induction on
  their length.

`BackgroundExecutorProofs`
: `TypeCorrect`: from `IInv`, which adds to `TypeOK` that there is no thread
  before it was started and after `~Impl`'s `wait()`; without the first,
  `start()` could move a thread that is in a task.
: `Implements` (`Spec => ImplementsSerial`): the refinement: the initial state
  maps to the initial state, and under `IInv` each step maps to a step of
  `SerialExecutor` or to none (`NextImplements`, one step per action).
: `ValidPixmapIsCurrent` (`HqSpec => []HqInv` of `HqPixmap`): the views rest on what
  the executor promises.  A task under way waits, runs or has a result, in one
  place and once (`OnePlace`), so that a result delivered is the only one of its
  task; the current task is under way and not cancelled; and a pixmap made for
  the present request is what was asked for, and the shared position is its own
  (`BuiltAsked`).
: `SpecklesAreOfChosenLevel` (`DespeckleSpec => []DespeckleInv`), for any levels:
  with `OnePlace`, the only task under way that nobody cancelled is that of the
  handle, and it is for the chosen level unless the page is about to be
  reloaded (`OnlyHandleListened`); hiding the view
  cancels it, and showing the view begins another unless the level is there.

`PageListProofs`
: `LayoutsAgree` (`Spec => []NoConflict`), for any images, any of them wide, and
  any number of actions: every write to the settings goes through one of the
  methods that look for the conflict under the mutex.  The invariant, `IInv`, adds
  only that `record` is a function to records of two fields, whose parameters are
  none or of three fields; there is one lemma for each way of writing
  (`UpdateAgrees`, `ConditionalAgrees`, `ThumbsAgree`) and one for each slot that
  writes.  It rests on `TypeCorrect`, as the dialog copies the parameters of the
  page that is loaded.
: `TypeCorrect`, `SelectionIsSound`, `ProjectIsShown`, `LeaderIsTheLoadedPage`
  (`Spec => []TypeOK`, `[]SelectionSound`, `[]ListShowsProject`,
  `[]LeaderIsLoaded`), from one invariant, `ListInv`, for any images, either
  direction and any number of actions.  No one of the four is inductive, since
  the operations of the list rely on one another: that the page remembered is the
  leader (`Leads`) survives a step only if the pages shown are of the kind of the
  view (`Fits`), as `SelectedPage` looks a half up as its whole image and back;
  that the leader is the only one flagged needs that it is flagged at all
  (`Whole`), or the flag of another would outlive it; an insertion of an image into
  the project and one into the list agree only since the pages of an image follow
  each other (`Grouped`).  `Frame`, `Whole` and `Tidy` say what the fields of the
  list tell of the selection; `Tidy` is the part that fails once pages are
  selected by number none of which is shown (`unseen`).  `Good` ties the list to
  the project and the stage, and `Agree` to the page that is loaded.
: The proof goes by layers, each with lemmas that the next one cites: sets put in
  order by counting what comes before (`SortedOf`); lists with elements taken out,
  put in, reversed, kept in part (`RemoveAtOf`, `InsertAtOf`, `ReverseOf`,
  `OnlyOf`); the index by selection state; each method of the list
  (`SetSelectionOf`, `ClickShiftOf`, `ResetOf`, `InsertOf`, `RemoveFromListOf`,
  `InvalidateThumbnailOf`); each method of the project (`InsertImageOf`,
  `RemovePagesOf`, `UnremovePageOf`); what both do to the pages that are asked for
  (`ProjectShrinks`, `ProjectGrows`); and one lemma for each action.
  `OrderIsTotal` says that of two thumbnails of different pages an order provider
  puts just one first, also when reversed, where it is not irreflexive.
: `ThumbnailsStayInOrder` (`Spec => ThumbnailsInOrder`), an action property, from
  `ListInv` and `IInv`.  The list is sorted by the records as they are before its
  thumbnails are made, and making them may repair records: `SameOrder` says that
  the order is the same after it, since a repair keeps the type of a layout, and,
  as the record is in no conflict, does not clear it.  Then the list is sorted
  anew (`ChoicesOrder`), or thumbnails leave it (`OnlyInOrder`) or are put where
  `itemInsertPosition()` finds their place: `FittedInOrder` says that this is the
  right one whatever the hint, although the search goes in one direction only
  and stops at the first thumbnail that does not come after.

`FilterChainProofs`
: `FilesDescribed` (`Spec => []OutputIsCurrent`), for any number of pages, sizes,
  modes and budgets.  The strengthening says what the file holds between its
  writing and the storing of its parameters (`Written`); most actions do not
  touch the files or take the task on (`Quiet`), so that one lemma serves them,
  and the rest are the deletion, the crash, the file written by a task of a closed
  project and the four steps of the output.
: `SizesAreFinal` (`Spec => []SizesFinal`): `SInv` adds that a box that is laid
  out fits the geometry of its page, so that it would be found again as it is
  (`Laid`), and that a task which nobody disturbed carries, from its reading to
  its layout, the box that is in the settings (`Carried`); the types of what is
  stored and saved; and that a cancelled task does not pass a check (`Checked`).
: `ChoicesArePreserved` (`Spec => TasksKeepChoices`): an action property; from
  `SInv`, action by action (`StepKeepsChoices`).
: `BatchGivesOneSize` (`Spec => PagesMatch`): while a batch that nothing disturbed
  runs, the pages behind its task have the size of the whole book, and so has
  the image the task is about to write (`Uniform`); a batch takes the pages in
  their order, each once (`Queued`).  `AggregateIs` says that the size of the
  book depends on the layout alone, `LayoutStays` that such a batch does not
  change it.  Well-foundedness of the numbers gives the smallest page.

`ThumbnailPixmapCacheProofs`
: `CacheIsConsistent` (`Spec => []Inv`) and `NoStalePixmap`
  (`Spec => []FreshUnlessRaced`), from one invariant, for any files, images,
  limit, threshold and number of versions.  The two lists are described by
  `Before(list, a, b)` instead of positions: the lemmas of the first part say what
  erasing, relocating, appending and prepending do to that order, and the second
  part what follows for the load queue (`LoadOrder`) and for the remove queue with
  its iterator (`RemoveOrder`).  `RemoveOrder` is weaker than one would write it:
  the item the iterator is at may be `LOADED`, since relocating an item before
  itself does nothing, and what `LoadedFirst` concludes from it is enough.
  `Referenced` says that posted results and the thread together hold each
  `IN_PROGRESS` item once.  `Current` follows a pixmap's version from the file or
  the image through the thread, the posted result and the item; what the last
  `recreateThumbnail()` left is the newest version unless its item was in
  progress.  `Trimming` shows that the item at the front of the remove queue is
  `LOADED` whenever the limit is reached, which the code asserts
  (ThumbnailPixmapCache.cpp:857).

`OutputFilesProofs`
: `ExportIsSound` (`Spec => []Inv`), for any number of pages and threads: pages
  between their being taken and exported belong to one thread, and those below
  the next are with a thread or done unless somebody gave up (`Counted`); with
  reprocessing the only thread waits for its only request, so that the shared
  image is its page's (`OwnImage`, `Asked`); who says "cancelled" has set
  `m_interrupted`, after which nobody says "completed" (`Verdicts`).

: `OutputsAreOwn` (`NamesSpec => []OwnOutput`), `PagesKeepTheirNames`
  (`NamesSpec => NamesKept`) and `EmptyPagesKeepTheOrder`
  (`NamesSpec => EmptyPagesInOrder`), from one invariant, for any files and
  projects, any names the user may enter, any distance of order numbers up to the
  last, and any number of operations.  That a file is its page's own is not
  inductive, since a page may be given a name, or lose its record, and its file be
  written later.  `NamesIInv` speaks instead of the name an image has of its file
  and its label alone (`OwnName`): as long as it is not among those the user gave
  or gave up, no other page has it, empty pages included (`SoleOwner`), and so no
  file and no task holds it for another image (`Owners`); the task in hand writes
  under the name its page has now, or had before it was renamed (`TaskKnown`).
  `SavedSound` says the same of the project file, and that its records are still
  among those of the disambiguator, with the same labels: this is why no page
  inserted after the save is given a name that a saved page will have when the
  project is loaded again.  It holds of records relinking did not drop.
: `RegisterOf`, `UpdateOf` and `RelinkedOf` say what becomes of the records, and
  `SuggestionFits` what the suggested name is between; there
  `LabelsAsymmetric` excludes that a name of another base stands between two of
  one base.  `BoundOf` and `MaxOf` (a finite set of numbers has a greatest) rest
  on the well-foundedness of the numbers.

`ProjectFileProofs`
: `NothingSavedIsLost` (`Spec => []SavedIsKept`), for any names, sizes and numbers
  of edits and crashes, and with the exceptions `SavedIsKept` names (a file being
  written in place, the unnamed autosave, a broken Backup put over the file by
  closing): `KeptHow` says for each phase of `autoSaveProject()` which
  of the file, its `.as` and its `.bak` are good.  One of them is in each, for a
  crash; and while nothing has failed there is one more, which is what the one
  failure uses up.
: `PausesEnd` (`Spec => []PauseEnds`): with where the GUI thread and the autosave
  may be at the same time (`Places`) and what they know there.
: `RelinkingIsSound` (`RelinkingSpec => []Inv`), of `RelinkingModel`, for any rows,
  paths and number of replacements; it is in this module, whose state it does not
  touch.  `PendingIsUnderWay` is not inductive: a rollback brings back the
  committed status with the committed path, so `PendingServed` says that the
  requests of committed paths are under way too, or, while their rows are yet to
  be asked for, that the path is the one that will be asked for.  `Answered`
  says that the answers posted are right, and `Originals` that each path of the
  project has one row, without which a commit could tell the relinker of one
  row and not of the other.  Nothing under way is lost when a task is put at the
  end again (`MovedToEnd`), taken (`TakeTaskKeeps`) or answered (`PostKeeps`).

The assumptions on constants say that what stands for "nothing" (`None`, `Absent`,
`Broken`, `NoTask`, `NoPage`, `End`, `Indicator`) is not one of the things it is the absence of,
that limits and sizes are numbers, and that there is a page, a limit above zero and
a version.  TLC evaluates each of them in a run.

`AppendElements`, `TailElements` and `EventList` are the facts about posting and
delivering that `WorkerThreadProofs` and `BackgroundExecutorProofs` rest on.

Only model-checked is all liveness (the prover has no fairness and no `ENABLED`):
the properties named `Liveness`, `EventuallySharp`, `IndicatorGoes`, `ExportEnds`,
`Settles` and `Autosaved`.

No module has a recursive operator.

## 5. What is not modelled, and the plan

Left out of the modelled parts: running out of memory (a task without a result
stops a batch; an item would stay in progress), the lifetimes of C++ objects, a
second export started after an error, geometry, menus and layout of the window,
the content of the project's XML, the estimators (any result is allowed), zones,
despeckling and dewarping as parameters of the output, suffixes of halves and of
multi-page files in names, relinking while tasks run.  Numerical code on images
(imageproc, dewarping, math) is most of the source and beyond a model checker;
dialogs hold no protocol but the few that are modelled; `ConsoleBatch` runs
its tasks one after the other.

Done, in the order of importance: `WorkerThread`, `ProcessingTaskQueue` and
`BatchProcessing`; `ThumbnailPixmapCache`; `SerialExecutor` and
`BackgroundExecutor`, `HqPixmap`, `DespeckleView`; `RelinkingModel`;
`ExportThread`; `ProjectPages`, `PageSplitSettings`, `ThumbnailSequence` and
`PageList`; `ProjectFile`; `FilterChain`; `OutputNames`; and the proofs of
section 4.  Next:

1. Picture and fill zones, which the output stores while the user edits them.
2. The handlers of `core/interaction`, whose stack changes while it is walked.
3. Small pure algorithms as functions with a reference definition: the priority
   queue of `foundation`, `MaxWhitespaceFinder`, `ConnectivityMap`.
