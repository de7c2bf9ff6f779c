----------------------------- MODULE FilterChain -----------------------------
(***************************************************************************)
(* The last three filters and the settings they share with the GUI: select  *)
(* content, page layout and output.  A task runs through them on the worker *)
(* thread, reading and writing the settings of its page under a mutex for   *)
(* each call, and asks at a few points only whether it was cancelled; the   *)
(* GUI thread edits the same settings, switches between stages, loads pages *)
(* and runs batches, and "Apply to" dialogs stay open through all of it.    *)
(*                                                                         *)
(* What the earlier filters make of a page is its geometry.  A content box  *)
(* is known by its size, and the box found in a page has the size of its    *)
(* geometry; margins are part of it.  The colour mode stands for everything *)
(* the output depends on besides the layout.  A file is known by the image  *)
(* in it, and is as long as its page is large.                              *)
(***************************************************************************)
EXTENDS Naturals, FiniteSets

CONSTANTS
    NumPages,
    Geometry,       \* what the earlier filters make of the pages at first
    Sizes,          \* sizes of content boxes, and geometries
    Modes,          \* colour modes
    DefaultMode,
    None,           \* no record, no item, no file, no page
    Budgets         \* bound: how many changes by the user to what comes before
                    \* the output and to the output, failures and crashes

Invalid == 0        \* m_invalidSize

(* What select_content keeps of a page, and what the output knows an image by. *)
Boxes == [deps : Sizes \cup {None}, mode : {"auto", "manual"}, size : Sizes, regen : BOOLEAN]
Images == [mode : Modes, size : Sizes, page : Sizes \cup {Invalid}]

ASSUME FilterChainAssumption ==
    /\ NumPages \in Nat \ {0}
    /\ Sizes \subseteq Nat \ {0} /\ Sizes # {}
    /\ Geometry \in [1 .. NumPages -> Sizes]
    /\ DefaultMode \in Modes
    /\ None \notin Sizes \cup Modes \cup 1 .. NumPages \cup Boxes \cup Images
    /\ Budgets \subseteq [{"box", "output", "fault", "crash"} -> Nat]

Pages == 1 .. NumPages

VARIABLES
    geometry,       \* per page, what the earlier filters make of it
    content,        \* select_content::Settings
    layout,         \* page_layout::Settings
    params,         \* output::Settings, m_perPageParams
    stored,         \* output::Settings, m_perPageOutputParams
    file,           \* the output files
    saved,          \* the settings in the project file, while a crash may come
    stage,          \* m_curFilter
    leader,         \* the selected page
    batch,          \* a batch is in progress
    queue,          \* pages of the batch that are left
    posted,         \* the page of the task the worker will take next
    task,           \* the task the worker is at
    left,           \* what is left of the budget
    disturbed,      \* pages whose box was changed behind the layout's back
    suspect,        \* pages whose file was replaced after the project was saved
    clean           \* nothing has disturbed the output batch in progress

settings == <<geometry, content, layout, params, stored>>
control == <<stage, leader, batch, queue, posted>>
ghosts == <<disturbed, suspect, clean>>
vars == <<settings, file, saved, control, task, left, ghosts>>

BelowContent == {"layout", "output"}
Stages == {"geometry", "content"} \cup BelowContent

Box(deps, mode, size) == [deps |-> deps, mode |-> mode, size |-> size, regen |-> FALSE]
Item(size) == [size |-> size, aligned |-> TRUE]
Image(mode, size, page) == [mode |-> mode, size |-> size, page |-> page]

-----------------------------------------------------------------------------
(* The settings. *)

(* A mutant: the record of a page whose geometry changed is made anew. *)
SelectContentAnew(record, shape) ==
    IF record # None /\ (record.regen \/ record.deps = shape)
    THEN [record EXCEPT !.deps = shape] ELSE Box(shape, "auto", shape)

(* What select_content::Task makes of the record it read: a box that is still
   right is kept, one of another geometry is found anew unless the user drew
   it; a box found because the user asked for it is thrown away. *)
SelectContent(record, shape) ==
    CASE record = None -> Box(shape, "auto", shape)
      [] record # None /\ (record.regen \/ record.deps = shape) ->
            [record EXCEPT !.deps = shape]
      [] OTHER -> [record EXCEPT !.deps = shape,
                                 !.size = IF record.mode = "auto" THEN shape ELSE @]

(* Settings::getParams and setContentSizeMM: the size of an item, made with
   the default alignment if there is none. *)
WithSize(items, p, size) ==
    [items EXCEPT ![p] = IF @ = None THEN Item(size) ELSE [@ EXCEPT !.size = size]]

Defined(items, p) == items[p] # None /\ items[p].size # Invalid

(* getAggregateHardSizeMMLocked: pages that are not aligned have no influence. *)
Influence(item) == IF item = None \/ ~item.aligned THEN 0 ELSE item.size
Aggregate(items) ==
    CHOOSE size \in {Influence(items[p]) : p \in Pages} :
        \A p \in Pages : Influence(items[p]) <= size

(* Utils::calcPageRectPhys: an aligned page is padded to the aggregate size. *)
PageSize(items, p) == IF items[p].aligned THEN Aggregate(items) ELSE items[p].size

ReadyForOutput(items, ignore) == \A p \in Pages \ {ignore} : Defined(items, p)

(* ContentBoxPropagator: a box that would have to be found is not collected. *)
Collected(p) ==
    content[p] # None /\ (content[p].deps = geometry[p] \/ content[p].mode = "manual")

(* A mutant: a page whose box is not known keeps its size. *)
PropagatedIfKnown ==
    [p \in Pages |-> IF Collected(p) THEN WithSize(layout, p, content[p].size)[p] ELSE layout[p]]

Propagated ==
    [p \in Pages |->
        CASE Collected(p) -> WithSize(layout, p, content[p].size)[p]
          [] ~Collected(p) /\ layout[p] # None -> [layout[p] EXCEPT !.size = Invalid]
          [] OTHER -> None]

-----------------------------------------------------------------------------
(* Loading pages. *)

(* cancel(): between two filters throwIfCancelled() ends the task, and its
   result is dropped; the search for a content box and the generation of the
   image may be past their last check, and what a task has begun to write it
   writes. *)
NoTask ==
    [page |-> None, last |-> None, cancelled |-> FALSE, stale |-> FALSE,
     pc |-> "none", shape |-> None, record |-> None, params |-> None, image |-> None,
     target |-> None]
Checks == {"none", "select", "check", "output", "done"}
At(pc) == task.pc = pc
Unless(t) == IF t.cancelled /\ t.pc \in Checks THEN NoTask ELSE t
Cancelled == Unless([task EXCEPT !.cancelled = TRUE])

(* updateMainArea and loadPageInteractive with no batch in progress: at the
   output stage the other pages must have a size, or there is only an error
   and the first page is selected. *)
LoadPageInteractive(p, s, items) ==
    IF s = "output" /\ ~ReadyForOutput(items, p)
    THEN leader' = 1 /\ posted' = None
    ELSE leader' = p /\ posted' = IF s = "geometry" THEN None ELSE p

(* The options of a page are there unless there is an error instead; those of
   select content wait for the page. *)
Loaded == posted = None /\ task.pc = "none"

Reload == LoadPageInteractive(leader, stage, layout) /\ UNCHANGED <<stage, batch, queue>>

Init ==
    /\ geometry = Geometry
    /\ content = [p \in Pages |-> None]
    /\ layout = [p \in Pages |-> None]
    /\ params = [p \in Pages |-> [mode |-> DefaultMode, regen |-> FALSE]]
    /\ stored = [p \in Pages |-> None]
    /\ file = [p \in Pages |-> None]
    /\ saved = [geometry |-> geometry, content |-> content, layout |-> layout,
                params |-> params, stored |-> stored]
    /\ stage = "geometry" /\ leader = 1
    /\ batch = FALSE /\ queue = {} /\ posted = None /\ task = NoTask
    /\ left \in Budgets
    /\ disturbed = {} /\ suspect = {} /\ clean = FALSE

SelectPage(p) ==
    /\ ~batch
    /\ task' = Cancelled
    /\ LoadPageInteractive(p, stage, layout)
    /\ UNCHANGED <<settings, file, saved, stage, batch, queue, left, ghosts>>

(* filterSelectionChanged: going below "Select Content" the boxes are handed
   to the layout of every page.  The shortcuts of the stages work during a
   batch, "Should not happen, but just in case": nothing is left of the batch
   then, and it is in progress until it is stopped. *)
FilterSelectionChanged(s) ==
    /\ s # stage
    /\ task' = Cancelled
    /\ stage' = s
    /\ IF stage \notin BelowContent /\ s \in BelowContent
       THEN /\ layout' = Propagated
            /\ disturbed' = {p \in disturbed : task.page = p}
       ELSE UNCHANGED <<layout, disturbed>>
    /\ \/ /\ batch
          /\ posted' = None /\ queue' = {} /\ clean' = FALSE
          /\ UNCHANGED leader
       \/ /\ ~batch
          /\ LoadPageInteractive(leader, s, layout')
          /\ UNCHANGED <<queue, clean>>
    /\ UNCHANGED <<geometry, content, params, stored, file, saved, batch, left, suspect>>

(* The pages from the first or from the selected one on, one task at a time. *)
StartBatchProcessing(first) ==
    /\ ~batch /\ stage # "geometry"
    /\ stage = "output" => ReadyForOutput(layout, leader)
    /\ first \in {1, leader}
    /\ task' = Cancelled
    /\ batch' = TRUE /\ posted' = first /\ leader' = first
    /\ queue' = {p \in Pages : p > first}
    /\ clean' = (/\ stage = "output" /\ first = 1 /\ disturbed = {}
                 /\ \A p \in Pages : Defined(layout, p))
    /\ UNCHANGED <<settings, file, saved, stage, left, disturbed, suspect>>

StopBatchProcessing ==
    /\ batch
    /\ task' = Cancelled
    /\ batch' = FALSE /\ queue' = {} /\ clean' = FALSE
    /\ LoadPageInteractive(leader, stage, layout)
    /\ UNCHANGED <<settings, file, saved, stage, left, disturbed, suspect>>

-----------------------------------------------------------------------------
(* Changes by the user. *)

Spend(kind) == left[kind] > 0 /\ left' = [left EXCEPT ![kind] = @ - 1]
Edit(kind) == Spend(kind) /\ clean' = FALSE

(* A change of the box of p: a task that is at p may have read the old one,
   and below "Select Content" nobody hands the new one on. *)
Disturbs(p) ==
    disturbed' = IF task.page = p \/ stage \in BelowContent THEN disturbed \cup {p} ELSE disturbed

Stale(p, t) == IF t.page = p THEN [t EXCEPT !.stale = TRUE] ELSE t

SetContent(p, record) ==
    /\ content' = [content EXCEPT ![p] = record]
    /\ Disturbs(p)
    /\ UNCHANGED <<geometry, layout, params, stored, file, saved, suspect>>

(* The options of an earlier filter. *)
ChangeGeometry(p, shape) ==
    /\ Edit("box")
    /\ stage = "geometry" /\ ~batch /\ geometry[p] # shape
    /\ geometry' = [geometry EXCEPT ![p] = shape]
    /\ Disturbs(p) /\ task' = Stale(p, task)
    /\ UNCHANGED <<content, layout, params, stored, file, saved, control, suspect>>

(* The box drawn, and back to the automatic one: commitCurrentParams writes a
   record with no dependencies and no request to regenerate. *)
ManualContentRectSet(size) ==
    /\ Edit("box")
    /\ stage = "content" /\ ~batch /\ Loaded
    /\ SetContent(leader, Box(None, "manual", size))
    /\ task' = Stale(leader, task)
    /\ UNCHANGED control

AutoMode ==
    /\ Edit("box")
    /\ stage = "content" /\ ~batch /\ Loaded /\ content[leader] # None
    /\ SetContent(leader, Box(None, "auto", content[leader].size))
    /\ task' = Stale(leader, Cancelled)
    /\ Reload

(* applySelection, from a dialog that may have been opened long ago: other
   pages get the mode and box of the one in the options, or the mode alone.
   Some page was shown for the dialog to be opened. *)
ApplySelection(p, mode, size, apply_content_box) ==
    /\ Edit("box")
    /\ \E q \in Pages : content[q] # None
    /\ stage = "content" => p # leader
    /\ LET old == content[p] IN
       SetContent(p, Box(None, mode, IF old # None /\ ~apply_content_box THEN old.size ELSE size))
    /\ task' = Stale(p, task)
    /\ UNCHANGED control

(* setPageAlignment, from the options or the dialog. *)
SetPageAlignment(p, aligned) ==
    /\ Edit("box")
    /\ layout' = [layout EXCEPT ![p] = IF @ = None THEN [Item(Invalid) EXCEPT !.aligned = aligned]
                                                   ELSE [@ EXCEPT !.aligned = aligned]]
    /\ UNCHANGED <<geometry, content, params, stored, file, saved, control, task,
                   disturbed, suspect>>

SetParams(p, new) ==
    /\ params' = [params EXCEPT ![p] = new]
    /\ UNCHANGED <<geometry, content, layout, stored, file, saved, disturbed, suspect>>

(* modeSelectorIndexChanged: the selector works while the page is processed. *)
ModeSelectorIndexChanged(mode) ==
    /\ Edit("output")
    /\ stage = "output" /\ ~batch /\ ReadyForOutput(layout, leader) /\ params[leader].mode # mode
    /\ SetParams(leader, [params[leader] EXCEPT !.mode = mode])
    /\ task' = Cancelled
    /\ Reload

ApplyColorsConfirmed(p, mode) ==
    /\ Edit("output")
    /\ params[p].mode # mode
    /\ SetParams(p, [params[p] EXCEPT !.mode = mode])
    /\ UNCHANGED <<control, task>>

(* "Regenerate result" of the page menu: invalidateSetting, then a reload. *)
Regenerate(p) ==
    /\ ~batch
    /\ \/ /\ stage = "content" /\ content[p] # None
          /\ Edit("box")
          /\ content' = [content EXCEPT ![p].regen = TRUE]
          /\ UNCHANGED params
       \/ /\ stage = "output"
          /\ Edit("output")
          /\ params' = [params EXCEPT ![p].regen = TRUE]
          /\ UNCHANGED content
    /\ task' = Cancelled
    /\ Reload
    /\ UNCHANGED <<geometry, layout, stored, file, saved, disturbed, suspect>>

DeleteFile(p) ==
    /\ Edit("output")
    /\ file[p] # None
    /\ file' = [file EXCEPT ![p] = None]
    /\ UNCHANGED <<settings, saved, control, task, disturbed, suspect>>

(* The project is saved, without the requests to regenerate; a crash, or a
   project closed without saving, brings the saved settings back, while the
   output files stay.  Closing cancels the task, which keeps the settings of the
   closed project: past its last check it may still write its file, whatever
   has been reopened meanwhile. *)
Save ==
    /\ left.crash > 0
    /\ saved' = [geometry |-> geometry,
                 content |-> [p \in Pages |-> IF content[p] = None THEN None
                                              ELSE [content[p] EXCEPT !.regen = FALSE]],
                 layout |-> layout,
                 params |-> [p \in Pages |-> [params[p] EXCEPT !.regen = FALSE]],
                 stored |-> stored]
    /\ UNCHANGED <<settings, file, control, task, left, ghosts>>

TaskOfClosed ==
    CASE At("closed") -> task
      [] task.pc \in {"reread", "compare", "generate"} ->
            [NoTask EXCEPT !.pc = "closed", !.cancelled = TRUE,
                           !.image = task.image, !.target = task.page]
      [] OTHER -> NoTask

CrashAndReopen ==
    /\ Spend("crash")
    /\ task' \in {NoTask, TaskOfClosed}
    /\ geometry' = saved.geometry /\ content' = saved.content /\ layout' = saved.layout
    /\ params' = saved.params /\ stored' = saved.stored
    /\ suspect' = {p \in Pages : stored'[p] # None /\ file[p] # stored'[p]}
    /\ stage' = "geometry" /\ leader' = 1
    /\ batch' = FALSE /\ queue' = {} /\ posted' = None
    /\ disturbed' = {} /\ clean' = FALSE
    /\ saved' = IF left'.crash = 0 THEN None ELSE saved
    /\ UNCHANGED file

ClosedTaskEnds ==
    /\ At("closed")
    /\ task' = NoTask
    /\ \E written \in {task.image, None, file[task.target]} :
          /\ file' = [file EXCEPT ![task.target] = written]
          /\ suspect' = IF stored[task.target] # None /\ written \notin {None, stored[task.target]}
                        THEN suspect \cup {task.target} ELSE suspect
    /\ UNCHANGED <<settings, saved, control, left, disturbed, clean>>

-----------------------------------------------------------------------------
(* The task. *)

NewTask(p) == [NoTask EXCEPT !.page = p, !.last = stage, !.pc = "select"]

TaskTaken ==
    /\ At("none") /\ posted # None
    /\ task' = NewTask(posted) /\ posted' = None
    /\ UNCHANGED <<settings, file, saved, stage, leader, batch, queue, left, ghosts>>

ThrowIfCancelled ==
    /\ At("store") \/ At("generate")
    /\ task.cancelled
    /\ task' = NoTask
    /\ UNCHANGED <<settings, file, saved, control, left, ghosts>>

Goto(t) == task' = Unless(t)

SelectRead ==
    /\ At("select")
    /\ LET p == task.page IN
       /\ task' = [task EXCEPT !.pc = "store", !.shape = geometry[p], !.record = content[p]]
       /\ content' = IF content[p] # None /\ task.last = "content"
                     THEN [content EXCEPT ![p].regen = FALSE] ELSE content
    /\ UNCHANGED <<geometry, layout, params, stored, file, saved, control, left, ghosts>>

SelectStore ==
    /\ At("store")
    /\ LET new == SelectContent(task.record, task.shape) IN
       /\ content' = [content EXCEPT ![task.page] = new]
       /\ Goto([task EXCEPT !.pc = "check", !.shape = None, !.record = new])
    /\ UNCHANGED <<geometry, layout, params, stored, file, saved, control, left, ghosts>>

SelectDone ==
    /\ At("check")
    /\ task' = IF task.last = "content" THEN [task EXCEPT !.pc = "done", !.record = None]
               ELSE [task EXCEPT !.pc = "layout"]
    /\ UNCHANGED <<settings, file, saved, control, left, ghosts>>

(* Past its check the task goes on, cancelled or not. *)
PageLayout ==
    /\ At("layout")
    /\ LET p == task.page  size == task.record.size IN
       /\ layout' = WithSize(layout, p, size)
       /\ Goto(IF task.last = "layout" THEN [task EXCEPT !.pc = "done", !.record = None]
               ELSE [task EXCEPT !.pc = "output", !.record = None,
                                 !.image = Image(DefaultMode, size, PageSize(layout', p))])
       /\ disturbed' = IF task.stale THEN disturbed ELSE disturbed \ {p}
    /\ UNCHANGED <<geometry, content, params, stored, file, saved, control, left, suspect, clean>>

(* The parameters are read once for the image, and again for the request to
   regenerate. *)
OutputRead ==
    /\ \/ At("output")
          /\ task' = [task EXCEPT !.pc = "reread", !.image.mode = params[task.page].mode]
       \/ At("reread")
          /\ task' = [task EXCEPT !.pc = "compare", !.params = params[task.page]]
    /\ UNCHANGED <<settings, file, saved, control, left, ghosts>>

(* A mutant: the length of the page is not compared. *)
UpToDateButSize(p, image) ==
    /\ stored[p] # None /\ file[p] # None
    /\ stored[p].mode = image.mode /\ stored[p].size = image.size

(* OutputImageParams::matches and OutputFileParams::matches: the file is
   taken for what the stored parameters say if it has the length they say. *)
UpToDate(p, image) == stored[p] = image /\ file[p] # None /\ file[p].page = image.page

(* A request to regenerate is taken back by writing the whole record. *)
OutputCompare ==
    /\ At("compare")
    /\ LET p == task.page  own == task.params IN
       /\ params' = IF own.regen THEN [params EXCEPT ![p] = [own EXCEPT !.regen = FALSE]] ELSE params
       /\ Goto([task EXCEPT !.params = None,
                            !.pc = IF ~own.regen /\ UpToDate(p, task.image)
                                   THEN "done" ELSE "generate"])
    /\ UNCHANGED <<geometry, content, layout, stored, file, saved, control, left, ghosts>>

(* The image is generated and written.  A file that cannot be opened stays,
   one that cannot be written is removed, and the files beside it (automask,
   speckles) may fail though the image did not. *)
Generate(written, ok) ==
    /\ At("generate")
    /\ file' = [file EXCEPT ![task.page] = written]
    /\ task' = [task EXCEPT !.pc = IF ok THEN "written" ELSE "failed"]
    /\ UNCHANGED <<settings, saved, control, disturbed, suspect>>

Generated == Generate(task.image, TRUE) /\ UNCHANGED <<left, clean>>
GenerateFailed ==
    /\ Spend("fault") /\ clean' = FALSE
    /\ At("generate")
    /\ \E written \in {task.image, None, file[task.page]} : Generate(written, FALSE)

(* A mutant: the parameters stay when something could not be written. *)
SetOutputParamsIfWritten ==
    /\ \/ At("written") /\ stored' = [stored EXCEPT ![task.page] = task.image]
       \/ At("failed") /\ UNCHANGED stored
    /\ Goto([task EXCEPT !.pc = "done"])
    /\ suspect' = suspect \ {task.page}
    /\ UNCHANGED <<geometry, content, layout, params, file, saved, control, left,
                   disturbed, clean>>

SetOutputParams ==
    /\ \/ At("written") /\ stored' = [stored EXCEPT ![task.page] = task.image]
       \/ At("failed") /\ stored' = [stored EXCEPT ![task.page] = None]
    /\ Goto([task EXCEPT !.pc = "done"])
    /\ suspect' = suspect \ {task.page}
    /\ UNCHANGED <<geometry, content, layout, params, file, saved, control, left,
                   disturbed, clean>>

(* filterResult: the image is shown; a batch goes on to the next page, or ends
   and loads the selected one. *)
FilterResult ==
    /\ At("done")
    /\ task' = NoTask
    /\ CASE ~batch ->
                UNCHANGED <<control, clean>>
         [] batch /\ queue # {} ->
                LET next == CHOOSE p \in queue : \A q \in queue : p <= q IN
                /\ posted' = next /\ leader' = next /\ queue' = queue \ {next}
                /\ UNCHANGED <<stage, batch, clean>>
         [] OTHER ->
                /\ batch' = FALSE /\ clean' = FALSE
                /\ LoadPageInteractive(leader, stage, layout)
                /\ UNCHANGED <<stage, queue>>
    /\ UNCHANGED <<settings, file, saved, left, disturbed, suspect>>

TaskStep ==
    \/ TaskTaken \/ ThrowIfCancelled \/ SelectRead \/ SelectStore \/ SelectDone \/ PageLayout
    \/ OutputRead \/ OutputCompare \/ Generated \/ GenerateFailed \/ SetOutputParams
    \/ FilterResult

UserStep ==
    \/ \E p \in Pages : SelectPage(p) \/ StartBatchProcessing(p) \/ Regenerate(p) \/ DeleteFile(p)
    \/ \E s \in Stages : FilterSelectionChanged(s)
    \/ StopBatchProcessing
    \/ \E p \in Pages, shape \in Sizes : ChangeGeometry(p, shape)
    \/ \E size \in Sizes : ManualContentRectSet(size)
    \/ AutoMode
    \/ \E p \in Pages, mode \in {"auto", "manual"}, size \in Sizes, box \in BOOLEAN :
           ApplySelection(p, mode, size, box)
    \/ \E p \in Pages, aligned \in BOOLEAN : SetPageAlignment(p, aligned)
    \/ \E mode \in Modes : ModeSelectorIndexChanged(mode)
    \/ \E p \in Pages, mode \in Modes : ApplyColorsConfirmed(p, mode)

Next == TaskStep \/ UserStep \/ Save \/ CrashAndReopen \/ ClosedTaskEnds

Spec == Init /\ [][Next]_vars

-----------------------------------------------------------------------------
(* A page that left as laid out has the size its box would come out with
   now, whoever looks at it: at the stages below "Select Content" the sizes
   the page size of the whole book is computed from are those of the boxes,
   after any way through the stages and with cancelled tasks still running
   (ContentBoxPropagator, "Propagate context boxes down the stage list").
   Only a box changed while a task is at its page, or from below, escapes. *)
SizesFinal ==
    stage \in BelowContent =>
        \A p \in Pages \ disturbed :
            Defined(layout, p) => layout[p].size = SelectContent(content[p], geometry[p]).size

(* The file of a page is what the stored parameters say, except while it is
   being replaced, so that a task that takes it over instead of generating it
   ends with the image it wanted; with the failures of writing, of the image
   or of the files beside it, and with files deleted.  Only a file replaced
   after the project was last saved escapes, also by a task of the project as
   it was before it was closed. *)
OutputIsCurrent ==
    \A p \in Pages \ suspect :
        LET own == task.page = p IN
        /\ stored[p] # None /\ file[p] # None /\ ~(own /\ task.pc \in {"written", "failed"})
              => file[p] = stored[p]
        /\ own /\ task.pc = "done" /\ task.last = "output" /\ stored[p] # None /\ file[p] # None
              => file[p] = task.image

(* Tasks keep what the user chose: whether a box is automatic, the box that
   was drawn, the colour mode.  Only what is chosen between a task's reading
   a record and its writing it back is lost. *)
ChoiceOfBox(record) ==
    IF record = None \/ record.mode = "auto" THEN None ELSE record.size
TasksKeepChoices ==
    [][left'.box = left.box /\ left'.output = left.output /\ left'.crash = left.crash =>
        \A p \in Pages :
            /\ \/ ChoiceOfBox(content'[p]) = ChoiceOfBox(content[p])
               \/ At("store") /\ task.page = p /\ task.record # content[p]
            /\ \/ params'[p].mode = params[p].mode
               \/ At("compare") /\ task.page = p /\ task.params # params[p]]_vars

(* A batch through the output of every page, started when all were laid out
   and left alone, gives all aligned pages one size, those too whose file was
   there before (the purpose of the page layout stage). *)
PagesMatch ==
    [][clean /\ batch /\ ~batch' /\ queue = {} /\ At("done") /\ left' = left =>
        \A p, q \in {p \in Pages : layout[p].aligned} :
            file[p] # None /\ file[q] # None /\ file[p].page = file[q].page]_vars
=============================================================================
