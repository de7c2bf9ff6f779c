-------------------------- MODULE FilterChainProofs --------------------------
(***************************************************************************)
(* For any number of pages, any sizes and modes, and whatever is edited,    *)
(* cancelled, deleted, fails or crashes in whatever order:                  *)
(*                                                                         *)
(*   FilesDescribed       an output file whose project was not put back     *)
(*                        behind it holds what the stored parameters say,   *)
(*                        and the task that has just been through it        *)
(*                        wanted that;                                      *)
(*   SizesAreFinal        below "Select Content" the layout has the sizes   *)
(*                        of the boxes as they will come out;               *)
(*   ChoicesArePreserved  tasks keep what the user chose;                   *)
(*   BatchGivesOneSize    a batch gives all aligned pages one size.         *)
(*                                                                         *)
(* The first is inductive with what the file holds between the writing of   *)
(* it and the storing of its parameters (Written), and with the domains of  *)
(* the functions and records that are updated (Domains).  Most actions      *)
(* leave the files and their parameters alone and take the task no further  *)
(* (Quiet), which is what makes that proof short.  The others share the     *)
(* invariant SInv, of what the settings may hold and of the box a task      *)
(* carries, and the last adds what the pages a batch has been through have  *)
(* in common (Uniform).                                                     *)
(***************************************************************************)
EXTENDS FilterChain, FiniteSetTheorems, WellFoundedInduction, TLAPS

Shape(t) ==
    t = [page |-> t.page, last |-> t.last, cancelled |-> t.cancelled, stale |-> t.stale,
         pc |-> t.pc, shape |-> t.shape, record |-> t.record, params |-> t.params,
         image |-> t.image, target |-> t.target]

(* No task, or one of a project that was closed. *)
Away == {"none", "closed"}
USE DEF Away

Domains ==
    /\ file = [p \in Pages |-> file[p]]
    /\ stored = [p \in Pages |-> stored[p]]
    /\ left \in [{"box", "output", "fault", "crash"} -> Nat]
    /\ left.crash > 0 => saved.stored = [p \in Pages |-> saved.stored[p]]
    /\ Shape(task)
    /\ task.pc \in Away => task.page = None

Written == At("written") => \A p \in Pages : task.page = p => file[p] \in {None, task.image}

IInv == Domains /\ Written /\ OutputIsCurrent

Writing(t) == t.pc \in {"written", "failed"}

(* The task is where it was and after the same image, or it was not writing
   and neither writes now nor has come to the end of the output. *)
SameTask(t, u) ==
    /\ Shape(u)
    /\ \/ /\ ~Writing(t) /\ ~Writing(u)
          /\ u.pc = "done" => u.last # "output"
          /\ u.pc \in Away => u.page = None
       \/ u.page = t.page /\ u.pc = t.pc /\ u.last = t.last /\ u.image = t.image

Quiet ==
    /\ UNCHANGED <<file, stored, suspect>>
    /\ left' \in [{"box", "output", "fault", "crash"} -> Nat] /\ left'.crash = left.crash
    /\ left.crash > 0 => saved'.stored = [p \in Pages |-> saved'.stored[p]]
    /\ SameTask(task, task')

-----------------------------------------------------------------------------
(* A quiet step disturbs nothing. *)
LEMMA QuietStep == ASSUME IInv, Quiet PROVE IInv'
  <1> USE DEF Writing
  <1>1. Domains'
    BY DEF IInv, Quiet, Domains, SameTask, Shape, At
  <1>2. Written'
    BY DEF IInv, Quiet, Written, At, SameTask
  <1>3. OutputIsCurrent'
    BY DEF IInv, Quiet, OutputIsCurrent, SameTask
  <1> QED  BY <1>1, <1>2, <1>3 DEF IInv

(* Cancelling a task and telling it that its box was changed leave it where
   it is, or end it. *)
LEMMA CancelledIsSame == ASSUME Domains PROVE SameTask(task, Cancelled)
  BY DEF Domains, Cancelled, Unless, NoTask, Checks, SameTask, Shape, Writing

LEMMA StaleIsSame ==
    ASSUME NEW t, NEW u, NEW p, SameTask(t, u) PROVE SameTask(t, Stale(p, u))
  <1>1. CASE u.page = p
    <2>1. /\ Stale(p, u) = [u EXCEPT !.stale = TRUE]
          /\ u = [page |-> u.page, last |-> u.last, cancelled |-> u.cancelled, stale |-> u.stale,
                  pc |-> u.pc, shape |-> u.shape, record |-> u.record, params |-> u.params,
                  image |-> u.image, target |-> u.target]
      BY <1>1 DEF Stale, SameTask, Shape
    <2>2. Stale(p, u) =
             [page |-> u.page, last |-> u.last, cancelled |-> u.cancelled, stale |-> TRUE,
              pc |-> u.pc, shape |-> u.shape, record |-> u.record, params |-> u.params,
              image |-> u.image, target |-> u.target]
      BY <2>1
    <2>3. Shape(Stale(p, u))
      BY <2>2 DEF Shape
    <2> QED  BY <2>2, <2>3 DEF SameTask, Writing
  <1>2. CASE u.page # p
    BY <1>2 DEF Stale
  <1> QED  BY <1>1, <1>2

LEMMA TaskIsSame == ASSUME Domains PROVE SameTask(task, task)
  BY DEF Domains, SameTask

(* What is spent of one part of the budget leaves the others. *)
LEMMA Spent ==
    ASSUME Domains, NEW kind \in {"box", "output", "fault", "crash"}, Spend(kind)
    PROVE  /\ left' \in [{"box", "output", "fault", "crash"} -> Nat]
           /\ kind # "crash" => left'.crash = left.crash
           /\ kind = "crash" => left.crash > 0
  BY DEF Domains, Spend

-----------------------------------------------------------------------------
LEMMA InitIInv == Init => IInv
  <1> SUFFICES ASSUME Init PROVE IInv
    OBVIOUS
  <1>1. Domains
    BY FilterChainAssumption DEF Init, Domains, NoTask, Shape, At
  <1>2. Written /\ OutputIsCurrent
    BY DEF Init, Written, At, OutputIsCurrent
  <1> QED  BY <1>1, <1>2 DEF IInv

(* What the user does, files deleted apart, and the project saved. *)
LEMMA UserIsQuiet == ASSUME IInv, UserStep, \A p \in Pages : ~DeleteFile(p) PROVE Quiet
  <1> USE DEF IInv
  <1>0. Domains /\ SameTask(task, task) /\ SameTask(task, Cancelled)
    BY CancelledIsSame, TaskIsSame
  <1>1. ASSUME NEW p \in Pages, SelectPage(p) PROVE Quiet
    BY <1>0, <1>1 DEF SelectPage, settings, ghosts, Quiet, Domains
  <1>2. ASSUME NEW p \in Pages, StartBatchProcessing(p) PROVE Quiet
    BY <1>0, <1>2 DEF StartBatchProcessing, settings, Quiet, Domains
  <1>3. ASSUME NEW p \in Pages, Regenerate(p) PROVE Quiet
    <2>1. \E kind \in {"box", "output"} : Spend(kind)
      BY <1>3 DEF Regenerate, Edit
    <2> QED  BY <2>1, <1>0, <1>3, Spent DEF Regenerate, Quiet, Domains
  <1>4. ASSUME NEW s \in Stages, FilterSelectionChanged(s) PROVE Quiet
    BY <1>0, <1>4 DEF FilterSelectionChanged, Quiet, Domains
  <1>5. ASSUME StopBatchProcessing PROVE Quiet
    BY <1>0, <1>5 DEF StopBatchProcessing, settings, Quiet, Domains
  <1>6. ASSUME NEW p \in Pages, NEW shape \in Sizes, ChangeGeometry(p, shape) PROVE Quiet
    <2>1. SameTask(task, Stale(p, task))
      BY <1>0, StaleIsSame
    <2> QED  BY <2>1, <1>0, <1>6, Spent DEF ChangeGeometry, Edit, Quiet, Domains
  <1>7. ASSUME NEW size \in Sizes, ManualContentRectSet(size) PROVE Quiet
    <2>1. SameTask(task, Stale(leader, task))
      BY <1>0, StaleIsSame
    <2> QED  BY <2>1, <1>0, <1>7, Spent DEF ManualContentRectSet, SetContent, Edit, Quiet, Domains
  <1>8. ASSUME AutoMode PROVE Quiet
    <2>1. SameTask(task, Stale(leader, Cancelled))
      BY <1>0, StaleIsSame
    <2> QED  BY <2>1, <1>0, <1>8, Spent DEF AutoMode, SetContent, Edit, Quiet, Domains
  <1>9. ASSUME NEW p \in Pages, NEW mode, NEW size, NEW box, ApplySelection(p, mode, size, box)
        PROVE  Quiet
    <2>1. SameTask(task, Stale(p, task))
      BY <1>0, StaleIsSame
    <2> QED  BY <2>1, <1>0, <1>9, Spent DEF ApplySelection, SetContent, Edit, Quiet, Domains
  <1>10. ASSUME NEW p \in Pages, NEW aligned \in BOOLEAN, SetPageAlignment(p, aligned) PROVE Quiet
    BY <1>0, <1>10, Spent DEF SetPageAlignment, Edit, Quiet, Domains
  <1>11. ASSUME NEW mode \in Modes, ModeSelectorIndexChanged(mode) PROVE Quiet
    BY <1>0, <1>11, Spent DEF ModeSelectorIndexChanged, SetParams, Edit, Quiet, Domains
  <1>12. ASSUME NEW p \in Pages, NEW mode \in Modes, ApplyColorsConfirmed(p, mode) PROVE Quiet
    BY <1>0, <1>12, Spent DEF ApplyColorsConfirmed, SetParams, Edit, Quiet, Domains
  <1> QED  BY <1>1, <1>2, <1>3, <1>4, <1>5, <1>6, <1>7, <1>8, <1>9, <1>10, <1>11, <1>12
           DEF UserStep

LEMMA SaveIsQuiet == ASSUME IInv, Save PROVE Quiet
  <1> DEFINE own == [p \in Pages |-> stored[p]]
  <1>1. saved'.stored = stored /\ stored = own
    BY DEF Save, IInv, Domains
  <1> QED  BY <1>1, TaskIsSame DEF IInv, Save, settings, control, ghosts, Quiet, Domains

(* The steps of the task that leave the output alone. *)
LEMMA EarlyIsQuiet ==
    ASSUME IInv, \/ TaskTaken \/ ThrowIfCancelled \/ SelectRead \/ SelectStore \/ SelectDone
                 \/ PageLayout \/ OutputRead \/ FilterResult
    PROVE  Quiet
  <1> SUFFICES /\ UNCHANGED <<file, stored, suspect, left, saved>>
               /\ SameTask(task, task')
    BY DEF IInv, Domains, Quiet
  <1> USE DEF IInv, Domains, At, Goto, Unless, Checks, SameTask, Writing, Shape, settings, control,
              ghosts
  <1>1. CASE TaskTaken
    BY <1>1 DEF TaskTaken, NewTask, NoTask
  <1>2. CASE ThrowIfCancelled
    BY <1>2 DEF ThrowIfCancelled, NoTask
  <1>3. CASE SelectRead
    BY <1>3 DEF SelectRead
  <1>4. CASE SelectStore
    BY <1>4 DEF SelectStore, NoTask
  <1>5. CASE SelectDone
    BY <1>5 DEF SelectDone
  <1>6. CASE PageLayout
    BY <1>6 DEF PageLayout, NoTask
  <1>7. CASE OutputRead
    BY <1>7 DEF OutputRead
  <1>8. CASE FilterResult
    BY <1>8 DEF FilterResult, NoTask
  <1> QED  BY <1>1, <1>2, <1>3, <1>4, <1>5, <1>6, <1>7, <1>8

-----------------------------------------------------------------------------
(* The steps that are not quiet. *)
LEMMA DeleteFileStep == ASSUME IInv, NEW p \in Pages, DeleteFile(p) PROVE IInv'
  <1> USE DEF IInv, DeleteFile, Edit, settings, control
  <1>1. Domains'
    BY Spent DEF Domains, Shape, At
  <1>2. Written'
    BY DEF Written, At, Domains
  <1>3. OutputIsCurrent'
    BY DEF OutputIsCurrent, Domains
  <1> QED  BY <1>1, <1>2, <1>3

(* What is left of a task when the project is closed writes a file at most. *)
LEMMA ClosedTaskIs ==
    ASSUME Domains, NEW t \in {NoTask, TaskOfClosed}
    PROVE  /\ Shape(t) /\ t.pc \in Away /\ t.page = None
           /\ t.pc = "none" => t = NoTask
           /\ t.pc = "closed" => IF At("closed") THEN t = task ELSE t.cancelled /\ ~t.stale
  <1>1. CASE t = NoTask
    BY <1>1 DEF NoTask, Shape
  <1>2. CASE t = TaskOfClosed /\ At("closed")
    BY <1>2 DEF TaskOfClosed, Domains, At
  <1>3. CASE t = TaskOfClosed /\ ~At("closed")
    BY <1>3 DEF TaskOfClosed, NoTask, Shape, At
  <1> QED  BY <1>1, <1>2, <1>3

LEMMA CrashStep == ASSUME IInv, CrashAndReopen PROVE IInv'
  <1> USE DEF IInv, CrashAndReopen
  <1>0. Shape(task') /\ task'.pc \in Away /\ task'.page = None
    BY ClosedTaskIs
  <1>1. Domains'
    BY <1>0, Spent DEF Domains, At
  <1>2. Written'
    BY <1>0 DEF Written, At
  <1>3. OutputIsCurrent'
    BY <1>0, FilterChainAssumption DEF OutputIsCurrent, Pages
  <1> QED  BY <1>1, <1>2, <1>3

(* A file of a closed project is written: the page is suspected. *)
LEMMA ClosedTaskEndsStep == ASSUME IInv, ClosedTaskEnds PROVE IInv'
  <1> USE DEF IInv, ClosedTaskEnds, settings
  <1>1. PICK written :
            /\ file' = [file EXCEPT ![task.target] = written]
            /\ suspect' = IF /\ stored[task.target] # None
                             /\ written \notin {None, stored[task.target]}
                          THEN suspect \cup {task.target} ELSE suspect
    OBVIOUS
  <1>2. task' = NoTask /\ UNCHANGED <<stored, left, saved>> /\ ~Writing(task)
    BY DEF At, Writing
  <1>3. Domains'
    BY <1>1, <1>2 DEF Domains, NoTask, Shape, At
  <1>4. Written'
    BY <1>2 DEF Written, At, NoTask
  <1>5. OutputIsCurrent'
    <2> SUFFICES ASSUME NEW p \in Pages \ suspect', stored[p] # None, file'[p] # None
                 PROVE  file'[p] = stored[p]
      BY <1>2 DEF OutputIsCurrent, NoTask
    <2>1. CASE p = task.target
      BY <1>1, <2>1 DEF Domains
    <2>2. CASE p # task.target
      BY <1>1, <1>2, <2>2 DEF Domains, OutputIsCurrent, Writing
    <2> QED  BY <2>1, <2>2
  <1> QED  BY <1>3, <1>4, <1>5

(* A file taken over is the image that was wanted, because it is the one the
   stored parameters tell of. *)
LEMMA OutputCompareStep == ASSUME IInv, OutputCompare PROVE IInv'
  <1> USE DEF IInv
  <1>0. UNCHANGED <<stored, file, saved, left, suspect>>
    BY DEF OutputCompare, ghosts
  <1>1. /\ Shape(task') /\ ~Writing(task) /\ ~Writing(task')
        /\ task'.pc \in Away => task'.page = None
        /\ task'.pc = "done" => /\ UpToDate(task.page, task.image)
                                /\ task'.page = task.page /\ task'.image = task.image
    BY DEF OutputCompare, Goto, Unless, Checks, NoTask, At, Domains, Shape, Writing
  <1>2. Domains'
    BY <1>0, <1>1 DEF Domains, At
  <1>3. Written'
    BY <1>1 DEF Written, At, Writing
  <1>4. OutputIsCurrent'
    <2> SUFFICES ASSUME NEW p \in Pages \ suspect, stored[p] # None, file[p] # None
                 PROVE  /\ file[p] = stored[p]
                        /\ task'.page = p /\ task'.pc = "done" => file[p] = task'.image
      BY <1>0 DEF OutputIsCurrent
    <2>1. file[p] = stored[p]
      <3>1. ~(task.page = p /\ task.pc \in {"written", "failed"})
        BY <1>1 DEF Writing
      <3> QED  BY <3>1 DEF OutputIsCurrent
    <2>2. ASSUME task'.page = p, task'.pc = "done" PROVE stored[p] = task'.image
      BY <2>2, <1>1 DEF UpToDate
    <2> QED  BY <2>1, <2>2
  <1> QED  BY <1>2, <1>3, <1>4

LEMMA GenerateStep == ASSUME IInv, Generated \/ GenerateFailed PROVE IInv'
  <1> USE DEF IInv
  <1>1. PICK written :
            \/ Generate(written, TRUE) /\ written = task.image
            \/ Generate(written, FALSE)
    <2>1. CASE Generated
      BY <2>1 DEF Generated
    <2>2. CASE GenerateFailed
      BY <2>2 DEF GenerateFailed
    <2> QED  BY <2>1, <2>2
  <1>2. left' \in [{"box", "output", "fault", "crash"} -> Nat] /\ left'.crash = left.crash
    <2>1. CASE Generated
      <3>1. left' = left
        BY <2>1 DEF Generated
      <3> QED  BY <3>1 DEF Domains
    <2>2. CASE GenerateFailed
      <3>1. Spend("fault")
        BY <2>2 DEF GenerateFailed
      <3> QED  BY <3>1, Spent
    <2> QED  BY <2>1, <2>2
  <1>3. /\ Shape(task') /\ Writing(task') /\ ~Writing(task)
        /\ task'.page = task.page /\ task'.image = task.image
        /\ task'.pc = "written" => written = task.image
        /\ file' = [p \in Pages |-> IF p = task.page THEN written ELSE file[p]]
        /\ UNCHANGED <<stored, suspect, saved>>
    BY <1>1 DEF Generate, At, Domains, Shape, Writing, settings
  <1>4. Domains'
    BY <1>2, <1>3 DEF Domains, At, Writing
  <1>5. Written'
    BY <1>1, <1>3 DEF Written, At
  <1>6. OutputIsCurrent'
    BY <1>3 DEF OutputIsCurrent, Writing
  <1> QED  BY <1>4, <1>5, <1>6

LEMMA SetOutputParamsStep == ASSUME IInv, SetOutputParams PROVE IInv'
  <1> USE DEF IInv, SetOutputParams
  <1>1. /\ Shape(task') /\ Writing(task) /\ ~Writing(task')
        /\ task'.pc \in Away => task'.page = None
        /\ task'.pc = "done" => task'.page = task.page /\ task'.image = task.image
        /\ task'.pc \in {"none", "done"}
    BY DEF Goto, Unless, Checks, NoTask, At, Domains, Shape, Writing
  <1>2. \A p \in Pages :
            \/ p # task.page /\ stored'[p] = stored[p]
            \/ p = task.page /\ stored'[p] = None
            \/ p = task.page /\ stored'[p] = task.image /\ file[p] \in {None, task.image}
    BY DEF Domains, Written, At
  <1>3. Domains'
    BY <1>1 DEF Domains, At
  <1>4. Written'
    BY <1>1 DEF Written, At, Writing
  <1>5. OutputIsCurrent'
    <2> SUFFICES ASSUME NEW p \in Pages \ suspect', stored'[p] # None, file[p] # None
                 PROVE  /\ file[p] = stored'[p]
                        /\ task'.page = p /\ task'.pc = "done" => file[p] = task'.image
      BY DEF OutputIsCurrent
    <2>1. CASE p # task.page
      <3>1. p \notin suspect /\ stored'[p] = stored[p]
        BY <2>1, <1>2
      <3>2. ~(task'.page = p /\ task'.pc = "done")
        BY <2>1, <1>1
      <3> QED  BY <2>1, <3>1, <3>2 DEF OutputIsCurrent
    <2>2. CASE p = task.page
      BY <2>2, <1>1, <1>2
    <2> QED  BY <2>1, <2>2
  <1> QED  BY <1>3, <1>4, <1>5

LEMMA StepIInv == IInv /\ [Next]_vars => IInv'
  <1> SUFFICES ASSUME IInv, [Next]_vars PROVE IInv'
    OBVIOUS
  <1>1. CASE UNCHANGED vars
    BY <1>1, QuietStep, TaskIsSame DEF vars, settings, control, ghosts, IInv, Quiet, Domains
  <1>2. CASE TaskStep
    BY <1>2, QuietStep, EarlyIsQuiet, OutputCompareStep, GenerateStep, SetOutputParamsStep
       DEF TaskStep
  <1>3. CASE UserStep
    <2>1. CASE \E p \in Pages : DeleteFile(p)
      BY <2>1, DeleteFileStep
    <2> QED  BY <2>1, <1>3, QuietStep, UserIsQuiet
  <1>4. CASE Save
    BY <1>4, QuietStep, SaveIsQuiet
  <1>5. CASE CrashAndReopen
    BY <1>5, CrashStep
  <1>6. CASE ClosedTaskEnds
    BY <1>6, ClosedTaskEndsStep
  <1> QED  BY <1>1, <1>2, <1>3, <1>4, <1>5, <1>6 DEF Next

LEMMA AlwaysIInv == Spec => []IInv
  BY InitIInv, StepIInv, PTL DEF Spec

(* An output file is what its stored parameters say, and what the task that
   ends with it wanted (output::Task::process). *)
THEOREM FilesDescribed == Spec => []OutputIsCurrent
  <1>1. IInv => OutputIsCurrent
    BY DEF IInv
  <1> QED  BY <1>1, AlwaysIInv, PTL

-----------------------------------------------------------------------------
(* The sizes.  SizesFinal says what a page would come out with; inductive    *)
(* is what makes it so: the box of a page that is laid out needs not to be   *)
(* found again (Laid).  A task carries a box through three steps, and as     *)
(* long as nobody edits the page it is the one in the settings, but for the  *)
(* request to regenerate it (Carried).                                       *)

Items == [size : Sizes \cup {Invalid}, aligned : BOOLEAN]
Params == [mode : Modes, regen : BOOLEAN]

Alike(a, b) ==
    \/ a = None /\ b = None
    \/ /\ a \in Boxes /\ b \in Boxes
       /\ a.deps = b.deps /\ a.mode = b.mode /\ a.size = b.size

Carrying(t) == t.pc \in {"store", "check", "layout"}

SettingTypes ==
    /\ geometry \in [Pages -> Sizes]
    /\ content \in [Pages -> Boxes \cup {None}]
    /\ layout \in [Pages -> Items \cup {None}]
    /\ params \in [Pages -> Params]
    /\ left.crash > 0 => /\ saved.geometry \in [Pages -> Sizes]
                         /\ saved.content \in [Pages -> Boxes \cup {None}]
                         /\ saved.layout \in [Pages -> Items \cup {None}]
                         /\ saved.params \in [Pages -> Params]

ControlTypes ==
    /\ stage \in Stages /\ leader \in Pages /\ posted \in Pages \cup {None}
    /\ disturbed \subseteq Pages

TaskTypes ==
    /\ task.pc \notin Away => task.page \in Pages
    /\ At("store") => task.record \in Boxes \cup {None} /\ task.shape \in Sizes
    /\ At("check") \/ At("layout") => task.record \in Boxes
    /\ At("compare") => task.params \in Params
    /\ task.pc \in {"output", "reread", "compare", "generate", "written"} => task.image \in Images

Carried ==
    /\ task.stale => task.page \in disturbed
    /\ Carrying(task) /\ ~task.stale =>
          /\ Alike(task.record, content[task.page])
          /\ IF At("store") THEN task.shape = geometry[task.page]
                            ELSE task.record.deps = geometry[task.page]

Laid ==
    stage \in BelowContent =>
        \A p \in Pages \ disturbed :
            Defined(layout, p) => Collected(p) /\ layout[p].size = content[p].size

Checked ==
    /\ task.cancelled => task.pc \notin Checks
    /\ At("closed") => task.cancelled

After(p) == {q \in Pages : q > p}

(* The rest of a batch, and one that was cleared when the stage was changed. *)
Continues ==
    IF posted = None THEN ~At("none") /\ ~task.cancelled /\ queue = After(task.page)
                     ELSE (At("none") \/ task.cancelled) /\ queue = After(posted)
Cleared == posted = None /\ queue = {} /\ ~clean /\ (At("none") \/ task.cancelled)

Queued == batch => Continues \/ Cleared

Matched(p) ==
    layout[p].aligned => file[p] # None /\ file[p].page = Aggregate(layout)

BatchTask ==
    /\ ~At("failed") /\ task.last = "output"
    /\ \A p \in Pages : p < task.page => Matched(p)
    /\ task.pc \in {"output", "reread", "compare", "generate", "written", "done"} /\ layout[task.page].aligned
          => task.image.page = Aggregate(layout)
    /\ task.pc \in {"written", "done"} =>
          file[task.page] # None /\ file[task.page].page = task.image.page

BatchPosted ==
    /\ At("none") \/ posted = 1
    /\ \A p \in Pages : p < posted => Matched(p)

Uniform ==
    clean /\ batch =>
        /\ stage = "output" /\ disturbed = {}
        /\ \A p \in Pages : Defined(layout, p)
        /\ posted = None => BatchTask
        /\ posted # None => BatchPosted

SInv == SettingTypes /\ ControlTypes /\ TaskTypes /\ Checked /\ Queued /\ Carried /\ Laid

-----------------------------------------------------------------------------
(* Neither the boxes nor the layout change, and the task carries the box it
   carried, or none. *)
SameBox(t, u) ==
    \/ u = t
    \/ u.pc \in Away /\ u.page = None /\ ~u.stale
    \/ /\ t.pc # "none" /\ u.page = t.page /\ u.stale = t.stale
       /\ Carrying(u) => u.pc = t.pc /\ u.record = t.record /\ u.shape = t.shape

Steady ==
    /\ UNCHANGED <<geometry, content, layout, stage, disturbed>>
    /\ SameBox(task, task')

LEMMA SteadyStep == ASSUME SInv, Steady PROVE Carried' /\ Laid'
  <1> USE DEF SInv, Steady
  <1>1. Carried'
    BY DEF Carried, SameBox, Carrying, At
  <1>2. Laid'
    BY DEF Laid, Defined, Collected
  <1> QED  BY <1>1, <1>2

LEMMA CancelledKeeps ==
    ASSUME Domains
    PROVE  \/ Cancelled = NoTask
           \/ /\ SameBox(task, Cancelled) /\ Cancelled.cancelled /\ Cancelled.pc = task.pc
              /\ Cancelled.pc \notin Checks
              /\ Cancelled.page = task.page /\ Cancelled.params = task.params
              /\ Cancelled.image = task.image
              /\ Cancelled.last = task.last
              /\ Cancelled.record = task.record /\ Cancelled.shape = task.shape
  BY DEF Domains, Shape, Cancelled, Unless, NoTask, Checks, SameBox, Carrying, At

LEMMA CancelledTypes ==
    ASSUME Domains, TaskTypes, task' = Cancelled
    PROVE  TaskTypes' /\ SameBox(task, task') /\ Checked'
  BY CancelledKeeps DEF TaskTypes, Checked, At, NoTask, SameBox, Checks

LEMMA LoadTypes ==
    ASSUME NEW p \in Pages, NEW s, NEW items, LoadPageInteractive(p, s, items)
    PROVE  leader' \in Pages /\ posted' \in Pages \cup {None}
  BY FilterChainAssumption DEF LoadPageInteractive, Pages

LEMMA SettingsKept ==
    ASSUME SInv, UNCHANGED settings, UNCHANGED saved, left'.crash = left.crash
    PROVE  SettingTypes'
  BY DEF SInv, SettingTypes, settings

(* The user turns to another page, starts a batch or stops it. *)
LEMMA PageSteps ==
    ASSUME SInv, Domains, NEW p \in Pages,
           SelectPage(p) \/ StartBatchProcessing(p) \/ StopBatchProcessing
    PROVE  SInv'
  <1>1. TaskTypes' /\ Checked' /\ SameBox(task, task') /\ task' = Cancelled
    BY CancelledTypes DEF SInv, SelectPage, StartBatchProcessing, StopBatchProcessing
  <1>2. SettingTypes'
    BY SettingsKept DEF SelectPage, StartBatchProcessing, StopBatchProcessing
  <1>3. Carried' /\ Laid'
    <2>1. Steady
      BY <1>1 DEF SelectPage, StartBatchProcessing, StopBatchProcessing, Steady, settings, ghosts
    <2> QED  BY <2>1, SteadyStep
  <1>4. ControlTypes' /\ Queued'
    <2>1. CASE SelectPage(p)
      <3>1. leader' \in Pages /\ posted' \in Pages \cup {None}
        BY <2>1, LoadTypes DEF SelectPage
      <3> QED  BY <2>1, <3>1 DEF SelectPage, SInv, ControlTypes, Queued, Continues, Cleared, ghosts
    <2>2. CASE StartBatchProcessing(p)
      <3>1. posted' \in Pages /\ posted' # None /\ leader' = posted' /\ queue' = After(posted)'
        BY <2>2, FilterChainAssumption DEF StartBatchProcessing, After, Pages
      <3>2. task'.pc = "none" \/ task'.cancelled
        BY <1>1, CancelledKeeps DEF NoTask
      <3> QED  BY <2>2, <3>1, <3>2
               DEF StartBatchProcessing, SInv, ControlTypes, Queued, Continues, Cleared, At
    <2>3. CASE StopBatchProcessing
      <3>1. leader' \in Pages /\ posted' \in Pages \cup {None}
        BY <2>3, LoadTypes DEF StopBatchProcessing, SInv, ControlTypes
      <3> QED  BY <2>3, <3>1 DEF StopBatchProcessing, SInv, ControlTypes, Queued, Continues, Cleared
    <2> QED  BY <2>1, <2>2, <2>3
  <1> QED  BY <1>1, <1>2, <1>3, <1>4 DEF SInv

(* WithSize makes an item of the size, and leaves the others. *)
LEMMA WithSizeIs ==
    ASSUME NEW items \in [Pages -> Items \cup {None}], NEW p \in Pages,
           NEW size \in Sizes \cup {Invalid}
    PROVE  /\ WithSize(items, p, size) \in [Pages -> Items \cup {None}]
           /\ WithSize(items, p, size)[p] \in Items
           /\ WithSize(items, p, size)[p].size = size
           /\ items[p] # None => WithSize(items, p, size)[p].aligned = items[p].aligned
           /\ \A q \in Pages \ {p} : WithSize(items, p, size)[q] = items[q]
  <1> DEFINE item == IF items[p] = None THEN Item(size) ELSE [items[p] EXCEPT !.size = size]
  <1>1. item \in Items /\ item.size = size /\ (items[p] # None => item.aligned = items[p].aligned)
    BY DEF Item, Items
  <1>2. WithSize(items, p, size) = [items EXCEPT ![p] = item]
    BY DEF WithSize
  <1> QED  BY <1>1, <1>2

LEMMA PropagatedIs ==
    ASSUME SettingTypes
    PROVE  /\ Propagated \in [Pages -> Items \cup {None}]
           /\ \A p \in Pages : Defined(Propagated, p) =>
                 Collected(p) /\ Propagated[p].size = content[p].size
  <1> SUFFICES ASSUME NEW p \in Pages
               PROVE  /\ Propagated[p] \in Items \cup {None}
                      /\ Defined(Propagated, p) =>
                            Collected(p) /\ Propagated[p].size = content[p].size
    BY DEF Propagated
  <1>1. CASE Collected(p)
    <2>1. content[p].size \in Sizes /\ Propagated[p] = WithSize(layout, p, content[p].size)[p]
      BY <1>1 DEF Propagated, Collected, SettingTypes, Boxes
    <2> QED  BY <1>1, <2>1, WithSizeIs DEF SettingTypes
  <1>2. CASE ~Collected(p) /\ layout[p] # None
    <2>1. Propagated[p] = [layout[p] EXCEPT !.size = Invalid]
      BY <1>2 DEF Propagated
    <2>2. Propagated[p] \in Items /\ Propagated[p].size = Invalid
      BY <1>2, <2>1 DEF SettingTypes, Items
    <2> QED  BY <2>2 DEF Defined
  <1>3. CASE ~Collected(p) /\ layout[p] = None
    <2>1. Propagated[p] = None
      BY <1>3 DEF Propagated
    <2> QED  BY <2>1 DEF Defined
  <1> QED  BY <1>1, <1>2, <1>3

(* What is handed to the layout when the user goes below "Select Content" is
   what Laid asks for, on every page but the one a task is at. *)
LEMMA FilterSelectionChangedStep ==
    ASSUME SInv, Domains, NEW s \in Stages, FilterSelectionChanged(s)
    PROVE  SInv'
  <1> USE DEF SInv
  <1>0. UNCHANGED <<geometry, content, params, saved, left>> /\ stage' = s /\ task' = Cancelled
    BY DEF FilterSelectionChanged
  <1>1. TaskTypes' /\ Checked' /\ SameBox(task, task')
    BY <1>0, CancelledTypes
  <1>2. SettingTypes'
    BY <1>0, PropagatedIs DEF FilterSelectionChanged, SettingTypes
  <1>3. ControlTypes' /\ Queued'
    <2>1. leader' \in Pages /\ posted' \in Pages \cup {None}
      BY LoadTypes DEF FilterSelectionChanged, ControlTypes
    <2>2. ControlTypes'
      BY <1>0, <2>1 DEF FilterSelectionChanged, ControlTypes
    <2>3. task'.pc = "none" \/ task'.cancelled
      BY <1>0, CancelledKeeps DEF NoTask
    <2> QED  BY <2>2, <2>3 DEF FilterSelectionChanged, Queued, Cleared, At
  <1>4. Carried'
    <2>1. disturbed' = disturbed \/ disturbed' = {p \in disturbed : task.page = p}
      BY DEF FilterSelectionChanged
    <2> QED  BY <1>0, <1>1, <2>1 DEF Carried, SameBox, Carrying, At
  <1>5. Laid'
    <2>1. CASE stage \notin BelowContent /\ s \in BelowContent
      BY <1>0, <2>1, PropagatedIs DEF FilterSelectionChanged, Laid, Collected, Defined
    <2>2. CASE ~(stage \notin BelowContent /\ s \in BelowContent)
      BY <1>0, <2>2 DEF FilterSelectionChanged, Laid, Collected, Defined
    <2> QED  BY <2>1, <2>2
  <1> QED  BY <1>1, <1>2, <1>3, <1>4, <1>5

-----------------------------------------------------------------------------
(* A task told that its box was changed is otherwise as it was. *)
LEMMA StaleKeeps ==
    ASSUME NEW p, NEW t, Shape(t)
    PROVE  /\ Stale(p, t).page = t.page /\ Stale(p, t).pc = t.pc
           /\ Stale(p, t).record = t.record /\ Stale(p, t).shape = t.shape
           /\ Stale(p, t).params = t.params /\ Stale(p, t).cancelled = t.cancelled
           /\ Stale(p, t).last = t.last /\ Stale(p, t).image = t.image
           /\ t.page = p => Stale(p, t).stale
           /\ t.page # p => Stale(p, t).stale = t.stale
  <1>1. CASE t.page = p
    <2>1. Stale(p, t) = [t EXCEPT !.stale = TRUE]
      BY <1>1 DEF Stale
    <2> QED  BY <1>1, <2>1 DEF Shape
  <1>2. CASE t.page # p
    BY <1>2 DEF Stale
  <1> QED  BY <1>1, <1>2

(* The settings of a page, other than those of its layout, are changed: the
   task that is at it is told, and the page is disturbed where somebody could
   still count on it. *)
Unsettled(p, u) ==
    /\ \A q \in Pages \ {p} : content'[q] = content[q] /\ geometry'[q] = geometry[q]
    /\ UNCHANGED <<layout, stage>>
    /\ Disturbs(p)
    /\ task' = Stale(p, u) /\ Shape(u) /\ SameBox(task, u)

LEMMA UnsettledStep ==
    ASSUME SInv, Domains, NEW p \in Pages, NEW u, Unsettled(p, u)
    PROVE  Carried' /\ Laid' /\ disturbed' \subseteq Pages
  <1> USE DEF SInv, Unsettled
  <1>1. disturbed \subseteq disturbed' /\ disturbed' \subseteq Pages
    BY DEF Disturbs, ControlTypes
  <1>2. Carried'
    <2>1. CASE u.page = p
      <3>1. task'.stale /\ task'.page = p
        BY <2>1, StaleKeeps
      <3>2. task.page = p
        BY <2>1, FilterChainAssumption DEF SameBox, Pages
      <3> QED  BY <3>1, <3>2 DEF Disturbs, Carried
    <2>2. CASE u.page # p
      <3>1. task' = u
        BY <2>2 DEF Stale
      <3>2. Carrying(task') => ~At("none") /\ task'.page \in Pages
        BY <3>1, <2>2 DEF SameBox, Carrying, TaskTypes, At
      <3> QED  BY <1>1, <2>2, <3>1, <3>2 DEF Carried, SameBox, Carrying, At
    <2> QED  BY <2>1, <2>2
  <1>3. Laid'
    <2>1. stage \in BelowContent => p \in disturbed'
      BY DEF Disturbs
    <2> QED  BY <1>1, <2>1 DEF Laid, Collected, Defined
  <1> QED  BY <1>1, <1>2, <1>3

LEMMA ChangeGeometryStep ==
    ASSUME SInv, Domains, NEW p \in Pages, NEW shape \in Sizes, ChangeGeometry(p, shape)
    PROVE  SInv'
  <1> USE DEF SInv
  <1>1. Carried' /\ Laid' /\ disturbed' \subseteq Pages
    <2>1. Unsettled(p, task)
      BY DEF ChangeGeometry, Unsettled, control, Domains, SameBox, SettingTypes
    <2> QED  BY <2>1, UnsettledStep
  <1>2. SettingTypes'
    BY Spent DEF ChangeGeometry, Edit, SettingTypes
  <1>3. ControlTypes'
    BY <1>1 DEF ChangeGeometry, control, ControlTypes
  <1>4. TaskTypes' /\ Checked' /\ Queued'
    BY StaleKeeps DEF ChangeGeometry, Edit, control, TaskTypes, Checked, Queued, Continues,
                      Cleared, At, Domains
  <1> QED  BY <1>1, <1>2, <1>3, <1>4

(* Every other change of a box goes through SetContent. *)
LEMMA SetContentStep ==
    ASSUME SInv, Domains, NEW p \in Pages, NEW record \in Boxes, SetContent(p, record),
           stage' = stage, left'.crash = left.crash,
           NEW u, u = task \/ u = Cancelled, task' = Stale(p, u)
    PROVE  SettingTypes' /\ TaskTypes' /\ Checked' /\ Carried' /\ Laid' /\ disturbed' \subseteq Pages
  <1> USE DEF SInv
  <1>0. Shape(u) /\ SameBox(task, u)
    <2>1. SameTask(task, task) /\ SameTask(task, Cancelled)
      BY CancelledIsSame, TaskIsSame
    <2>2. SameBox(task, Cancelled)
      BY CancelledKeeps DEF SameBox, NoTask
    <2> QED  BY <2>1, <2>2 DEF SameTask, SameBox
  <1>1. Unsettled(p, u)
    BY <1>0 DEF SetContent, Unsettled, SettingTypes
  <1>2. Carried' /\ Laid' /\ disturbed' \subseteq Pages
    BY <1>1, UnsettledStep
  <1>3. SettingTypes'
    BY DEF SetContent, SettingTypes
  <1>4. /\ u.pc \notin Away => u.page \in Pages
        /\ u.pc = "store" => u.record \in Boxes \cup {None} /\ u.shape \in Sizes
        /\ u.pc \in {"check", "layout"} => u.record \in Boxes
        /\ u.pc = "compare" => u.params \in Params
        /\ u.pc \in {"output", "reread", "compare", "generate", "written"} => u.image \in Images
        /\ u.cancelled => u.pc \notin Checks
        /\ u.pc = "closed" => u.cancelled
    <2>1. CASE u = task
      BY <2>1 DEF TaskTypes, Checked, At
    <2>2. CASE u = Cancelled
      BY <2>2, CancelledKeeps DEF TaskTypes, At, NoTask
    <2> QED  BY <2>1, <2>2
  <1>5. TaskTypes' /\ Checked'
    BY <1>0, <1>4, StaleKeeps DEF TaskTypes, Checked, At
  <1> QED  BY <1>2, <1>3, <1>5

LEMMA EditSteps ==
    ASSUME SInv, Domains,
           \/ \E size \in Sizes : ManualContentRectSet(size)
           \/ AutoMode
           \/ \E p \in Pages, mode \in {"auto", "manual"}, size \in Sizes, box \in BOOLEAN :
                  ApplySelection(p, mode, size, box)
    PROVE  SInv'
  <1>1. ASSUME NEW size \in Sizes, ManualContentRectSet(size) PROVE SInv'
    <2>1. Box(None, "manual", size) \in Boxes /\ leader \in Pages
      BY DEF Box, Boxes, SInv, ControlTypes
    <2>2. left'.crash = left.crash /\ UNCHANGED control
      BY <1>1, Spent DEF ManualContentRectSet, Edit
    <2>3. SettingTypes' /\ TaskTypes' /\ Checked' /\ Carried' /\ Laid' /\ disturbed' \subseteq Pages
      BY <1>1, <2>1, <2>2, SetContentStep DEF ManualContentRectSet, control
    <2>4. ControlTypes' /\ Queued'
      BY <1>1, <2>2, <2>3 DEF ManualContentRectSet, Edit, control, SInv, ControlTypes, Queued,
                              Continues, Cleared
    <2> QED  BY <2>3, <2>4 DEF SInv
  <1>2. ASSUME AutoMode PROVE SInv'
    <2>1. /\ Box(None, "auto", content[leader].size) \in Boxes /\ leader \in Pages
          /\ leader' \in Pages /\ posted' \in Pages \cup {None}
      BY <1>2, LoadTypes DEF AutoMode, Reload, Box, Boxes, SInv, ControlTypes, SettingTypes
    <2>2. left'.crash = left.crash
      BY <1>2, Spent DEF AutoMode, Edit
    <2>3. SettingTypes' /\ TaskTypes' /\ Checked' /\ Carried' /\ Laid' /\ disturbed' \subseteq Pages
      BY <1>2, <2>1, <2>2, SetContentStep DEF AutoMode, Reload
    <2>4. ControlTypes' /\ Queued'
      BY <1>2, <2>1, <2>3 DEF AutoMode, Reload, SInv, ControlTypes, Queued, Continues, Cleared
    <2> QED  BY <2>3, <2>4 DEF SInv
  <1>3. ASSUME NEW p \in Pages, NEW mode \in {"auto", "manual"}, NEW size \in Sizes,
               NEW box \in BOOLEAN, ApplySelection(p, mode, size, box)
        PROVE  SInv'
    <2> DEFINE record == Box(None, mode,
    IF content[p] # None /\ ~box THEN content[p].size ELSE size)
    <2>1. record \in Boxes /\ SetContent(p, record)
      BY <1>3 DEF ApplySelection, Box, Boxes, SInv, SettingTypes
    <2>2. left'.crash = left.crash /\ UNCHANGED control /\ task' = Stale(p, task) /\ ~clean'
      BY <1>3, Spent DEF ApplySelection, Edit
    <2>3. SettingTypes' /\ TaskTypes' /\ Checked' /\ Carried' /\ Laid' /\ disturbed' \subseteq Pages
      <3> HIDE DEF record
      <3> QED  BY <2>1, <2>2, SetContentStep DEF control
    <2>4. Queued'
      BY <2>2, StaleKeeps DEF SInv, control, Queued, Continues, Cleared, At, Domains
    <2>5. ControlTypes'
      BY <2>2, <2>3 DEF SInv, control, ControlTypes
    <2> QED  BY <2>3, <2>4, <2>5 DEF SInv
  <1> QED  BY <1>1, <1>2, <1>3

(* A page that is aligned, or not any more, keeps its size. *)
LEMMA SetPageAlignmentStep ==
    ASSUME SInv, Domains, NEW p \in Pages, NEW aligned \in BOOLEAN, SetPageAlignment(p, aligned)
    PROVE  SInv'
  <1> USE DEF SInv
  <1>0. /\ UNCHANGED <<geometry, content, params, saved, control, task, disturbed>>
        /\ left'.crash = left.crash /\ ~clean'
    BY Spent DEF SetPageAlignment, Edit
  <1> DEFINE item == IF layout[p] = None THEN [Item(Invalid) EXCEPT !.aligned = aligned]
                                         ELSE [layout[p] EXCEPT !.aligned = aligned]
  <1>1. item \in Items /\ item.size = IF layout[p] = None THEN Invalid ELSE layout[p].size
    BY DEF SettingTypes, Item, Items
  <1>2. layout' = [layout EXCEPT ![p] = item]
    BY DEF SetPageAlignment
  <1>3. SettingTypes'
    BY <1>0, <1>1, <1>2 DEF SettingTypes
  <1>4. Laid'
    <2>1. \A q \in Pages : Defined(layout', q) =>
              Defined(layout, q) /\ layout'[q].size = layout[q].size
      BY <1>1, <1>2, FilterChainAssumption DEF SettingTypes, Defined
    <2> QED  BY <1>0, <2>1 DEF Laid, Collected, control
  <1>5. ControlTypes' /\ TaskTypes' /\ Checked' /\ Queued' /\ Carried'
    BY <1>0 DEF control, ControlTypes, TaskTypes, Checked, Queued, Continues, Cleared, Carried,
                Carrying, At
  <1> QED  BY <1>3, <1>4, <1>5

LEMMA ParamsSteps ==
    ASSUME SInv, Domains, NEW p \in Pages, NEW mode \in Modes,
           ModeSelectorIndexChanged(mode) \/ ApplyColorsConfirmed(p, mode) \/ Regenerate(p)
    PROVE  SInv'
  <1> USE DEF SInv
  <1>0. left'.crash = left.crash /\ UNCHANGED <<geometry, layout, saved, disturbed, stage, batch, queue>>
    <2>1. \E kind \in {"box", "output"} : Spend(kind)
      BY DEF ModeSelectorIndexChanged, ApplyColorsConfirmed, Regenerate, Edit
    <2>2. left'.crash = left.crash
      BY <2>1, Spent
    <2> QED  BY <2>2 DEF ModeSelectorIndexChanged, ApplyColorsConfirmed, Regenerate, SetParams,
                         Reload, control
  <1>1. leader' \in Pages /\ posted' \in Pages \cup {None}
    BY LoadTypes DEF ModeSelectorIndexChanged, ApplyColorsConfirmed, Regenerate, Reload, control,
                     ControlTypes
  <1>2. SameBox(task, task') /\ TaskTypes' /\ Checked'
    <2>1. CASE task' = task
      BY <2>1 DEF SameBox, TaskTypes, Checked, At
    <2>2. CASE task' = Cancelled
      BY <2>2, CancelledTypes
    <2> QED  BY <2>1, <2>2
             DEF ModeSelectorIndexChanged, ApplyColorsConfirmed, Regenerate
  <1>3. ControlTypes' /\ Queued'
    <2>1. CASE ApplyColorsConfirmed(p, mode)
      BY <1>0, <2>1 DEF ApplyColorsConfirmed, Edit, control, ControlTypes, Queued, Continues,
                        Cleared, At
    <2>2. CASE ~batch
      BY <1>0, <1>1, <2>2 DEF ControlTypes, Queued, Continues, Cleared
    <2> QED  BY <2>1, <2>2 DEF ModeSelectorIndexChanged, Regenerate
  <1>4. params' \in [Pages -> Params]
    <2>1. leader \in Pages /\ params \in [Pages -> Params]
      BY DEF ControlTypes, SettingTypes
    <2>2. \A q \in Pages : /\ [params[q] EXCEPT !.mode = mode] \in Params
                           /\ [params[q] EXCEPT !.regen = TRUE] \in Params
      BY <2>1 DEF Params
    <2> QED  BY <2>1, <2>2
             DEF ModeSelectorIndexChanged, ApplyColorsConfirmed, Regenerate, SetParams
  <1>5. CASE content' = content
    <2>1. Carried' /\ Laid'
      BY <1>0, <1>2, <1>5, SteadyStep DEF Steady
    <2>2. SettingTypes'
      BY <1>0, <1>4, <1>5 DEF SettingTypes
    <2> QED  BY <1>2, <1>3, <2>1, <2>2
  <1>6. CASE content' # content
    <2>1. /\ stage = "content" /\ content[p] # None
          /\ content' = [content EXCEPT ![p].regen = TRUE]
      BY <1>6 DEF ModeSelectorIndexChanged, ApplyColorsConfirmed, Regenerate, SetParams
    <2>2. content[p] \in Boxes /\ [content[p] EXCEPT !.regen = TRUE] \in Boxes
      BY <2>1 DEF SettingTypes, Boxes
    <2>3. \A q \in Pages : Alike(content[q], content'[q])
      BY <2>1, <2>2 DEF SettingTypes, Alike, Boxes
    <2>4. Carried'
      BY <1>0, <1>2, <2>3 DEF Carried, SameBox, Carrying, At, Alike, TaskTypes
    <2>5. SettingTypes'
      BY <1>0, <1>4, <2>1, <2>2 DEF SettingTypes
    <2>6. Laid'
      BY <1>0, <2>1 DEF Laid, BelowContent
    <2> QED  BY <1>2, <1>3, <2>4, <2>5, <2>6
  <1> QED  BY <1>5, <1>6

LEMMA OutsideSteps ==
    ASSUME SInv, Domains, Save \/ CrashAndReopen \/ ClosedTaskEnds
                          \/ \E p \in Pages : DeleteFile(p)
    PROVE  SInv'
  <1> USE DEF SInv
  <1>1. CASE Save
    <2>1. /\ \A p \in Pages : content[p] # None => [content[p] EXCEPT !.regen = FALSE] \in Boxes
          /\ \A p \in Pages : [params[p] EXCEPT !.regen = FALSE] \in Params
      BY DEF SettingTypes, Boxes, Params
    <2>2. SettingTypes'
      BY <1>1, <2>1 DEF Save, SettingTypes, settings
    <2>3. ControlTypes' /\ TaskTypes' /\ Checked' /\ Queued'
      BY <1>1 DEF Save, control, ghosts, ControlTypes, TaskTypes, Checked, Queued, Continues,
                  Cleared, At
    <2>4. Carried' /\ Laid'
      BY <1>1, SteadyStep DEF Save, Steady, SameBox, settings, control, ghosts
    <2> QED  BY <2>2, <2>3, <2>4
  <1>2. CASE CrashAndReopen
    <2>1. left.crash > 0
      BY <1>2, Spent DEF CrashAndReopen
    <2>2. SettingTypes'
      BY <1>2, <2>1 DEF CrashAndReopen, SettingTypes
    <2>3. /\ task'.pc \in Away /\ ~task'.stale
          /\ task'.cancelled => task'.pc = "closed"
          /\ task'.pc = "closed" => task'.cancelled
      <3>1. At("closed") => task.cancelled /\ ~task.stale
        BY FilterChainAssumption DEF Domains, At, Carried, Checked, ControlTypes, Pages
      <3>2. task' \in {NoTask, TaskOfClosed}
        BY <1>2 DEF CrashAndReopen
      <3>3. CASE task'.pc = "closed"
        BY <3>1, <3>2, <3>3, ClosedTaskIs
      <3>4. CASE task'.pc # "closed"
        BY <3>2, <3>4, ClosedTaskIs DEF NoTask
      <3> QED  BY <3>3, <3>4
    <2>4. TaskTypes' /\ Checked' /\ Carried'
      BY <2>3 DEF TaskTypes, Checked, Checks, Carried, Carrying, At
    <2>5. ControlTypes' /\ Queued' /\ Laid'
      BY <1>2, FilterChainAssumption
         DEF CrashAndReopen, ControlTypes, Queued, Continues, Cleared, Laid, Stages, BelowContent,
             Pages
    <2> QED  BY <2>2, <2>4, <2>5
  <1>4. CASE ClosedTaskEnds
    <2>1. /\ UNCHANGED <<settings, saved, control, left, disturbed, clean>>
          /\ task' = NoTask /\ At("closed")
      BY <1>4 DEF ClosedTaskEnds
    <2>2. Carried' /\ Laid'
      BY <2>1, SteadyStep DEF Steady, SameBox, settings, control, NoTask
    <2>3. ControlTypes' /\ TaskTypes' /\ Checked' /\ Queued'
      BY <2>1 DEF control, ControlTypes, TaskTypes, Checked, Queued, Continues, Cleared, At, NoTask
    <2> QED  BY <2>1, <2>2, <2>3, SettingsKept
  <1>3. CASE \E p \in Pages : DeleteFile(p)
    <2>1. /\ UNCHANGED <<settings, saved, control, task, disturbed>> /\ left'.crash = left.crash
          /\ ~clean'
      BY <1>3, Spent DEF DeleteFile, Edit
    <2>2. Carried' /\ Laid'
      BY <2>1, SteadyStep DEF Steady, SameBox, settings, control
    <2>3. ControlTypes' /\ TaskTypes' /\ Checked' /\ Queued'
      BY <2>1 DEF control, ControlTypes, TaskTypes, Checked, Queued, Continues, Cleared, At
    <2> QED  BY <2>1, <2>2, <2>3, SettingsKept
  <1> QED  BY <1>1, <1>2, <1>3, <1>4

-----------------------------------------------------------------------------
(* The task.  A box that is not stale needs not to be found again once it is
   stored, and it is the one the layout is given. *)
LEMMA SelectSteps ==
    ASSUME SInv, Domains, TaskTaken \/ ThrowIfCancelled \/ SelectRead \/ SelectStore \/ SelectDone
    PROVE  SInv'
  <1> USE DEF SInv
  <1>1. ASSUME TaskTaken PROVE SInv'
    <2>1. posted \in Pages /\ task' = NewTask(posted) /\ posted' = None
      BY <1>1 DEF TaskTaken, ControlTypes
    <2>2. SettingTypes'
      BY <1>1, SettingsKept DEF TaskTaken
    <2>3. ControlTypes'
      BY <1>1 DEF TaskTaken, ghosts, ControlTypes
    <2>4. TaskTypes' /\ Checked' /\ Carried'
      BY <2>1 DEF TaskTypes, Checked, Carried, Carrying, At, NewTask, NoTask
    <2>5. Queued'
      BY <1>1, <2>1, FilterChainAssumption DEF TaskTaken, Queued, Continues, Cleared, At, NewTask,
                                               NoTask, After
    <2>6. Laid'
      BY <1>1 DEF TaskTaken, settings, ghosts, Laid, Collected, Defined
    <2> QED  BY <2>2, <2>3, <2>4, <2>5, <2>6
  <1>2. ASSUME ThrowIfCancelled PROVE SInv'
    <2>1. SettingTypes'
      BY <1>2, SettingsKept DEF ThrowIfCancelled
    <2>2. ControlTypes' /\ TaskTypes' /\ Checked' /\ Queued'
      BY <1>2 DEF ThrowIfCancelled, control, ghosts, ControlTypes, TaskTypes, Checked, Queued,
                  Continues, Cleared, At, NoTask
    <2>3. Carried' /\ Laid'
      BY <1>2, SteadyStep DEF ThrowIfCancelled, Steady, SameBox, settings, control, ghosts, NoTask
    <2> QED  BY <2>1, <2>2, <2>3
  <1>3. ASSUME SelectRead PROVE SInv'
    <2> DEFINE p == task.page
    <2>1. p \in Pages
      BY <1>3 DEF SelectRead, At, TaskTypes
    <2>2. /\ task'.pc = "store" /\ task'.page = p /\ task'.shape = geometry[p]
          /\ task'.record = content[p] /\ task'.stale = task.stale
          /\ task'.cancelled = task.cancelled
      BY <1>3 DEF SelectRead, Domains, Shape
    <2>3. /\ content' \in [Pages -> Boxes \cup {None}]
          /\ \A q \in Pages : Alike(content[q], content'[q])
      <3>1. CASE content[p] # None /\ task.last = "content"
        <4>1. content[p] \in Boxes /\ [content[p] EXCEPT !.regen = FALSE] \in Boxes
          BY <2>1, <3>1 DEF SettingTypes, Boxes
        <4>2. content' = [content EXCEPT ![p].regen = FALSE]
          BY <1>3, <3>1 DEF SelectRead
        <4> QED  BY <4>1, <4>2 DEF SettingTypes, Alike, Boxes
      <3>2. CASE ~(content[p] # None /\ task.last = "content")
        BY <1>3, <3>2 DEF SelectRead, SettingTypes, Alike
      <3> QED  BY <3>1, <3>2
    <2>4. UNCHANGED <<geometry, layout, params, saved, left, control, disturbed, clean>>
      BY <1>3 DEF SelectRead, ghosts
    <2>5. SettingTypes' /\ ControlTypes' /\ Checked' /\ Queued'
      BY <1>3, <2>2, <2>3, <2>4
         DEF SelectRead, SettingTypes, control, ControlTypes, Checked, Checks, Queued, Continues,
             Cleared, At
    <2>6. TaskTypes'
      BY <2>1, <2>2 DEF TaskTypes, At, SettingTypes
    <2>7. Carried'
      BY <2>1, <2>2, <2>3, <2>4 DEF Carried, Carrying, At
    <2>8. Laid'
      <3>1. \A q \in Pages : Collected(q) => Collected(q)' /\ content'[q].size = content[q].size
        BY <2>3, <2>4, FilterChainAssumption DEF Alike, Collected
      <3> QED  BY <2>4, <3>1 DEF Laid, Defined, control
    <2> QED  BY <2>5, <2>6, <2>7, <2>8
  <1>4. ASSUME SelectStore PROVE SInv'
    <2> DEFINE p == task.page
               new == SelectContent(task.record, task.shape)
    <2>0. UNCHANGED <<geometry, layout, params, saved, left, control, disturbed, clean>>
      BY <1>4 DEF SelectStore, ghosts
    <2>1. p \in Pages /\ task.record \in Boxes \cup {None} /\ task.shape \in Sizes
      BY <1>4 DEF SelectStore, At, TaskTypes
    <2>2. /\ new \in Boxes /\ new.deps = task.shape
          /\ task.record # None /\ (task.record.deps = task.shape \/ task.record.mode = "manual")
                => new.size = task.record.size
      <3>1. CASE task.record = None
        BY <2>1, <3>1 DEF SelectContent, Box, Boxes
      <3>2. CASE task.record # None /\ (task.record.regen \/ task.record.deps = task.shape)
        BY <2>1, <3>2 DEF SelectContent, Boxes
      <3>3. CASE task.record # None /\ ~(task.record.regen \/ task.record.deps = task.shape)
        <4>1. new = [task.record EXCEPT !.deps = task.shape,
                              !.size = IF task.record.mode = "auto" THEN task.shape ELSE @]
          BY <3>3 DEF SelectContent
        <4> QED  BY <2>1, <3>3, <4>1 DEF Boxes
      <3> QED  BY <3>1, <3>2, <3>3
    <2>3. content' = [content EXCEPT ![p] = new]
      BY <1>4 DEF SelectStore
    <2>4. \/ task' = NoTask
          \/ /\ task'.pc = "check" /\ task'.page = p /\ task'.record = new
             /\ task'.stale = task.stale /\ ~task'.cancelled
      <3> HIDE DEF new
      <3>1. task' = Unless([task EXCEPT !.pc = "check", !.shape = None, !.record = new])
        BY <1>4 DEF SelectStore, Goto, new
      <3> QED  BY <3>1 DEF Unless, Checks, Domains, Shape
    <2>5. SettingTypes' /\ ControlTypes'
      BY <2>0, <2>1, <2>2, <2>3 DEF SettingTypes, control, ControlTypes
    <2>6. TaskTypes' /\ Checked'
      BY <2>1, <2>2, <2>4 DEF TaskTypes, At, Checked, NoTask
    <2>7. Queued'
      <3>1. ~task.cancelled => task'.pc = "check" /\ task'.page = p /\ ~task'.cancelled
        BY <1>4 DEF SelectStore, Goto, Unless, Domains, Shape
      <3>2. task.cancelled => task' = NoTask
        BY <1>4 DEF SelectStore, Goto, Unless, Checks, Domains, Shape
      <3> QED  BY <1>4, <2>0, <3>1, <3>2 DEF SelectStore, control, Queued, Continues, Cleared, At,
                                             NoTask
    <2>8. ~task.stale => /\ task.shape = geometry[p]
                         /\ Alike(task.record, content[p])
      BY <1>4 DEF SelectStore, Carried, Carrying, At
    <2>9. Carried'
      BY <2>0, <2>1, <2>2, <2>3, <2>4, <2>8 DEF Carried, Carrying, At, NoTask, SettingTypes, Alike
    <2>10. Laid'
      <3> SUFFICES ASSUME stage \in BelowContent, NEW q \in Pages \ disturbed, Defined(layout, q)
                   PROVE  Collected(q)' /\ layout[q].size = content'[q].size
        BY <2>0 DEF Laid, control, Defined
      <3>1. Collected(q) /\ layout[q].size = content[q].size
        BY DEF Laid
      <3>2. CASE q # p
        BY <2>0, <2>3, <3>1, <3>2 DEF Collected, SettingTypes
      <3>3. CASE q = p
        <4>1. ~task.stale
          BY <3>3 DEF Carried
        <4>2. task.record # None /\ task.record.deps = content[p].deps
              /\ task.record.mode = content[p].mode /\ task.record.size = content[p].size
          BY <2>8, <3>1, <3>3, <4>1, FilterChainAssumption DEF Alike, Collected
        <4>3. new.size = content[p].size /\ new.deps = geometry[p] /\ new # None
          BY <2>2, <2>8, <3>1, <3>3, <4>1, <4>2, FilterChainAssumption DEF Collected
        <4> HIDE DEF new
        <4> QED  BY <2>0, <2>1, <2>3, <3>1, <3>3, <4>3 DEF Collected, SettingTypes
      <3> QED  BY <3>2, <3>3
    <2> QED  BY <2>5, <2>6, <2>7, <2>9, <2>10
  <1>5. ASSUME SelectDone PROVE SInv'
    <2>1. /\ task'.page = task.page /\ task'.stale = task.stale /\ task'.cancelled = task.cancelled
          /\ \/ task'.pc = "done"
             \/ task'.pc = "layout" /\ task'.record = task.record
          /\ task.pc = "check"
      BY <1>5 DEF SelectDone, At, Domains, Shape
    <2>2. SettingTypes'
      BY <1>5, SettingsKept DEF SelectDone
    <2>3. ControlTypes' /\ Queued' /\ TaskTypes' /\ Checked'
      BY <1>5, <2>1
         DEF SelectDone, control, ghosts, ControlTypes, Queued, Continues, Cleared, TaskTypes,
             Checked, Checks, At
    <2>4. Carried' /\ Laid'
      BY <1>5, <2>1
         DEF SelectDone, settings, control, ghosts, Carried, Carrying, At, Laid, Collected, Defined
    <2> QED  BY <2>2, <2>3, <2>4
  <1> QED  BY <1>1, <1>2, <1>3, <1>4, <1>5
LEMMA SmallestOf ==
    ASSUME NEW T, T \subseteq Nat, T # {}
    PROVE  \E x \in T : \A y \in T : x <= y
  <1> DEFINE R == OpToRel(<, Nat)
  <1>1. IsWellFoundedOn(R, Nat)
    BY NatLessThanWellFounded
  <1>2. \A x, y \in Nat : x < y => <<x, y>> \in R
    BY DEF OpToRel
  <1> HIDE DEF R
  <1>3. PICK x \in T : \A y \in T : ~(<<y, x>> \in R)
    BY <1>1, WFMin
  <1>4. \A y \in T : x \in Nat /\ y \in Nat /\ ~(y < x)
    BY <1>2, <1>3
  <1> QED  BY <1>4

(* There is a largest influence, since there are finitely many pages: the
   page with the fewest pages above it has none. *)
LEMMA AggregateIs ==
    ASSUME NEW items \in [Pages -> Items \cup {None}]
    PROVE  Aggregate(items) \in Sizes \cup {Invalid}
  <1> DEFINE I(p) == Influence(items[p])
             above(p) == {q \in Pages : I(q) > I(p)}
             T == {Cardinality(above(p)) : p \in Pages}
  <1>0. \A p \in Pages : I(p) \in Sizes \cup {0}
    <2> SUFFICES ASSUME NEW p \in Pages PROVE I(p) \in Sizes \cup {0}
      OBVIOUS
    <2>1. items[p] = None \/ items[p].size \in Sizes \cup {0}
      BY DEF Items, Invalid
    <2> QED  BY <2>1 DEF Influence
  <1> HIDE DEF I
  <1>1. \A p \in Pages : I(p) \in Nat
    <2>1. Sizes \cup {0} \subseteq Nat
      BY FilterChainAssumption
    <2> QED  BY <1>0, <2>1
  <1>2. IsFiniteSet(Pages)
    BY FS_Interval, FilterChainAssumption DEF Pages
  <1>3. \A p \in Pages : IsFiniteSet(above(p)) /\ Cardinality(above(p)) \in Nat
    <2> SUFFICES ASSUME NEW p \in Pages
                 PROVE  IsFiniteSet(above(p)) /\ Cardinality(above(p)) \in Nat
      OBVIOUS
    <2>1. IsFiniteSet(above(p))
      BY <1>2, above(p) \subseteq Pages, FS_Subset
    <2> QED  BY <2>1, FS_CardinalityType
  <1>4. T \subseteq Nat /\ T # {}
    <2> HIDE DEF above
    <2>1. 1 \in Pages
      BY FilterChainAssumption DEF Pages
    <2> QED  BY <1>3, <2>1
  <1>5. PICK p \in Pages : \A q \in Pages : Cardinality(above(p)) <= Cardinality(above(q))
    <2>1. PICK x \in T : \A y \in T : x <= y
      <3> HIDE DEF T
      <3> QED  BY <1>4, SmallestOf
    <2> QED  BY <2>1
  <1>6. \A q \in Pages : I(q) <= I(p)
    <2> SUFFICES ASSUME NEW q \in Pages, I(q) > I(p) PROVE FALSE
      BY <1>1
    <2>1. above(q) \subseteq above(p) /\ above(q) # above(p)
      BY <1>1
    <2>2. Cardinality(above(q)) <= Cardinality(above(p)) /\ Cardinality(above(p)) # Cardinality(above(q))
      <3>1. IsFiniteSet(above(p))
        BY <1>3
      <3> DEFINE A == above(p)
                 B == above(q)
      <3>2. IsFiniteSet(A) /\ B \in SUBSET A /\ A # B
        BY <2>1, <3>1
      <3> HIDE DEF A, B
      <3>3. Cardinality(B) <= Cardinality(A) /\ Cardinality(A) # Cardinality(B)
        BY <3>2, FS_Subset
      <3> QED  BY <3>3 DEF A, B
    <2> HIDE DEF above
    <2> QED  BY <1>3, <1>5, <2>2
  <1>7. \E size \in {I(q) : q \in Pages} : \A q \in Pages : I(q) <= size
    BY <1>6
  <1>8. Aggregate(items) \in {I(q) : q \in Pages}
    BY <1>7 DEF Aggregate, I
  <1> QED  BY <1>0, <1>8 DEF Invalid


(* What the layout is given is the box in the settings, found already; the
   page of a task that is not stale is in order again. *)
LEMMA PageLayoutStep == ASSUME SInv, Domains, PageLayout PROVE SInv'
  <1> USE DEF SInv
  <1> DEFINE p == task.page
             size == task.record.size
  <1>0. UNCHANGED <<geometry, content, params, saved, left, control, clean>>
    BY DEF PageLayout
  <1>1. p \in Pages /\ task.record \in Boxes /\ size \in Sizes
    BY DEF PageLayout, At, TaskTypes, Boxes
  <1>2. layout' = WithSize(layout, p, size)
    BY DEF PageLayout
  <1>3. \/ task' = NoTask /\ task.cancelled
        \/ /\ task'.page = p /\ task'.stale = task.stale /\ task'.pc \in {"done", "output"}
           /\ ~task.cancelled /\ ~task'.cancelled
           /\ task'.pc = "output" =>
                 task'.image = Image(DefaultMode, size, PageSize(layout', p))
    BY DEF PageLayout, Goto, Unless, Checks, Domains, Shape
  <1>4. disturbed' = IF task.stale THEN disturbed ELSE disturbed \ {p}
    BY DEF PageLayout
  <1>5. SettingTypes' /\ ControlTypes'
    <2>1. layout' \in [Pages -> Items \cup {None}]
      BY <1>1, <1>2, WithSizeIs DEF SettingTypes
    <2> QED  BY <1>0, <1>4, <2>1 DEF SettingTypes, control, ControlTypes
  <1>6. Image(DefaultMode, size, PageSize(layout', p)) \in Images
    <2>1. /\ layout' \in [Pages -> Items \cup {None}] /\ layout'[p].size = size
      BY <1>1, <1>2, WithSizeIs DEF SettingTypes
    <2>2. PageSize(layout', p) \in Sizes \cup {Invalid}
      BY <1>1, <2>1, AggregateIs DEF PageSize
    <2> QED  BY <1>1, <2>2, FilterChainAssumption DEF Image, Images
  <1>9. TaskTypes' /\ Checked' /\ Carried'
    BY <1>1, <1>3, <1>4, <1>6 DEF TaskTypes, Checked, Carried, Carrying, At, NoTask
  <1>7. Queued'
    <2>1. task.pc = "layout"
      BY DEF PageLayout, At
    <2> QED  BY <1>0, <1>3, <2>1 DEF control, Queued, Continues, Cleared, At, NoTask
  <1>8. Laid'
    <2> SUFFICES ASSUME stage \in BelowContent, NEW q \in Pages \ disturbed', Defined(layout', q)
                 PROVE  Collected(q) /\ layout'[q].size = content[q].size
      BY <1>0 DEF Laid, Collected, Defined, control
    <2>1. CASE q = p
      <3>1. ~task.stale
        BY <1>4, <2>1 DEF Carried
      <3>2. Alike(task.record, content[p]) /\ task.record.deps = geometry[p]
        BY <3>1 DEF PageLayout, Carried, Carrying, At
      <3>3. Collected(p) /\ size = content[p].size
        BY <1>1, <3>2, FilterChainAssumption DEF Alike, Collected
      <3>4. layout'[p].size = size
        BY <1>1, <1>2, WithSizeIs DEF SettingTypes
      <3> QED  BY <2>1, <3>3, <3>4
    <2>2. CASE q # p
      <3>1. layout'[q] = layout[q] /\ q \notin disturbed
        <4>1. q \notin disturbed
          BY <1>4, <2>2
        <4>2. layout \in [Pages -> Items \cup {None}]
          BY DEF SettingTypes
        <4> HIDE DEF size
        <4> QED  BY <1>1, <1>2, <2>2, <4>1, <4>2, WithSizeIs
      <3> QED  BY <3>1 DEF Laid, Defined
    <2> QED  BY <2>1, <2>2
  <1> QED  BY <1>5, <1>7, <1>8, <1>9

(* The output stage changes nothing of all that. *)
LEMMA OutputSteps ==
    ASSUME SInv, Domains,
           OutputRead \/ OutputCompare \/ Generated \/ GenerateFailed \/ SetOutputParams
    PROVE  SInv'
  <1> USE DEF SInv
  <1>1. /\ UNCHANGED <<geometry, content, layout, saved, control, disturbed>>
        /\ left'.crash = left.crash /\ (clean' => clean)
    <2>1. CASE GenerateFailed
      BY <2>1, Spent DEF GenerateFailed, Generate, settings
    <2>2. CASE OutputRead \/ OutputCompare \/ Generated \/ SetOutputParams
      BY <2>2 DEF OutputRead, OutputCompare, Generated, Generate, SetOutputParams, settings, ghosts
    <2> QED  BY <2>1, <2>2
  <1>2. /\ task.pc \notin Away
        /\ \/ task' = NoTask /\ task.cancelled
           \/ /\ task'.page = task.page /\ task'.stale = task.stale
              /\ task'.cancelled = task.cancelled
              /\ task'.pc \in {"reread", "compare", "generate", "written", "failed", "done"}
              /\ task.cancelled => task'.pc \notin Checks
              /\ task'.pc = "compare" => task'.params = params[task.page]
              /\ task'.pc \in {"reread", "compare", "generate", "written"} => task'.image \in Images
    <2>1. CASE OutputRead
      <3>1. task.page \in Pages /\ params[task.page].mode \in Modes /\ task.image \in Images
        BY <2>1 DEF OutputRead, At, TaskTypes, SettingTypes, Params
      <3>2. [task.image EXCEPT !.mode = params[task.page].mode] \in Images
        BY <3>1 DEF Images
      <3>3. \/ /\ At("output")
               /\ task' = [task EXCEPT !.pc = "reread",
                                       !.image = [task.image EXCEPT !.mode = params[task.page].mode]]
            \/ At("reread") /\ task' = [task EXCEPT !.pc = "compare", !.params = params[task.page]]
        BY <2>1 DEF OutputRead
      <3> DEFINE image == [task.image EXCEPT !.mode = params[task.page].mode]
      <3> HIDE DEF image
      <3>4. image \in Images
        BY <3>2 DEF image
      <3>5. \/ At("output") /\ task' = [task EXCEPT !.pc = "reread", !.image = image]
            \/ At("reread") /\ task' = [task EXCEPT !.pc = "compare", !.params = params[task.page]]
        BY <3>3 DEF image
      <3>6. CASE At("output") /\ task' = [task EXCEPT !.pc = "reread", !.image = image]
        BY <3>4, <3>6 DEF At, Domains, Shape, Checks
      <3>7. CASE At("reread") /\ task' = [task EXCEPT !.pc = "compare", !.params = params[task.page]]
        BY <3>1, <3>7 DEF At, Domains, Shape, Checks
      <3> QED  BY <3>5, <3>6, <3>7
    <2>2. CASE OutputCompare \/ SetOutputParams
      BY <2>2 DEF OutputCompare, SetOutputParams, Goto, Unless, At, Domains, Shape, Checks,
                  TaskTypes
    <2>3. CASE Generated \/ GenerateFailed
      BY <2>3 DEF Generated, GenerateFailed, Generate, At, Domains, Shape, Checks, TaskTypes
    <2> QED  BY <2>1, <2>2, <2>3
  <1>3. params' \in [Pages -> Params]
    <2>1. CASE OutputCompare
      <3>1. task.params \in Params /\ [task.params EXCEPT !.regen = FALSE] \in Params
        BY <2>1 DEF OutputCompare, At, TaskTypes, Params
      <3> QED  BY <2>1, <3>1 DEF OutputCompare, SettingTypes
    <2>2. CASE ~OutputCompare
      BY <2>2 DEF OutputRead, Generated, GenerateFailed, Generate, SetOutputParams, settings,
                  SettingTypes
    <2> QED  BY <2>1, <2>2
  <1>4. SettingTypes' /\ ControlTypes'
    BY <1>1, <1>3 DEF SettingTypes, control, ControlTypes
  <1>5. TaskTypes' /\ Checked' /\ Queued'
    BY <1>1, <1>2 DEF SettingTypes, TaskTypes, Checked, Queued, Continues, Cleared, control, At,
                      NoTask
  <1>6. Carried' /\ Laid'
    <2>1. SameBox(task, task')
      BY <1>2 DEF SameBox, Carrying, NoTask
    <2> QED  BY <1>1, <2>1, SteadyStep DEF Steady, control
  <1> QED  BY <1>4, <1>5, <1>6

(* The pages that are left are those after the task's, so that the next of
   them is the one after it. *)
LEMMA NextInQueue ==
    ASSUME NEW p \in Pages, queue = After(p), queue # {}
    PROVE  LET next == CHOOSE q \in queue : \A r \in queue : q <= r IN
           next \in Pages /\ next = p + 1 /\ queue \ {next} = After(next)
  <1>1. p + 1 \in queue /\ \A r \in queue : p + 1 <= r
    BY FilterChainAssumption DEF After, Pages
  <1>2. \A q \in queue : (\A r \in queue : q <= r) => q = p + 1
    BY <1>1, FilterChainAssumption DEF After, Pages
  <1>3. (CHOOSE q \in queue : \A r \in queue : q <= r) = p + 1
    BY <1>1, <1>2
  <1>4. queue \ {p + 1} = After(p + 1) /\ p + 1 \in Pages
    BY <1>1, FilterChainAssumption DEF After, Pages
  <1> QED  BY <1>3, <1>4

LEMMA FilterResultStep ==
    ASSUME SInv, Domains, FilterResult
    PROVE  /\ SInv'
           /\ batch /\ batch' => posted' \in Pages /\ posted' = task.page + 1
           /\ batch => posted = None /\ task.page \in Pages
  <1> USE DEF SInv
  <1>1. At("done") /\ task' = NoTask /\ UNCHANGED <<settings, saved, left, disturbed, stage>>
    BY DEF FilterResult, control
  <1>2. task.page \in Pages /\ ~task.cancelled
    BY <1>1 DEF TaskTypes, Checked, Checks, At
  <1>3. batch => posted = None /\ queue = After(task.page)
    BY <1>1, <1>2 DEF Queued, Continues, Cleared, At
  <1>4. SettingTypes' /\ TaskTypes' /\ Checked' /\ Carried' /\ Laid'
    BY <1>1 DEF settings, SettingTypes, TaskTypes, Checked, Carried, Carrying, Laid, Collected,
                Defined, At, NoTask
  <1>5. /\ ControlTypes' /\ Queued'
        /\ batch /\ batch' => posted' \in Pages /\ posted' = task.page + 1
    <2>1. CASE ~batch
      BY <1>1, <2>1 DEF FilterResult, control, ControlTypes, Queued, Continues, Cleared
    <2>2. CASE batch /\ queue # {}
      <3> DEFINE next == CHOOSE q \in queue : \A r \in queue : q <= r
      <3>1. next \in Pages /\ next = task.page + 1 /\ queue \ {next} = After(next)
        BY <1>2, <1>3, <2>2, NextInQueue
      <3>2. /\ posted' = next /\ leader' = next /\ queue' = queue \ {next}
            /\ UNCHANGED <<stage, batch, clean>>
        BY <2>2 DEF FilterResult
      <3> HIDE DEF next
      <3>3. posted' # None /\ queue' = After(posted)'
        BY <3>1, <3>2, FilterChainAssumption DEF After, Pages
      <3>4. ControlTypes'
        BY <1>1, <3>1, <3>2 DEF ControlTypes
      <3>5. Queued'
        BY <1>1, <3>3 DEF Queued, Continues, Cleared, At, NoTask
      <3> QED  BY <2>2, <3>1, <3>2, <3>4, <3>5
    <2>3. CASE batch /\ queue = {}
      <3>1. batch' = FALSE /\ LoadPageInteractive(leader, stage, layout)
        BY <2>3 DEF FilterResult
      <3>2. leader' \in Pages /\ posted' \in Pages \cup {None}
        BY <3>1, LoadTypes DEF ControlTypes
      <3> QED  BY <1>1, <3>1, <3>2 DEF ControlTypes, Queued, Continues, Cleared
    <2> QED  BY <2>1, <2>2, <2>3
  <1> QED  BY <1>2, <1>3, <1>4, <1>5

-----------------------------------------------------------------------------
LEMMA InitSInv == Init => SInv
  <1> SUFFICES ASSUME Init PROVE SInv
    OBVIOUS
  <1>1. SettingTypes
    BY FilterChainAssumption DEF Init, SettingTypes, Params, Pages
  <1>2. ControlTypes /\ TaskTypes /\ Checked /\ Queued /\ Carried /\ Laid
    BY FilterChainAssumption
       DEF Init, ControlTypes, TaskTypes, Checked, Queued, Continues, Cleared, Carried, Carrying,
           Laid, At, NoTask,
           Stages, BelowContent, Pages
  <1> QED  BY <1>1, <1>2 DEF SInv

LEMMA StepSInv == SInv /\ Domains /\ [Next]_vars => SInv'
  <1> SUFFICES ASSUME SInv, Domains, [Next]_vars PROVE SInv'
    OBVIOUS
  <1>1. CASE UNCHANGED vars
    BY <1>1 DEF vars, settings, control, ghosts, SInv, SettingTypes, ControlTypes, TaskTypes,
                Checked, Queued, Continues, Cleared, Carried, Carrying, Laid, Collected, Defined, At
  <1>2. CASE TaskStep
    BY <1>2, SelectSteps, PageLayoutStep, OutputSteps, FilterResultStep DEF TaskStep
  <1>3. CASE UserStep
    <2>1. leader \in Pages
      BY DEF SInv, ControlTypes
    <2>2. PICK mode \in Modes : TRUE
      BY FilterChainAssumption
    <2> QED  BY <1>3, <2>1, <2>2, PageSteps, ParamsSteps, OutsideSteps, FilterSelectionChangedStep,
                ChangeGeometryStep, EditSteps, SetPageAlignmentStep
             DEF UserStep
  <1>4. CASE Save \/ CrashAndReopen \/ ClosedTaskEnds
    BY <1>4, OutsideSteps
  <1> QED  BY <1>1, <1>2, <1>3, <1>4 DEF Next

LEMMA AlwaysSInv == Spec => []SInv
  <1>1. IInv => Domains
    BY DEF IInv
  <1> QED  BY <1>1, InitSInv, StepSInv, AlwaysIInv, PTL DEF Spec

(* The page size of the book is computed from the boxes the pages come out
   with, after any way through the stages (ContentBoxPropagator,
   page_layout::Settings). *)
THEOREM SizesAreFinal == Spec => []SizesFinal
  <1>1. SInv => SizesFinal
    BY FilterChainAssumption
       DEF SInv, SettingTypes, Laid, Collected, SizesFinal, SelectContent, Boxes
  <1> QED  BY <1>1, AlwaysSInv, PTL

-----------------------------------------------------------------------------
(* What the user chose.  A step that spends nothing is one of the task, or
   one that leaves the boxes and the parameters alone. *)
ChoicesKept ==
    \A p \in Pages :
        /\ \/ ChoiceOfBox(content'[p]) = ChoiceOfBox(content[p])
           \/ At("store") /\ task.page = p /\ task.record # content[p]
        /\ \/ params'[p].mode = params[p].mode
           \/ At("compare") /\ task.page = p /\ task.params # params[p]

LEMMA SelectKeepsChoice ==
    ASSUME NEW record \in Boxes \cup {None}, NEW shape \in Sizes
    PROVE  ChoiceOfBox(SelectContent(record, shape)) = ChoiceOfBox(record)
  <1> DEFINE new == SelectContent(record, shape)
  <1>1. CASE record = None
    <2>1. new = Box(shape, "auto", shape)
      BY <1>1 DEF SelectContent
    <2> QED  BY <1>1, <2>1 DEF Box, ChoiceOfBox
  <1>2. CASE record # None /\ (record.regen \/ record.deps = shape)
    <2>1. new = [record EXCEPT !.deps = shape]
      BY <1>2 DEF SelectContent
    <2>2. new \in Boxes /\ new.mode = record.mode /\ new.size = record.size
      BY <1>2, <2>1 DEF Boxes
    <2> QED  BY <1>2, <2>2, FilterChainAssumption DEF ChoiceOfBox
  <1>3. CASE record # None /\ ~(record.regen \/ record.deps = shape)
    <2>1. new = [record EXCEPT !.deps = shape, !.size = IF record.mode = "auto" THEN shape ELSE @]
      BY <1>3 DEF SelectContent
    <2>2. /\ new \in Boxes /\ new.mode = record.mode
          /\ record.mode # "auto" => new.size = record.size
      BY <1>3, <2>1 DEF Boxes
    <2> QED  BY <1>3, <2>2, FilterChainAssumption DEF ChoiceOfBox
  <1> QED  BY <1>1, <1>2, <1>3

LEMMA SpentIsLess ==
    ASSUME Domains, NEW kind \in {"box", "output", "fault", "crash"}, Spend(kind)
    PROVE  left'[kind] # left[kind]
  BY DEF Domains, Spend

LEMMA StepKeepsChoices ==
    ASSUME SInv, Domains, [Next]_vars,
           left'.box = left.box, left'.output = left.output, left'.crash = left.crash
    PROVE  ChoicesKept
  <1> USE DEF SInv
  <1>0. ~Spend("box") /\ ~Spend("output") /\ ~Spend("crash")
    BY SpentIsLess
  <1>1. CASE UNCHANGED <<content, params>>
    BY <1>1 DEF ChoicesKept
  <1>2. CASE SelectRead
    <2>1. task.page \in Pages /\ params' = params
      BY <1>2 DEF SelectRead, At, TaskTypes
    <2>2. CASE content[task.page] # None /\ task.last = "content"
      <3> DEFINE new == [content[task.page] EXCEPT !.regen = FALSE]
      <3>1. content' = [content EXCEPT ![task.page] = new]
        BY <1>2, <2>2 DEF SelectRead
      <3>2. new \in Boxes /\ new.mode = content[task.page].mode /\ new.size = content[task.page].size
        BY <2>1, <2>2 DEF SettingTypes, Boxes
      <3>3. ChoiceOfBox(new) = ChoiceOfBox(content[task.page])
        BY <2>2, <3>2, FilterChainAssumption DEF ChoiceOfBox
      <3> HIDE DEF new
      <3> QED  BY <2>1, <3>1, <3>3 DEF ChoicesKept, SettingTypes
    <2>3. CASE ~(content[task.page] # None /\ task.last = "content")
      BY <1>2, <2>1, <2>3 DEF SelectRead, ChoicesKept
    <2> QED  BY <2>2, <2>3
  <1>3. CASE SelectStore
    <2> DEFINE new == SelectContent(task.record, task.shape)
    <2>1. /\ task.page \in Pages /\ params' = params /\ At("store")
          /\ task.record \in Boxes \cup {None} /\ task.shape \in Sizes
      BY <1>3 DEF SelectStore, At, TaskTypes
    <2>2. content' = [content EXCEPT ![task.page] = new]
      BY <1>3 DEF SelectStore
    <2>3. ChoiceOfBox(new) = ChoiceOfBox(task.record)
      BY <2>1, SelectKeepsChoice
    <2> HIDE DEF new
    <2> QED  BY <2>1, <2>2, <2>3 DEF ChoicesKept, SettingTypes
  <1>4. CASE OutputCompare
    <2>1. At("compare") /\ task.page \in Pages /\ task.params \in Params /\ content' = content
      BY <1>4 DEF OutputCompare, At, TaskTypes
    <2>2. CASE task.params.regen
      <3> DEFINE new == [task.params EXCEPT !.regen = FALSE]
      <3>1. params' = [params EXCEPT ![task.page] = new] /\ new.mode = task.params.mode
        BY <1>4, <2>1, <2>2 DEF OutputCompare, Params
      <3> HIDE DEF new
      <3> QED  BY <2>1, <3>1 DEF ChoicesKept, SettingTypes
    <2>3. CASE ~task.params.regen
      BY <1>4, <2>1, <2>3 DEF OutputCompare, ChoicesKept
    <2> QED  BY <2>2, <2>3
  <1>5. CASE TaskStep /\ ~SelectRead /\ ~SelectStore /\ ~OutputCompare
    <2>1. UNCHANGED <<content, params>>
      BY <1>5 DEF TaskStep, TaskTaken, ThrowIfCancelled, SelectDone, PageLayout, OutputRead,
                  Generated, GenerateFailed, Generate, SetOutputParams, FilterResult, settings
    <2> QED  BY <1>1, <2>1
  <1>6. CASE UserStep
    <2>1. UNCHANGED <<content, params>>
      BY <1>0, <1>6
         DEF UserStep, SelectPage, StartBatchProcessing, StopBatchProcessing, Regenerate,
             DeleteFile,
             FilterSelectionChanged, ChangeGeometry, ManualContentRectSet, AutoMode, ApplySelection,
             SetPageAlignment, ModeSelectorIndexChanged, ApplyColorsConfirmed, Edit, settings
    <2> QED  BY <1>1, <2>1
  <1>7. CASE Save
    <2>1. UNCHANGED <<content, params>>
      BY <1>7 DEF Save, settings
    <2> QED  BY <1>1, <2>1
  <1>8. CASE CrashAndReopen
    BY <1>0, <1>8 DEF CrashAndReopen
  <1>9. CASE UNCHANGED vars
    BY <1>1, <1>9 DEF vars, settings
  <1>10. CASE ClosedTaskEnds
    BY <1>1, <1>10 DEF ClosedTaskEnds, settings
  <1> QED  BY <1>2, <1>3, <1>4, <1>5, <1>6, <1>7, <1>8, <1>9, <1>10 DEF Next

(* Tasks keep the boxes that were drawn and the colour modes that were chosen,
   but for what is chosen between their reading a record and their writing it
   back (select_content::Task, output::Task). *)
THEOREM ChoicesArePreserved == Spec => TasksKeepChoices
  <1>1. SInv /\ Domains /\ [Next]_vars =>
           [left'.box = left.box /\ left'.output = left.output /\ left'.crash = left.crash =>
                \A p \in Pages :
                    /\ \/ ChoiceOfBox(content'[p]) = ChoiceOfBox(content[p])
                       \/ At("store") /\ task.page = p /\ task.record # content[p]
                    /\ \/ params'[p].mode = params[p].mode
                       \/ At("compare") /\ task.page = p /\ task.params # params[p]]_vars
    BY StepKeepsChoices DEF ChoicesKept
  <1>2. IInv => Domains
    BY DEF IInv
  <1> QED  BY <1>1, <1>2, AlwaysSInv, AlwaysIInv, PTL DEF Spec, TasksKeepChoices

-----------------------------------------------------------------------------
(* A batch that nothing disturbs leaves the layout as it is: the boxes it
   finds are those the pages were laid out with. *)
LEMMA LayoutStays ==
    ASSUME SInv, Uniform, clean, batch, PageLayout
    PROVE  layout' = layout /\ disturbed' = disturbed
  <1> DEFINE p == task.page
             size == task.record.size
  <1> USE DEF SInv
  <1>1. /\ At("layout") /\ p \in Pages /\ task.record \in Boxes
        /\ layout' = WithSize(layout, p, size)
        /\ disturbed' = IF task.stale THEN disturbed ELSE disturbed \ {p}
    BY DEF PageLayout, At, TaskTypes
  <1>2. stage = "output" /\ disturbed = {} /\ Defined(layout, p)
    BY <1>1 DEF Uniform
  <1>3. ~task.stale
    BY <1>2 DEF Carried
  <1>4. Alike(task.record, content[p]) /\ layout[p].size = content[p].size
    BY <1>1, <1>2, <1>3 DEF Carried, Carrying, At, Laid, BelowContent
  <1>5. size = layout[p].size /\ layout[p] \in Items
    BY <1>1, <1>2, <1>4, FilterChainAssumption DEF Alike, Defined, SettingTypes
  <1>6. [layout[p] EXCEPT !.size = size] = layout[p]
    BY <1>5 DEF Items
  <1>7. WithSize(layout, p, size) = [layout EXCEPT ![p] = [layout[p] EXCEPT !.size = size]]
    <2>1. layout[p] # None
      BY <1>2 DEF Defined
    <2> QED  BY <2>1 DEF WithSize
  <1>8. WithSize(layout, p, size) = layout
    BY <1>1, <1>6, <1>7 DEF SettingTypes
  <1> QED  BY <1>1, <1>2, <1>3, <1>8

(* A step of the batch's task, or of an older one that has yet to notice that
   it was cancelled. *)
Works ==
    /\ task.pc \notin Away /\ UNCHANGED <<stage, disturbed, layout, posted>>
    /\ \A p \in Pages \ {task.page} : file'[p] = file[p]
    /\ ~task.cancelled =>
          /\ task'.pc \notin {"none", "failed"}
          /\ task'.page = task.page /\ task'.last = task.last
          /\ At("layout") /\ task'.pc # "done" =>
                task'.image.page = PageSize(layout, task.page)
          /\ ~At("layout") => task'.image.page = task.image.page
          /\ task'.pc \in {"select", "store", "check", "layout"}
                \/ task.pc \in {"layout", "output", "reread", "compare", "generate", "written"}
          /\ At("layout") => task'.pc = "output" \/ task.last # "output"
          /\ task'.pc \in {"written", "done"} =>
                file'[task.page] # None /\ file'[task.page].page = task'.image.page

LEMMA WorksStep ==
    ASSUME SInv, Uniform, Works, clean, batch PROVE Uniform'
  <1> USE DEF SInv, Works
  <1>1. /\ stage = "output" /\ disturbed = {} /\ task.page \in Pages
        /\ \A p \in Pages : Defined(layout, p)
    BY DEF Uniform, TaskTypes
  <1>2. CASE posted # None
    <2>1. posted = 1
      BY <1>2 DEF Uniform, BatchPosted, At
    <2>2. BatchPosted'
      BY <2>1, FilterChainAssumption DEF BatchPosted, Pages
    <2> QED  BY <1>1, <1>2, <2>2 DEF Uniform, Defined
  <1>3. CASE posted = None
    <2>1. BatchTask /\ ~task.cancelled
      BY <1>3 DEF Uniform, Queued, Continues, Cleared
    <2>2. \A p \in Pages : p < task.page => Matched(p)'
      <3>1. \A p \in Pages : p < task.page => p # task.page
        BY <1>1, FilterChainAssumption DEF Pages
      <3>2. \A p \in Pages : p < task.page => file'[p] = file[p] /\ layout' = layout
        BY <3>1
      <3>3. \A p \in Pages : p < task.page => Matched(p)
        BY <2>1 DEF BatchTask
      <3> HIDE DEF Works
      <3> QED  BY <3>2, <3>3 DEF Matched, Aggregate, Influence
    <2>3. task'.pc \in {"output", "reread", "compare", "generate", "written", "done"}
             /\ layout[task.page].aligned => task'.image.page = Aggregate(layout)
      BY <2>1 DEF BatchTask, At, PageSize
    <2>4. BatchTask'
      BY <2>1, <2>2, <2>3 DEF BatchTask, At, Aggregate, Influence
    <2> QED  BY <1>1, <1>3, <2>4 DEF Uniform, Defined
  <1> QED  BY <1>2, <1>3

LEMMA TaskWorks ==
    ASSUME SInv, Domains, Uniform, clean, batch,
           \/ ThrowIfCancelled \/ SelectRead \/ SelectStore \/ SelectDone \/ PageLayout
           \/ OutputRead \/ OutputCompare \/ Generated \/ SetOutputParams
    PROVE  Works
  <1> USE DEF SInv
  <1>0. posted = None => BatchTask /\ ~task.cancelled
    BY DEF Uniform, Queued, Continues, Cleared
  <1>00. ~task.cancelled => posted = None \/ At("none")
    BY DEF Queued, Continues, Cleared
  <1>1. CASE ThrowIfCancelled
    BY <1>1 DEF ThrowIfCancelled, Works, At, settings, control, ghosts
  <1>2. CASE SelectRead
    BY <1>2 DEF SelectRead, Works, At, control, ghosts, Domains, Shape
  <1>3. CASE SelectStore
    <2> DEFINE new == SelectContent(task.record, task.shape)
    <2>1. /\ At("store") /\ UNCHANGED <<stage, disturbed, layout, posted, file>>
          /\ task' = Unless([task EXCEPT !.pc = "check", !.shape = None, !.record = new])
      BY <1>3 DEF SelectStore, Goto, control, ghosts
    <2> HIDE DEF new
    <2> QED  BY <2>1 DEF Unless, Works, At, Domains, Shape
  <1>4. CASE SelectDone
    <2>1. task.last = "output" \/ posted # None
      BY <1>0 DEF BatchTask
    <2>2. ~task.cancelled => task.last = "output"
      BY <1>00, <1>4, <2>1 DEF SelectDone, At
    <2> QED  BY <1>4, <2>2 DEF SelectDone, Works, At, settings, control, ghosts, Domains, Shape
  <1>5. CASE PageLayout
    <2>1. layout' = layout /\ disturbed' = disturbed
      BY <1>5, LayoutStays
    <2>2. ~task.cancelled => task.last = "output"
      BY <1>0, <1>00, <1>5 DEF BatchTask, PageLayout, At
    <2>3. /\ At("layout") /\ UNCHANGED <<stage, posted, file>>
          /\ ~task.cancelled =>
                task' = [task EXCEPT !.pc = "output", !.record = None,
                             !.image = Image(DefaultMode, task.record.size, PageSize(layout', task.page))]
      BY <1>5, <2>2 DEF PageLayout, control, Goto, Unless, Domains, Shape
    <2> DEFINE image == Image(DefaultMode, task.record.size, PageSize(layout, task.page))
    <2>4. image.page = PageSize(layout, task.page)
      BY DEF Image
    <2>5. ~task.cancelled => task' = [task EXCEPT !.pc = "output", !.record = None, !.image = image]
      BY <2>1, <2>3 DEF PageSize, Aggregate, Influence
    <2> HIDE DEF image
    <2> QED  BY <2>1, <2>2, <2>3, <2>4, <2>5 DEF Works, At, Domains, Shape
  <1>6. CASE OutputRead
    <2>1. [task.image EXCEPT !.mode = params[task.page].mode].page = task.image.page \/ At("reread")
      BY <1>6 DEF OutputRead, At, TaskTypes, Images
    <2>2. /\ At("output") \/ At("reread")
          /\ UNCHANGED <<stage, disturbed, layout, posted, file>>
          /\ \/ task' = [task EXCEPT !.pc = "compare", !.params = params[task.page]]
             \/ /\ At("output")
                /\ task' = [task EXCEPT !.pc = "reread",
                                        !.image = [task.image EXCEPT !.mode = params[task.page].mode]]
      BY <1>6 DEF OutputRead, settings, control, ghosts
    <2> QED  BY <2>1, <2>2 DEF Works, At, Domains, Shape
  <1>7. CASE OutputCompare
    <2>1. /\ At("compare") /\ UNCHANGED <<stage, disturbed, layout, posted, file>>
          /\ ~task.cancelled =>
                \/ task' = [task EXCEPT !.params = None, !.pc = "generate"]
                \/ /\ task' = [task EXCEPT !.params = None, !.pc = "done"]
                   /\ UpToDate(task.page, task.image)
      BY <1>7 DEF OutputCompare, control, ghosts, Goto, Unless, Domains, Shape
    <2> QED  BY <2>1 DEF Works, At, Domains, Shape, UpToDate
  <1>8. CASE Generated
    <2>1. task.image # None
      BY <1>8, FilterChainAssumption DEF Generated, Generate, At, TaskTypes
    <2>2. /\ At("generate") /\ UNCHANGED <<stage, disturbed, layout, posted>>
          /\ file' = [file EXCEPT ![task.page] = task.image]
          /\ task' = [task EXCEPT !.pc = "written"] /\ task.page \in Pages
      BY <1>8 DEF Generated, Generate, settings, control, At, TaskTypes
    <2> QED  BY <2>1, <2>2 DEF Works, At, Domains, Shape
  <1>9. CASE SetOutputParams
    <2>1. /\ At("written") \/ At("failed")
          /\ UNCHANGED <<stage, disturbed, layout, posted, file>>
          /\ ~task.cancelled => task' = [task EXCEPT !.pc = "done"]
      BY <1>9 DEF SetOutputParams, Goto, Unless, control, Domains, Shape
    <2>2. ~task.cancelled => At("written") /\ file[task.page] # None
                                           /\ file[task.page].page = task.image.page
      BY <1>0, <1>00, <2>1 DEF BatchTask, At
    <2> QED  BY <2>1, <2>2 DEF Works, At, Domains, Shape
  <1> QED  BY <1>1, <1>2, <1>3, <1>4, <1>5, <1>6, <1>7, <1>8, <1>9

LEMMA StepUniform == SInv /\ Domains /\ Uniform /\ [Next]_vars => Uniform'
  <1> SUFFICES ASSUME SInv, Domains, Uniform, [Next]_vars, clean', batch' PROVE Uniform'
    BY DEF Uniform
  <1> USE DEF SInv
  <1>1. ASSUME UNCHANGED <<stage, batch, posted, task, clean, disturbed, layout, file>>
        PROVE  Uniform'
    BY <1>1 DEF Uniform, BatchTask, BatchPosted, Matched, Aggregate, Influence, Defined, At
  <1>2. CASE TaskTaken
    <2>1. /\ At("none") /\ posted \in Pages /\ posted # None /\ posted' = None
          /\ task' = NewTask(posted) /\ UNCHANGED <<layout, file, stage, batch, clean, disturbed>>
      BY <1>2 DEF TaskTaken, ControlTypes, settings, ghosts
    <2>2. task'.page = posted /\ task'.last = stage /\ task'.pc = "select"
      BY <2>1 DEF NewTask, NoTask
    <2>3. BatchPosted /\ stage = "output" /\ disturbed = {} /\ \A p \in Pages : Defined(layout, p)
      BY <2>1 DEF Uniform
    <2>4. BatchTask'
      BY <2>1, <2>2, <2>3 DEF BatchTask, BatchPosted, Matched, Aggregate, Influence, At
    <2> QED  BY <2>1, <2>3, <2>4 DEF Uniform, Defined
  <1>3. CASE \/ ThrowIfCancelled \/ SelectRead \/ SelectStore \/ SelectDone \/ PageLayout
             \/ OutputRead \/ OutputCompare \/ Generated \/ SetOutputParams
    <2>1. clean /\ batch
      BY <1>3 DEF ThrowIfCancelled, SelectRead, SelectStore, SelectDone, PageLayout, OutputRead,
                  OutputCompare, Generated, Generate, SetOutputParams, control, ghosts
    <2> QED  BY <1>3, <2>1, TaskWorks, WorksStep
  <1>4. CASE FilterResult
    <2>1. /\ At("done") /\ task' = NoTask /\ UNCHANGED <<layout, file, stage, disturbed>>
          /\ clean /\ batch
      BY <1>4 DEF FilterResult, settings, control
    <2>2. /\ posted' \in Pages /\ posted' = task.page + 1 /\ posted = None /\ task.page \in Pages
      BY <1>4, <2>1, FilterResultStep
    <2>3. BatchTask /\ stage = "output" /\ disturbed = {} /\ \A p \in Pages : Defined(layout, p)
      BY <2>1, <2>2 DEF Uniform
    <2>4. \A p \in Pages : p < task.page \/ p = task.page => Matched(p)
      BY <2>1, <2>3 DEF BatchTask, Matched, At
    <2>5. \A p \in Pages : p < posted' => Matched(p)'
      <3>1. \A p \in Pages : p < posted' => p < task.page \/ p = task.page
        BY <2>2, FilterChainAssumption DEF Pages
      <3> QED  BY <2>1, <2>4, <3>1 DEF Matched, Aggregate, Influence
    <2>6. BatchPosted' /\ posted' # None
      BY <2>1, <2>2, <2>5, FilterChainAssumption DEF BatchPosted, At, NoTask, Pages
    <2> QED  BY <2>1, <2>3, <2>6 DEF Uniform, Defined
  <1>5. CASE UserStep
    <2>1. PICK first \in Pages : StartBatchProcessing(first)
      BY <1>5 DEF UserStep, SelectPage, StopBatchProcessing, Regenerate, DeleteFile,
             FilterSelectionChanged, ChangeGeometry, ManualContentRectSet, AutoMode, ApplySelection,
             SetPageAlignment, ModeSelectorIndexChanged, ApplyColorsConfirmed, Edit
    <2>2. /\ stage = "output" /\ first = 1 /\ disturbed = {} /\ posted' = 1
          /\ \A p \in Pages : Defined(layout, p)
          /\ UNCHANGED <<layout, stage, disturbed>>
      BY <2>1 DEF StartBatchProcessing, settings
    <2>3. BatchPosted' /\ posted' # None
      BY <2>1, <2>2, FilterChainAssumption DEF BatchPosted, Pages
    <2> QED  BY <2>2, <2>3 DEF Uniform, Defined
  <1>6. CASE Save
    BY <1>1, <1>6 DEF Save, settings, control, ghosts
  <1>7. CASE UNCHANGED vars
    BY <1>1, <1>7 DEF vars, settings, control, ghosts
  <1>8. ~GenerateFailed /\ ~CrashAndReopen
    BY DEF GenerateFailed, CrashAndReopen
  <1>9. CASE ClosedTaskEnds
    <2>1. /\ At("closed") /\ task' = NoTask
          /\ UNCHANGED <<layout, stage, batch, posted, clean, disturbed>>
      BY <1>9 DEF ClosedTaskEnds, settings, control
    <2>2. task.cancelled
      BY <2>1 DEF Checked
    <2>3. posted # None /\ posted = 1
      BY <2>1, <2>2 DEF Uniform, Queued, Continues, Cleared, BatchPosted, At
    <2>4. BatchPosted'
      BY <2>1, <2>3, FilterChainAssumption DEF BatchPosted, Pages
    <2> QED  BY <2>1, <2>3, <2>4 DEF Uniform, Defined
  <1> QED  BY <1>2, <1>3, <1>4, <1>5, <1>6, <1>7, <1>8, <1>9 DEF Next, TaskStep

LEMMA AlwaysUniform == Spec => []Uniform
  <1>1. Init => Uniform
    BY DEF Init, Uniform
  <1>2. IInv => Domains
    BY DEF IInv
  <1> QED  BY <1>1, <1>2, StepUniform, AlwaysSInv, AlwaysIInv, PTL DEF Spec

(* When the last task of an undisturbed batch is done, every page is matched. *)
LEMMA AllMatched ==
    ASSUME SInv, Uniform, clean, batch, queue = {}, At("done")
    PROVE  \A p \in Pages : Matched(p)
  <1> USE DEF SInv
  <1>1. ~task.cancelled /\ task.page \in Pages
    BY DEF Checked, Checks, TaskTypes, At
  <1>2. posted = None /\ BatchTask /\ After(task.page) = {}
    <2>1. posted = None
      BY <1>1 DEF Queued, Continues, Cleared, At
    <2>2. queue = After(task.page)
      BY <2>1 DEF Queued, Continues, Cleared
    <2> QED  BY <2>1, <2>2 DEF Uniform
  <1>3. \A p \in Pages : p < task.page \/ p = task.page
    <2> SUFFICES ASSUME NEW p \in Pages PROVE p < task.page \/ p = task.page
      OBVIOUS
    <2>1. ~(p > task.page)
      BY <1>2 DEF After
    <2>2. p \in Nat /\ task.page \in Nat
      BY <1>1, FilterChainAssumption DEF Pages
    <2> QED  BY <2>1, <2>2
  <1> QED  BY <1>2, <1>3 DEF BatchTask, Matched, At

(* A batch through the output of every page gives the aligned pages one size
   (the purpose of page_layout, MainWindow::startBatchProcessing). *)
THEOREM BatchGivesOneSize == Spec => PagesMatch
  <1>1. SInv /\ Uniform /\ [Next]_vars =>
           [clean /\ batch /\ ~batch' /\ queue = {} /\ At("done") /\ left' = left =>
                \A p, q \in {p \in Pages : layout[p].aligned} :
                    file[p] # None /\ file[q] # None /\ file[p].page = file[q].page]_vars
    <2> SUFFICES ASSUME SInv, Uniform, clean, batch, queue = {}, At("done"),
                        NEW p \in {r \in Pages : layout[r].aligned},
                        NEW q \in {r \in Pages : layout[r].aligned}
                 PROVE  file[p] # None /\ file[q] # None /\ file[p].page = file[q].page
      OBVIOUS
    <2> QED  BY AllMatched DEF Matched
  <1> QED  BY <1>1, AlwaysSInv, AlwaysUniform, PTL DEF Spec, PagesMatch
=============================================================================
