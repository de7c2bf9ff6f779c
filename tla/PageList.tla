------------------------------ MODULE PageList ------------------------------
(***************************************************************************)
(* The pages of a project as the user sees and edits them: MainWindow keeps *)
(* the list of thumbnails in step with ProjectPages, while the first three  *)
(* stages change how many pages an image has.  The GUI thread runs the      *)
(* user's operations and shows results; the worker thread runs one task,    *)
(* whose page_split part (Task::process) reads a record, estimates a layout,*)
(* stores it, and sets the number of pages, each under a mutex of its own.  *)
(*                                                                         *)
(* A thumbnail is made on the GUI thread by the stage's CacheDrivenTask,    *)
(* which also writes: it repairs parameters whose dependencies are stale    *)
(* and sets the number of pages by them.                                    *)
(*                                                                         *)
(* Stages: 0 fix_orientation, 1 page_split (both show images), 2 deskew     *)
(* (shows pages).                                                           *)
(***************************************************************************)
EXTENDS ThumbnailSequence

CONSTANTS
    Loaded,         \* the images of the project that is loaded, in the order of their ids
    Direction,      \* the layout direction of the program
    MaxSteps        \* bound: what the user does

ASSUME PageListAssumption ==
    /\ Loaded \subseteq Images /\ IsFiniteSet(Loaded)
    /\ Direction \in Directions
    /\ MaxSteps \in Nat

VARIABLES
    images,         \* ProjectPages::m_images
    rotation,       \* fix_orientation::Settings
    record,         \* page_split::Settings
    stage,          \* m_curFilter
    splitOrder,     \* page_split's second order option is selected
    reverse,        \* GlobalStaticSettings::m_inversePageOrder
    disp,           \* m_ptrThumbSequence, with m_selectedPage
    loaded,         \* m_pageId of the stage's OptionsWidget
    ui,             \* m_uiData of page_split's OptionsWidget; ready: since preUpdateUI,
                    \* page: its m_pageId, kept at other stages
    next,           \* the task posted to the worker thread, if any
    run,            \* the task it runs, if any
    result,         \* the result posted to the GUI thread, if any
    steps,
    unseen          \* the user has asked, by number, for pages none of which is shown

project == <<images, rotation, record>>
tasks == <<next, run, result>>
vars == <<project, stage, splitOrder, reverse, disp, loaded, ui, tasks, steps, unseen>>

None == << >>

ViewOf(st) == IF st = 2 THEN "PAGE_VIEW" ELSE "IMAGE_VIEW"
PagesNow(imgs, st) == ToPageSequence(imgs, ViewOf(st), Direction)
PagesShown == ToSet(PagesNow(images, stage))

DepsOf(rec, id) == Dependencies(id, rotation[id], CombinedLayoutType(rec[id]))
Stale(rec, id) == /\ rec[id].params # NoParams
                  /\ ~CompatibleWith(DepsOf(rec, id), rec[id].params)

-----------------------------------------------------------------------------
(* Thumbnails *)

(* CacheDrivenTask::process of page_split, for the images in ids. *)
ThumbRecords(rec, ids, st) ==
    [id \in Images |->
        IF st >= 1 /\ id \in ids /\ Stale(rec, id)
        THEN UpdatePage(SetParams(rec[id], FixCompatibility(DepsOf(rec, id), rec[id].params)))
        ELSE rec[id]]
ThumbImages(imgs, rec, ids, st) ==
    LET known == {id \in ids : st >= 1 /\ rec[id].params # NoParams}
    IN  SetNumPages(imgs, known,
                    {id \in known : PagesLayout(rec[id].params.type) = "TWO_PAGE_LAYOUT"})

(* Later stages have question marks of their own, but no order by them here.*)
IncompletePages(rec, st) == {page \in PageIds : st >= 1 /\ rec[ImageOf(page)].params = NoParams}

(* OrderBySplitTypeProvider::precedes; without a provider, the order of ids.*)
TypeRank(rec, id) ==
    LET type == IF rec[id].params # NoParams THEN TypeServed(rec[id].params.type)
                ELSE CombinedLayoutType(rec[id])
    IN  CASE type = "SINGLE_PAGE_UNCUT" -> 1
          [] type = "PAGE_PLUS_OFFCUT" -> 2
          [] type = "TWO_PAGES" -> 3
          [] OTHER -> 100
BySplitType(rec, l, r) ==
    IF l.incomplete # r.incomplete THEN r.incomplete
    ELSE IF l.incomplete \/ TypeRank(rec, ImageOf(l.page)) = TypeRank(rec, ImageOf(r.page))
         THEN PageLess(l.page, r.page)
         ELSE TypeRank(rec, ImageOf(l.page)) < TypeRank(rec, ImageOf(r.page))

Items == [page : PageIds, incomplete : BOOLEAN]
OrderProvider(rec, st, split, rev) ==
    LET by == st = 1 /\ split
        Precedes(l, r) == IF by THEN BySplitType(rec, l, r) ELSE PageLess(l.page, r.page)
    IN  [given |-> by \/ rev,
         less |-> [pair \in Items \X Items |->
                    IF rev THEN ~Precedes(pair[1], pair[2]) ELSE Precedes(pair[1], pair[2])]]
Order == OrderProvider(record, stage, splitOrder, reverse)
IncompleteNow == IncompletePages(record, stage)

(* What a list made with the given images and records leaves behind: the    *)
(* thumbnails of ids were made after the pages were fetched.                *)
Thumbnails(imgs, rec, ids, st) ==
    /\ images' = ThumbImages(imgs, rec, ids, st)
    /\ record' = ThumbRecords(rec, ids, st)
ImagesShown(list) == {ImageOf(page) : page \in Shown(list)}

-----------------------------------------------------------------------------
(* MainWindow *)

(* ensurePageVisible: a selected page that is shown at the other level, an  *)
(* image for its halves or a half for its image, gives way to what is shown.*)
OtherLevel(list, page) ==
    {d \in Shown(list) : /\ ImageOf(d) = ImageOf(page)
                         /\ (SubOf(d) = SINGLE_PAGE) # (SubOf(page) = SINGLE_PAGE)}
Latest(pages) == CHOOSE p \in pages : \A q \in pages : p = q \/ PageLess(q, p)

EnsurePageVisible(list, pages, leader, action) ==
    LET wanted == pages \cup ({leader} \ {NoPage})
        maybe  == UNION {({page} \cap Shown(list)) \cup OtherLevel(list, page) : page \in wanted}
        moved  == {page \in wanted : /\ ImageOf(page) = ImageOf(leader)
                                     /\ OtherLevel(list, page) # {}}
        lead   == IF moved = {} THEN leader ELSE Latest(OtherLevel(list, Latest(moved)))
    IN  SetSelection(SetSelectionToSet(list, maybe, action), lead, "KEEP_SELECTION")

CancelTasks ==      \* ProcessingTaskQueue::cancelAndClear
    /\ run' = IF run = None THEN None ELSE [run EXCEPT !.cancelled = TRUE]
    /\ result' = None

(* updateMainArea with loadPageInteractive, for a list and a stage.  With   *)
(* no leader the widgets are removed, and nothing is cancelled.             *)
Reload(list, st, widget) ==
    IF list.leader = NoPage THEN
        /\ loaded' = NoPage
        /\ ui' = widget
        /\ UNCHANGED tasks
    ELSE
        /\ CancelTasks
        /\ loaded' = list.leader
        /\ ui' = IF st = 1 THEN [widget EXCEPT !.ready = FALSE, !.page = list.leader] ELSE widget
        /\ next' = [page |-> list.leader, stage |-> st]
UpdateMainArea(list, st) == Reload(list, st, ui)
MainAreaSame == UNCHANGED <<loaded, ui, tasks>>

(* Every operation of the user takes one of its steps. *)
Ask == steps < MaxSteps /\ steps' = steps + 1
Step == Ask /\ UNCHANGED unseen

(* filterSelectionChanged.  The orientations are handed to page_split when  *)
(* its stage or a later one is entered (Filter::pageOrientationUpdate).     *)
PageOrientationUpdate(imgs) ==
    LET asked(id) == record[id].layoutType \notin {Unset, "AUTO_LAYOUT_TYPE"}
        same(id) == record[id].params # NoParams
                        /\ record[id].params.deps.rotation = rotation[id]
    IN  AutoSetLayoutTypeFor(imgs, {id \in ImageIds(imgs) : ~asked(id) /\ ~same(id)}, rotation)

FilterSelectionChanged(st) ==
    LET imgs == IF stage = 0 THEN PageOrientationUpdate(images) ELSE images
        list == Reset([disp EXCEPT !.view = ViewOf(st)], PagesNow(imgs, st), "KEEP_SELECTION",
                      IncompletePages(record, st),
                      OrderProvider(record, st, splitOrder, reverse))
        seen == EnsurePageVisible(list, SelectedItems(disp), disp.leader, "KEEP_SELECTION")
    IN  /\ Step
        /\ st # stage
        /\ stage' = st
        /\ disp' = seen
        /\ Thumbnails(imgs, record, ImagesShown(list), st)
        /\ IF seen.leader = NoPage      \* cancelAndClear comes first
           THEN CancelTasks /\ loaded' = NoPage /\ next' = None /\ UNCHANGED ui
           ELSE UpdateMainArea(seen, st)
        /\ UNCHANGED <<rotation, splitOrder, reverse>>

(* Clicks: the page is loaded unless the selection is redundant. *)
Click(list) ==
    /\ Step
    /\ disp' = list
    /\ IF list.leader # disp.leader THEN UpdateMainArea(list, stage) ELSE MainAreaSame
    /\ UNCHANGED <<project, stage, splitOrder, reverse>>
SelectByClick(page) == Click(ClickPlain(disp, page))
SelectWithControl(page) == Click(ClickControl(disp, page))
SelectWithShift(page) == Click(ClickShift(disp, page))

(* goToPage, reached with the keys (a displayed page) or with a page number *)
GoToPage(page) ==
    LET list == SetSelection(disp, page, "RESET_SELECTION")
    IN  /\ Step
        /\ page \in PagesShown
        /\ disp' = list
        /\ UpdateMainArea(list, stage)
        /\ UNCHANGED <<project, stage, splitOrder, reverse>>

(* on_actionSelectPages_triggered *)
SelectPages(pages) ==
    LET list == SetSelectionToSet(disp, pages, "RESET_SELECTION")
    IN  /\ Ask
        /\ unseen' = (unseen \/ pages \cap Shown(disp) = {})
        /\ pages # {} /\ pages \subseteq PagesShown
        /\ disp' = list
        /\ UpdateMainArea(list, stage)
        /\ UNCHANGED <<project, stage, splitOrder, reverse>>

(* pageOrderingChanged, of the stage that has a choice *)
PageOrderingChanged ==
    LET order == OrderProvider(record, stage, ~splitOrder, reverse)
        list == Reset(disp, PagesNow(images, stage), "KEEP_SELECTION", IncompleteNow, order)
    IN  /\ Step
        /\ stage = 1
        /\ splitOrder' = ~splitOrder
        /\ disp' = EnsurePageVisible(list, SelectedItems(disp), disp.leader, "KEEP_SELECTION")
        /\ Thumbnails(images, record, ImagesShown(list), stage)
        /\ MainAreaSame
        /\ UNCHANGED <<rotation, stage, reverse>>

(* on_inverseOrderButton_toggled: the natural order comes back by a reset.  *)
InverseOrderToggled ==
    LET order == OrderProvider(record, stage, splitOrder, ~reverse)
        list == IF ~order.given
                THEN Reset(disp, PagesNow(images, stage), "KEEP_SELECTION", IncompleteNow, order)
                ELSE InvalidateAll(disp, IncompleteNow, order)
        page == SelectedPageGet(list.current, ViewOf(stage))
    IN  /\ Step
        /\ reverse' = ~reverse
        /\ disp' = IF list.current = NoPage THEN list
                   ELSE EnsurePageVisible(list, {page}, list.leader, "KEEP_SELECTION")
        /\ Thumbnails(images, record, ImagesShown(list), stage)
        /\ MainAreaSame
        /\ UNCHANGED <<rotation, stage, splitOrder>>

(* removeFromProject, for the selected pages.  The next selection is sought *)
(* in the list as it was: the first page left, or the last one before the   *)
(* first that goes.                                                         *)
NextSelection(list, pages) ==
    LET Gone(k) == list.items[k].page \in pages
        kept == {k \in DOMAIN list.items : ~Gone(k)}
        before == {k \in kept : \A j \in 1..k : ~Gone(j)}
    IN  IF Gone(1) THEN {list.items[k].page : k \in {k \in kept : \A j \in kept : k <= j}}
        ELSE IF kept = DOMAIN list.items THEN {}
        ELSE {list.items[k].page : k \in {k \in before : \A j \in before : j <= k}}

RemoveFromProject ==
    LET pages == SelectedItems(disp)
        imgs  == RemovePages(images, pages)
        heir  == NextSelection(disp, pages)
        chosen == IF heir = {} THEN disp
                  ELSE SetSelection(disp, CHOOSE page \in heir : TRUE, "RESET_SELECTION")
        list  == RemoveFromList(chosen, pages, IncompleteNow, Order)
        first == IF list.items = << >> THEN NoPage ELSE list.items[1].page
        seen  == IF heir # {} THEN EnsurePageVisible(list, heir, list.leader, "KEEP_SELECTION")
                 ELSE IF list.leader = NoPage THEN SetSelection(list, first, "RESET_SELECTION")
                 ELSE list
        after == {k \in DOMAIN disp.items : /\ disp.items[k].page \notin pages
                                            /\ \E j \in 1..(k - 1) : disp.items[j].page \in pages}
        made  == IF after = {} THEN ImagesShown(list)
                 ELSE {ImageOf(disp.items[CHOOSE k \in after : \A j \in after : k <= j].page)}
        Cancelled(task) == task # None /\ task.page \in pages
    IN  /\ Step
        /\ pages # {}
        /\ disp' = seen
        /\ Thumbnails(imgs, record, made \cap ImageIds(imgs), stage)
        /\ IF seen.leader # NoPage THEN UpdateMainArea(seen, stage)
           ELSE /\ loaded' = NoPage
                /\ next' = IF Cancelled(next) THEN None ELSE next
                /\ run' = IF Cancelled(run) THEN [run EXCEPT !.cancelled = TRUE] ELSE run
                /\ result' = IF Cancelled(result) THEN None ELSE result
                /\ UNCHANGED ui
        /\ UNCHANGED <<rotation, stage, splitOrder, reverse>>

(* showInsertFileDialog and insertImage, for an image the project does not  *)
(* know: before or after an image, or, before the null image, at the end.   *)
(* (Not for an image removed while one of its halves stayed in the list.)   *)
InsertNewImage(id, where, existing) ==
    LET desc  == ImageDesc(id, AdviseNumberOfLogicalPages(id, 0))
        imgs  == InsertImage(images, desc, where, existing)
        pages == InsertedPages(images, desc, where, existing, ViewOf(stage), Direction)
        order == IF where = "BEFORE" THEN Reverse(pages) ELSE pages
        one   == Insert(disp, order[1], where, existing, IncompleteNow, Order)
        list  == IF Len(order) = 1 THEN one
                 ELSE Insert(one, order[2], where, id, IncompleteNow, Order)
    IN  /\ Step
        /\ id \notin ImageIds(images)
        /\ record[id] = NullRecord /\ rotation[id] = 0
        /\ id \notin ImagesShown(disp)
        /\ CanInsert(images, where, existing)
        /\ disp' = list
        /\ Thumbnails(imgs, record, ImagesShown(list), stage)
        /\ MainAreaSame
        /\ UNCHANGED <<rotation, stage, splitOrder, reverse>>

-----------------------------------------------------------------------------
(* The widgets of fix_orientation and page_split *)

InvalidatedThumbnail(list, page, rec) ==
    InvalidateThumbnail(list, page, IncompletePages(rec, stage),
                        OrderProvider(rec, stage, splitOrder, reverse))
(* What invalidateThumbnail() writes: nothing for a page that is not shown. *)
MadeFor(page) == {ImageOf(page)} \cap {ImageOf(p) : p \in {page} \cap Shown(disp)}

(* setRotation *)
SetRotation ==
    /\ Step
    /\ stage = 0 /\ loaded # NoPage
    /\ rotation' = [rotation EXCEPT ![ImageOf(loaded)] = 90 - @]
    /\ disp' = InvalidatedThumbnail(disp, loaded, record)
    /\ MainAreaSame
    /\ UNCHANGED <<images, record, stage, splitOrder, reverse>>

(* layoutTypeButtonToggled.  The buttons are live while a page is being     *)
(* processed; m_uiData then is that of the page shown before.               *)
LayoutTypeButtonToggled(type) ==
    LET id == ImageOf(loaded)
        layout == IF type = "TWO_PAGES" THEN "TWO_PAGE_LAYOUT" ELSE "ONE_PAGE_LAYOUT"
        imgs == SetLayoutTypeFor(images, id, layout)
        reload == \/ type = "PAGE_PLUS_OFFCUT"
                  \/ type # "SINGLE_PAGE_UNCUT" /\ ui.mode = "MODE_AUTO"
        asked == SetLayout(record[id], type)
        params == Params(type, ui.deps, ui.mode)
        rec == [record EXCEPT ![id] = UpdatePage(IF reload THEN asked ELSE SetParams(asked, params))]
    IN  /\ Step
        /\ stage = 1 /\ loaded # NoPage
        /\ type # "AUTO_LAYOUT_TYPE"
        /\ IF reload THEN
                /\ images' = imgs /\ record' = rec
                /\ UpdateMainArea(disp, stage)
                /\ UNCHANGED disp
           ELSE /\ ui' = [ui EXCEPT !.type = type]
                /\ disp' = InvalidatedThumbnail(disp, loaded, rec)
                /\ Thumbnails(imgs, rec, MadeFor(loaded) \cap ImageIds(imgs), stage)
                /\ UNCHANGED <<loaded, tasks>>
        /\ UNCHANGED <<rotation, stage, splitOrder, reverse>>

(* layoutTypeSet, when the dialog is accepted: for the images chosen, and   *)
(* with the cut of the widget's page or not.  The automatic choice clears   *)
(* the parameters and leaves the layout type as it was; on the widget's own *)
(* page it sets the Auto button, and so splitLineModeChanged().  The dialog *)
(* is not modal: at another stage, where the widget has the page it showed  *)
(* last, nothing listens to its signals.  (Without parameters of that page, *)
(* *params() is undefined.)                                                 *)
LayoutTypeSet(ids, type, applyCut) ==
    LET params == record[ImageOf(ui.page)].params
        Set(r) == IF type = "AUTO_LAYOUT_TYPE" THEN SetParams(r, NoParams)
                  ELSE IF applyCut THEN UpdatePage(SetParams(SetLayout(r, type), params))
                  ELSE UpdatePage(SetLayout(r, type))
        rec == [id \in Images |-> IF id \in ids THEN Set(record[id]) ELSE record[id]]
        widget == IF type = "AUTO_LAYOUT_TYPE" /\ ImageOf(ui.page) \in ids
                  THEN [ui EXCEPT !.mode = "MODE_AUTO"] ELSE ui
    IN  /\ Step
        /\ ui.page \in PageIds /\ params # NoParams
        /\ ids # {} /\ ids \subseteq ImageIds(images)
        /\ \/ /\ stage = 1 /\ loaded # NoPage
              /\ disp' = InvalidateAll(disp, IncompletePages(rec, stage),
                                       OrderProvider(rec, stage, splitOrder, reverse))
              /\ Thumbnails(images, rec, ImagesShown(disp) \cap ImageIds(images), stage)
              /\ IF type = "AUTO_LAYOUT_TYPE" THEN Reload(disp, stage, widget) ELSE MainAreaSame
           \/ /\ stage # 1
              /\ record' = rec /\ ui' = widget
              /\ UNCHANGED <<images, disp, loaded, tasks>>
        /\ UNCHANGED <<rotation, stage, splitOrder, reverse>>

(* pageLayoutSetExternally, and splitLineModeChanged to manual or automatic *)
(* (the two buttons are disabled while the page is being processed).        *)
SplitLineSet(moved) ==
    LET id == ImageOf(loaded)
        rec == [record EXCEPT ![id] = UpdatePage(SetParams(@, Params(ui.type, ui.deps, "MODE_MANUAL")))]
    IN  /\ Step
        /\ stage = 1 /\ ui.ready /\ loaded # NoPage /\ ui.type # "SINGLE_PAGE_UNCUT"
        /\ moved \/ ui.mode = "MODE_AUTO"
        /\ ui' = [ui EXCEPT !.mode = "MODE_MANUAL"]
        /\ IF moved THEN /\ disp' = InvalidatedThumbnail(disp, loaded, rec)
                         /\ Thumbnails(images, rec, MadeFor(loaded) \cap ImageIds(images), stage)
                    ELSE record' = rec /\ UNCHANGED <<disp, images>>
        /\ UNCHANGED <<loaded, tasks, rotation, stage, splitOrder, reverse>>

SplitLineAutomatic ==
    LET id == ImageOf(loaded)
    IN  /\ Step
        /\ stage = 1 /\ ui.ready /\ loaded # NoPage /\ ui.type # "SINGLE_PAGE_UNCUT" /\ ui.mode = "MODE_MANUAL"
        /\ record' = [record EXCEPT ![id] = SetParams(@, NoParams)]
        /\ Reload(disp, stage, [ui EXCEPT !.mode = "MODE_AUTO"])
        /\ UNCHANGED <<images, rotation, stage, splitOrder, reverse, disp>>

(* unremoveLeftPage, unremoveRightPage; the buttons are on the image shown. *)
Unremove(sub) ==
    LET page == PageId(ImageOf(loaded), sub)
        imgs == UnremovePage(images, page)
    IN  /\ Step
        /\ stage = 1 /\ ui.ready /\ loaded # NoPage
        /\ ImageOf(loaded) \in ImageIds(images)
        /\ LET desc == DescOf(images, ImageOf(loaded))
           IN  IF sub = LEFT_PAGE THEN desc.leftHalfRemoved ELSE desc.rightHalfRemoved
        /\ disp' = InvalidatedThumbnail(disp, loaded, record)
        /\ Thumbnails(imgs, record, MadeFor(loaded), stage)
        /\ UNCHANGED <<loaded, ui, tasks, rotation, stage, splitOrder, reverse>>

-----------------------------------------------------------------------------
(* The task of the worker thread: page_split::Task::process *)

TaskTaken ==
    /\ next # None /\ run = None
    /\ run' = [page |-> next.page, stage |-> next.stage, phase |-> "start",
               rec |-> NullRecord, deps |-> None, type |-> Unset, cancelled |-> FALSE]
    /\ next' = None
    /\ UNCHANGED <<project, stage, splitOrder, reverse, disp, loaded, ui, result, steps, unseen>>

RecordRead ==
    LET id == ImageOf(run.page)
    IN  /\ run # None /\ run.phase = "start" /\ ~run.cancelled
        /\ run' = [run EXCEPT !.rec = record[id], !.deps = DepsOf(record, id),
                              !.phase = IF run.stage = 0 THEN "done"
                                        ELSE IF record[id].params = NoParams \/ Stale(record, id)
                                        THEN "estimate" ELSE "pages"]
        /\ UNCHANGED <<project, stage, splitOrder, reverse, disp, loaded, ui, next, result, steps, unseen>>

LayoutEstimated(type) ==
    /\ run # None /\ run.phase = "estimate" /\ ~run.cancelled
    /\ type \in Estimates(CombinedLayoutType(run.rec))
    /\ run' = [run EXCEPT !.phase = "store", !.type = type]
    /\ UNCHANGED <<project, stage, splitOrder, reverse, disp, loaded, ui, next, result, steps, unseen>>

\* Mutant: after a conflict the record read at first is used again.
LayoutStoredRecordKept ==
    LET id == ImageOf(run.page)
        update == ConditionalUpdate(record[id], Params(run.type, run.deps, "MODE_AUTO"))
    IN  /\ run # None /\ run.phase = "store"
        /\ record' = [record EXCEPT ![id] = update.record]
        /\ run' = IF update.conflict THEN [run EXCEPT !.phase = "estimate"]
                  ELSE [run EXCEPT !.rec = update.record, !.phase = "pages"]
        /\ UNCHANGED <<images, rotation, stage, splitOrder, reverse, disp, loaded, ui,
                       next, result, steps, unseen>>

(* A conflict that left no parameters makes it estimate again. *)
LayoutStored ==
    LET id == ImageOf(run.page)
        update == ConditionalUpdate(record[id], Params(run.type, run.deps, "MODE_AUTO"))
    IN  /\ run # None /\ run.phase = "store"
        /\ record' = [record EXCEPT ![id] = update.record]
        /\ run' = [run EXCEPT !.rec = update.record,
                              !.phase = IF update.record.params = NoParams THEN "estimate" ELSE "pages"]
        /\ UNCHANGED <<images, rotation, stage, splitOrder, reverse, disp, loaded, ui,
                       next, result, steps, unseen>>

(* setLayoutTypeFor; from here on nothing asks whether the task is cancelled.*)
PagesSet ==
    /\ run # None /\ run.phase = "pages"
    /\ images' = SetLayoutTypeFor(images, ImageOf(run.page), PagesLayout(run.rec.params.type))
    /\ run' = [run EXCEPT !.phase = "done"]
    /\ UNCHANGED <<rotation, record, stage, splitOrder, reverse, disp, loaded, ui,
                   next, result, steps, unseen>>

TaskFinished ==
    /\ run # None
    /\ run.phase = "done" \/ (run.cancelled /\ run.phase \in {"start", "estimate"})
    /\ result' = IF run.cancelled THEN None ELSE run
    /\ run' = None
    /\ UNCHANGED <<project, stage, splitOrder, reverse, disp, loaded, ui, next, steps, unseen>>

(* UiUpdater::updateUI *)
ResultShown ==
    /\ result # None
    /\ result' = None
    /\ ui' = IF result.stage = 1
             THEN [page |-> ui.page, ready |-> TRUE, type |-> result.rec.params.type,
                   deps |-> result.deps, mode |-> result.rec.params.mode]
             ELSE ui
    /\ disp' = InvalidatedThumbnail(disp, result.page, record)
    /\ Thumbnails(images, record, MadeFor(result.page) \cap ImageIds(images), stage)
    /\ UNCHANGED <<rotation, stage, splitOrder, reverse, loaded, next, run, steps, unseen>>

-----------------------------------------------------------------------------
(* switchToNewProject: images that are not split yet, or with the layouts   *)
(* found before; the first page is selected.                                *)
FileRecord(id, type) ==
    IF type = Unset THEN NullRecord
    ELSE SetParams(NullRecord,
                   Params(type, Dependencies(id, 0, "AUTO_LAYOUT_TYPE"), "MODE_AUTO"))
FileDescs(id, type) ==
    IF type = Unset THEN {ImageDesc(id, AdviseNumberOfLogicalPages(id, 0))}
    ELSE IF type = "TWO_PAGES"
         THEN {ImageDesc(id, 2), [ImageDesc(id, 1) EXCEPT !.leftHalfRemoved = TRUE]}
         ELSE {ImageDesc(id, 1)}

Init ==
    /\ stage = 0
    /\ rotation = [id \in Images |-> 0]
    /\ splitOrder = FALSE /\ reverse = FALSE
    /\ \E types \in [Loaded -> {Unset, "SINGLE_PAGE_UNCUT", "TWO_PAGES"}] :
        /\ record = [id \in Images |-> FileRecord(id, IF id \in Loaded THEN types[id] ELSE Unset)]
        /\ images \in LET ids == Ascending(Loaded)
                      IN  {descs \in [DOMAIN ids -> ImageDescs] :
                            \A k \in DOMAIN ids : descs[k] \in FileDescs(ids[k], types[ids[k]])}
    /\ disp = LET list == Reset(EmptyList(ViewOf(stage), NoPage), PagesNow(images, stage),
                                "RESET_SELECTION", IncompleteNow, Order)
              IN  EnsurePageVisible(list, {list.items[1].page}, NoPage, "KEEP_SELECTION")
    /\ loaded = disp.leader
    /\ ui = [page |-> NoPage, ready |-> FALSE, type |-> "SINGLE_PAGE_UNCUT", mode |-> "MODE_AUTO",
             deps |-> [size |-> "null", rotation |-> 0, layoutType |-> "AUTO_LAYOUT_TYPE"]]
    /\ next = [page |-> disp.leader, stage |-> stage]
    /\ run = None /\ result = None
    /\ steps = 0 /\ unseen = FALSE

User ==
    \/ \E st \in 0..2 : FilterSelectionChanged(st)
    \/ \E page \in Shown(disp) : \/ SelectByClick(page)
                                  \/ SelectWithControl(page)
                                  \/ SelectWithShift(page)
    \/ \E page \in PagesShown : GoToPage(page)
    \/ \E pages \in SUBSET PagesShown : SelectPages(pages)
    \/ PageOrderingChanged \/ InverseOrderToggled
    \/ RemoveFromProject
    \/ \E id \in Images, where \in {"BEFORE", "AFTER"}, existing \in ImageIds(images) \cup {NoImage} :
            InsertNewImage(id, where, existing)
    \/ SetRotation
    \/ \E type \in LayoutTypes : LayoutTypeButtonToggled(type)
    \/ \E ids \in SUBSET ImageIds(images), type \in LayoutTypes, cut \in BOOLEAN :
            LayoutTypeSet(ids, type, cut)
    \/ \E moved \in BOOLEAN : SplitLineSet(moved)
    \/ SplitLineAutomatic
    \/ \E sub \in {LEFT_PAGE, RIGHT_PAGE} : Unremove(sub)

Program ==
    \/ TaskTaken \/ RecordRead
    \/ \E type \in PageLayoutTypes : LayoutEstimated(type)
    \/ LayoutStored \/ PagesSet \/ TaskFinished \/ ResultShown

Spec == Init /\ [][User \/ Program]_vars /\ WF_vars(Program)

-----------------------------------------------------------------------------
(* The images' descriptions are what ProjectPages.h says of them, "Both     *)
(* can't be true, and if one is true, then numLogicalPages is 1", whatever  *)
(* the layout buttons, the orientations, the tasks and the removals of      *)
(* halves did to them in whatever order.                                    *)
TypeOK ==
    /\ \A k \in DOMAIN images : images[k] \in ImageDescs /\ DescOK(images[k])
    /\ rotation \in [Images -> Rotations]
    /\ stage \in 0..2 /\ splitOrder \in BOOLEAN /\ reverse \in BOOLEAN
    /\ Shown(disp) \subseteq PageIds
    /\ loaded \in PageIds \cup {NoPage}
    /\ steps \in 0..MaxSteps

(* Selecting, resetting, inserting and removing keep the three things the   *)
(* list knows of a selection together: the flags of the items, the leader,  *)
(* and the index that begins with the selected items, by which              *)
(* selectedItems() finds them.  (Not once pages are selected by number none *)
(* of which is shown: setSelection(set) then flags the old leader without   *)
(* moving it in the index.)                                                 *)
SelectionSound == ~unseen =>
    /\ disp.leaders = {disp.leader} \ {NoPage}
    /\ disp.leaders \subseteq disp.selected
    /\ disp.selected = SelectedItems(disp)
    /\ ToSet(disp.byState) = Shown(disp)
    /\ Len(disp.byState) = Cardinality(Shown(disp)) /\ Len(disp.items) = Len(disp.byState)

(* Where no order of thumbnails is chosen, the halves of an image are next   *)
(* to each other: "we won't allow inserting a page between two halves of    *)
(* another page" (ThumbnailSequence.h:200).  True from left to right only:  *)
(* insert() BEFORE an image starts from lower_bound(PageId(image)), its left *)
(* half, which is the second one where pages go from right to left.         *)
HalvesTogether == \A i, j \in DOMAIN disp.items :
    ImageOf(disp.items[i].page) = ImageOf(disp.items[j].page) =>
        \A k \in i..j : ImageOf(disp.items[k].page) = ImageOf(disp.items[i].page)
NothingBetweenHalves == ~Order.given => HalvesTogether

(* While images are shown, every image of the project is in the list, once, *)
(* and in the project's order unless there is an order of thumbnails; and   *)
(* where the program lays out from left to right, the halves of an image    *)
(* are never separated in the natural order.                                *)
ListShowsProject ==
    /\ stage < 2 => Shown(disp) = PagesShown
    /\ Direction = "LeftToRight" => NothingBetweenHalves
    /\ stage < 2 /\ ~Order.given =>
          [k \in DOMAIN disp.items |-> disp.items[k].page] = PagesNow(images, stage)

(* A choice of the order, or of the stage, puts the whole list in order,    *)
(* with the records as the thumbnails made meanwhile leave them; a list in  *)
(* order stays so, whatever pages and thumbnails are added, removed or made *)
(* again one by one; and where one thumbnail is out of place, since its page*)
(* was processed, showing the result puts it in its place.                  *)
InOrder(items, order) ==
    \A j, k \in DOMAIN items : j < k => order.less[<<items[j], items[k]>>]
OthersInOrder(items, page, order) ==
    \A j, k \in DOMAIN items :
        j < k /\ page \notin {items[j].page, items[k].page} => order.less[<<items[j], items[k]>>]
ThumbnailsInOrder ==
    [][Order'.given =>
        /\ <<stage, splitOrder, reverse>>' # <<stage, splitOrder, reverse>> =>
               InOrder(disp'.items, Order')
        /\ InOrder(disp.items, Order') => InOrder(disp'.items, Order')
        /\ ResultShown /\ result.page \in Shown(disp)
               /\ OthersInOrder(disp.items, result.page, Order') => InOrder(disp'.items, Order')]_vars

(* While images are shown, the main area and the stage's widget are about   *)
(* the selection leader, and so is the page MainWindow remembers across     *)
(* stages and in the project file.                                          *)
LeaderIsLoaded ==
    /\ stage < 2 /\ disp.leader # NoPage /\ loaded # NoPage => loaded = disp.leader
    /\ disp.leader # NoPage => SelectedPageGet(disp.current, ViewOf(stage)) = disp.leader

(* Whatever the user, a task and the thumbnails store, in whatever order,   *)
(* the parameters of an image are never of another layout type than the one *)
(* asked for (hasLayoutTypeConflict).                                       *)
NoConflict == \A id \in Images :
    ~HasLayoutTypeConflict(record[id].params, CombinedLayoutType(record[id]))

(* The loop of Task::process ends: a layout that came into conflict with    *)
(* what the user asked for meanwhile is estimated anew for that type, and   *)
(* the page of the leader is shown in the end.                              *)
Idle == next = None /\ run = None /\ result = None
Settles == <>[]Idle
=============================================================================
