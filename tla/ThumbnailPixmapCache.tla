------------------------ MODULE ThumbnailPixmapCache ------------------------
(***************************************************************************)
(* core/ThumbnailPixmapCache: thumbnails are requested by the GUI thread   *)
(* when they are painted (core/ThumbnailBase), loaded or made by the       *)
(* cache's own thread, turned into pixmaps by the GUI thread, and removed  *)
(* from memory when too many are LOADED.  The thread that runs the filter  *)
(* tasks meanwhile rewrites the thumbnails on disk.                        *)
(*                                                                         *)
(* An item is in one container with three views: by ThumbId, in the order  *)
(* of loading and in the order of removal.  The image files and their      *)
(* thumbnails are abstracted to the version of the image they show.        *)
(***************************************************************************)
EXTENDS Integers, FiniteSets, SequencesExt

CONSTANTS
    Files,              \* image files
    Images,             \* ImageIds: pages of image files
    FileOf,             \* the file an image is in
    MaxCachedPixmaps,   \* the cache is to keep at most so many LOADED items
    ExpirationThreshold,
    Changing,           \* bound: the images that tasks make new versions of
    MaxVersion,         \* bound: the versions an image may have are 1..MaxVersion
    End                 \* the end() iterator of a list

ASSUME CacheAssumption ==
    /\ FileOf \in [Images -> Files]
    /\ MaxCachedPixmaps \in Nat \ {0}
    /\ ExpirationThreshold \in Nat
    /\ Changing \subseteq Images /\ MaxVersion \in Nat \ {0}
    /\ End \notin Files

VARIABLES
    items,          \* the items by key: a record for each key in use
    loadQueue,      \* keys in the order they are going to be loaded
    removeQueue,    \* keys in the order they are going to be removed
    endOfLoaded,    \* m_endOfLoadedItems: a key of removeQueue, or End
    numQueued,      \* m_numQueuedItems
    numLoaded,      \* m_numLoadedItems
    threadStarted,  \* m_threadStarted
    shuttingDown,   \* m_shuttingDown
    wake,           \* is a wake-up event posted to m_backgroundLoader?
    loader,         \* the cache's thread: where it is and what it holds
    resultQ,        \* LoadResultEvents posted to the GUI thread
    dirty,          \* thumbnails that will be painted
    waiting,        \* thumbnails with a CompletionHandler
    source,         \* version of each image
    disk,           \* version of its thumbnail file, 0 if there is none
    writer,         \* the thread of the filter tasks, inside the cache
    recreated       \* history: version the last recreateThumbnail() has left,
                    \* 0 if its item was IN_PROGRESS

views == <<items, loadQueue, removeQueue, endOfLoaded, numQueued, numLoaded>>
gui == <<dirty, waiting>>
files == <<source, disk>>
vars == <<views, threadStarted, shuttingDown, wake, loader, resultQ, gui, files,
          writer, recreated>>

Versions == 0..MaxVersion
Statuses == {"QUEUED", "IN_PROGRESS", "LOADED", "LOAD_FAILED"}
Results == {"LOADED", "LOAD_FAILED", "REQUEST_EXPIRED"}
Idle == [op |-> "none"]

\* ThumbId::operator< compares the file and the version of the thumbnail, not
\* the page; the images here have thumbnails of one version.
ThumbId(x) == FileOf[x]

Expired == ExpirationThreshold + 1

Init ==
    /\ items = << >>
    /\ loadQueue = <<>> /\ removeQueue = <<>>
    /\ endOfLoaded = End
    /\ numQueued = 0 /\ numLoaded = 0
    /\ threadStarted = FALSE /\ shuttingDown = FALSE
    /\ wake = FALSE
    /\ loader = [pc |-> "none"]
    /\ resultQ = <<>>
    /\ dirty = {} /\ waiting = {}
    /\ source = [x \in Images |-> 1]
    /\ disk \in [Images -> {0, 1}]
    /\ writer = Idle
    /\ recreated = [x \in Images |-> 0]

-----------------------------------------------------------------------------
\* The lists.

Position(list, key) == CHOOSE i \in DOMAIN list : list[i] = key

Erase(list, key) == RemoveAt(list, Position(list, key))

\* relocate(position, key) of boost: nothing if position is key itself.
Relocate(list, position, key) ==
    LET others == Erase(list, key) IN
    CASE position = key -> list
      [] position = End -> Append(others, key)
      [] OTHER -> InsertAt(others, Position(others, position), key)

First(list) == IF list = <<>> THEN End ELSE Head(list)

Following(list, key) ==
    IF Position(list, key) = Len(list) THEN End ELSE list[Position(list, key) + 1]

Keys == DOMAIN items
WithStatus(status) == {k \in Keys : items[k].status = status}

\* The views after removeItemLocked(key), the other items being as given.
RemoveFromLists(its, key) ==
    /\ items' = [k \in DOMAIN its \ {key} |-> its[k]]
    /\ loadQueue' = Erase(loadQueue, key)
    /\ removeQueue' = Erase(removeQueue, key)
    /\ endOfLoaded' = IF endOfLoaded = key THEN Following(removeQueue, key)
                                           ELSE endOfLoaded

\* Mutant: no counter is kept.
RemoveItemUncounted(its, key) ==
    RemoveFromLists(its, key) /\ UNCHANGED <<numQueued, numLoaded>>

RemoveItem(its, key) ==
    /\ RemoveFromLists(its, key)
    /\ numQueued' = numQueued - (IF its[key].status = "QUEUED" THEN 1 ELSE 0)
    /\ numLoaded' = numLoaded - (IF its[key].status = "LOADED" THEN 1 ELSE 0)

-----------------------------------------------------------------------------
\* The GUI thread.

\* A thumbnail comes into view, or something in it changes.
Update(x) ==
    /\ ~shuttingDown
    /\ x \notin dirty
    /\ dirty' = dirty \cup {x}
    /\ UNCHANGED <<views, threadStarted, shuttingDown, wake, loader, resultQ,
                   waiting, files, writer, recreated>>

\* The thumbnail is destroyed, and its handler with it; the weak pointer the
\* item has will not be locked any more.
Dismiss(x) ==
    /\ ~shuttingDown
    /\ x \in dirty \cup waiting
    /\ dirty' = dirty \ {x} /\ waiting' = waiting \ {x}
    /\ items' = [k \in Keys |-> [items[k] EXCEPT !.handlers = @ \ {x}]]
    /\ UNCHANGED <<loadQueue, removeQueue, endOfLoaded, numQueued, numLoaded,
                   threadStarted, shuttingDown, wake, loader, resultQ,
                   files, writer, recreated>>

\* ThumbnailBase::paint: request() unless a request is under way.
Paint(x) == ~shuttingDown /\ x \in dirty /\ dirty' = dirty \ {x}

PaintWaiting(x) ==
    /\ Paint(x)
    /\ x \in waiting
    /\ UNCHANGED <<views, threadStarted, shuttingDown, wake, loader, resultQ,
                   waiting, files, writer, recreated>>

PaintLoaded(x) ==
    /\ Paint(x)
    /\ x \notin waiting
    /\ ThumbId(x) \in WithStatus("LOADED")
    /\ removeQueue' = Relocate(removeQueue, endOfLoaded, ThumbId(x))
    /\ UNCHANGED <<items, loadQueue, endOfLoaded, numQueued, numLoaded,
                   threadStarted, shuttingDown, wake, loader, resultQ, waiting,
                   files, writer, recreated>>

PaintFailed(x) ==
    /\ Paint(x)
    /\ x \notin waiting
    /\ ThumbId(x) \in WithStatus("LOAD_FAILED")
    /\ UNCHANGED <<views, threadStarted, shuttingDown, wake, loader, resultQ,
                   waiting, files, writer, recreated>>

\* Mutant: the handler is attached to QUEUED items only.
PaintAgainUnattached(x) ==
    /\ Paint(x)
    /\ x \notin waiting
    /\ ThumbId(x) \in WithStatus("QUEUED") \cup WithStatus("IN_PROGRESS")
    /\ waiting' = waiting \cup {x}
    /\ UNCHANGED <<views, threadStarted, shuttingDown, wake, loader, resultQ,
                   files, writer, recreated>>

\* A request for an item that is there is added to it.
PaintAgain(x) ==
    /\ Paint(x)
    /\ x \notin waiting
    /\ ThumbId(x) \in WithStatus("QUEUED") \cup WithStatus("IN_PROGRESS")
    /\ waiting' = waiting \cup {x}
    /\ items' = [items EXCEPT ![ThumbId(x)].handlers = @ \cup {x}]
    /\ loadQueue' = IF items[ThumbId(x)].status = "QUEUED"
                    THEN Relocate(loadQueue, First(loadQueue), ThumbId(x))
                    ELSE loadQueue
    /\ UNCHANGED <<removeQueue, endOfLoaded, numQueued, numLoaded, threadStarted,
                   shuttingDown, wake, loader, resultQ, files, writer, recreated>>

\* Mutant: the wake-up is posted when there are QUEUED items already.
WakeUpNeededLate == threadStarted /\ numQueued > 0

\* A thread that is there looks for QUEUED items until it finds none.
WakeUpNeeded == threadStarted /\ numQueued = 0

\* A request for an image that has no item makes one, and makes sure that the
\* thread will look at it.
PaintNew(x) ==
    /\ Paint(x)
    /\ x \notin waiting
    /\ ThumbId(x) \notin Keys
    /\ waiting' = waiting \cup {x}
    /\ items' = [k \in Keys \cup {ThumbId(x)} |->
                    IF k # ThumbId(x) THEN items[k]
                    ELSE [image |-> x, status |-> "QUEUED", age |-> 0,
                          handlers |-> {x}, pixmap |-> 0]]
    /\ loadQueue' = <<ThumbId(x)>> \o loadQueue
    /\ removeQueue' = Append(removeQueue, ThumbId(x))
    /\ endOfLoaded' = IF endOfLoaded = End THEN ThumbId(x) ELSE endOfLoaded
    /\ numQueued' = numQueued + 1
    /\ threadStarted' = TRUE
    /\ loader' = IF threadStarted THEN loader ELSE [pc |-> "process"]
    /\ wake' = (wake \/ WakeUpNeeded)
    /\ UNCHANGED <<numLoaded, shuttingDown, resultQ, files, writer, recreated>>

\* handleLoadResult of the thumbnails that have been waiting.
Notify(handlers, status) ==
    /\ waiting' = waiting \ handlers
    /\ dirty' = IF status = "LOAD_FAILED" THEN dirty ELSE dirty \cup handlers

\* processLoadResult, one action for each status.
ProcessResult(status) ==
    /\ ~shuttingDown
    /\ resultQ # <<>> /\ Head(resultQ).status = status
    /\ resultQ' = Tail(resultQ)
    /\ Notify(items[Head(resultQ).key].handlers, status)

\* removeExcessLocked() before the item becomes a LOADED one: what is removed,
\* and the lists and endOfLoaded without it.
Excess == IF numLoaded >= MaxCachedPixmaps THEN {Head(removeQueue)} ELSE {}
Trimmed(list) == IF Excess = {} THEN list ELSE Erase(list, Head(removeQueue))
EndTrimmed == IF endOfLoaded \in Excess THEN Following(removeQueue, endOfLoaded)
                                        ELSE endOfLoaded

ProcessLoaded ==
    /\ ProcessResult("LOADED")
    /\ LET key == Head(resultQ).key IN
       /\ items' = [k \in Keys \ Excess |->
                       IF k # key THEN items[k]
                       ELSE [items[k] EXCEPT !.status = "LOADED",
                                             !.pixmap = Head(resultQ).pixmap,
                                             !.handlers = {}]]
       /\ endOfLoaded' = EndTrimmed
       /\ removeQueue' = Relocate(Trimmed(removeQueue), EndTrimmed, key)
       /\ loadQueue' = Relocate(Trimmed(loadQueue), End, key)
       /\ numLoaded' = numLoaded + 1 - Cardinality(Excess \cap WithStatus("LOADED"))
       /\ numQueued' = numQueued - Cardinality(Excess \cap WithStatus("QUEUED"))
    /\ UNCHANGED <<threadStarted, shuttingDown, wake, loader, files,
                   writer, recreated>>

ProcessFailed ==
    /\ ProcessResult("LOAD_FAILED")
    /\ LET key == Head(resultQ).key IN
       /\ items' = [items EXCEPT ![key].status = "LOAD_FAILED", ![key].handlers = {},
                                 ![key].pixmap = 0]
       /\ loadQueue' = Relocate(loadQueue, End, key)
    /\ UNCHANGED <<removeQueue, endOfLoaded, numQueued, numLoaded, threadStarted,
                   shuttingDown, wake, loader, files, writer, recreated>>

ProcessExpired ==
    /\ ProcessResult("REQUEST_EXPIRED")
    /\ RemoveItem(items, Head(resultQ).key)
    /\ UNCHANGED <<threadStarted, shuttingDown, wake, loader, files,
                   writer, recreated>>

\* setThumbDir() to another directory makes all requests expire.  (The new
\* directory has the thumbnails of the old one, or others of its images.)
SetThumbDir ==
    /\ ~shuttingDown
    /\ items' = [k \in Keys |-> [items[k] EXCEPT !.age = Expired]]
    /\ UNCHANGED <<loadQueue, removeQueue, endOfLoaded, numQueued, numLoaded,
                   threadStarted, shuttingDown, wake, loader, resultQ, gui, files,
                   writer, recreated>>

\* ~Impl; no task that could be inside the cache has a reference to it.
Destroy ==
    /\ ~shuttingDown /\ threadStarted /\ writer = Idle
    /\ shuttingDown' = TRUE
    /\ UNCHANGED <<views, threadStarted, wake, loader, resultQ, gui, files,
                   writer, recreated>>

-----------------------------------------------------------------------------
\* The thread of the cache.

NextToLoad == First(loadQueue)

\* backgroundProcessing() up to the end of the scope of the mutex.
SomeQueued == ~shuttingDown /\ NextToLoad \in WithStatus("QUEUED")

QueuedToInProgress(age) ==
    /\ items' = [k \in Keys |->
                    [items[k] EXCEPT
                        !.status = IF k = NextToLoad THEN "IN_PROGRESS" ELSE @,
                        !.age = IF @ + age > Expired THEN Expired ELSE @ + age]]
    /\ loadQueue' = Relocate(loadQueue, End, NextToLoad)
    /\ numQueued' = numQueued - 1

LoaderStops ==
    /\ loader.pc = "process"
    /\ ~SomeQueued
    /\ loader' = [pc |-> "exec"]
    /\ UNCHANGED <<views, threadStarted, shuttingDown, wake, resultQ, gui, files,
                   writer, recreated>>

LoaderExpires ==
    /\ loader.pc = "process"
    /\ SomeQueued
    /\ items[NextToLoad].age > ExpirationThreshold
    /\ QueuedToInProgress(0)
    /\ resultQ' = Append(resultQ, [key |-> NextToLoad, status |-> "REQUEST_EXPIRED",
                                   pixmap |-> 0])
    /\ UNCHANGED <<removeQueue, endOfLoaded, numLoaded, threadStarted, shuttingDown,
                   wake, loader, gui, files, writer, recreated>>

LoaderTakes ==
    /\ loader.pc = "process"
    /\ SomeQueued
    /\ items[NextToLoad].age <= ExpirationThreshold
    /\ QueuedToInProgress(1)
    /\ loader' = [pc |-> "load", key |-> NextToLoad, image |-> items[NextToLoad].image]
    /\ UNCHANGED <<removeQueue, endOfLoaded, numLoaded, threadStarted, shuttingDown,
                   wake, resultQ, gui, files, writer, recreated>>

\* loadSaveThumbnail(), outside of the mutex: the thumbnail file, or else the
\* image, which may be unreadable, and from which the file is then made.
Loaded(version) ==
    loader' = [pc |-> "post", key |-> loader.key, image |-> loader.image,
               pixmap |-> version]

LoadThumbnail ==
    /\ loader.pc = "load"
    /\ IF disk[loader.image] # 0
       THEN Loaded(disk[loader.image])
       ELSE \/ Loaded(0)
            \/ loader' = [pc |-> "save", key |-> loader.key, image |-> loader.image,
                          pixmap |-> source[loader.image]]
    /\ UNCHANGED <<views, threadStarted, shuttingDown, wake, resultQ, gui, files,
                   writer, recreated>>

SaveThumbnail ==
    /\ loader.pc = "save"
    /\ disk' = [disk EXCEPT ![loader.image] = loader.pixmap]
    /\ Loaded(loader.pixmap)
    /\ UNCHANGED <<views, threadStarted, shuttingDown, wake, resultQ, gui, source,
                   writer, recreated>>

PostLoadResult ==
    /\ loader.pc = "post"
    /\ resultQ' = Append(resultQ,
                         [key |-> loader.key, pixmap |-> loader.pixmap,
                          status |-> IF loader.pixmap = 0 THEN "LOAD_FAILED"
                                                          ELSE "LOADED"])
    /\ loader' = [pc |-> "process"]
    /\ UNCHANGED <<views, threadStarted, shuttingDown, wake, gui, files, writer,
                   recreated>>

\* exec(): wake-up events, and quit().  The events of the kind are all alike,
\* so that one of them stands for those that follow it.
LoaderWakes ==
    /\ loader.pc = "exec"
    /\ wake /\ wake' = FALSE
    /\ loader' = [pc |-> "process"]
    /\ UNCHANGED <<views, threadStarted, shuttingDown, resultQ, gui, files, writer,
                   recreated>>

\* Mutant: the destructor counts on an event to wake the thread up.
LoaderQuitsIfWoken ==
    /\ loader.pc = "exec" /\ shuttingDown /\ wake
    /\ loader' = [pc |-> "none"]
    /\ UNCHANGED <<views, threadStarted, shuttingDown, wake, resultQ, gui, files,
                   writer, recreated>>

LoaderQuits ==
    /\ loader.pc = "exec" /\ shuttingDown
    /\ loader' = [pc |-> "none"]
    /\ UNCHANGED <<views, threadStarted, shuttingDown, wake, resultQ, gui, files,
                   writer, recreated>>

LoaderNext ==
    \/ LoaderStops \/ LoaderExpires \/ LoaderTakes \/ LoadThumbnail
    \/ SaveThumbnail \/ PostLoadResult \/ LoaderWakes \/ LoaderQuits

-----------------------------------------------------------------------------
\* The thread of the filter tasks.

\* A task makes a new version of an image, and then calls recreateThumbnail().
ChangeImage(x) ==
    /\ ~shuttingDown
    /\ writer = Idle
    /\ x \in Changing /\ source[x] < MaxVersion
    /\ source' = [source EXCEPT ![x] = @ + 1]
    /\ writer' = [op |-> "recreate", image |-> x]
    /\ UNCHANGED <<views, threadStarted, shuttingDown, wake, loader, resultQ, gui,
                   disk, recreated>>

\* The file is replaced at once (AtomicFileOverwriter), if that succeeds.
RecreateFile ==
    /\ writer.op = "recreate"
    /\ \/ /\ disk' = [disk EXCEPT ![writer.image] = source[writer.image]]
          /\ writer' = [op |-> "forget", image |-> writer.image]
       \/ writer' = Idle /\ UNCHANGED disk
    /\ UNCHANGED <<views, threadStarted, shuttingDown, wake, loader, resultQ, gui,
                   source, recreated>>

\* Mutants: the item is removed whatever its status; a LOADED one is not.
OutdatedAny == Keys
OutdatedFailed == WithStatus("LOAD_FAILED")

\* A QUEUED item will find the new file, an IN_PROGRESS one cannot be removed.
Outdated == WithStatus("LOADED") \cup WithStatus("LOAD_FAILED")

\* The second half of recreateThumbnail(), under the mutex.
ForgetItem ==
    /\ writer.op = "forget"
    /\ writer' = Idle
    /\ LET key == ThumbId(writer.image) IN
       /\ IF key \in Outdated
          THEN RemoveItem(items, key) ELSE UNCHANGED views
       /\ recreated' = [recreated EXCEPT ![writer.image] =
                            IF key \in WithStatus("IN_PROGRESS") THEN 0
                            ELSE source[writer.image]]
    /\ UNCHANGED <<threadStarted, shuttingDown, wake, loader, resultQ, gui, files>>

\* ensureThumbnailExists(): the file is looked for, and written later.
EnsureExists(x) ==
    /\ ~shuttingDown
    /\ writer = Idle /\ disk[x] = 0
    /\ writer' = [op |-> "ensure", image |-> x]
    /\ UNCHANGED <<views, threadStarted, shuttingDown, wake, loader, resultQ, gui,
                   files, recreated>>

EnsureWrite ==
    /\ writer.op = "ensure"
    /\ writer' = Idle
    /\ \/ disk' = [disk EXCEPT ![writer.image] = source[writer.image]]
       \/ UNCHANGED disk
    /\ UNCHANGED <<views, threadStarted, shuttingDown, wake, loader, resultQ, gui,
                   source, recreated>>

WriterNext == RecreateFile \/ ForgetItem \/ EnsureWrite

-----------------------------------------------------------------------------
Painting(x) ==
    PaintWaiting(x) \/ PaintLoaded(x) \/ PaintFailed(x) \/ PaintAgain(x) \/ PaintNew(x)

Delivery == ProcessLoaded \/ ProcessFailed \/ ProcessExpired

Next ==
    \/ \E x \in Images : Update(x) \/ Dismiss(x) \/ Painting(x)
                         \/ ChangeImage(x) \/ EnsureExists(x)
    \/ Delivery \/ SetThumbDir \/ Destroy
    \/ LoaderNext
    \/ WriterNext

Spec == Init /\ [][Next]_vars

\* Both threads run, and the GUI thread receives its events.
FairSpec == Spec /\ WF_vars(LoaderNext) /\ WF_vars(Delivery)

-----------------------------------------------------------------------------
TypeOK ==
    /\ Keys \subseteq Files
    /\ \A k \in Keys : items[k] \in [image : Images, status : Statuses,
                                     age : 0..Expired, handlers : SUBSET Images,
                                     pixmap : Versions]
    /\ loadQueue \in Seq(Files) /\ removeQueue \in Seq(Files)
    /\ endOfLoaded \in Files \cup {End}
    /\ numQueued \in Nat /\ numLoaded \in Nat
    /\ threadStarted \in BOOLEAN /\ shuttingDown \in BOOLEAN /\ wake \in BOOLEAN
    /\ loader.pc \in {"none", "process", "load", "save", "post", "exec"}
    /\ resultQ \in Seq([key : Files, status : Results, pixmap : Versions])
    /\ dirty \subseteq Images /\ waiting \subseteq Images
    /\ source \in [Images -> Versions] /\ disk \in [Images -> Versions]
    /\ recreated \in [Images -> Versions]

Precedes(list, S) ==
    \A i, j \in DOMAIN list : i < j /\ list[j] \in S => list[i] \in S

(***************************************************************************)
(* "all QUEUED ones precede any others" in the load queue, "all LOADED ones *)
(* precede any others" in the remove queue, and both lists have each item   *)
(* once: the loops that stop at the first other item miss nothing, and the *)
(* item removed to make room is a LOADED one.                              *)
(***************************************************************************)
ListsInOrder ==
    /\ Precedes(loadQueue, WithStatus("QUEUED"))
    /\ Precedes(removeQueue, WithStatus("LOADED"))
    /\ IsInjective(loadQueue) /\ Range(loadQueue) = Keys
    /\ IsInjective(removeQueue) /\ Range(removeQueue) = Keys

(***************************************************************************)
(* The counters are exact, and the cache keeps to its limit.               *)
(***************************************************************************)
CountersExact ==
    /\ numQueued = Cardinality(WithStatus("QUEUED"))
    /\ numLoaded = Cardinality(WithStatus("LOADED"))
    /\ numLoaded <= MaxCachedPixmaps

(***************************************************************************)
(* The views of the items agree: the map, both lists and the counters that *)
(* are kept by hand, on every path by which an item changes its status, is *)
(* removed or moved.                                                       *)
(***************************************************************************)
ViewsAgree == TypeOK /\ ListsInOrder /\ CountersExact

(***************************************************************************)
(* The iterators that leave the mutex stay valid: the thread's own and     *)
(* those in the posted events refer to items that are still there and      *)
(* IN_PROGRESS, no two of them to the same item; and an IN_PROGRESS item   *)
(* has one, so that it will not stay in progress.                          *)
(***************************************************************************)
ReferencesValid ==
    LET held == IF loader.pc \in {"load", "save", "post"} THEN <<loader.key>> ELSE <<>>
        posted == [i \in DOMAIN resultQ |-> resultQ[i].key]
    IN  /\ IsInjective(held \o posted)
        /\ Range(held \o posted) = WithStatus("IN_PROGRESS")

(***************************************************************************)
(* A thumbnail that waits is among the handlers of an item that is queued  *)
(* or in progress: it cannot be forgotten.                                 *)
(***************************************************************************)
WaitingIsListed ==
    \A x \in waiting : \E k \in WithStatus("QUEUED") \cup WithStatus("IN_PROGRESS") :
        x \in items[k].handlers

(***************************************************************************)
(* A wake-up is posted only when the count of queued items leaves zero;    *)
(* still, the thread never sleeps while an item is queued.                 *)
(***************************************************************************)
NoLostWakeUp ==
    WithStatus("QUEUED") # {} /\ loader.pc \in {"none", "exec"} =>
        wake \/ shuttingDown

(***************************************************************************)
(* A request is never forgotten: its thumbnail has a place where the       *)
(* answer will find it, and the thread will come to serve it.              *)
(***************************************************************************)
NotForgotten == WaitingIsListed /\ NoLostWakeUp

(***************************************************************************)
(* The state of the cache between two critical sections, in either thread. *)
(***************************************************************************)
Inv == ViewsAgree /\ ReferencesValid /\ NotForgotten

(***************************************************************************)
(* Once recreateThumbnail() has returned, no pixmap older than the file it *)
(* has written is in memory, the "small race condition" with a load that   *)
(* is IN_PROGRESS apart, and provided the file is still there; if another  *)
(* file was there and the next recreateThumbnail() replaces that, it is    *)
(* about to remove the pixmap.                                             *)
(***************************************************************************)
FreshUnlessRaced ==
    \A k \in WithStatus("LOADED") :
        LET x == items[k].image IN
        \/ items[k].pixmap >= recreated[x]
        \/ disk[x] < recreated[x]
        \/ writer = [op |-> "forget", image |-> x]

(***************************************************************************)
(* Every thumbnail that waits is notified, or the cache is destroyed; but  *)
(* the last request is served first, so that it may not be if new requests *)
(* are made for ever.                                                      *)
(***************************************************************************)
RequestAnswered ==
    \/ []<><<\E x \in Images : PaintNew(x)>>_vars
    \/ \A x \in Images : x \in waiting ~> x \notin waiting \/ shuttingDown

\* The destructor does not wait for ever.
ShutdownCompletes == shuttingDown ~> loader.pc = "none"

\* The thread neither leaves a request alone nor the destructor waiting.
Liveness == RequestAnswered /\ ShutdownCompletes
=============================================================================
