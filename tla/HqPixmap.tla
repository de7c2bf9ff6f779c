------------------------------ MODULE HqPixmap ------------------------------
(***************************************************************************)
(* core/ImageViewBase: the high quality version of the image, built in the *)
(* background for the current transform, and shown while it is valid.  The *)
(* view shows its image, or the alternative one while a key is held.       *)
(*                                                                         *)
(* The view uses the shared background executor, of which it needs what    *)
(* SerialExecutor says and BackgroundExecutor implements; the executor is  *)
(* destroyed after the views.  A picture is abstracted to the image and    *)
(* the transform it was made from.  Nothing calls hqTransformSetEnabled(), *)
(* so that m_hqTransformEnabled is true from the constructor on.           *)
(***************************************************************************)
EXTENDS SerialExecutor, Naturals

CONSTANTS
    Xforms,     \* transforms of the image to the widget
    None        \* a null pixmap, and the id of no image

Images == {"image", "alternative"}
Pictures == [image : Images, xform : Xforms]

ASSUME NoneAssumption == None \notin Images \cup Xforms \cup Pictures

VARIABLES
    viewAlive,      \* is the widget there?
    alternative,    \* m_displayAlternative; there is an alternative image
    xform,          \* m_imageToVirtual * m_virtualToWidget
    hq,             \* m_hqPixmap and m_alternativeHqPixmap
    hqPos,          \* m_hqPixmapPos, named for the picture it belongs to
    hqXform, hqSource,  \* m_hqXform, m_hqSourceId
    potential,      \* m_potentialHqXform
    timer,          \* is m_timer active?
    current,        \* m_ptrHqTransformTask
    cancelled,      \* tasks whose cancel flag is set
    built,          \* the picture each task is to make
    dirty           \* is a paint event posted?

hqRequest == <<hqXform, hqSource, potential, timer, current, cancelled, built>>
hqView == <<viewAlive, alternative, xform, hq, hqPos, hqRequest, dirty>>
hqVars == <<executor, hqView>>

Displayed == IF alternative THEN "alternative" ELSE "image"
Shown == [image |-> Displayed, xform |-> xform]

HqInit ==
    /\ ExecutorInit
    /\ viewAlive = TRUE
    /\ alternative = FALSE
    /\ xform \in Xforms
    /\ hq = [i \in Images |-> None] /\ hqPos = None
    /\ hqXform = None /\ hqSource = None /\ potential = None
    /\ timer = FALSE
    /\ current = NoTask /\ cancelled = {}
    /\ built = [t \in {} |-> None]
    /\ dirty = TRUE

-----------------------------------------------------------------------------
HqLive == DOMAIN built

\* m_ptrHqTransformTask->cancel(), and reset().
\* Mutant: the task is forgotten without being cancelled.
ForgetCurrent == current' = NoTask /\ UNCHANGED cancelled

CancelCurrent ==
    /\ cancelled' = IF current = NoTask THEN cancelled ELSE cancelled \cup {current}
    /\ current' = NoTask

ValidateHqPixmap ==
    /\ hq[Displayed] # None
    /\ hqSource = Displayed
    /\ hqXform = xform

\* Mutant: the timer is started for another transform only.
ScheduleForNewXform ==
    IF potential # xform
    THEN CancelCurrent /\ potential' = xform /\ timer' = TRUE
    ELSE UNCHANGED <<current, cancelled, potential, timer>>

ScheduleHqVersionRebuild ==
    /\ IF ~timer \/ potential # xform
       THEN CancelCurrent /\ potential' = xform
       ELSE UNCHANGED <<current, cancelled, potential>>
    /\ timer' = TRUE

\* The parts of paintEvent() that concern the high quality version.
PaintEvent ==
    /\ viewAlive /\ dirty
    /\ dirty' = FALSE
    /\ IF ValidateHqPixmap
       THEN UNCHANGED <<potential, timer, current, cancelled>>
       ELSE ScheduleHqVersionRebuild
    /\ UNCHANGED <<executor, viewAlive, alternative, xform, hq, hqPos, hqXform,
                   hqSource, built>>

\* The timer is single-shot.  A valid version is left as it is.
TimeoutValid ==
    /\ viewAlive /\ timer
    /\ ValidateHqPixmap
    /\ timer' = FALSE
    /\ UNCHANGED <<executor, viewAlive, alternative, xform, hq, hqPos, hqXform,
                   hqSource, potential, current, cancelled, built, dirty>>

InitiateBuildingHqVersion(t) ==
    /\ viewAlive /\ timer
    /\ ~ValidateHqPixmap
    /\ t \in Tasks \ HqLive
    /\ timer' = FALSE
    /\ hq' = [hq EXCEPT ![Displayed] = None]
    /\ cancelled' = IF current = NoTask THEN cancelled ELSE cancelled \cup {current}
    /\ current' = t
    /\ built' = [u \in HqLive \cup {t} |-> IF u = t THEN Shown ELSE built[u]]
    /\ hqXform' = xform /\ hqSource' = Displayed
    /\ Enqueue(t)
    /\ UNCHANGED <<viewAlive, alternative, xform, hqPos, potential, dirty>>

HqFinished(t) ==
    /\ built' = [u \in HqLive \ {t} |-> built[u]]
    /\ cancelled' = cancelled \ {t}

HqTaskCancelled ==
    /\ running \in cancelled
    /\ End(FALSE)
    /\ HqFinished(running)
    /\ UNCHANGED <<viewAlive, alternative, xform, hq, hqPos, hqXform, hqSource,
                   potential, timer, current, dirty>>

\* The flag may have been set since the task looked at it.
HqTaskEnds == End(TRUE) /\ UNCHANGED hqView

\* Mutant: the result does not look at the flag.
ListenedAlways(t) == viewAlive

Listened(t) == viewAlive /\ t \notin cancelled

\* HqTransformTask::Result::operator(), hqVersionBuilt().
HqVersionBuilt(t) ==
    /\ Deliver(t)
    /\ HqFinished(t)
    /\ IF Listened(t)
       THEN /\ hq' = [hq EXCEPT ![Displayed] = built[t]]
            /\ hqPos' = built[t]
            /\ current' = NoTask
            /\ dirty' = TRUE
       ELSE UNCHANGED <<hq, hqPos, current, dirty>>
    /\ UNCHANGED <<viewAlive, alternative, xform, hqXform, hqSource, potential,
                   timer>>

-----------------------------------------------------------------------------
\* The user scrolls, zooms or resizes, holds or lets go of the key, or
\* uncovers the window; each leads to a paint event.
SetXform(x) ==
    /\ viewAlive /\ x # xform
    /\ xform' = x /\ dirty' = TRUE
    /\ UNCHANGED <<executor, viewAlive, alternative, hq, hqPos, hqRequest>>

DisplayAlternative ==
    /\ viewAlive
    /\ alternative' = ~alternative /\ dirty' = TRUE
    /\ UNCHANGED <<executor, viewAlive, xform, hq, hqPos, hqRequest>>

Expose ==
    /\ viewAlive /\ ~dirty
    /\ dirty' = TRUE
    /\ UNCHANGED <<executor, viewAlive, alternative, xform, hq, hqPos, hqRequest>>

\* The widget is deleted: no task is cancelled, but their QPointers are null.
DeleteView ==
    /\ viewAlive
    /\ viewAlive' = FALSE
    /\ UNCHANGED <<executor, alternative, xform, hq, hqPos, hqRequest, dirty>>

HqUser == Expose \/ DisplayAlternative \/ \E x \in Xforms : SetXform(x)

HqTimeout == TimeoutValid \/ \E t \in Tasks : InitiateBuildingHqVersion(t)

HqBackground ==
    \/ Begin /\ UNCHANGED hqView
    \/ HqTaskCancelled \/ HqTaskEnds

HqGuiThread == PaintEvent \/ \E t \in Tasks : HqVersionBuilt(t)

HqNext == HqUser \/ DeleteView \/ HqGuiThread \/ HqTimeout \/ HqBackground

HqSpec == HqInit /\ [][HqNext]_hqVars

\* The GUI thread's loop, its timers and the background thread go on.
HqFairSpec ==
    /\ HqSpec
    /\ WF_hqVars(HqGuiThread) /\ WF_hqVars(HqTimeout) /\ WF_hqVars(HqBackground)

-----------------------------------------------------------------------------
HqTypeOK ==
    /\ viewAlive \in BOOLEAN /\ alternative \in BOOLEAN
    /\ xform \in Xforms
    /\ hq \in [Images -> Pictures \cup {None}] /\ hqPos \in Pictures \cup {None}
    /\ hqXform \in Xforms \cup {None} /\ potential \in Xforms \cup {None}
    /\ hqSource \in Images \cup {None}
    /\ timer \in BOOLEAN /\ dirty \in BOOLEAN
    /\ current \in Tasks \cup {NoTask}
    /\ HqLive \subseteq Tasks /\ cancelled \subseteq HqLive
    /\ \A t \in HqLive : built[t] \in Pictures
    /\ pending \in Seq(HqLive) /\ running \in HqLive \cup {NoTask} /\ results \in Seq(HqLive)

(***************************************************************************)
(* A high quality pixmap that passes for valid is that of the image on     *)
(* display under the current transform, and so is the position it is drawn *)
(* at; although the key may be pressed, the view scrolled and the pixmap   *)
(* of the other image built while a task is under way, and one position    *)
(* serves two pixmaps.                                                     *)
(***************************************************************************)
ValidIsCurrent == ValidateHqPixmap => hq[Displayed] = Shown /\ hqPos = Shown

(***************************************************************************)
(* Of all the tasks under way at most one will be listened to: the last    *)
(* one, and it makes what hqXform and hqSource say.                        *)
(***************************************************************************)
OnlyCurrentListened ==
    \A t \in HqLive \ cancelled :
        t = current /\ built[t] = [image |-> hqSource, xform |-> hqXform]

(***************************************************************************)
(* The state of the view: the types, the one task listened to, and what is *)
(* drawn.                                                                  *)
(***************************************************************************)
HqInv == HqTypeOK /\ OnlyCurrentListened /\ ValidIsCurrent

(***************************************************************************)
(* When the user leaves the view alone, the high quality version comes and *)
(* stays: the repaints it causes do not cancel or restart it for ever.     *)
(***************************************************************************)
EventuallySharp ==
    \/ []<><<HqUser>>_hqVars
    \/ <>[](~viewAlive \/ ValidateHqPixmap)
=============================================================================
