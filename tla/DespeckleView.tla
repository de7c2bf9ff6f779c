--------------------------- MODULE DespeckleView ---------------------------
(***************************************************************************)
(* core/filters/output/DespeckleView: the "Despeckling" tab of the output  *)
(* stage.  It shows the speckles removed at the chosen level, which the    *)
(* shared background executor finds again when the level changes; while it *)
(* does, a processing indicator is shown.  Another tab hides the view and  *)
(* cancels the task.                                                       *)
(*                                                                         *)
(* A level changed while the view is hidden is not handled here:           *)
(* OptionsWidget then asks for the page to be reloaded, which replaces the *)
(* view.  Of the executor the view needs what SerialExecutor says.         *)
(***************************************************************************)
EXTENDS SerialExecutor, FiniteSets

CONSTANTS
    Levels,         \* DespeckleLevel
    Indicator       \* m_pProcessingIndicator, the widget 0 of the stack

ASSUME IndicatorAssumption == Indicator \notin Levels

VARIABLES
    visible,        \* is the tab of the view the current one?
    widget,         \* the current widget: Indicator, or an image of a level
    state,          \* the level of m_despeckleState
    level,          \* m_despeckleLevel
    handle,         \* m_ptrCancelHandle, named for its task
    handlesCancelled,   \* tasks whose handle has been cancelled
    wanted,         \* the level each task is to despeckle with
    shot,           \* the image the single-shot timer of the constructor is to
                    \* show, named for its level; Indicator if there is none
    reload,         \* reloadRequested() was emitted: the view will be replaced
    early           \* history: the level was changed before the timer fired

tasks == <<handle, handlesCancelled, wanted>>
despeckleView == <<visible, widget, state, level, tasks, shot, reload, early>>
despeckleVars == <<executor, despeckleView>>

DespeckleLive == DOMAIN wanted

\* With a visualization, the timer of the constructor is started.
DespeckleInit ==
    /\ ExecutorInit
    /\ visible = FALSE
    /\ widget = Indicator
    /\ state \in Levels /\ level = state
    /\ handle = NoTask /\ handlesCancelled = {}
    /\ wanted = [t \in {} |-> Indicator]
    /\ shot \in {Indicator, level}
    /\ early = FALSE
    /\ reload = FALSE

-----------------------------------------------------------------------------
\* Mutant: the handle is dropped, but not cancelled.
CancelNothing == UNCHANGED handlesCancelled

\* The handle stays when its task is done, and then has no effect.
CancelBackgroundTask == handlesCancelled' = handlesCancelled \cup ({handle} \cap DespeckleLive)

\* Mutant: the handle is replaced first, and then cancelled.
InitiateThenCancel(t, l) ==
    /\ t \in Tasks \ DespeckleLive
    /\ widget' = Indicator
    /\ handlesCancelled' = handlesCancelled \cup {t}
    /\ handle' = t
    /\ wanted' = [u \in DespeckleLive \cup {t} |-> IF u = t THEN l ELSE wanted[u]]
    /\ Enqueue(t)

\* initiateDespeckling() for level l, with t as the new task.
InitiateDespeckling(t, l) ==
    /\ t \in Tasks \ DespeckleLive
    /\ widget' = Indicator
    /\ CancelBackgroundTask
    /\ handle' = t
    /\ wanted' = [u \in DespeckleLive \cup {t} |-> IF u = t THEN l ELSE wanted[u]]
    /\ Enqueue(t)

\* handleDespeckleLevelChange() of OptionsWidget, despeckleLevelChanged().
LevelChangedVisible(t, l) ==
    /\ ~reload
    /\ l # level /\ visible
    /\ level' = l
    /\ InitiateDespeckling(t, l)
    /\ early' = (early \/ shot # Indicator)
    /\ UNCHANGED <<visible, state, shot, reload>>

LevelChangedHidden(l) ==
    /\ ~reload
    /\ l = level \/ ~visible
    /\ level' = l
    /\ reload' = TRUE
    /\ UNCHANGED <<executor, visible, widget, state, tasks, shot, early>>

\* Mutant: the task goes on.
HideOnly ==
    /\ visible
    /\ visible' = FALSE
    /\ UNCHANGED <<executor, widget, state, level, tasks, shot, reload, early>>

HideEvent ==
    /\ visible
    /\ visible' = FALSE
    /\ CancelBackgroundTask
    /\ handle' = NoTask
    /\ UNCHANGED <<executor, widget, state, level, wanted, shot, reload, early>>

ShowImage ==
    /\ ~visible /\ widget # Indicator
    /\ visible' = TRUE
    /\ UNCHANGED <<executor, widget, state, level, tasks, shot, reload, early>>

ShowIndicator(t) ==
    /\ ~visible /\ widget = Indicator
    /\ visible' = TRUE
    /\ InitiateDespeckling(t, level)
    /\ UNCHANGED <<state, level, shot, reload, early>>

\* The timer of the constructor: the image of the level it began with.
SingleShot ==
    /\ shot # Indicator
    /\ shot' = Indicator
    /\ widget' = shot
    /\ UNCHANGED <<executor, visible, state, level, tasks, reload, early>>

DespeckleFinished(t) ==
    /\ wanted' = [u \in DespeckleLive \ {t} |-> wanted[u]]
    /\ handlesCancelled' = handlesCancelled \ {t}

\* DespeckleTask: TaskCancelException wherever the task looks at the handle.
DespeckleTaskCancelled ==
    /\ running \in handlesCancelled
    /\ End(FALSE)
    /\ DespeckleFinished(running)
    /\ UNCHANGED <<visible, widget, state, level, handle, shot, reload, early>>

\* The handle may have been cancelled since the task looked at it.
DespeckleTaskEnds == End(TRUE) /\ UNCHANGED despeckleView

\* DespeckleResult::operator(), despeckleDone().
DespeckleDone(t) ==
    /\ Deliver(t)
    /\ DespeckleFinished(t)
    /\ IF t \notin handlesCancelled
       THEN state' = wanted[t] /\ widget' = wanted[t]
       ELSE UNCHANGED <<state, widget>>
    /\ UNCHANGED <<visible, level, handle, shot, reload, early>>

DespeckleUser ==
    \/ HideEvent \/ ShowImage
    \/ \E l \in Levels : LevelChangedHidden(l)
    \/ \E t \in Tasks :
          ShowIndicator(t) \/ \E l \in Levels : LevelChangedVisible(t, l)

DespeckleBackground ==
    \/ Begin /\ UNCHANGED despeckleView
    \/ DespeckleTaskCancelled \/ DespeckleTaskEnds

DespeckleGuiThread == SingleShot \/ \E t \in Tasks : DespeckleDone(t)

DespeckleNext == DespeckleUser \/ DespeckleGuiThread \/ DespeckleBackground

DespeckleSpec == DespeckleInit /\ [][DespeckleNext]_despeckleVars

DespeckleFairSpec ==
    /\ DespeckleSpec
    /\ WF_despeckleVars(DespeckleGuiThread) /\ WF_despeckleVars(DespeckleBackground)

-----------------------------------------------------------------------------
DespeckleTypeOK ==
    /\ visible \in BOOLEAN /\ reload \in BOOLEAN
    /\ widget \in Levels \cup {Indicator} /\ shot \in Levels \cup {Indicator}
    /\ early \in BOOLEAN
    /\ state \in Levels /\ level \in Levels
    /\ handle \in Tasks \cup {NoTask}
    /\ DespeckleLive \subseteq Tasks /\ handlesCancelled \subseteq DespeckleLive
    /\ \A t \in DespeckleLive : wanted[t] \in Levels
    /\ pending \in Seq(DespeckleLive) /\ running \in DespeckleLive \cup {NoTask}
    /\ results \in Seq(DespeckleLive)

(***************************************************************************)
(* What the tab shows is of the chosen level, whatever tasks were begun    *)
(* for other levels; unless the level was changed before the timer of the  *)
(* constructor, or while hidden, which has the page reloaded.              *)
(***************************************************************************)
ShowsChosenLevel == widget \in {Indicator, level} \/ reload \/ early

(***************************************************************************)
(* A visible indicator is there because a task is under way that will be   *)
(* listened to; hidden, no task of the view is.                            *)
(***************************************************************************)
IndicatorHasTask ==
    /\ visible /\ widget = Indicator =>
           handle \in DespeckleLive \ handlesCancelled /\ wanted[handle] = level
    /\ ~visible => DespeckleLive \subseteq handlesCancelled

(***************************************************************************)
(* The state of the tab: the types, the task behind the indicator, and the *)
(* level that is shown.                                                    *)
(***************************************************************************)
DespeckleInv == DespeckleTypeOK /\ IndicatorHasTask /\ ShowsChosenLevel

\* The indicator goes away, unless the user goes on asking for other levels.
IndicatorGoes ==
    \/ []<><<DespeckleUser>>_despeckleVars
    \/ visible /\ widget = Indicator ~> ~visible \/ widget # Indicator
=============================================================================
