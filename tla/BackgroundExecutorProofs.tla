---------------------- MODULE BackgroundExecutorProofs ----------------------
(***************************************************************************)
(* Proofs about BackgroundExecutor and the two views that have it make an  *)
(* image and show it when it is there, for any tasks.                      *)
(*                                                                         *)
(* BackgroundExecutor: its types, and that it implements SerialExecutor.   *)
(*                                                                         *)
(* The views rest on SerialExecutor.  As long as only tasks that are not   *)
(* under way are enqueued, each task waits, runs or has a result, in one   *)
(* place and once (OnePlace); so a result that is delivered is the only    *)
(* one of its task.                                                        *)
(*                                                                         *)
(* HqPixmap, for any transforms: the current task is under way and is not  *)
(* cancelled while the view is there; and the pixmap of the image last     *)
(* asked for, once it is there, is what was asked for, and it was the last *)
(* to be put in the position the pixmaps share (BuiltAsked).               *)
(*                                                                         *)
(* DespeckleView, for any levels: the only task that is not cancelled is   *)
(* that of the handle, and it is for the chosen level (OnlyHandleListened).*)
(***************************************************************************)
EXTENDS BackgroundExecutor, HqPixmap, DespeckleView, Integers, TLAPS

\* The thread is there only between start() and the end of ~Impl's wait().
ThreadWithin ==
    /\ ~threadStarted => pc = "none"
    /\ impl = "gone" => pc = "none"

IInv == TypeOK /\ ThreadWithin

\* Posting to, and delivering from, a list of events.
LEMMA EventList ==
    ASSUME NEW S, NEW q \in Seq(S)
    PROVE  /\ \A e \in S : Append(q, e) \in Seq(S)
           /\ q # <<>> => Head(q) \in S /\ Tail(q) \in Seq(S)
OBVIOUS

-----------------------------------------------------------------------------
LEMMA InitIInv == Init => IInv
<1> SUFFICES ASSUME Init PROVE IInv
    OBVIOUS
<1>1. <<>> \in Seq(Tasks)
    OBVIOUS
<1> QED BY <1>1 DEF Init, IInv, TypeOK, ThreadWithin

LEMMA NextIInv ==
    ASSUME IInv, [Next]_vars
    PROVE  IInv'
<1> USE DEF IInv, TypeOK, ThreadWithin
<1>1. ASSUME NEW t \in Tasks, EnqueueTask(t) PROVE IInv'
    <2>1. Append(dispatcherQ, t) \in Seq(Tasks)
        BY EventList
    <2> QED BY <1>1, <2>1 DEF EnqueueTask
<1>2. CASE ResultEvent
    BY <1>2, EventList DEF ResultEvent
<1>3. CASE Shutdown
    BY <1>3 DEF Shutdown
<1>4. CASE Destroyed
    <2>1. <<>> \in Seq(Tasks)
        OBVIOUS
    <2> QED BY <1>4, <2>1 DEF Destroyed
<1>5. CASE EnterExec
    BY <1>5 DEF EnterExec
<1>6. CASE WakeUp
    BY <1>6 DEF WakeUp
<1>7. CASE DispatchTask
    BY <1>7, EventList DEF DispatchTask
<1>8. CASE TaskReturns
    <2>1. task \in Tasks /\ Append(ownerQ, task) \in Seq(Tasks)
        BY <1>8, EventList DEF TaskReturns
    <2>2. ownerQ' \in Seq(Tasks)
        BY <1>8, <2>1 DEF TaskReturns
    <2> QED BY <1>8, <2>1, <2>2 DEF TaskReturns
<1>9. CASE LeaveExec \/ ThreadFinished
    BY <1>9 DEF LeaveExec, ThreadFinished
<1>10. CASE UNCHANGED vars
    BY <1>10 DEF vars
<1> QED BY <1>1, <1>2, <1>3, <1>4, <1>5, <1>6, <1>7, <1>8, <1>9, <1>10
        DEF Next, EventLoop, ThreadNext

LEMMA Invariance == Spec => []IInv
<1>1. ASSUME IInv, [Next]_vars PROVE IInv'
    BY <1>1, NextIInv
<1> QED BY InitIInv, <1>1, PTL DEF Spec

\* The variables keep their types, whatever the two threads do.
THEOREM TypeCorrect == Spec => []TypeOK
<1>1. IInv => TypeOK
    BY DEF IInv
<1> QED BY <1>1, Invariance, PTL

-----------------------------------------------------------------------------
\* The initial state is that of an open executor with nothing to do.
LEMMA InitImplements == Init => Serial!ExecutorInit
BY DEF Init, Serial!ExecutorInit, Stage

\* Each step of the two threads is a step of the serial executor or none.
LEMMA NextImplements ==
    ASSUME IInv, [Next]_vars
    PROVE  [Serial!ExecutorNext]_Serial!executor
<1> USE DEF IInv, TypeOK, ThreadWithin
<1> DEFINE Seen == <<impl, dispatcherQ, ownerQ, task>>
<1>1. ASSUME UNCHANGED Seen
      PROVE  UNCHANGED Serial!executor
    BY <1>1 DEF Serial!executor, Stage
<1>2. ASSUME NEW t \in Tasks, EnqueueTask(t)
      PROVE  Serial!Enqueue(t)
    BY <1>2 DEF EnqueueTask, Serial!Enqueue, Stage
<1>3. ASSUME ResultEvent
      PROVE  \E t \in Tasks : Serial!Deliver(t)
    <2>1. Head(ownerQ) \in Tasks
        BY <1>3, EventList DEF ResultEvent
    <2>2. Serial!Deliver(Head(ownerQ))
        BY <1>3 DEF ResultEvent, Serial!Deliver, Stage
    <2> QED BY <2>1, <2>2
<1>4. ASSUME Shutdown
      PROVE  Serial!Close
    BY <1>4 DEF Shutdown, Serial!Close, Stage
<1>5. ASSUME Destroyed
      PROVE  Serial!Closed
    BY <1>5 DEF Destroyed, Serial!Closed, Stage
<1>6. ASSUME DispatchTask
      PROVE  Serial!Begin
    BY <1>6 DEF DispatchTask, Serial!Begin, Stage
<1>7. ASSUME TaskReturns
      PROVE  Serial!End(TRUE) \/ Serial!End(FALSE)
    <2>1. task # NoTask
        BY <1>7, TasksAssumption DEF TaskReturns
    <2>2. CASE ownerQ' = ownerQ
        BY <1>7, <2>1, <2>2 DEF TaskReturns, Serial!End, Stage
    <2>3. CASE ownerQ' = Append(ownerQ, task)
        BY <1>7, <2>1, <2>3 DEF TaskReturns, Serial!End, Stage
    <2> QED BY <1>7, <2>2, <2>3 DEF TaskReturns
<1>8. CASE EnterExec \/ WakeUp \/ LeaveExec \/ ThreadFinished
    BY <1>1, <1>8 DEF EnterExec, WakeUp, LeaveExec, ThreadFinished
<1>9. CASE UNCHANGED vars
    BY <1>1, <1>9 DEF vars
<1> QED BY <1>2, <1>3, <1>4, <1>5, <1>6, <1>7, <1>8, <1>9
        DEF Next, EventLoop, ThreadNext, Serial!ExecutorNext

(***************************************************************************)
(* For any tasks, the events, the two threads and ~Impl amount to a serial *)
(* executor: tasks one at a time and in order, their results in order, and *)
(* none delivered after shutdown() has begun.                              *)
(***************************************************************************)
THEOREM Implements == Spec => ImplementsSerial
<1>1. ASSUME IInv, [Next]_vars
      PROVE  [Serial!ExecutorNext]_Serial!executor
    BY <1>1, NextImplements
<1> QED BY <1>1, InitImplements, Invariance, PTL
        DEF Spec, ImplementsSerial, Serial!ExecutorSpec

-----------------------------------------------------------------------------
(* The users of the executor: the lists of SerialExecutor, and how a task goes
   from one to the next. *)
(* No task twice in a list. *)
Distinct(q) == \A i, j \in 1 .. Len(q) : i # j => q[i] # q[j]

(* The tasks in live are those under way; p waits, r runs, q has results. *)
OnePlace(live, p, r, q) ==
    /\ p \in Seq(live) /\ q \in Seq(live) /\ r \in live \cup {NoTask}
    /\ Distinct(p) /\ Distinct(q)
    /\ \A i \in 1 .. Len(p), j \in 1 .. Len(q) : p[i] # q[j]
    /\ r # NoTask => /\ \A i \in 1 .. Len(p) : p[i] # r
                     /\ \A j \in 1 .. Len(q) : q[j] # r

-----------------------------------------------------------------------------
(* Sequences. *)

(* An element is added at the end. *)
LEMMA Appended ==
    ASSUME NEW S, NEW q \in Seq(S), NEW e, NEW T, S \cup {e} \subseteq T
    PROVE  /\ Append(q, e) \in Seq(T)
           /\ Len(Append(q, e)) = Len(q) + 1
           /\ \A i \in 1 .. Len(q) : Append(q, e)[i] = q[i]
           /\ Append(q, e)[Len(q) + 1] = e
OBVIOUS

(* The first element is taken. *)
LEMMA TailOf ==
    ASSUME NEW S, NEW q \in Seq(S), q # <<>>
    PROVE  /\ Len(q) \in Nat /\ Len(q) >= 1
           /\ Head(q) = q[1] /\ Head(q) \in S
           /\ Tail(q) \in Seq(S) /\ Len(Tail(q)) = Len(q) - 1
           /\ \A i \in 1 .. Len(Tail(q)) : Tail(q)[i] = q[i + 1]
OBVIOUS

(* A list of elements of a smaller set. *)
LEMMA InSmaller ==
    ASSUME NEW S, NEW q \in Seq(S), NEW T, \A i \in 1 .. Len(q) : q[i] \in T
    PROVE  q \in Seq(T)
OBVIOUS

-----------------------------------------------------------------------------
(* The steps of the executor keep every task in one place. *)

(* A task that is new waits. *)
LEMMA Enqueued ==
    ASSUME NEW live, NEW p, NEW r, NEW q, OnePlace(live, p, r, q),
           NEW t, t \notin live, t # NoTask
    PROVE  OnePlace(live \cup {t}, Append(p, t), r, q)
  <1> DEFINE both == live \cup {t}
  <1>1. /\ Append(p, t) \in Seq(both) /\ Len(Append(p, t)) = Len(p) + 1
        /\ \A i \in 1 .. Len(p) : Append(p, t)[i] = p[i]
        /\ Append(p, t)[Len(p) + 1] = t
    BY Appended DEF OnePlace
  <1>2. q \in Seq(both) /\ Len(p) \in Nat /\ Len(q) \in Nat
    BY InSmaller DEF OnePlace
  <1>3. /\ \A i \in 1 .. Len(p) : p[i] \in live
        /\ \A i \in 1 .. Len(q) : q[i] \in live
    BY DEF OnePlace
  <1>4. Distinct(Append(p, t))
    BY <1>1, <1>2, <1>3 DEF OnePlace, Distinct
  <1> QED  BY <1>1, <1>2, <1>3, <1>4 DEF OnePlace

(* The first task that waits is begun. *)
LEMMA Begun ==
    ASSUME NEW live, NEW p, NEW q, OnePlace(live, p, NoTask, q), p # <<>>
    PROVE  OnePlace(live, Tail(p), Head(p), q)
  <1>1. p \in Seq(live)
    BY DEF OnePlace
  <1>2. /\ Len(p) \in Nat /\ Len(p) >= 1 /\ Head(p) = p[1] /\ Head(p) \in live
        /\ Tail(p) \in Seq(live) /\ Len(Tail(p)) = Len(p) - 1
        /\ \A i \in 1 .. Len(Tail(p)) : Tail(p)[i] = p[i + 1]
    BY <1>1, TailOf
  <1>3. Distinct(Tail(p))
    BY <1>2 DEF OnePlace, Distinct
  <1> QED  BY <1>2, <1>3 DEF OnePlace, Distinct

(* The task that runs ends, with a result or without. *)
LEMMA EndedWith ==
    ASSUME NEW live, NEW p, NEW r, NEW q, OnePlace(live, p, r, q), r # NoTask
    PROVE  OnePlace(live, p, NoTask, Append(q, r))
  <1>1. /\ Append(q, r) \in Seq(live) /\ Len(Append(q, r)) = Len(q) + 1
        /\ \A i \in 1 .. Len(q) : Append(q, r)[i] = q[i]
        /\ Append(q, r)[Len(q) + 1] = r
    BY Appended DEF OnePlace
  <1>2. Len(p) \in Nat /\ Len(q) \in Nat
    BY DEF OnePlace
  <1>3. Distinct(Append(q, r))
    BY <1>1, <1>2 DEF OnePlace, Distinct
  <1> QED  BY <1>1, <1>2, <1>3 DEF OnePlace

(* Without one it is no longer under way. *)
LEMMA EndedWithout ==
    ASSUME NEW live, NEW p, NEW r, NEW q, OnePlace(live, p, r, q), r # NoTask
    PROVE  OnePlace(live \ {r}, p, NoTask, q)
  <1> DEFINE rest == live \ {r}
  <1>1. /\ \A i \in 1 .. Len(p) : p[i] \in rest
        /\ \A i \in 1 .. Len(q) : q[i] \in rest
    BY DEF OnePlace
  <1>2. p \in Seq(rest) /\ q \in Seq(rest)
    BY <1>1, InSmaller DEF OnePlace
  <1> QED  BY <1>2 DEF OnePlace

(* The first result is delivered. *)
LEMMA Delivered ==
    ASSUME NEW live, NEW p, NEW r, NEW q, OnePlace(live, p, r, q), q # <<>>
    PROVE  OnePlace(live \ {Head(q)}, p, r, Tail(q))
  <1> DEFINE rest == live \ {Head(q)}
  <1>1. q \in Seq(live)
    BY DEF OnePlace
  <1>2. /\ Len(q) \in Nat /\ Len(q) >= 1 /\ Head(q) = q[1] /\ Head(q) \in live
        /\ Tail(q) \in Seq(live) /\ Len(Tail(q)) = Len(q) - 1
        /\ \A i \in 1 .. Len(Tail(q)) : Tail(q)[i] = q[i + 1]
    BY <1>1, TailOf
  <1>3. /\ \A i \in 1 .. Len(p) : p[i] \in rest
        /\ \A i \in 1 .. Len(Tail(q)) : Tail(q)[i] \in rest
    BY <1>2 DEF OnePlace, Distinct
  <1>4. p \in Seq(rest) /\ Tail(q) \in Seq(rest)
    BY <1>2, <1>3, InSmaller DEF OnePlace
  <1>5. Distinct(Tail(q))
    BY <1>2 DEF OnePlace, Distinct
  <1> QED  BY <1>2, <1>4, <1>5 DEF OnePlace

-----------------------------------------------------------------------------
(* HqPixmap, over these lists. *)

(* m_ptrHqTransformTask is under way and will be listened to. *)
CurrentUnderWay == viewAlive /\ current # NoTask => current \in HqLive \ cancelled

(* The pixmap of the image that was asked for is what was asked for. *)
BuiltAsked ==
    hqSource # None /\ hq[hqSource] # None =>
        /\ hq[hqSource] = [image |-> hqSource, xform |-> hqXform]
        /\ hqPos = hq[hqSource]

(* The types, but for those of the executor's lists, which OnePlace has. *)
HqTypes ==
    /\ viewAlive \in BOOLEAN /\ alternative \in BOOLEAN
    /\ xform \in Xforms
    /\ hq \in [Images -> Pictures \cup {None}] /\ hqPos \in Pictures \cup {None}
    /\ hqXform \in Xforms \cup {None} /\ potential \in Xforms \cup {None}
    /\ hqSource \in Images \cup {None}
    /\ timer \in BOOLEAN /\ dirty \in BOOLEAN
    /\ current \in Tasks \cup {NoTask}
    /\ HqLive \subseteq Tasks /\ cancelled \subseteq HqLive
    /\ \A t \in HqLive : built[t] \in Pictures

HqUnderWay == OnePlace(HqLive, pending, running, results)

HqIInv == HqTypes /\ HqUnderWay /\ OnlyCurrentListened /\ CurrentUnderWay /\ BuiltAsked

(* Nothing is built at first. *)
LEMMA HqInitially == HqInit => HqIInv
  <1> SUFFICES ASSUME HqInit PROVE HqIInv
    OBVIOUS
  <1>1. HqLive = {}
    BY DEF HqInit, HqLive
  <1>2. HqTypes
    BY <1>1 DEF HqInit, HqTypes, Images
  <1>3. HqUnderWay
    BY <1>1 DEF HqInit, ExecutorInit, HqUnderWay, OnePlace, Distinct
  <1> QED  BY <1>1, <1>2, <1>3 DEF HqInit, HqIInv, OnlyCurrentListened, CurrentUnderWay, BuiltAsked

(* A repaint may cancel the current task, which is under way. *)
LEMMA PaintStep == ASSUME HqIInv, PaintEvent PROVE HqIInv'
  <1> USE DEF HqIInv
  <1>1. /\ UNCHANGED <<executor, viewAlive, alternative, xform, hq, hqPos, hqXform, hqSource, built>>
        /\ viewAlive /\ dirty' = FALSE
        /\ HqLive' = HqLive
    BY DEF PaintEvent, HqLive
  <1>2. \/ UNCHANGED <<current, cancelled>>
        \/ /\ current' = NoTask
           /\ cancelled' = IF current = NoTask THEN cancelled ELSE cancelled \cup {current}
    BY DEF PaintEvent, ScheduleHqVersionRebuild, CancelCurrent
  <1>3. potential' \in Xforms \cup {None} /\ timer' \in BOOLEAN
    BY DEF PaintEvent, ScheduleHqVersionRebuild, HqTypes
  <1>4. HqUnderWay'
    BY <1>1 DEF HqUnderWay, executor
  <1>5. cancelled' \subseteq HqLive
    BY <1>1, <1>2 DEF CurrentUnderWay, HqTypes
  <1>6. HqTypes'
    BY <1>1, <1>2, <1>3, <1>5 DEF HqTypes
  <1>7. OnlyCurrentListened'
    BY <1>1, <1>2 DEF OnlyCurrentListened
  <1>8. CurrentUnderWay'
    BY <1>1, <1>2 DEF CurrentUnderWay
  <1>9. BuiltAsked'
    BY <1>1 DEF BuiltAsked
  <1> QED  BY <1>4, <1>6, <1>7, <1>8, <1>9

(* A new task is the current one, and all others are cancelled. *)
LEMMA InitiateStep ==
    ASSUME HqIInv, NEW t \in Tasks, InitiateBuildingHqVersion(t) PROVE HqIInv'
  <1> USE DEF HqIInv
  <1>1. /\ UNCHANGED <<viewAlive, alternative, xform, hqPos, potential, dirty>>
        /\ viewAlive /\ timer' = FALSE /\ t \in Tasks \ HqLive /\ t # NoTask
        /\ hq' = [hq EXCEPT ![Displayed] = None]
        /\ cancelled' = IF current = NoTask THEN cancelled ELSE cancelled \cup {current}
        /\ current' = t
        /\ built' = [u \in HqLive \cup {t} |-> IF u = t THEN Shown ELSE built[u]]
        /\ hqXform' = xform /\ hqSource' = Displayed
        /\ Enqueue(t)
    BY TasksAssumption DEF InitiateBuildingHqVersion
  <1>2. HqLive' = HqLive \cup {t}
    BY <1>1 DEF HqLive
  <1>3. /\ Displayed \in Images /\ Shown \in Pictures
        /\ Shown = [image |-> Displayed, xform |-> xform]
    BY DEF Displayed, Shown, Images, Pictures, HqTypes
  <1>4. HqUnderWay'
    BY <1>1, <1>2, Enqueued DEF HqUnderWay, Enqueue
  <1>5. cancelled' \subseteq HqLive /\ (current # NoTask => current \in cancelled')
    BY <1>1 DEF CurrentUnderWay, HqTypes
  <1>6. \A u \in HqLive' : built'[u] = IF u = t THEN Shown ELSE built[u]
    BY <1>1, <1>2
  <1>7. HqTypes'
    BY <1>1, <1>2, <1>3, <1>5, <1>6 DEF HqTypes
  <1>8. OnlyCurrentListened'
    <2> SUFFICES ASSUME NEW u \in (HqLive \ cancelled)'
                 PROVE  u = current' /\ built'[u] = [image |-> hqSource', xform |-> hqXform']
      BY DEF OnlyCurrentListened
    <2>1. u = t
      BY <1>1, <1>2, <1>5, TasksAssumption DEF OnlyCurrentListened, HqTypes
    <2> QED  BY <1>1, <1>2, <1>3, <1>6, <2>1
  <1>9. CurrentUnderWay'
    BY <1>1, <1>2, <1>5 DEF CurrentUnderWay
  <1>10. BuiltAsked'
    BY <1>1, <1>3 DEF BuiltAsked, HqTypes
  <1> QED  BY <1>4, <1>7, <1>8, <1>9, <1>10

(* A task that sees its flag is not the current one. *)
LEMMA CancelledStep == ASSUME HqIInv, HqTaskCancelled PROVE HqIInv'
  <1> USE DEF HqIInv
  <1>1. /\ UNCHANGED <<viewAlive, alternative, xform, hq, hqPos, hqXform, hqSource,
                       potential, timer, current, dirty>>
        /\ running \in cancelled /\ running # NoTask
        /\ UNCHANGED <<pending, results>> /\ running' = NoTask
        /\ built' = [u \in HqLive \ {running} |-> built[u]]
        /\ cancelled' = cancelled \ {running}
    BY DEF HqTaskCancelled, End, HqFinished
  <1>2. HqLive' = HqLive \ {running}
    BY <1>1 DEF HqLive
  <1>3. HqUnderWay'
    BY <1>1, <1>2, EndedWithout DEF HqUnderWay
  <1>4. \A u \in HqLive' : built'[u] = built[u]
    BY <1>1, <1>2
  <1>5. HqTypes'
    BY <1>1, <1>2, <1>4 DEF HqTypes
  <1>6. OnlyCurrentListened' /\ CurrentUnderWay' /\ BuiltAsked'
    BY <1>1, <1>2, <1>4 DEF OnlyCurrentListened, CurrentUnderWay, BuiltAsked
  <1> QED  BY <1>3, <1>5, <1>6

(* A result that is listened to comes from the current task, so it is what was
   asked for, even if the other image is on display by now and gets it. *)
LEMMA BuiltStep == ASSUME HqIInv, NEW t \in Tasks, HqVersionBuilt(t) PROVE HqIInv'
  <1> USE DEF HqIInv
  <1>1. /\ UNCHANGED <<viewAlive, alternative, xform, hqXform, hqSource, potential, timer>>
        /\ results # <<>> /\ t = Head(results) /\ results' = Tail(results)
        /\ UNCHANGED <<pending, running>>
        /\ built' = [u \in HqLive \ {t} |-> built[u]]
        /\ cancelled' = cancelled \ {t}
    BY DEF HqVersionBuilt, Deliver, HqFinished
  <1>2. HqLive' = HqLive \ {t} /\ t \in HqLive
    <2>1. results \in Seq(HqLive)
      BY DEF HqUnderWay, OnePlace
    <2> QED  BY <1>1, <2>1, TailOf DEF HqLive
  <1>3. HqUnderWay'
    BY <1>1, <1>2, Delivered DEF HqUnderWay
  <1>4. \A u \in HqLive' : built'[u] = built[u]
    BY <1>1, <1>2
  <1>5. CASE Listened(t)
    <2>1. /\ hq' = [hq EXCEPT ![Displayed] = built[t]]
          /\ hqPos' = built[t] /\ current' = NoTask /\ dirty' = TRUE
      BY <1>5 DEF HqVersionBuilt
    <2>2. built[t] \in Pictures /\ Displayed \in Images
      BY <1>2 DEF HqTypes, Displayed, Images
    <2>3. HqLive \ cancelled \subseteq {t} /\ built[t] = [image |-> hqSource, xform |-> hqXform]
      BY <1>2, <1>5 DEF Listened, OnlyCurrentListened
    <2>4. HqTypes'
      BY <1>1, <1>2, <1>4, <2>1, <2>2 DEF HqTypes
    <2>5. OnlyCurrentListened' /\ CurrentUnderWay'
      BY <1>1, <1>2, <2>1, <2>3 DEF OnlyCurrentListened, CurrentUnderWay
    <2>6. BuiltAsked'
      BY <1>1, <2>1, <2>2, <2>3 DEF BuiltAsked, HqTypes
    <2> QED  BY <1>3, <2>4, <2>5, <2>6
  <1>6. CASE ~Listened(t)
    <2>1. UNCHANGED <<hq, hqPos, current, dirty>>
      BY <1>6 DEF HqVersionBuilt
    <2>2. HqTypes'
      BY <1>1, <1>2, <1>4, <2>1 DEF HqTypes
    <2>3. OnlyCurrentListened'
      BY <1>1, <1>2, <1>4, <2>1 DEF OnlyCurrentListened
    <2>4. CurrentUnderWay'
      BY <1>1, <1>2, <1>6, <2>1 DEF CurrentUnderWay, Listened
    <2>5. BuiltAsked'
      BY <1>1, <2>1 DEF BuiltAsked
    <2> QED  BY <1>3, <2>2, <2>3, <2>4, <2>5
  <1> QED  BY <1>5, <1>6

(* The executor begins a task or ends one with a result. *)
LEMMA ExecutorStep ==
    ASSUME HqIInv, Begin \/ End(TRUE), UNCHANGED hqView PROVE HqIInv'
  <1> USE DEF HqIInv
  <1>1. UNCHANGED <<viewAlive, alternative, xform, hq, hqPos, hqXform, hqSource, potential, timer,
                    current, cancelled, built, dirty>> /\ HqLive' = HqLive
    BY DEF hqView, hqRequest, HqLive
  <1>2. HqUnderWay'
    <2>1. CASE Begin
      BY <1>1, <2>1, Begun DEF Begin, HqUnderWay
    <2>2. CASE End(TRUE)
      BY <1>1, <2>2, EndedWith DEF End, HqUnderWay
    <2> QED  BY <2>1, <2>2
  <1>3. HqTypes'
    BY <1>1 DEF HqTypes
  <1>4. OnlyCurrentListened' /\ CurrentUnderWay' /\ BuiltAsked'
    BY <1>1 DEF OnlyCurrentListened, CurrentUnderWay, BuiltAsked
  <1> QED  BY <1>2, <1>3, <1>4

(* What is displayed changes, or the view goes: the request stays as it is. *)
LEMMA UserStep == ASSUME HqIInv, HqUser \/ TimeoutValid \/ DeleteView PROVE HqIInv'
  <1> USE DEF HqIInv
  <1>1. /\ UNCHANGED <<pending, running, results, hq, hqPos, hqXform, hqSource, potential,
                       current, cancelled, built>>
        /\ HqLive' = HqLive
        /\ viewAlive' \in BOOLEAN /\ (viewAlive' => viewAlive)
        /\ xform' \in Xforms /\ alternative' \in BOOLEAN
        /\ timer' \in BOOLEAN /\ dirty' \in BOOLEAN
    BY DEF HqUser, Expose, DisplayAlternative, SetXform, TimeoutValid, DeleteView,
        hqRequest, executor,
           HqLive, HqTypes
  <1>2. HqUnderWay'
    BY <1>1 DEF HqUnderWay
  <1>3. HqTypes'
    BY <1>1 DEF HqTypes
  <1>4. OnlyCurrentListened' /\ CurrentUnderWay' /\ BuiltAsked'
    BY <1>1 DEF OnlyCurrentListened, CurrentUnderWay, BuiltAsked
  <1> QED  BY <1>2, <1>3, <1>4

(* Every step keeps the invariant. *)
LEMMA HqStep == HqIInv /\ [HqNext]_(hqVars) => HqIInv'
  <1> SUFFICES ASSUME HqIInv, [HqNext]_(hqVars) PROVE HqIInv'
    OBVIOUS
  <1>1. CASE UNCHANGED hqVars
    BY <1>1 DEF hqVars, hqView, hqRequest, executor, HqIInv, HqTypes, HqUnderWay, HqLive,
        OnlyCurrentListened,
                CurrentUnderWay, BuiltAsked
  <1>2. CASE HqGuiThread
    BY <1>2, PaintStep, BuiltStep DEF HqGuiThread
  <1>3. CASE HqTimeout
    BY <1>3, UserStep, InitiateStep DEF HqTimeout
  <1>4. CASE HqBackground
    BY <1>4, ExecutorStep, CancelledStep DEF HqBackground, HqTaskEnds
  <1> QED  BY <1>1, <1>2, <1>3, <1>4, UserStep DEF HqNext

(* A pixmap that passes for valid is the one that was asked for. *)
LEMMA HqInvIsEnough == HqIInv => HqInv
  <1> SUFFICES ASSUME HqIInv PROVE HqInv
    OBVIOUS
  <1> USE DEF HqIInv
  <1>1. HqTypeOK
    BY DEF HqTypes, HqUnderWay, OnePlace, HqTypeOK
  <1>2. ValidIsCurrent
    <2> SUFFICES ASSUME ValidateHqPixmap PROVE hq[Displayed] = Shown /\ hqPos = Shown
      BY DEF ValidIsCurrent
    <2>1. hqSource # None
      BY NoneAssumption DEF ValidateHqPixmap, Displayed, Images
    <2> QED  BY <2>1 DEF ValidateHqPixmap, BuiltAsked, Shown
  <1> QED  BY <1>1, <1>2 DEF HqInv

(* The view never shows a high quality pixmap of another image or of another
   transform, and listens to one task at most (ImageViewBase). *)
THEOREM ValidPixmapIsCurrent == HqSpec => []HqInv
  BY HqInitially, HqStep, HqInvIsEnough, PTL DEF HqSpec

-----------------------------------------------------------------------------
(* DespeckleView, over the same lists; no behaviour has to be one of both
   views. *)

(* The types, but for those of the executor's lists. *)
DespeckleTypes ==
    /\ visible \in BOOLEAN /\ reload \in BOOLEAN /\ early \in BOOLEAN
    /\ widget \in Levels \cup {Indicator} /\ shot \in Levels \cup {Indicator}
    /\ state \in Levels /\ level \in Levels
    /\ handle \in Tasks \cup {NoTask}
    /\ DespeckleLive \subseteq Tasks /\ handlesCancelled \subseteq DespeckleLive
    /\ \A t \in DespeckleLive : wanted[t] \in Levels

DespeckleUnderWay == OnePlace(DespeckleLive, pending, running, results)

(* The task that will be listened to is that of the handle, and is for the
   chosen level unless the page is to be reloaded. *)
OnlyHandleListened ==
    \A t \in DespeckleLive \ handlesCancelled :
        t = handle /\ (wanted[t] = level \/ reload)

(* The image the timer is to show is of the level the view began with. *)
ShotOfFirstLevel == shot \in {Indicator, level} \/ reload \/ early

DInv ==
    /\ DespeckleTypes /\ DespeckleUnderWay
    /\ OnlyHandleListened /\ ShotOfFirstLevel
    /\ IndicatorHasTask /\ ShowsChosenLevel

(* At first no task is under way and the view is hidden. *)
LEMMA DespeckleInitially == DespeckleInit => DInv
  <1> SUFFICES ASSUME DespeckleInit PROVE DInv
    OBVIOUS
  <1>1. DespeckleLive = {}
    BY DEF DespeckleInit, DespeckleLive
  <1>2. DespeckleTypes
    BY <1>1 DEF DespeckleInit, DespeckleTypes
  <1>3. DespeckleUnderWay
    BY <1>1 DEF DespeckleInit, ExecutorInit, DespeckleUnderWay, OnePlace, Distinct
  <1>4. OnlyHandleListened /\ ShotOfFirstLevel
    BY <1>1 DEF DespeckleInit, OnlyHandleListened, ShotOfFirstLevel
  <1>5. IndicatorHasTask /\ ShowsChosenLevel
    BY <1>1 DEF DespeckleInit, IndicatorHasTask, ShowsChosenLevel
  <1> QED  BY <1>2, <1>3, <1>4, <1>5 DEF DInv

(* A new task, for the level that is chosen now, is the only one listened to. *)
LEMMA InitiateDespecklingStep ==
    ASSUME DInv, NEW t \in Tasks, NEW l \in Levels, InitiateDespeckling(t, l),
           visible' = TRUE, level' = l, UNCHANGED <<state, shot, reload>>,
           early' \in BOOLEAN, ShotOfFirstLevel'
    PROVE  DInv'
  <1> USE DEF DInv
  <1>1. /\ t \in Tasks \ DespeckleLive /\ t # NoTask
        /\ widget' = Indicator /\ handle' = t
        /\ handlesCancelled' = handlesCancelled \cup ({handle} \cap DespeckleLive)
        /\ wanted' = [u \in DespeckleLive \cup {t} |-> IF u = t THEN l ELSE wanted[u]]
        /\ pending' = Append(pending, t) /\ UNCHANGED <<running, results>>
    BY TasksAssumption DEF InitiateDespeckling, CancelBackgroundTask,
                          Enqueue
  <1>2. DespeckleLive' = DespeckleLive \cup {t}
    BY <1>1 DEF DespeckleLive
  <1>3. \A u \in DespeckleLive' : wanted'[u] = IF u = t THEN l ELSE wanted[u]
    BY <1>1, <1>2
  <1>4. DespeckleUnderWay'
    BY <1>1, <1>2, Enqueued DEF DespeckleUnderWay
  <1>5. handlesCancelled' \subseteq DespeckleLive /\ t \notin handlesCancelled'
    BY <1>1 DEF DespeckleTypes
  <1>6. DespeckleTypes'
    BY <1>1, <1>2, <1>3, <1>5 DEF DespeckleTypes
  <1>7. DespeckleLive' \ handlesCancelled' = {t}
    BY <1>1, <1>2, <1>5 DEF OnlyHandleListened
  <1>8. OnlyHandleListened'
    BY <1>1, <1>2, <1>3, <1>7 DEF OnlyHandleListened
  <1>9. IndicatorHasTask'
    BY <1>1, <1>2, <1>3, <1>7 DEF IndicatorHasTask
  <1>10. ShowsChosenLevel'
    BY <1>1 DEF ShowsChosenLevel
  <1> QED  BY <1>4, <1>6, <1>8, <1>9, <1>10

(* The user chooses a level, hides the tab or comes back to it. *)
LEMMA DespeckleUserStep == ASSUME DInv, DespeckleUser PROVE DInv'
  <1> USE DEF DInv
  <1>1. CASE HideEvent
    <2>1. /\ visible' = FALSE /\ handle' = NoTask
          /\ handlesCancelled' = handlesCancelled \cup ({handle} \cap DespeckleLive)
          /\ UNCHANGED <<pending, running, results, widget, state, level, wanted, shot, reload, early>>
          /\ DespeckleLive' = DespeckleLive
      BY <1>1 DEF HideEvent, CancelBackgroundTask, executor,
                  DespeckleLive
    <2>2. DespeckleLive \subseteq handlesCancelled'
      BY <2>1 DEF OnlyHandleListened
    <2>3. DespeckleTypes'
      BY <2>1 DEF DespeckleTypes
    <2>4. DespeckleUnderWay' /\ ShotOfFirstLevel' /\ OnlyHandleListened'
      BY <2>1, <2>2 DEF DespeckleUnderWay, ShotOfFirstLevel, OnlyHandleListened
    <2>5. IndicatorHasTask' /\ ShowsChosenLevel'
      BY <2>1, <2>2 DEF IndicatorHasTask, ShowsChosenLevel
    <2> QED  BY <2>3, <2>4, <2>5
  <1>2. CASE ShowImage
    <2>1. /\ visible' = TRUE /\ widget # Indicator
          /\ UNCHANGED <<pending, running, results, widget, state, level, handle, handlesCancelled, wanted,
                         shot, reload, early>>
          /\ DespeckleLive' = DespeckleLive
      BY <1>2 DEF ShowImage, tasks, executor, DespeckleLive
    <2>2. DespeckleTypes'
      BY <2>1 DEF DespeckleTypes
    <2>3. DespeckleUnderWay' /\ ShotOfFirstLevel' /\ OnlyHandleListened'
      BY <2>1 DEF DespeckleUnderWay, ShotOfFirstLevel, OnlyHandleListened
    <2>4. IndicatorHasTask' /\ ShowsChosenLevel'
      BY <2>1 DEF IndicatorHasTask, ShowsChosenLevel
    <2> QED  BY <2>2, <2>3, <2>4
  <1>3. ASSUME NEW l \in Levels, LevelChangedHidden(l) PROVE DInv'
    <2>1. /\ l = level \/ ~visible
          /\ level' = l /\ reload' = TRUE
          /\ UNCHANGED <<pending, running, results, visible, widget, state, handle, handlesCancelled, wanted,
                         shot, early>>
          /\ DespeckleLive' = DespeckleLive
      BY <1>3 DEF LevelChangedHidden, tasks, executor, DespeckleLive
    <2>2. DespeckleTypes'
      BY <2>1 DEF DespeckleTypes
    <2>3. DespeckleUnderWay' /\ ShotOfFirstLevel' /\ OnlyHandleListened'
      BY <2>1 DEF DespeckleUnderWay, ShotOfFirstLevel, OnlyHandleListened
    <2>4. IndicatorHasTask' /\ ShowsChosenLevel'
      BY <2>1 DEF DespeckleTypes, IndicatorHasTask, ShowsChosenLevel
    <2> QED  BY <2>2, <2>3, <2>4
  <1>4. ASSUME NEW t \in Tasks, ShowIndicator(t) PROVE DInv'
    <2>1. /\ visible' = TRUE /\ InitiateDespeckling(t, level)
          /\ UNCHANGED <<state, level, shot, reload, early>>
      BY <1>4 DEF ShowIndicator
    <2>2. level \in Levels /\ early' \in BOOLEAN /\ ShotOfFirstLevel'
      BY <2>1 DEF DespeckleTypes, ShotOfFirstLevel
    <2> QED  BY <2>1, <2>2, InitiateDespecklingStep
  <1>5. ASSUME NEW t \in Tasks, NEW l \in Levels, LevelChangedVisible(t, l) PROVE DInv'
    <2>1. /\ visible /\ level' = l /\ InitiateDespeckling(t, l)
          /\ UNCHANGED <<visible, state, shot, reload>>
          /\ early' = (early \/ shot # Indicator)
      BY <1>5 DEF LevelChangedVisible
    <2>2. visible' = TRUE /\ early' \in BOOLEAN /\ ShotOfFirstLevel'
      BY <2>1 DEF DespeckleTypes, ShotOfFirstLevel
    <2> QED  BY <2>1, <2>2, InitiateDespecklingStep
  <1> QED  BY <1>1, <1>2, <1>3, <1>4, <1>5 DEF DespeckleUser

(* The timer shows the image of the level the view began with. *)
LEMMA SingleShotStep == ASSUME DInv, SingleShot PROVE DInv'
  <1> USE DEF DInv
  <1>1. /\ shot # Indicator /\ shot' = Indicator /\ widget' = shot
        /\ UNCHANGED <<pending, running, results, visible, state, level, handle, handlesCancelled, wanted,
                       reload, early>>
        /\ DespeckleLive' = DespeckleLive
    BY DEF SingleShot, tasks, executor, DespeckleLive
  <1>2. DespeckleTypes'
    BY <1>1 DEF DespeckleTypes
  <1>3. DespeckleUnderWay' /\ ShotOfFirstLevel' /\ OnlyHandleListened'
    BY <1>1 DEF DespeckleUnderWay, ShotOfFirstLevel, OnlyHandleListened
  <1>4. IndicatorHasTask' /\ ShowsChosenLevel'
    BY <1>1 DEF IndicatorHasTask, ShowsChosenLevel, ShotOfFirstLevel
  <1> QED  BY <1>2, <1>3, <1>4

(* A result that is listened to is of the chosen level. *)
LEMMA DespeckleDoneStep ==
    ASSUME DInv, NEW t \in Tasks, DespeckleDone(t)
    PROVE  DInv'
  <1> USE DEF DInv
  <1>1. /\ results # <<>> /\ t = Head(results) /\ results' = Tail(results)
        /\ UNCHANGED <<pending, running, visible, level, handle, shot, reload, early>>
        /\ wanted' = [u \in DespeckleLive \ {t} |-> wanted[u]]
        /\ handlesCancelled' = handlesCancelled \ {t}
    BY DEF DespeckleDone, Deliver, DespeckleFinished
  <1>2. DespeckleLive' = DespeckleLive \ {t} /\ t \in DespeckleLive
    <2>1. results \in Seq(DespeckleLive)
      BY DEF DespeckleUnderWay, OnePlace
    <2> QED  BY <1>1, <2>1, TailOf DEF DespeckleLive
  <1>3. DespeckleUnderWay'
    BY <1>1, <1>2, Delivered DEF DespeckleUnderWay
  <1>4. \A u \in DespeckleLive' : wanted'[u] = wanted[u]
    BY <1>1, <1>2
  <1>5. OnlyHandleListened' /\ ShotOfFirstLevel'
    BY <1>1, <1>2, <1>4 DEF OnlyHandleListened, ShotOfFirstLevel
  <1>6. CASE t \notin handlesCancelled
    <2>1. state' = wanted[t] /\ widget' = wanted[t]
      BY <1>6 DEF DespeckleDone
    <2>2. wanted[t] \in Levels /\ wanted[t] # Indicator /\ (wanted[t] = level \/ reload)
      BY <1>2, <1>6, IndicatorAssumption DEF DespeckleTypes, OnlyHandleListened
    <2>3. DespeckleTypes'
      BY <1>1, <1>2, <1>4, <2>1, <2>2 DEF DespeckleTypes
    <2>4. IndicatorHasTask' /\ ShowsChosenLevel'
      BY <1>1, <1>2, <2>1, <2>2 DEF IndicatorHasTask, ShowsChosenLevel
    <2> QED  BY <1>3, <1>5, <2>3, <2>4
  <1>7. CASE t \in handlesCancelled
    <2>1. UNCHANGED <<state, widget>>
      BY <1>7 DEF DespeckleDone
    <2>2. DespeckleTypes'
      BY <1>1, <1>2, <1>4, <2>1 DEF DespeckleTypes
    <2>3. IndicatorHasTask' /\ ShowsChosenLevel'
      BY <1>1, <1>2, <1>4, <1>7, <2>1 DEF IndicatorHasTask, ShowsChosenLevel
    <2> QED  BY <1>3, <1>5, <2>2, <2>3
  <1> QED  BY <1>6, <1>7

(* The executor begins a task, or ends one that saw its handle cancelled or
   did not. *)
LEMMA DespeckleBackgroundStep == ASSUME DInv, DespeckleBackground PROVE DInv'
  <1> USE DEF DInv
  <1>1. CASE (Begin \/ End(TRUE)) /\ UNCHANGED despeckleView
    <2>1. /\ UNCHANGED <<visible, widget, state, level, handle, handlesCancelled, wanted, shot, reload, early>>
          /\ DespeckleLive' = DespeckleLive
      BY <1>1 DEF despeckleView, tasks, DespeckleLive
    <2>2. DespeckleUnderWay'
      <3>1. CASE Begin
        BY <2>1, <3>1, Begun DEF Begin, DespeckleUnderWay
      <3>2. CASE End(TRUE)
        BY <2>1, <3>2, EndedWith DEF End, DespeckleUnderWay
      <3> QED  BY <1>1, <3>1, <3>2
    <2>3. DespeckleTypes'
      BY <2>1 DEF DespeckleTypes
    <2>4. ShotOfFirstLevel' /\ OnlyHandleListened'
      BY <2>1 DEF ShotOfFirstLevel, OnlyHandleListened
    <2>5. IndicatorHasTask' /\ ShowsChosenLevel'
      BY <2>1 DEF IndicatorHasTask, ShowsChosenLevel
    <2> QED  BY <2>2, <2>3, <2>4, <2>5
  <1>2. CASE DespeckleTaskCancelled
    <2>1. /\ running \in handlesCancelled /\ running # NoTask /\ running' = NoTask
          /\ UNCHANGED <<pending, results, visible, widget, state, level, handle, shot, reload, early>>
          /\ wanted' = [u \in DespeckleLive \ {running} |-> wanted[u]]
          /\ handlesCancelled' = handlesCancelled \ {running}
      BY <1>2 DEF DespeckleTaskCancelled, End, DespeckleFinished
    <2>2. DespeckleLive' = DespeckleLive \ {running}
      BY <2>1 DEF DespeckleLive
    <2>3. \A u \in DespeckleLive' : wanted'[u] = wanted[u]
      BY <2>1, <2>2
    <2>4. DespeckleUnderWay'
      BY <2>1, <2>2, EndedWithout DEF DespeckleUnderWay
    <2>5. DespeckleTypes'
      BY <2>1, <2>2, <2>3 DEF DespeckleTypes
    <2>6. ShotOfFirstLevel' /\ OnlyHandleListened'
      BY <2>1, <2>2, <2>3 DEF ShotOfFirstLevel, OnlyHandleListened
    <2>7. IndicatorHasTask' /\ ShowsChosenLevel'
      BY <2>1, <2>2, <2>3 DEF IndicatorHasTask, ShowsChosenLevel
    <2> QED  BY <2>4, <2>5, <2>6, <2>7
  <1> QED  BY <1>1, <1>2 DEF DespeckleBackground, DespeckleTaskEnds

(* Every step keeps the invariant. *)
LEMMA DespeckleStep == DInv /\ [DespeckleNext]_(despeckleVars) => DInv'
  <1> SUFFICES ASSUME DInv, [DespeckleNext]_(despeckleVars) PROVE DInv'
    OBVIOUS
  <1>1. CASE UNCHANGED despeckleVars
    BY <1>1 DEF despeckleVars, despeckleView, tasks, executor, DespeckleLive,
                DInv, DespeckleTypes, DespeckleUnderWay, OnlyHandleListened, ShotOfFirstLevel,
                IndicatorHasTask, ShowsChosenLevel
  <1>2. CASE DespeckleGuiThread
    BY <1>2, SingleShotStep, DespeckleDoneStep DEF DespeckleGuiThread
  <1> QED  BY <1>1, <1>2, DespeckleUserStep, DespeckleBackgroundStep DEF DespeckleNext

(* What the invariant says of the tab. *)
LEMMA DInvIsEnough == DInv => DespeckleInv
  <1> SUFFICES ASSUME DInv PROVE DespeckleInv
    OBVIOUS
  <1>1. DespeckleTypeOK
    BY DEF DInv, DespeckleTypes, DespeckleUnderWay, OnePlace, DespeckleTypeOK
  <1> QED  BY <1>1 DEF DInv, DespeckleInv

(* The tab shows the speckles of the level chosen last, and an indicator that
   is seen has a task that will be listened to (DespeckleView). *)
THEOREM SpecklesAreOfChosenLevel == DespeckleSpec => []DespeckleInv
  BY DespeckleInitially, DespeckleStep, DInvIsEnough, PTL DEF DespeckleSpec
=============================================================================
