---------------------------- MODULE ExportThread ----------------------------
(***************************************************************************)
(* exporting/ExportThread: the pages of a finished project are exported by *)
(* the threads of an OpenMP loop, which the user may cancel.  For some     *)
(* kinds of export the output of a page has to be made again first: the    *)
(* loop asks the GUI thread for it with a signal, and waits on a condition *)
(* until MainWindow::exportRequestedReprocessing() has put the image in    *)
(* m_orig_fore_subscan and calls continueExecution(), without the mutex.   *)
(*                                                                         *)
(* OpenMP (schedule(dynamic)) gives each thread the next page when it has  *)
(* done one.  Signals to the GUI thread are queued.  One export is looked  *)
(* at, and the directories and what is in the images are left out.         *)
(***************************************************************************)
EXTENDS Naturals, FiniteSets, SequencesExt

CONSTANTS
    NumPages,       \* the pages of m_outpaths_vector are 1..NumPages
    MaxThreads,     \* omp_get_max_threads()
    NoPage          \* a null image

ASSUME ExportAssumption ==
    /\ NumPages \in Nat /\ MaxThreads \in Nat \ {0}
    /\ NoPage \notin 1..NumPages

VARIABLES
    needReprocess,  \* need_reprocess, from the settings of the export
    threads,        \* threads of the OpenMP loop
    nextPage,       \* the next page of the loop
    pc,             \* where each thread is
    page,           \* the page of each thread
    paused,         \* holders of m_paused
    interrupted,    \* m_interrupted
    requested,      \* requestInterruption() was called
    origForeSubscan,\* m_orig_fore_subscan, named for its page
    signals,        \* signals queued for the GUI thread
    running,        \* run() has not returned
    processed,      \* history: how often each page was exported
    mixedUp,        \* history: pages exported with the image of another page
    told            \* history: what the dialog was told at last

setup == <<needReprocess, threads>>
workers == <<setup, nextPage, pc, page, paused, running>>
history == <<processed, mixedUp>>
vars == <<workers, interrupted, requested, origForeSubscan, signals, history, told>>

Pages == 1..NumPages
Min1(n) == IF n < 1 THEN n ELSE 1

\* Mutant: one thread less, as the comment there says.
LoopThreadsDecreased ==
    IF needReprocess /\ MaxThreads > 1 THEN MaxThreads - 1 ELSE MaxThreads

\* omp_set_num_threads(std::min(1, default_thread_num-1)); none at all is one.
LoopThreads ==
    LET n == IF needReprocess THEN Min1(MaxThreads - 1) ELSE MaxThreads
    IN  IF n = 0 THEN 1 ELSE n

Init ==
    /\ needReprocess \in BOOLEAN
    /\ threads = LoopThreads
    /\ nextPage = 1
    /\ pc = [w \in 1..threads |-> "take"]
    /\ page = [w \in 1..threads |-> NoPage]
    /\ paused = {}
    /\ interrupted = FALSE /\ requested = FALSE
    /\ origForeSubscan = NoPage
    /\ signals = <<>>
    /\ running = TRUE
    /\ processed = [p \in Pages |-> 0]
    /\ mixedUp = {}
    /\ told = {}

Workers == DOMAIN pc
Goto(w, place) == pc' = [pc EXCEPT ![w] = place]
Emit(signal) == signals' = Append(signals, signal)

-----------------------------------------------------------------------------
\* A thread of the loop.

TakePage(w) ==
    /\ pc[w] = "take"
    /\ IF nextPage \in Pages
       THEN /\ page' = [page EXCEPT ![w] = nextPage]
            /\ nextPage' = nextPage + 1
            /\ Goto(w, "check")
       ELSE Goto(w, "idle") /\ UNCHANGED <<page, nextPage>>
    /\ UNCHANGED <<setup, paused, running, interrupted, requested,
                   origForeSubscan, signals, history, told>>

\* Mutant: m_interrupted is not looked at.
IsCancelRequestedAnew(w, yes, no, emits) == Goto(w, IF requested THEN emits ELSE no)

\* isCancelRequested(): the members are read, and then written, by any thread.
\* Where it goes on is yes, or no, or the place where it emits exportCanceled.
IsCancelRequested(w, yes, no, emits) ==
    Goto(w, IF interrupted THEN yes ELSE IF requested THEN emits ELSE no)

CheckFirst(w) ==
    /\ pc[w] = "check"
    /\ IsCancelRequested(w, "recheck", IF needReprocess THEN "ask" ELSE "recheck",
                         "cancel")
    /\ UNCHANGED <<setup, nextPage, page, paused, running, interrupted, requested,
                   origForeSubscan, signals, history, told>>

CheckAgain(w) ==
    /\ pc[w] = "recheck"
    /\ IsCancelRequested(w, "take", "export", "recancel")
    /\ UNCHANGED <<setup, nextPage, page, paused, running, interrupted, requested,
                   origForeSubscan, signals, history, told>>

ExportCanceled(w) ==
    /\ \/ pc[w] = "cancel" /\ Goto(w, "recheck")
       \/ pc[w] = "recancel" /\ Goto(w, "take")
    /\ interrupted' = TRUE
    /\ Emit([type |-> "exportCanceled"])
    /\ UNCHANGED <<setup, nextPage, page, paused, running, requested,
                   origForeSubscan, history, told>>

NeedsReprocess(w) ==
    /\ pc[w] = "ask" /\ paused = {}
    /\ paused' = {w}
    /\ Emit([type |-> "needReprocess", page |-> page[w]])
    /\ Goto(w, "asked")
    /\ UNCHANGED <<setup, nextPage, page, running, interrupted, requested,
                   origForeSubscan, history, told>>

Wait(w) ==
    /\ pc[w] = "asked"
    /\ paused' = {}
    /\ Goto(w, "wait")
    /\ UNCHANGED <<setup, nextPage, page, running, interrupted, requested,
                   origForeSubscan, signals, history, told>>

\* wait() has the mutex again, and the thread unlocks it.
WaitReturns(w) ==
    /\ pc[w] = "woken" /\ paused = {}
    /\ Goto(w, "recheck")
    /\ UNCHANGED <<setup, nextPage, page, paused, running, interrupted, requested,
                   origForeSubscan, signals, history, told>>

\* A file that is gone is reported, and the loop goes on all the same: exit()
\* does nothing to a thread without an event loop.
ExportPage(w) ==
    /\ pc[w] = "export"
    /\ Goto(w, "take")
    /\ processed' = [processed EXCEPT ![page[w]] = @ + 1]
    /\ mixedUp' = IF needReprocess /\ origForeSubscan # page[w]
                  THEN mixedUp \cup {page[w]} ELSE mixedUp
    /\ \/ Emit([type |-> "imageProcessed"])
       \/ signals' = signals \o <<[type |-> "error"], [type |-> "imageProcessed"]>>
    /\ UNCHANGED <<setup, nextPage, page, paused, running, interrupted, requested,
                   origForeSubscan, told>>

\* Mutants: a cancelled export is said to be complete; nothing is said.
VerdictCompleted == <<[type |-> "exportCompleted"]>>
VerdictNone == <<>>

\* What is left to be said when the loop is done.
Verdict ==
    IF interrupted THEN <<>>
    ELSE IF requested THEN <<[type |-> "exportCanceled"]>>
    ELSE <<[type |-> "exportCompleted"]>>

\* The end of run(), after the barrier of the loop; finished() is emitted.
RunReturns ==
    /\ running /\ \A w \in Workers : pc[w] = "idle"
    /\ running' = FALSE
    /\ interrupted' = (interrupted \/ requested)
    /\ signals' = signals \o Verdict \o <<[type |-> "finished"]>>
    /\ UNCHANGED <<setup, nextPage, pc, page, paused, requested, origForeSubscan,
                   history, told>>

WorkerNext(w) ==
    \/ TakePage(w) \/ CheckFirst(w) \/ CheckAgain(w) \/ ExportCanceled(w)
    \/ NeedsReprocess(w) \/ Wait(w) \/ WaitReturns(w) \/ ExportPage(w)

-----------------------------------------------------------------------------
\* The GUI thread.

\* The user stops the export or closes the dialog.
Cancel ==
    /\ running /\ ~requested
    /\ requested' = TRUE
    /\ UNCHANGED <<workers, interrupted, origForeSubscan, signals, history, told>>

Received(type) ==
    /\ signals # <<>> /\ Head(signals).type = type
    /\ signals' = Tail(signals)

\* exportRequestedReprocessing(): the page is processed, then wakeAll().
ExportRequestedReprocessing ==
    /\ Received("needReprocess")
    /\ origForeSubscan' = Head(signals).page
    /\ pc' = [w \in Workers |-> IF pc[w] = "wait" THEN "woken" ELSE pc[w]]
    /\ UNCHANGED <<setup, nextPage, page, paused, running, interrupted, requested,
                   history, told>>

\* The messages the dialog shows.
Tell(type) ==
    /\ Received(type)
    /\ told' = told \cup {type}
    /\ UNCHANGED <<workers, interrupted, requested, origForeSubscan, history>>

Progress ==
    /\ Received("imageProcessed")
    /\ UNCHANGED <<workers, interrupted, requested, origForeSubscan, history, told>>

Finals == {"error", "exportCanceled", "exportCompleted", "finished"}

GuiThread ==
    \/ ExportRequestedReprocessing
    \/ \E type \in Finals : Tell(type)
    \/ Progress

Next ==
    \/ \E w \in Workers : WorkerNext(w)
    \/ RunReturns
    \/ Cancel
    \/ GuiThread

Spec == Init /\ [][Next]_vars

\* The system runs every thread, and the GUI thread receives its signals.
FairSpec ==
    /\ Spec /\ WF_vars(GuiThread) /\ WF_vars(RunReturns)
    /\ \A w \in 1..MaxThreads : WF_vars(w \in Workers /\ WorkerNext(w))

-----------------------------------------------------------------------------
TypeOK ==
    /\ needReprocess \in BOOLEAN
    /\ threads \in Nat \ {0} /\ Workers = 1..threads
    /\ nextPage \in 1..NumPages + 1
    /\ \A w \in Workers :
          /\ pc[w] \in {"take", "check", "cancel", "ask", "asked", "wait", "woken",
                        "recheck", "recancel", "export", "idle"}
          /\ page[w] \in Pages \cup {NoPage}
    /\ paused \subseteq Workers
    /\ interrupted \in BOOLEAN /\ requested \in BOOLEAN /\ running \in BOOLEAN
    /\ origForeSubscan \in Pages \cup {NoPage}
    /\ processed \in [Pages -> Nat]
    /\ mixedUp \subseteq Pages /\ told \subseteq Finals

(***************************************************************************)
(* A page is never exported with the image that was made for another page: *)
(* all threads share m_orig_fore_subscan, and when it is used there is one *)
(* thread.                                                                 *)
(***************************************************************************)
NotMixedUp == mixedUp = {}

Said(type) == type \in told \/ \E i \in DOMAIN signals : signals[i].type = type

(***************************************************************************)
(* "Completed" means that every page was exported, once; and it is not     *)
(* said of an export that is said to be cancelled.                         *)
(***************************************************************************)
CompletedMeansAll ==
    /\ Said("exportCompleted") =>
           ~Said("exportCanceled") /\ \A p \in Pages : processed[p] = 1
    /\ \A p \in Pages : processed[p] <= 1

(***************************************************************************)
(* Where there is one thread, the user is told once that the export was    *)
(* cancelled.  (Several may find m_interrupted unset at the same time.)    *)
(***************************************************************************)
CanceledOnce ==
    threads = 1 =>
        Cardinality({i \in DOMAIN signals : signals[i].type = "exportCanceled"})
            + (IF "exportCanceled" \in told THEN 1 ELSE 0) <= 1

(***************************************************************************)
(* The state of an export: the types, whose image is exported, and what    *)
(* the dialog may be told.                                                 *)
(***************************************************************************)
Inv == TypeOK /\ NotMixedUp /\ CompletedMeansAll /\ CanceledOnce

WakeUpLost ==
    /\ \A i \in DOMAIN signals : signals[i].type # "needReprocess"
    /\ \E w \in Workers : pc[w] = "wait"

(***************************************************************************)
(* The export comes to an end, and the dialog is told how, unless a thread *)
(* went to sleep after its wakeAll(), from where it cannot be cancelled    *)
(* either.                                                                 *)
(***************************************************************************)
ExportEnds == <>(told \cap {"exportCompleted", "exportCanceled"} # {} \/ WakeUpLost)
=============================================================================
