-------------------------- MODULE OutputFilesProofs --------------------------
(***************************************************************************)
(* Proofs about the output files: their export, in ExportThread, and their *)
(* names, in OutputNames.                                                  *)
(*                                                                         *)
(* The export, for any number of pages and of threads, with and without    *)
(* reprocessing.  The inductive invariant IInv says why Inv holds.  A page *)
(* between its being taken and its being exported belongs to one thread,   *)
(* and the pages below the next one are with a thread or exported, unless  *)
(* somebody has given up (Counted).  If pages are reprocessed, the loop    *)
(* has one thread, which waits for the answer to its only request: what is *)
(* in the shared image is then its own page (OwnImage, Asked).  Whoever    *)
(* tells the dialog of a cancellation has set m_interrupted by then, after *)
(* which nobody says that the export is complete (Verdicts).               *)
(*                                                                         *)
(* The names, for any files, projects, names the user may enter and number *)
(* of operations.  The inductive invariant NamesIInv is about the name an  *)
(* image has of its file and its label alone (OwnName).  Until the user    *)
(* gave it away, no other page has such a name (SoleOwner), and so neither *)
(* a file nor the task in hand has it for another image (Owners).  All     *)
(* that has to survive a project's being closed unsaved: the records of    *)
(* the project file are still among those of the disambiguator, so that    *)
(* what was made since has none of their names (SavedSound).  Images that  *)
(* relinking moved, or whose records it dropped, are left out.             *)
(***************************************************************************)
EXTENDS ExportThread, OutputNames, FiniteSetTheorems, SequenceTheorems, WellFoundedInduction, TLAPS

-----------------------------------------------------------------------------
(* The types of the variables, and what a signal may be. *)
Signals == [type : Finals \cup {"imageProcessed"}] \cup [type : {"needReprocess"}, page : Pages]
Places == {"take", "check", "cancel", "ask", "asked", "wait", "woken", "recheck", "recancel",
           "export", "idle"}

Types ==
    /\ needReprocess \in BOOLEAN /\ threads \in Nat \ {0}
    /\ pc \in [1..threads -> Places] /\ page \in [1..threads -> Pages \cup {NoPage}]
    /\ nextPage \in 1..NumPages + 1
    /\ paused \subseteq 1..threads
    /\ interrupted \in BOOLEAN /\ requested \in BOOLEAN /\ running \in BOOLEAN
    /\ origForeSubscan \in Pages \cup {NoPage}
    /\ processed \in [Pages -> Nat]
    /\ told \subseteq Finals
    /\ signals \in Seq(Signals)

(* The thread has a page that it has not done with. *)
Busy(w) == pc[w] \notin {"take", "idle"}

(* The pages the threads are at are theirs alone and not exported yet, and as
   long as nobody gives up every page below the next is one of these or done. *)
Counted ==
    /\ \A w \in Workers : Busy(w) => /\ page[w] \in Pages /\ page[w] < nextPage
                                     /\ processed[page[w]] = 0
    /\ \A v, w \in Workers : Busy(v) /\ Busy(w) /\ v # w => page[v] # page[w]
    /\ \A p \in Pages : processed[p] <= 1 /\ (p >= nextPage => processed[p] = 0)
    /\ ~interrupted => \A p \in Pages : p < nextPage =>
                           processed[p] = 1 \/ \E w \in Workers : Busy(w) /\ page[w] = p
    /\ \A w \in Workers : pc[w] = "idle" => nextPage = NumPages + 1
    /\ ~running => \A w \in Workers : pc[w] = "idle"

(* The only thread waits for the image of its page and uses it. *)
OwnImage ==
    /\ \A w \in Workers : pc[w] = "ask" => needReprocess
    /\ needReprocess =>
          /\ threads = 1
          /\ pc[1] \in {"woken", "export"} => origForeSubscan = page[1]
          /\ pc[1] = "recheck" => origForeSubscan = page[1] \/ interrupted
    /\ mixedUp = {}

Is(type, i) == signals[i].type = type
Asked ==
    /\ \A i \in DOMAIN signals : Is("needReprocess", i) =>
          needReprocess /\ pc[1] \in {"asked", "wait"} /\ signals[i].page = page[1]
    /\ \A i, j \in DOMAIN signals : Is("needReprocess", i) /\ Is("needReprocess", j) => i = j

(* Whoever says "cancelled" marks the export as interrupted first, and the only
   thread says it only if nobody has. *)
Verdicts ==
    /\ Said("exportCompleted") => ~running /\ ~interrupted /\ \A p \in Pages : processed[p] = 1
    /\ Said("exportCanceled") => interrupted
    /\ threads = 1 =>
          /\ pc[1] \in {"cancel", "recancel"} => ~interrupted
          /\ \A i, j \in DOMAIN signals : Is("exportCanceled", i) /\ Is("exportCanceled", j) => i = j
          /\ \A i \in DOMAIN signals : Is("exportCanceled", i) => "exportCanceled" \notin told

IInv == Types /\ Counted /\ OwnImage /\ Asked /\ Verdicts

-----------------------------------------------------------------------------
(* What happens to the signals: some are emitted, or the first is received. *)
LEMMA Emitted ==
    ASSUME signals \in Seq(Signals), NEW s \in Signals, signals' = Append(signals, s)
    PROVE  /\ signals' \in Seq(Signals) /\ Len(signals') = Len(signals) + 1
           /\ DOMAIN signals = 1..Len(signals) /\ DOMAIN signals' = 1..Len(signals) + 1
           /\ \A i \in DOMAIN signals : signals'[i] = signals[i]
           /\ signals'[Len(signals) + 1] = s
  OBVIOUS

(* The same for two signals, emitted together or one after the other. *)
LEMMA EmittedTwo ==
    ASSUME signals \in Seq(Signals), NEW s \in Signals, NEW t \in Signals,
           signals' = signals \o <<s, t>>
    PROVE  /\ signals' \in Seq(Signals) /\ Len(signals') = Len(signals) + 2
           /\ DOMAIN signals = 1..Len(signals) /\ DOMAIN signals' = 1..Len(signals) + 2
           /\ \A i \in DOMAIN signals : signals'[i] = signals[i]
           /\ signals'[Len(signals) + 1] = s /\ signals'[Len(signals) + 2] = t
  OBVIOUS

LEMMA EmittedEach ==
    ASSUME signals \in Seq(Signals), NEW s \in Signals, NEW t \in Signals,
           signals' = signals \o <<s>> \o <<t>>
    PROVE  /\ signals' \in Seq(Signals) /\ Len(signals') = Len(signals) + 2
           /\ DOMAIN signals = 1..Len(signals) /\ DOMAIN signals' = 1..Len(signals) + 2
           /\ \A i \in DOMAIN signals : signals'[i] = signals[i]
           /\ signals'[Len(signals) + 1] = s /\ signals'[Len(signals) + 2] = t
  <1> DEFINE q == signals \o <<s>>
  <1>1. /\ q \in Seq(Signals) /\ Len(q) = Len(signals) + 1 /\ q[Len(signals) + 1] = s
        /\ DOMAIN signals = 1..Len(signals) /\ \A i \in DOMAIN signals : q[i] = signals[i]
    OBVIOUS
  <1>2. signals' = q \o <<t>>
    OBVIOUS
  <1> HIDE DEF q
  <1>3. /\ signals' \in Seq(Signals) /\ Len(signals') = Len(signals) + 2
        /\ DOMAIN signals' = 1..Len(signals) + 2
        /\ \A i \in 1..Len(signals) + 1 : signals'[i] = q[i]
        /\ signals'[Len(signals) + 2] = t
    BY <1>1, <1>2
  <1> QED  BY <1>1, <1>3

(* The GUI thread takes the first signal; the others move up. *)
LEMMA Delivered ==
    ASSUME signals \in Seq(Signals), signals # <<>>, signals' = Tail(signals)
    PROVE  /\ signals' \in Seq(Signals)
           /\ DOMAIN signals = 1..Len(signals) /\ DOMAIN signals' = 1..Len(signals) - 1
           /\ \A i \in DOMAIN signals' : i + 1 \in DOMAIN signals /\ signals'[i] = signals[i + 1]
           /\ 1 \in DOMAIN signals /\ Head(signals) = signals[1]
  OBVIOUS

(* The signals that are only shown as progress, or are errors. *)
Talk == {"imageProcessed", "error", "finished"}

(* Such signals change nothing of what was asked for or what was said. *)
LEMMA TalkEmitted ==
    ASSUME IInv, signals' \in Seq(Signals), DOMAIN signals \subseteq DOMAIN signals',
           \A i \in DOMAIN signals : signals'[i] = signals[i],
           \A i \in DOMAIN signals' \ DOMAIN signals : signals'[i].type \in Talk,
           UNCHANGED told
    PROVE  /\ Said("exportCompleted")' => Said("exportCompleted")
           /\ Said("exportCanceled")' => Said("exportCanceled")
           /\ \A i \in DOMAIN signals' :
                 Is("needReprocess", i)' => /\ i \in DOMAIN signals /\ Is("needReprocess", i)
                                            /\ signals'[i].page = signals[i].page
           /\ \A i \in DOMAIN signals' :
                 Is("exportCanceled", i)' => i \in DOMAIN signals /\ Is("exportCanceled", i)
  BY DEF Said, Is, Talk

-----------------------------------------------------------------------------
(* Reprocessing leaves the loop one thread, whatever the machine has. *)
LEMMA InitIInv == Init => IInv
  <1> SUFFICES ASSUME Init PROVE IInv
    OBVIOUS
  <1>1. threads \in Nat \ {0} /\ (needReprocess => threads = 1)
    <2>1. Min1(MaxThreads - 1) \in {0, 1}
      BY ExportAssumption DEF Min1
    <2>2. LoopThreads \in Nat \ {0} /\ (needReprocess => LoopThreads = 1)
      BY <2>1, ExportAssumption DEF LoopThreads
    <2>3. threads = LoopThreads
      BY DEF Init
    <2> QED  BY <2>2, <2>3
  <1>2. Types
    <2>1. pc \in [1..threads -> Places] /\ page \in [1..threads -> Pages \cup {NoPage}]
      BY DEF Init, Places
    <2>2. nextPage \in 1..NumPages + 1
      BY ExportAssumption DEF Init
    <2>3. processed \in [Pages -> Nat] /\ signals \in Seq(Signals)
      BY DEF Init
    <2>4. needReprocess \in BOOLEAN /\ paused \subseteq 1..threads /\ told \subseteq Finals
      BY DEF Init
    <2>5. /\ interrupted \in BOOLEAN /\ requested \in BOOLEAN /\ running \in BOOLEAN
          /\ origForeSubscan \in Pages \cup {NoPage}
      BY DEF Init
    <2> QED  BY <1>1, <2>1, <2>2, <2>3, <2>4, <2>5 DEF Types
  <1>3. Counted /\ OwnImage /\ Asked
    BY <1>1, ExportAssumption DEF Init, Counted, Busy, Workers, OwnImage, Asked, Pages
  <1>4. Verdicts
    BY <1>1 DEF Init, Verdicts, Said
  <1> QED  BY <1>2, <1>3, <1>4 DEF IInv

(* The steps of a thread that say nothing. *)
Silent(w) == TakePage(w) \/ CheckFirst(w) \/ CheckAgain(w) \/ Wait(w) \/ WaitReturns(w)

(* A page is taken by one thread, which has it for itself; no other step of
   these gives or takes one, but for giving up. *)
LEMMA SilentStep == ASSUME IInv, NEW w \in Workers, Silent(w) PROVE IInv'
  <1> USE DEF IInv
  <1>0. /\ UNCHANGED <<setup, running, interrupted, requested, origForeSubscan, signals, history, told>>
        /\ w \in 1..threads /\ Workers = 1..threads /\ Workers' = 1..threads
        /\ pc[w] \in {"take", "check", "recheck", "asked", "woken"}
        /\ \A v \in Workers \ {w} : pc'[v] = pc[v] /\ page'[v] = page[v]
    BY DEF Silent, TakePage, CheckFirst, CheckAgain, Wait, WaitReturns, IsCancelRequested, Goto,
           Types, Workers
  <1>1. Types'
    <2>1. pc' \in [1..threads -> Places] /\ paused' \subseteq 1..threads
      BY <1>0 DEF Silent, TakePage, CheckFirst, CheckAgain, Wait, WaitReturns, IsCancelRequested,
                  Goto, Types, Places
    <2>2. page' \in [1..threads -> Pages \cup {NoPage}] /\ nextPage' \in 1..NumPages + 1
      <3>1. CASE TakePage(w)
        <4>1. nextPage \in Pages => nextPage + 1 \in 1..NumPages + 1
          BY ExportAssumption DEF Pages
        <4> QED  BY <3>1, <4>1 DEF TakePage, Types
      <3>2. CASE ~TakePage(w)
        BY <3>2 DEF Silent, CheckFirst, CheckAgain, Wait, WaitReturns, Types
      <3> QED  BY <3>1, <3>2
    <2> QED  BY <1>0, <2>1, <2>2 DEF Types, setup, history
  <1>2. Counted'
    <2>1. CASE TakePage(w) /\ nextPage \in Pages
      <3>1. /\ page' = [page EXCEPT ![w] = nextPage] /\ nextPage' = nextPage + 1
            /\ pc' = [pc EXCEPT ![w] = "check"] /\ pc[w] = "take"
        BY <2>1 DEF TakePage, Goto
      <3>2. /\ page'[w] = nextPage /\ pc'[w] = "check" /\ ~Busy(w)
            /\ nextPage \in Nat /\ nextPage # NumPages + 1
        BY <1>0, <2>1, <3>1, ExportAssumption DEF Types, Busy, Pages
      <3>3. \A v \in Workers : Busy(v)' <=> (v = w \/ Busy(v))
        BY <1>0, <3>2 DEF Busy
      <3>4. \A v \in Workers : Busy(v)' => /\ page'[v] \in Pages /\ page'[v] < nextPage'
                                           /\ processed[page'[v]] = 0
        BY <1>0, <2>1, <3>1, <3>2, <3>3, ExportAssumption DEF Counted, Pages
      <3>5. \A v, u \in Workers : Busy(v)' /\ Busy(u)' /\ v # u => page'[v] # page'[u]
        BY <1>0, <3>2, <3>3, ExportAssumption DEF Counted, Pages
      <3>6. \A p \in Pages : p >= nextPage' => p >= nextPage
        BY <3>1, <3>2, ExportAssumption DEF Pages
      <3>7. \A p \in Pages : p < nextPage' => p < nextPage \/ p = nextPage
        BY <3>1, <3>2, ExportAssumption DEF Pages
      <3>8. ~interrupted => \A p \in Pages : p < nextPage' =>
                processed[p] = 1 \/ \E v \in Workers : Busy(v)' /\ page'[v] = p
        BY <1>0, <3>2, <3>3, <3>7 DEF Counted
      <3>9. \A v \in Workers : pc'[v] # "idle"
        BY <1>0, <3>2 DEF Counted
      <3> QED  BY <1>0, <3>4, <3>5, <3>6, <3>8, <3>9 DEF Counted, setup, history
    <2>2. CASE TakePage(w) /\ nextPage \notin Pages
      <3>1. /\ UNCHANGED <<page, nextPage>> /\ pc' = [pc EXCEPT ![w] = "idle"] /\ pc[w] = "take"
        BY <2>2 DEF TakePage, Goto
      <3>2. nextPage = NumPages + 1
        BY <2>2, ExportAssumption DEF Types, Pages
      <3>3. pc'[w] = "idle" /\ \A v \in Workers : Busy(v)' <=> Busy(v)
        BY <1>0, <3>1 DEF Busy, Types
      <3> QED  BY <1>0, <3>1, <3>2, <3>3 DEF Counted, history
    <2>3. CASE CheckAgain(w) /\ interrupted
      <3>1. UNCHANGED <<page, nextPage>> /\ pc' = [pc EXCEPT ![w] = "take"] /\ pc[w] = "recheck"
        BY <2>3 DEF CheckAgain, IsCancelRequested, Goto
      <3>2. pc'[w] = "take" /\ \A v \in Workers : Busy(v)' => Busy(v)
        BY <1>0, <3>1 DEF Busy, Types
      <3> QED  BY <1>0, <2>3, <3>1, <3>2 DEF Counted, history
    <2>4. CASE ~TakePage(w) /\ ~(CheckAgain(w) /\ interrupted)
      <3>1. UNCHANGED <<page, nextPage>> /\ pc[w] \notin {"take", "idle"} /\ pc'[w] \notin {"take", "idle"}
        BY <1>0, <2>4 DEF Silent, CheckFirst, CheckAgain, Wait, WaitReturns, IsCancelRequested, Goto,
                          Types
      <3>2. \A v \in Workers : Busy(v)' <=> Busy(v)
        BY <1>0, <3>1 DEF Busy
      <3>3. \A v \in Workers : pc'[v] = "idle" => pc[v] = "idle"
        BY <1>0, <3>1
      <3>4. running
        BY <1>0, <3>1 DEF Counted
      <3> QED  BY <1>0, <3>1, <3>2, <3>3, <3>4 DEF Counted, history
    <2> QED  BY <2>1, <2>2, <2>3, <2>4
  <1>3. OwnImage'
    <2>1. \A v \in Workers : pc'[v] = "ask" => needReprocess
      BY <1>0 DEF Silent, TakePage, CheckFirst, CheckAgain, Wait, WaitReturns, IsCancelRequested,
                  Goto, Types, OwnImage
    <2>2. needReprocess =>
              /\ pc'[1] \in {"woken", "export"} => origForeSubscan = page'[1]
              /\ pc'[1] = "recheck" => origForeSubscan = page'[1] \/ interrupted
      <3> SUFFICES ASSUME needReprocess
                   PROVE  /\ pc'[1] \in {"woken", "export"} => origForeSubscan = page'[1]
                          /\ pc'[1] = "recheck" => origForeSubscan = page'[1] \/ interrupted
        OBVIOUS
      <3>1. w = 1
        BY <1>0 DEF OwnImage
      <3> QED  BY <3>1
               DEF Silent, TakePage, CheckFirst, CheckAgain, Wait, WaitReturns, IsCancelRequested,
                   Goto, Types, OwnImage
    <2> QED  BY <1>0, <2>1, <2>2 DEF OwnImage, setup, history
  <1>4. Asked'
    <2>1. needReprocess /\ pc[1] \in {"asked", "wait"} => pc'[1] \in {"asked", "wait"} /\ page'[1] = page[1]
      <3>1. needReprocess => w = 1
        BY <1>0 DEF OwnImage
      <3> QED  BY <1>0, <3>1
               DEF Silent, TakePage, CheckFirst, CheckAgain, Wait, WaitReturns, IsCancelRequested,
                   Goto, Types
    <2> QED  BY <1>0, <2>1 DEF Asked, Is, setup
  <1>5. Verdicts'
    <2>1. threads = 1 /\ pc'[1] \in {"cancel", "recancel"} => ~interrupted
      <3>1. threads = 1 => w = 1
        BY <1>0
      <3> QED  BY <1>0, <3>1
               DEF Silent, TakePage, CheckFirst, CheckAgain, Wait, WaitReturns, IsCancelRequested,
                   Goto, Types, Verdicts
    <2> QED  BY <1>0, <2>1 DEF Verdicts, Said, Is, setup, history
  <1> QED  BY <1>1, <1>2, <1>3, <1>4, <1>5

(* m_interrupted is set together with the signal. *)
LEMMA ExportCanceledStep == ASSUME IInv, NEW w \in Workers, ExportCanceled(w) PROVE IInv'
  <1> USE DEF IInv
  <1>0. /\ UNCHANGED <<setup, nextPage, page, paused, running, requested, origForeSubscan, history, told>>
        /\ w \in 1..threads /\ Workers = 1..threads /\ Workers' = 1..threads
        /\ \/ pc[w] = "cancel" /\ pc' = [pc EXCEPT ![w] = "recheck"]
           \/ pc[w] = "recancel" /\ pc' = [pc EXCEPT ![w] = "take"]
        /\ interrupted' = TRUE
    BY DEF ExportCanceled, Goto, Types, Workers
  <1> DEFINE n == Len(signals) + 1
  <1>1. /\ signals' \in Seq(Signals)
        /\ DOMAIN signals = 1..Len(signals) /\ DOMAIN signals' = 1..Len(signals) + 1
        /\ \A i \in DOMAIN signals : signals'[i] = signals[i]
        /\ signals'[n] = [type |-> "exportCanceled"]
    <2>1. [type |-> "exportCanceled"] \in Signals
      BY DEF Signals, Finals
    <2>2. signals' = Append(signals, [type |-> "exportCanceled"])
      BY DEF ExportCanceled, Emit
    <2> QED  BY <2>1, <2>2, Emitted DEF Types
  <1>2. signals'[n].type = "exportCanceled" /\ \A i \in DOMAIN signals' : i = n \/ i \in DOMAIN signals
    BY <1>1 DEF Types
  <1> HIDE DEF n
  <1>3. Types'
    BY <1>0, <1>1 DEF Types, Places, setup, history
  <1>4. Counted'
    <2>1. \A v \in Workers : Busy(v)' => Busy(v)
      BY <1>0 DEF Busy, Types
    <2>2. \A v \in Workers : pc'[v] = "idle" <=> pc[v] = "idle"
      BY <1>0 DEF Types
    <2> QED  BY <1>0, <2>1, <2>2 DEF Counted, history
  <1>5. OwnImage'
    BY <1>0 DEF OwnImage, Types, setup, history
  <1>6. Asked'
    <2>1. needReprocess /\ pc[1] \in {"asked", "wait"} => pc'[1] = pc[1]
      BY <1>0 DEF Types
    <2> QED  BY <1>0, <1>1, <1>2, <2>1 DEF Asked, Is, setup
  <1>7. Verdicts'
    <2>1. running
      BY <1>0 DEF Counted
    <2>2. ~Said("exportCompleted")'
      BY <1>0, <1>1, <1>2, <2>1 DEF Verdicts, Said
    <2>3. ASSUME threads = 1 PROVE ~interrupted /\ pc'[1] \notin {"cancel", "recancel"}
      BY <1>0, <2>3 DEF Verdicts, Types
    <2>4. threads = 1 => ~Said("exportCanceled")
      BY <2>3 DEF Verdicts
    <2> QED  BY <1>0, <1>1, <1>2, <2>2, <2>3, <2>4 DEF Verdicts, Said, Is, setup
  <1> QED  BY <1>3, <1>4, <1>5, <1>6, <1>7

(* The only thread has no request under way when it makes one. *)
LEMMA NeedsReprocessStep == ASSUME IInv, NEW w \in Workers, NeedsReprocess(w) PROVE IInv'
  <1> USE DEF IInv
  <1>0. /\ UNCHANGED <<setup, nextPage, page, running, interrupted, requested, origForeSubscan, history, told>>
        /\ w \in 1..threads /\ Workers = 1..threads /\ Workers' = 1..threads
        /\ pc[w] = "ask" /\ pc' = [pc EXCEPT ![w] = "asked"] /\ paused' = {w}
    BY DEF NeedsReprocess, Goto, Types, Workers
  <1>a. needReprocess /\ threads = 1 /\ w = 1 /\ page[w] \in Pages
    BY <1>0 DEF OwnImage, Counted, Busy
  <1> DEFINE n == Len(signals) + 1
  <1>1. /\ signals' \in Seq(Signals)
        /\ DOMAIN signals = 1..Len(signals) /\ DOMAIN signals' = 1..Len(signals) + 1
        /\ \A i \in DOMAIN signals : signals'[i] = signals[i]
        /\ signals'[n] = [type |-> "needReprocess", page |-> page[w]]
    <2>1. [type |-> "needReprocess", page |-> page[w]] \in Signals
      BY <1>a DEF Signals
    <2>2. signals' = Append(signals, [type |-> "needReprocess", page |-> page[w]])
      BY DEF NeedsReprocess, Emit
    <2> QED  BY <2>1, <2>2, Emitted DEF Types
  <1>2. /\ signals'[n].type = "needReprocess" /\ signals'[n].page = page[w]
        /\ \A i \in DOMAIN signals' : i = n \/ i \in DOMAIN signals
    BY <1>1 DEF Types
  <1> HIDE DEF n
  <1>3. Types'
    BY <1>0, <1>1 DEF Types, Places, setup, history
  <1>4. Counted'
    <2>1. \A v \in Workers : (Busy(v)' <=> Busy(v)) /\ (pc'[v] = "idle" <=> pc[v] = "idle")
      BY <1>0 DEF Busy, Types
    <2> QED  BY <1>0, <2>1 DEF Counted, history
  <1>5. OwnImage'
    BY <1>0 DEF OwnImage, Types, setup, history
  <1>6. Asked'
    <2>1. \A i \in DOMAIN signals : ~Is("needReprocess", i)
      BY <1>0, <1>a DEF Asked
    <2>2. pc'[1] = "asked"
      BY <1>0, <1>a DEF Types
    <2> QED  BY <1>0, <1>1, <1>2, <1>a, <2>1, <2>2 DEF Asked, Is, setup
  <1>7. Verdicts'
    <2>1. /\ Said("exportCompleted")' => Said("exportCompleted")
          /\ Said("exportCanceled")' => Said("exportCanceled")
      BY <1>0, <1>1, <1>2 DEF Said
    <2>2. pc'[1] = "asked"
      BY <1>0, <1>a DEF Types
    <2> QED  BY <1>0, <1>1, <1>2, <2>1, <2>2 DEF Verdicts, Is, setup, history
  <1> QED  BY <1>3, <1>4, <1>5, <1>6, <1>7

(* The page is this thread's alone and not exported yet; the image is its own. *)
LEMMA ExportPageStep == ASSUME IInv, NEW w \in Workers, ExportPage(w) PROVE IInv'
  <1> USE DEF IInv
  <1>0. /\ UNCHANGED <<setup, nextPage, page, paused, running, interrupted, requested, origForeSubscan, told>>
        /\ w \in 1..threads /\ Workers = 1..threads /\ Workers' = 1..threads
        /\ pc[w] = "export" /\ pc' = [pc EXCEPT ![w] = "take"]
        /\ processed' = [processed EXCEPT ![page[w]] = @ + 1]
    BY DEF ExportPage, Goto, Types, Workers
  <1>a. page[w] \in Pages /\ page[w] < nextPage /\ processed[page[w]] = 0 /\ running /\ Busy(w)
    BY <1>0 DEF Counted, Busy
  <1>b. processed'[page[w]] = 1 /\ \A p \in Pages \ {page[w]} : processed'[p] = processed[p]
    BY <1>0, <1>a DEF Types
  <1>1. /\ signals' \in Seq(Signals) /\ DOMAIN signals \subseteq DOMAIN signals'
        /\ \A i \in DOMAIN signals : signals'[i] = signals[i]
        /\ \A i \in DOMAIN signals' \ DOMAIN signals : signals'[i].type \in Talk
    <2>1. [type |-> "imageProcessed"] \in Signals /\ [type |-> "error"] \in Signals
      BY DEF Signals, Finals
    <2>2. CASE signals' = Append(signals, [type |-> "imageProcessed"])
      BY <2>1, <2>2, Emitted DEF Types, Talk
    <2>3. CASE signals' = signals \o <<[type |-> "error"], [type |-> "imageProcessed"]>>
      BY <2>1, <2>3, EmittedTwo DEF Types, Talk
    <2> QED  BY <2>2, <2>3 DEF ExportPage, Emit
  <1>2. /\ Said("exportCompleted")' => Said("exportCompleted")
        /\ Said("exportCanceled")' => Said("exportCanceled")
        /\ \A i \in DOMAIN signals' :
              Is("needReprocess", i)' => /\ i \in DOMAIN signals /\ Is("needReprocess", i)
                                         /\ signals'[i].page = signals[i].page
        /\ \A i \in DOMAIN signals' :
              Is("exportCanceled", i)' => i \in DOMAIN signals /\ Is("exportCanceled", i)
    BY <1>0, <1>1, TalkEmitted
  <1>3. mixedUp' = {}
    BY <1>0, <1>a DEF ExportPage, OwnImage
  <1>4. Types'
    <2>1. processed' \in [Pages -> Nat]
      BY <1>0, <1>a DEF Types
    <2> QED  BY <1>0, <1>1, <2>1 DEF Types, Places, setup
  <1>5. Counted'
    <2>1. \A v \in Workers : Busy(v)' <=> Busy(v) /\ v # w
      BY <1>0 DEF Busy, Types
    <2>2. \A v \in Workers : pc'[v] = "idle" <=> pc[v] = "idle"
      BY <1>0 DEF Types
    <2>3. \A v \in Workers : Busy(v)' => /\ page[v] \in Pages /\ page[v] < nextPage
                                         /\ processed'[page[v]] = 0
      BY <1>a, <1>b, <2>1 DEF Counted
    <2>4. \A p \in Pages : processed'[p] <= 1 /\ (p >= nextPage => processed'[p] = 0)
      <3> SUFFICES ASSUME NEW p \in Pages
                   PROVE  processed'[p] <= 1 /\ (p >= nextPage => processed'[p] = 0)
        OBVIOUS
      <3>1. CASE p = page[w]
        BY <3>1, <1>a, <1>b, ExportAssumption DEF Types, Pages
      <3>2. CASE p # page[w]
        BY <3>2, <1>b DEF Counted
      <3> QED  BY <3>1, <3>2
    <2>5. ~interrupted => \A p \in Pages : p < nextPage =>
              processed'[p] = 1 \/ \E v \in Workers : Busy(v)' /\ page[v] = p
      BY <1>0, <1>b, <2>1 DEF Counted
    <2> QED  BY <1>0, <2>1, <2>2, <2>3, <2>4, <2>5 DEF Counted
  <1>6. OwnImage'
    BY <1>0, <1>3 DEF OwnImage, Types, setup
  <1>7. Asked'
    <2>1. \A i \in DOMAIN signals' : ~Is("needReprocess", i)'
      <3>1. needReprocess => pc[1] = "export"
        BY <1>0 DEF OwnImage
      <3> QED  BY <1>2, <3>1 DEF Asked
    <2> QED  BY <2>1 DEF Asked
  <1>8. Verdicts'
    <2>1. ~Said("exportCompleted")'
      BY <1>2, <1>a DEF Verdicts
    <2>2. threads = 1 => pc'[1] \notin {"cancel", "recancel"}
      BY <1>0 DEF Types
    <2> QED  BY <1>0, <1>2, <2>1, <2>2 DEF Verdicts, setup
  <1> QED  BY <1>4, <1>5, <1>6, <1>7, <1>8

(* When the loop is done and nobody was interrupted, every page is done. *)
LEMMA RunReturnsStep == ASSUME IInv, RunReturns PROVE IInv'
  <1> USE DEF IInv
  <1>0. /\ UNCHANGED <<setup, nextPage, pc, page, paused, requested, origForeSubscan, history, told>>
        /\ Workers = 1..threads /\ Workers' = 1..threads
        /\ running /\ running' = FALSE /\ \A w \in Workers : pc[w] = "idle"
        /\ interrupted' = (interrupted \/ requested)
    BY DEF RunReturns, Types, Workers
  <1>a. 1 \in Workers /\ pc[1] = "idle" /\ ~Said("exportCompleted")
    BY <1>0 DEF Types, Verdicts
  <1>1. \E said \in {{}, {"exportCanceled"}, {"exportCompleted"}} :
            LET n == Len(signals) + 1 IN
            /\ signals' \in Seq(Signals) /\ DOMAIN signals \subseteq DOMAIN signals'
            /\ \A i \in DOMAIN signals : signals'[i] = signals[i]
            /\ \A i \in DOMAIN signals' \ DOMAIN signals :
                  signals'[i].type \in Talk \/ (i = n /\ {signals'[i].type} = said)
            /\ "exportCanceled" \in said => ~interrupted /\ requested
            /\ "exportCompleted" \in said => ~interrupted /\ ~requested
    <2> DEFINE finished == [type |-> "finished"]
               canceled == [type |-> "exportCanceled"]
               completed == [type |-> "exportCompleted"]
    <2>1. finished \in Signals /\ canceled \in Signals /\ completed \in Signals
      BY DEF Signals, Finals
    <2>t. finished.type \in Talk /\ {canceled.type} = {"exportCanceled"} /\ {completed.type} = {"exportCompleted"}
      BY DEF Talk
    <2>2. CASE interrupted
      <3>1. signals' = signals \o <<>> \o <<finished>>
        BY <2>2 DEF RunReturns, Verdict
      <3>2. signals' = Append(signals, finished)
        BY <3>1 DEF Types
      <3> HIDE DEF finished
      <3> QED  BY <2>1, <2>t, <3>2, Emitted DEF Types
    <2>3. CASE ~interrupted /\ requested
      <3>1. signals' = signals \o <<canceled>> \o <<finished>>
        BY <2>3 DEF RunReturns, Verdict
      <3> HIDE DEF finished, canceled
      <3>3. /\ signals' \in Seq(Signals) /\ Len(signals') = Len(signals) + 2
            /\ DOMAIN signals = 1..Len(signals) /\ DOMAIN signals' = 1..Len(signals) + 2
            /\ \A i \in DOMAIN signals : signals'[i] = signals[i]
            /\ signals'[Len(signals) + 1] = canceled /\ signals'[Len(signals) + 2] = finished
        BY <2>1, <3>1, EmittedEach DEF Types
      <3>4. \A i \in DOMAIN signals' \ DOMAIN signals : i = Len(signals) + 1 \/ i = Len(signals) + 2
        BY <3>3 DEF Types
      <3>5. \A i \in DOMAIN signals' \ DOMAIN signals :
                signals'[i].type \in Talk
                \/ (i = Len(signals) + 1 /\ {signals'[i].type} = {"exportCanceled"})
        BY <2>t, <3>3, <3>4
      <3>6. DOMAIN signals \subseteq DOMAIN signals'
        BY <3>3 DEF Types
      <3> QED  BY <2>3, <3>3, <3>5, <3>6
    <2>4. CASE ~interrupted /\ ~requested
      <3>1. signals' = signals \o <<completed>> \o <<finished>>
        BY <2>4 DEF RunReturns, Verdict
      <3> HIDE DEF finished, completed
      <3>3. /\ signals' \in Seq(Signals) /\ Len(signals') = Len(signals) + 2
            /\ DOMAIN signals = 1..Len(signals) /\ DOMAIN signals' = 1..Len(signals) + 2
            /\ \A i \in DOMAIN signals : signals'[i] = signals[i]
            /\ signals'[Len(signals) + 1] = completed /\ signals'[Len(signals) + 2] = finished
        BY <2>1, <3>1, EmittedEach DEF Types
      <3>4. \A i \in DOMAIN signals' \ DOMAIN signals : i = Len(signals) + 1 \/ i = Len(signals) + 2
        BY <3>3 DEF Types
      <3>5. \A i \in DOMAIN signals' \ DOMAIN signals :
                signals'[i].type \in Talk
                \/ (i = Len(signals) + 1 /\ {signals'[i].type} = {"exportCompleted"})
        BY <2>t, <3>3, <3>4
      <3>6. DOMAIN signals \subseteq DOMAIN signals'
        BY <3>3 DEF Types
      <3> QED  BY <2>4, <3>3, <3>5, <3>6
    <2> QED  BY <2>2, <2>3, <2>4
  <1> DEFINE n == Len(signals) + 1
  <1>2. PICK said \in {{}, {"exportCanceled"}, {"exportCompleted"}} :
            /\ signals' \in Seq(Signals) /\ DOMAIN signals \subseteq DOMAIN signals'
            /\ \A i \in DOMAIN signals : signals'[i] = signals[i]
            /\ \A i \in DOMAIN signals' \ DOMAIN signals :
                  signals'[i].type \in Talk \/ (i = n /\ {signals'[i].type} = said)
            /\ "exportCanceled" \in said => ~interrupted /\ requested
            /\ "exportCompleted" \in said => ~interrupted /\ ~requested
    BY <1>1
  <1> HIDE DEF n
  <1>3. Types'
    BY <1>0, <1>2 DEF Types, setup, history
  <1>4. Counted'
    BY <1>0 DEF Counted, Busy, history
  <1>5. OwnImage'
    BY <1>0, <1>a DEF OwnImage, setup, history
  <1>6. \A i \in DOMAIN signals' :
            /\ ~Is("needReprocess", i)'
            /\ Is("exportCanceled", i)' =>
                  (i \in DOMAIN signals /\ Is("exportCanceled", i)) \/ (i = n /\ said = {"exportCanceled"})
            /\ Is("exportCompleted", i)' =>
                  (i \in DOMAIN signals /\ Is("exportCompleted", i)) \/ said = {"exportCompleted"}
    BY <1>2, <1>a DEF Is, Talk, Asked
  <1>7. Asked'
    BY <1>6 DEF Asked
  <1>8. ~interrupted => \A p \in Pages : processed[p] = 1
    <2> SUFFICES ASSUME ~interrupted, NEW p \in Pages PROVE processed[p] = 1
      OBVIOUS
    <2>1. nextPage = NumPages + 1
      BY <1>a DEF Counted
    <2>2. p < nextPage
      BY <2>1, ExportAssumption DEF Pages
    <2> QED  BY <1>0, <2>2 DEF Counted, Busy
  <1>9. Verdicts'
    <2>1. Said("exportCompleted")' => said = {"exportCompleted"}
      BY <1>0, <1>6, <1>a DEF Said, Is
    <2>2. Said("exportCanceled")' => Said("exportCanceled") \/ said = {"exportCanceled"}
      BY <1>0, <1>6 DEF Said, Is
    <2>3. said = {"exportCanceled"} => ~interrupted /\ requested /\ ~Said("exportCanceled")
      BY <1>2 DEF Verdicts
    <2>4. said = {"exportCompleted"} => ~interrupted' /\ ~interrupted
      BY <1>0, <1>2
    <2>5. /\ Said("exportCompleted")' =>
                ~running' /\ ~interrupted' /\ \A p \in Pages : processed'[p] = 1
          /\ Said("exportCanceled")' => interrupted'
      BY <1>0, <1>8, <2>1, <2>2, <2>3, <2>4 DEF Verdicts, history
    <2>6. threads = 1 =>
              /\ \A i, j \in DOMAIN signals' :
                    Is("exportCanceled", i)' /\ Is("exportCanceled", j)' => i = j
              /\ \A i \in DOMAIN signals' : Is("exportCanceled", i)' => "exportCanceled" \notin told
      BY <1>6, <2>3 DEF Verdicts, Said, Is
    <2> QED  BY <1>0, <1>a, <2>5, <2>6 DEF Verdicts, setup
  <1> QED  BY <1>3, <1>4, <1>5, <1>7, <1>9

(* The request to stop is not looked at before a thread reads it. *)
LEMMA CancelStep == ASSUME IInv, Cancel PROVE IInv'
  BY DEF IInv, Cancel, workers, setup, history, Types, Counted, Busy, Workers, OwnImage, Asked, Is,
         Verdicts, Said

(* The GUI thread has the first signal. *)
LEMMA GuiStep == ASSUME IInv, GuiThread PROVE IInv'
  <1> USE DEF IInv
  <1>0. /\ UNCHANGED <<setup, nextPage, page, paused, running, interrupted, requested, history>>
        /\ signals # <<>> /\ signals' = Tail(signals)
        /\ Workers = 1..threads
    BY DEF GuiThread, ExportRequestedReprocessing, Tell, Progress, Received, workers, Types, Workers
  <1>1. /\ signals' \in Seq(Signals)
        /\ \A i \in DOMAIN signals' : i + 1 \in DOMAIN signals /\ signals'[i] = signals[i + 1]
        /\ 1 \in DOMAIN signals /\ Head(signals) = signals[1]
        /\ \A i \in DOMAIN signals' : i \in Nat /\ i + 1 # 1
    BY <1>0, Delivered DEF Types
  <1>2. CASE ExportRequestedReprocessing
    <2>1. /\ Is("needReprocess", 1) /\ origForeSubscan' = signals[1].page
          /\ pc' = [w \in Workers |-> IF pc[w] = "wait" THEN "woken" ELSE pc[w]]
          /\ told' = told
      BY <1>1, <1>2 DEF ExportRequestedReprocessing, Received, Is
    <2>2. /\ needReprocess /\ threads = 1 /\ pc[1] \in {"asked", "wait"} /\ signals[1].page = page[1]
          /\ \A i \in DOMAIN signals : Is("needReprocess", i) => i = 1
      BY <1>1, <2>1 DEF Asked, OwnImage
    <2>3. Workers' = Workers /\ 1 \in Workers /\ page[1] \in Pages
      BY <1>0, <2>1, <2>2 DEF Workers, Types, Counted, Busy
    <2>4. Types'
      BY <1>0, <1>1, <2>1, <2>2, <2>3 DEF Types, Places, setup, history
    <2>5. Counted'
      <3>1. \A v \in Workers : (Busy(v)' <=> Busy(v)) /\ (pc'[v] = "idle" <=> pc[v] = "idle")
        BY <2>1 DEF Busy
      <3> QED  BY <1>0, <2>3, <3>1 DEF Counted, history
    <2>6. OwnImage'
      BY <1>0, <2>1, <2>2, <2>3 DEF OwnImage, setup, history
    <2>7. Asked'
      <3>1. \A i \in DOMAIN signals' : ~Is("needReprocess", i)'
        BY <1>1, <2>2 DEF Is
      <3> QED  BY <3>1 DEF Asked
    <2>8. Verdicts'
      <3>1. /\ Said("exportCompleted")' => Said("exportCompleted")
            /\ Said("exportCanceled")' => Said("exportCanceled")
        BY <1>1, <2>1 DEF Said
      <3>2. pc'[1] \notin {"cancel", "recancel"}
        BY <2>1, <2>2, <2>3
      <3>3. threads = 1 =>
                /\ \A i, j \in DOMAIN signals' :
                      Is("exportCanceled", i)' /\ Is("exportCanceled", j)' => i = j
                /\ \A i \in DOMAIN signals' : Is("exportCanceled", i)' => "exportCanceled" \notin told
        BY <1>1 DEF Verdicts, Is
      <3> QED  BY <1>0, <2>1, <3>1, <3>2, <3>3 DEF Verdicts, setup, history
    <2> QED  BY <2>4, <2>5, <2>6, <2>7, <2>8
  <1>3. CASE (\E type \in Finals : Tell(type)) \/ Progress
    <2>1. /\ UNCHANGED <<pc, origForeSubscan>>
          /\ \/ told' = told
             \/ told' = told \cup {signals[1].type} /\ signals[1].type \in Finals
      BY <1>1, <1>3 DEF Tell, Progress, Received, workers
    <2>2. Types'
      BY <1>0, <1>1, <2>1 DEF Types, setup, history
    <2>3. Counted'
      BY <1>0, <2>1 DEF Counted, Busy, Workers, history
    <2>4. OwnImage'
      BY <1>0, <2>1 DEF OwnImage, Workers, setup, history
    <2>5. Asked'
      BY <1>0, <1>1, <2>1 DEF Asked, Is, setup
    <2>6. Verdicts'
      <3>1. /\ Said("exportCompleted")' => Said("exportCompleted")
            /\ Said("exportCanceled")' => Said("exportCanceled")
        BY <1>1, <2>1 DEF Said
      <3>2. threads = 1 =>
                /\ \A i, j \in DOMAIN signals' :
                      Is("exportCanceled", i)' /\ Is("exportCanceled", j)' => i = j
                /\ \A i \in DOMAIN signals' : Is("exportCanceled", i)' => "exportCanceled" \notin told'
        BY <1>1, <2>1 DEF Verdicts, Is
      <3> QED  BY <1>0, <2>1, <3>1, <3>2 DEF Verdicts, setup, history
    <2> QED  BY <2>2, <2>3, <2>4, <2>5, <2>6
  <1> QED  BY <1>2, <1>3 DEF GuiThread

(* Every step of every thread keeps the invariant. *)
LEMMA StepIInv == IInv /\ [Next]_vars => IInv'
  <1> SUFFICES ASSUME IInv, [Next]_vars PROVE IInv'
    OBVIOUS
  <1>1. CASE UNCHANGED vars
    BY <1>1 DEF vars, workers, setup, history, IInv, Types, Counted, Busy, Workers, OwnImage, Asked,
                Is, Verdicts, Said
  <1>2. ASSUME NEW w \in Workers, WorkerNext(w) PROVE IInv'
    BY <1>2, SilentStep, ExportCanceledStep, NeedsReprocessStep, ExportPageStep DEF WorkerNext, Silent
  <1> QED  BY <1>1, <1>2, RunReturnsStep, CancelStep, GuiStep DEF Next

-----------------------------------------------------------------------------
(* What the runs check follows; the signals that tell of a cancellation are
   at most one, so that their number is 0 or 1. *)
LEMMA IInvIsEnough == IInv => Inv
  <1> SUFFICES ASSUME IInv PROVE Inv
    OBVIOUS
  <1> USE DEF IInv
  <1>1. TypeOK
    BY DEF Types, TypeOK, Workers, Places, OwnImage
  <1>2. NotMixedUp
    BY DEF OwnImage, NotMixedUp
  <1>3. CompletedMeansAll
    BY DEF Verdicts, Counted, CompletedMeansAll
  <1>4. CanceledOnce
    <2> SUFFICES ASSUME threads = 1
                 PROVE  Cardinality({i \in DOMAIN signals : signals[i].type = "exportCanceled"})
                            + (IF "exportCanceled" \in told THEN 1 ELSE 0) <= 1
      BY DEF CanceledOnce
    <2> DEFINE S == {i \in DOMAIN signals : signals[i].type = "exportCanceled"}
    <2> DEFINE shown == IF "exportCanceled" \in told THEN 1 ELSE 0
    <2> SUFFICES Cardinality(S) + shown <= 1
      OBVIOUS
    <2>1. CASE S = {}
      <3>1. Cardinality(S) = 0
        BY <2>1, FS_EmptySet
      <3> HIDE DEF S
      <3> QED  BY <3>1
    <2>2. CASE S # {}
      <3>1. PICK i \in S : TRUE
        BY <2>2
      <3>2. S = {i} /\ "exportCanceled" \notin told
        BY <3>1 DEF Verdicts, Is
      <3>3. Cardinality(S) = 1
        BY <3>2, FS_Singleton
      <3> HIDE DEF S
      <3> QED  BY <3>2, <3>3
    <2> QED  BY <2>1, <2>2
  <1> QED  BY <1>1, <1>2, <1>3, <1>4 DEF Inv

(* No page is exported with the image of another, none is exported twice, and
   the user is told that the export is complete only if it is, or once that it
   was cancelled (ExportThread::run). *)
THEOREM ExportIsSound == Spec => []Inv
  BY InitIInv, StepIInv, IInvIsEnough, PTL DEF Spec

-----------------------------------------------------------------------------
(* The names of the output files: numbers and lists. *)

LEMMA SmallestOf ==
    ASSUME NEW T, T \subseteq Nat, T # {}
    PROVE  \E x \in T : \A y \in T : x <= y
  <1> DEFINE R == OpToRel(<, Nat)
  <1>1. IsWellFoundedOn(R, Nat)
    BY NatLessThanWellFounded
  <1>2. \A x, y \in Nat : x < y => <<x, y>> \in R
    BY DEF OpToRel
  <1> HIDE DEF R
  <1>3. PICK x \in T : \A y \in T : ~(<<y, x>> \in R)
    BY <1>1, WFMin
  <1>4. \A y \in T : x \in Nat /\ y \in Nat /\ ~(y < x)
    BY <1>2, <1>3
  <1> QED  BY <1>4

(* Finitely many numbers have a bound: the smallest set without one could be
   made smaller. *)
LEMMA BoundOf ==
    ASSUME NEW S, S \subseteq Nat, IsFiniteSet(S)
    PROVE  \E b \in Nat : \A y \in S : y <= b
  <1> DEFINE Bounded(T) == \E b \in Nat : \A y \in T : y <= b
             Sizes == {n \in Nat : \E T \in SUBSET S : Cardinality(T) = n /\ ~Bounded(T)}
  <1>1. ASSUME ~Bounded(S) PROVE FALSE
    <2>1. Cardinality(S) \in Sizes
      BY <1>1, FS_CardinalityType
    <2>2. PICK n \in Sizes : \A m \in Sizes : n <= m
      BY <2>1, SmallestOf
    <2>3. PICK T \in SUBSET S : Cardinality(T) = n /\ ~Bounded(T)
      BY <2>2
    <2>4. PICK x : x \in T
      BY <2>3
    <2>5. IsFiniteSet(T)
      BY FS_Subset
    <2>6. Cardinality(T \ {x}) = n - 1 /\ Cardinality(T \ {x}) \in Nat
      BY <2>3, <2>4, <2>5, FS_RemoveElement, FS_CardinalityType
    <2>7. n - 1 \notin Sizes
      BY <2>2
    <2>8. Bounded(T \ {x})
      <3> HIDE DEF Bounded
      <3>1. T \ {x} \in SUBSET S
        OBVIOUS
      <3> QED  BY <2>6, <2>7, <3>1
    <2>9. PICK b \in Nat : \A y \in T \ {x} : y <= b
      BY <2>8
    <2>10. x \in Nat /\ T \subseteq Nat
      BY <2>4
    <2>11. CASE x <= b
      <3>1. \A y \in T : y <= b
        BY <2>9, <2>11
      <3> QED  BY <2>3, <3>1
    <2>12. CASE ~(x <= b)
      <3>1. \A y \in T : y <= x
        BY <2>9, <2>10, <2>12
      <3> QED  BY <2>3, <2>10, <3>1
    <2> QED  BY <2>11, <2>12
  <1> QED  BY <1>1

LEMMA MaxOf ==
    ASSUME NEW S, S \subseteq Nat, IsFiniteSet(S), S # {}
    PROVE  Max(S) \in S /\ \A y \in S : y <= Max(S)
  <1> DEFINE Bounds == {b \in Nat : \A y \in S : y <= b}
  <1>1. Bounds # {}
    BY BoundOf
  <1>2. PICK m \in Bounds : \A b \in Bounds : m <= b
    BY <1>1, SmallestOf
  <1>3. m \in S
    <2>1. SUFFICES ASSUME m \notin S PROVE FALSE
      OBVIOUS
    <2>2. \A y \in S : y <= m - 1
      BY <2>1
    <2>3. m - 1 \in Nat
      <3>1. PICK y \in S : TRUE
        OBVIOUS
      <3>2. y \in Nat /\ m \in Nat /\ y <= m - 1
        BY <2>2
      <3> QED  BY <3>2
    <2>4. m - 1 \in Bounds
      BY <2>2, <2>3
    <2> QED  BY <1>2, <2>4
  <1>4. \E x \in S : \A y \in S : x >= y
    BY <1>3
  <1> QED  BY <1>4 DEF Max

(* One element of a list is taken out. *)
LEMMA RemoveAtOf ==
    ASSUME NEW S, NEW q \in Seq(S), NEW i \in 1 .. Len(q)
    PROVE  /\ RemoveAt(q, i) \in Seq(S) /\ Len(RemoveAt(q, i)) = Len(q) - 1
           /\ \A j \in 1 .. Len(q) - 1 : RemoveAt(q, i)[j] = IF j < i THEN q[j] ELSE q[j + 1]
  <1>1. Len(q) \in Nat /\ \A j \in 1 .. Len(q) : q[j] \in S
    BY LenProperties
  <1> DEFINE a == SubSeq(q, 1, i - 1)
             b == SubSeq(q, i + 1, Len(q))
  <1>2. a \in Seq(S) /\ Len(a) = i - 1 /\ \A j \in 1 .. i - 1 : a[j] = q[j]
    <2>1. \A j \in 1 .. i - 1 : q[j] \in S
      BY <1>1
    <2> QED  BY <2>1, <1>1, SubSeqProperties
  <1>3. b \in Seq(S) /\ Len(b) = Len(q) - i /\ \A j \in 1 .. Len(q) - i : b[j] = q[j + i]
    <2>1. \A j \in i + 1 .. Len(q) : q[j] \in S
      BY <1>1
    <2> QED  BY <2>1, <1>1, SubSeqProperties
  <1> HIDE DEF a, b
  <1>4. /\ a \o b \in Seq(S) /\ Len(a \o b) = Len(a) + Len(b)
        /\ \A j \in 1 .. Len(a) + Len(b) : (a \o b)[j] = IF j <= Len(a) THEN a[j] ELSE b[j - Len(a)]
    BY <1>2, <1>3, ConcatProperties
  <1>5. RemoveAt(q, i) = a \o b
    BY DEF RemoveAt, a, b
  <1>6. \A j \in 1 .. Len(q) - 1 : (a \o b)[j] = IF j < i THEN q[j] ELSE q[j + 1]
    <2> SUFFICES ASSUME NEW j \in 1 .. Len(q) - 1
                 PROVE  (a \o b)[j] = IF j < i THEN q[j] ELSE q[j + 1]
      OBVIOUS
    <2>1. CASE j < i
      BY <1>1, <1>2, <1>3, <1>4, <2>1
    <2>2. CASE ~(j < i)
      <3>1. j - (i - 1) \in 1 .. Len(q) - i /\ (j - (i - 1)) + i = j + 1
        BY <1>1, <2>2
      <3>2. (a \o b)[j] = b[j - (i - 1)]
        BY <1>1, <1>2, <1>3, <1>4, <2>2
      <3> QED  BY <1>3, <2>2, <3>1, <3>2
    <2> QED  BY <2>1, <2>2
  <1> QED  BY <1>1, <1>2, <1>3, <1>4, <1>5, <1>6

(* One is put in. *)
InsertedAt(q, i, e, r) ==
    /\ Len(r) = Len(q) + 1
    /\ \A j \in 1 .. Len(q) + 1 : r[j] = IF j < i THEN q[j] ELSE IF j = i THEN e ELSE q[j - 1]

LEMMA InsertAtOf ==
    ASSUME NEW S, NEW q \in Seq(S), NEW i \in 1 .. Len(q) + 1, NEW e \in S
    PROVE  InsertAt(q, i, e) \in Seq(S) /\ InsertedAt(q, i, e, InsertAt(q, i, e))
  <1>1. Len(q) \in Nat /\ \A j \in 1 .. Len(q) : q[j] \in S
    BY LenProperties
  <1> DEFINE a == SubSeq(q, 1, i - 1)
             b == SubSeq(q, i, Len(q))
             m == a \o <<e>>
  <1>2. a \in Seq(S) /\ Len(a) = i - 1 /\ \A j \in 1 .. i - 1 : a[j] = q[j]
    <2>1. \A j \in 1 .. i - 1 : q[j] \in S
      BY <1>1
    <2> QED  BY <2>1, <1>1, SubSeqProperties
  <1>3. b \in Seq(S) /\ Len(b) = Len(q) + 1 - i /\ \A j \in 1 .. Len(q) + 1 - i : b[j] = q[j + i - 1]
    <2>1. \A j \in i .. Len(q) : q[j] \in S
      BY <1>1
    <2> QED  BY <2>1, <1>1, SubSeqProperties
  <1> HIDE DEF a, b
  <1>4. m \in Seq(S) /\ Len(m) = i /\ \A j \in 1 .. i : m[j] = IF j < i THEN q[j] ELSE e
    <2>1. <<e>> \in Seq(S) /\ Len(<<e>>) = 1 /\ <<e>>[1] = e
      OBVIOUS
    <2>2. /\ m \in Seq(S) /\ Len(m) = Len(a) + 1
          /\ \A j \in 1 .. Len(a) + 1 : m[j] = IF j <= Len(a) THEN a[j] ELSE <<e>>[j - Len(a)]
      BY <1>2, <2>1, ConcatProperties
    <2> HIDE DEF m
    <2>3. ASSUME NEW j \in 1 .. i PROVE m[j] = IF j < i THEN q[j] ELSE e
      BY <1>1, <1>2, <2>1, <2>2
    <2> QED  BY <1>1, <1>2, <2>2, <2>3
  <1> HIDE DEF m
  <1>5. /\ m \o b \in Seq(S) /\ Len(m \o b) = Len(m) + Len(b)
        /\ \A j \in 1 .. Len(m) + Len(b) : (m \o b)[j] = IF j <= Len(m) THEN m[j] ELSE b[j - Len(m)]
    BY <1>3, <1>4, ConcatProperties
  <1>6. InsertAt(q, i, e) = m \o b
    BY DEF InsertAt, a, b, m
  <1>7. ASSUME NEW j \in 1 .. Len(q) + 1
        PROVE  (m \o b)[j] = IF j < i THEN q[j] ELSE IF j = i THEN e ELSE q[j - 1]
    <2>1. CASE j <= i
      BY <1>1, <1>3, <1>4, <1>5, <2>1
    <2>2. CASE ~(j <= i)
      <3>1. j - i \in 1 .. Len(q) + 1 - i /\ (j - i) + i - 1 = j - 1 /\ ~(j < i) /\ j # i
        BY <1>1, <2>2
      <3>2. (m \o b)[j] = b[j - i]
        BY <1>1, <1>3, <1>4, <1>5, <2>2
      <3> QED  BY <1>3, <3>1, <3>2
    <2> QED  BY <2>1, <2>2
  <1>8. m \o b \in Seq(S) /\ InsertedAt(q, i, e, m \o b)
    BY <1>1, <1>3, <1>4, <1>5, <1>7 DEF InsertedAt
  <1> QED  BY <1>6, <1>8

(* Of a list that has each element once, a list without one has the others. *)
LEMMA TakenOut ==
    ASSUME NEW S, NEW q \in Seq(S), IsInjective(q), NEW x \in ToSet(q)
    PROVE  /\ RemoveAt(q, PlaceIn(q, x)) \in Seq(S)
           /\ IsInjective(RemoveAt(q, PlaceIn(q, x)))
           /\ ToSet(RemoveAt(q, PlaceIn(q, x))) = ToSet(q) \ {x}
  <1> DEFINE p == PlaceIn(q, x)
             r == RemoveAt(q, p)
  <1>1. PICK n : n = Len(q)
    OBVIOUS
  <1>2. n \in Nat /\ DOMAIN q = 1 .. n /\ \A j \in 1 .. n : q[j] \in S
    BY <1>1, LenProperties
  <1>3. p \in 1 .. n /\ q[p] = x
    BY <1>2 DEF PlaceIn, ToSet
  <1> HIDE DEF p
  <1>4. /\ r \in Seq(S) /\ Len(r) = n - 1
        /\ \A j \in 1 .. n - 1 : r[j] = IF j < p THEN q[j] ELSE q[j + 1]
    BY <1>1, <1>3, RemoveAtOf
  <1> HIDE DEF r
  <1>5. DOMAIN r = 1 .. n - 1
    BY <1>2, <1>4, LenProperties
  <1>6. \A j, k \in 1 .. n : q[j] = q[k] => j = k
    BY <1>2 DEF IsInjective
  <1>7. IsInjective(r)
    <2> SUFFICES ASSUME NEW j \in 1 .. n - 1, NEW k \in 1 .. n - 1, r[j] = r[k] PROVE j = k
      BY <1>5 DEF IsInjective
    <2>1. j \in 1 .. n /\ j + 1 \in 1 .. n /\ k \in 1 .. n /\ k + 1 \in 1 .. n
      BY <1>2
    <2>2. CASE j < p /\ k < p
      BY <1>4, <1>6, <2>1, <2>2
    <2>3. CASE j < p /\ ~(k < p)
      BY <1>3, <1>4, <1>6, <2>1, <2>3
    <2>4. CASE ~(j < p) /\ k < p
      BY <1>3, <1>4, <1>6, <2>1, <2>4
    <2>5. CASE ~(j < p) /\ ~(k < p)
      BY <1>4, <1>6, <2>1, <2>5
    <2> QED  BY <2>2, <2>3, <2>4, <2>5
  <1>8. ASSUME NEW j \in 1 .. n - 1 PROVE r[j] \in ToSet(q) \ {x}
    <2>1. j \in 1 .. n /\ j + 1 \in 1 .. n
      BY <1>2
    <2>2. CASE j < p
      <3>1. q[j] # x
        BY <1>3, <1>6, <2>1, <2>2
      <3> QED  BY <1>2, <1>4, <2>1, <2>2, <3>1 DEF ToSet
    <2>3. CASE ~(j < p)
      <3>1. q[j + 1] # x
        BY <1>3, <1>6, <2>1, <2>3
      <3> QED  BY <1>2, <1>4, <2>1, <2>3, <3>1 DEF ToSet
    <2> QED  BY <2>2, <2>3
  <1>9. ASSUME NEW k \in 1 .. n, q[k] # x PROVE \E j \in 1 .. n - 1 : r[j] = q[k]
    <2>1. CASE k < p
      <3>1. k \in 1 .. n - 1 /\ r[k] = q[k]
        BY <1>2, <1>3, <1>4, <2>1
      <3> QED  BY <3>1
    <2>2. CASE k > p
      <3>1. k - 1 \in 1 .. n - 1 /\ ~(k - 1 < p) /\ (k - 1) + 1 = k
        BY <1>2, <1>3, <2>2
      <3>2. r[k - 1] = q[k]
        BY <1>4, <3>1
      <3> QED  BY <3>1, <3>2
    <2> QED  BY <1>2, <1>3, <1>9, <2>1, <2>2
  <1>10. ToSet(r) = ToSet(q) \ {x}
    <2>1. ToSet(r) \subseteq ToSet(q) \ {x}
      BY <1>5, <1>8 DEF ToSet
    <2>2. ASSUME NEW y \in ToSet(q) \ {x} PROVE y \in ToSet(r)
      <3>1. PICK k \in 1 .. n : y = q[k]
        BY <1>2 DEF ToSet
      <3>2. PICK j \in 1 .. n - 1 : r[j] = q[k]
        BY <1>9, <3>1
      <3> QED  BY <1>5, <3>1, <3>2 DEF ToSet
    <2> QED  BY <2>1, <2>2
  <1> QED  BY <1>4, <1>7, <1>10 DEF r, p

LEMMA PutIn ==
    ASSUME NEW S, NEW q \in Seq(S), IsInjective(q), NEW x \in S, x \notin ToSet(q),
           NEW p \in 1 .. Len(q) + 1
    PROVE  /\ InsertAt(q, p, x) \in Seq(S)
           /\ IsInjective(InsertAt(q, p, x))
           /\ ToSet(InsertAt(q, p, x)) = ToSet(q) \cup {x}
  <1> DEFINE r == InsertAt(q, p, x)
  <1>1. PICK n : n = Len(q)
    OBVIOUS
  <1>2. n \in Nat /\ DOMAIN q = 1 .. n /\ \A j \in 1 .. n : q[j] \in S
    BY <1>1, LenProperties
  <1>3. /\ r \in Seq(S) /\ Len(r) = n + 1
        /\ \A j \in 1 .. n + 1 : r[j] = IF j < p THEN q[j] ELSE IF j = p THEN x ELSE q[j - 1]
    <2>1. r \in Seq(S) /\ InsertedAt(q, p, x, r)
      BY InsertAtOf
    <2> HIDE DEF r
    <2> QED  BY <1>1, <2>1 DEF InsertedAt
  <1>4. p \in 1 .. n + 1
    BY <1>1
  <1> HIDE DEF r
  <1>5. DOMAIN r = 1 .. n + 1
    BY <1>2, <1>3, LenProperties
  <1>6. \A j, k \in 1 .. n : q[j] = q[k] => j = k
    BY <1>2 DEF IsInjective
  <1>7. \A j \in 1 .. n : q[j] \in ToSet(q) /\ q[j] # x
    BY <1>2 DEF ToSet
  <1>8. ASSUME NEW j \in 1 .. n + 1
        PROVE  /\ j < p => j \in 1 .. n /\ r[j] = q[j]
               /\ j = p => r[j] = x
               /\ j > p => j - 1 \in 1 .. n /\ r[j] = q[j - 1]
    BY <1>2, <1>3, <1>4
  <1>9. IsInjective(r)
    <2> SUFFICES ASSUME NEW j \in 1 .. n + 1, NEW k \in 1 .. n + 1, r[j] = r[k] PROVE j = k
      BY <1>5 DEF IsInjective
    <2>1. CASE j = p \/ k = p
      BY <1>4, <1>7, <1>8, <2>1
    <2>2. CASE j < p /\ k < p
      BY <1>6, <1>8, <2>2
    <2>3. CASE j > p /\ k > p
      <3>1. j - 1 = k - 1
        BY <1>6, <1>8, <2>3
      <3> QED  BY <3>1
    <2>4. CASE j < p /\ k > p
      <3>1. j = k - 1
        BY <1>6, <1>8, <2>4
      <3> QED  BY <1>4, <2>4, <3>1
    <2>5. CASE j > p /\ k < p
      <3>1. j - 1 = k
        BY <1>6, <1>8, <2>5
      <3> QED  BY <1>4, <2>5, <3>1
    <2> QED  BY <1>2, <1>4, <2>1, <2>2, <2>3, <2>4, <2>5
  <1>10. ToSet(r) \subseteq ToSet(q) \cup {x}
    BY <1>2, <1>4, <1>5, <1>7, <1>8 DEF ToSet
  <1>11. ASSUME NEW k \in 1 .. n PROVE \E j \in 1 .. n + 1 : r[j] = q[k]
    <2>1. CASE k < p
      <3>1. k \in 1 .. n + 1 /\ r[k] = q[k]
        BY <1>2, <1>8, <2>1
      <3> QED  BY <3>1
    <2>2. CASE ~(k < p)
      <3>1. k + 1 \in 1 .. n + 1 /\ k + 1 > p /\ (k + 1) - 1 = k
        BY <1>2, <1>4, <2>2
      <3>2. r[k + 1] = q[k]
        BY <1>8, <3>1
      <3> QED  BY <3>1, <3>2
    <2> QED  BY <2>1, <2>2
  <1>12. r[p] = x
    BY <1>4, <1>8
  <1>13. ToSet(q) \cup {x} \subseteq ToSet(r)
    BY <1>2, <1>4, <1>5, <1>11, <1>12 DEF ToSet
  <1> QED  BY <1>3, <1>9, <1>10, <1>13 DEF r

-----------------------------------------------------------------------------
(* Images, their records, and the names made of them. *)

Images == [file : Files, page : {0}] \cup [file : {Empty}, page : Nat]
Record == [label : Nat, given : AllTexts \cup {NoText}]

IsItems(its) ==
    /\ DOMAIN its \subseteq Images /\ IsFiniteSet(DOMAIN its)
    /\ \A i \in DOMAIN its : its[i] \in Record

LabelsDiffer(its) ==
    \A i, j \in DOMAIN its : i # j /\ SameName(i, j) => its[i].label # its[j].label

(* An empty page has a number of its own, and so no label. *)
EmptyUnlabelled(its) == \A i \in DOMAIN its : i.file = Empty => its[i].label = 0

(* The name made of the file and the label, whether or not one was given. *)
OwnName(its, i) == WithLabel(OwnText(i), its[i].label)

LEMMA ImageIs ==
    ASSUME NEW i \in Images
    PROVE  /\ i.file.stem \in Nat /\ i.page \in Nat
           /\ i.file = Empty \/ (i.file \in Files /\ i.file.stem # 0 /\ i = Image(i.file))
           /\ i.file = Empty => i.file.stem = 0 /\ i = [file |-> Empty, page |-> i.page]
           /\ OwnText(i) \in AllTexts /\ OwnText(i).stem = i.file.stem
           /\ OwnText(i).labels = <<>> /\ OwnText(i).order = Plain
  <1>1. CASE i \in [file : Files, page : {0}]
    <2>1. i.file \in Files /\ i.page = 0 /\ i = [file |-> i.file, page |-> i.page]
      BY <1>1
    <2>2. i.file.stem \in Nat \ {0}
      BY <2>1, OutputNamesAssumption
    <2>3. i.file # Empty
      BY <2>2 DEF Empty
    <2> QED  BY <2>1, <2>2, <2>3 DEF OwnText, Text, AllTexts, Image
  <1>2. CASE i \in [file : {Empty}, page : Nat]
    <2>1. i.file = Empty /\ i.page \in Nat /\ i = [file |-> i.file, page |-> i.page]
      BY <1>2
    <2>2. i.file.stem = 0
      BY <2>1 DEF Empty
    <2> QED  BY <2>1, <2>2 DEF OwnText, Text, AllTexts
  <1> QED  BY <1>1, <1>2 DEF Images

LEMMA WithLabelOf ==
    ASSUME NEW t \in AllTexts, NEW l \in Nat
    PROVE  /\ WithLabel(t, l) \in AllTexts /\ WithLabel(t, l).stem = t.stem
           /\ WithLabel(t, l).order = t.order
           /\ l = 0 => WithLabel(t, l) = t
           /\ l # 0 => WithLabel(t, l).labels = Append(t.labels, l)
  <1>1. Append(t.labels, l) \in Seq(Nat)
    BY DEF AllTexts
  <1>2. CASE l = 0
    BY <1>2 DEF WithLabel
  <1>3. CASE l # 0
    <2>1. WithLabel(t, l) = [t EXCEPT !.labels = Append(t.labels, l)]
      BY <1>3 DEF WithLabel
    <2> QED  BY <1>1, <1>3, <2>1 DEF AllTexts
  <1> QED  BY <1>2, <1>3

LEMMA NameIs ==
    ASSUME NEW its, IsItems(its), NEW i \in Images
    PROVE  /\ Name(its, i) \in AllTexts
           /\ i \notin DOMAIN its => Name(its, i) = OwnText(i)
           /\ i \in DOMAIN its =>
                 /\ OwnName(its, i) \in AllTexts /\ OwnName(its, i).order = Plain
                 /\ OwnName(its, i).stem = i.file.stem
                 /\ its[i].label \in Nat
                 /\ its[i].given = NoText => Name(its, i) = OwnName(its, i)
                 /\ its[i].given # NoText => /\ its[i].given \in AllTexts
                                             /\ Name(its, i) = WithLabel(its[i].given, its[i].label)
                                             /\ Name(its, i).order = its[i].given.order
  <1>1. OwnText(i) \in AllTexts /\ OwnText(i).stem = i.file.stem /\ OwnText(i).order = Plain
    BY ImageIs
  <1>2. CASE i \notin DOMAIN its
    BY <1>1, <1>2 DEF Name
  <1>3. CASE i \in DOMAIN its
    <2>1. its[i].label \in Nat /\ its[i].given \in AllTexts \cup {NoText}
      BY <1>3 DEF IsItems, Record
    <2>2. /\ OwnName(its, i) \in AllTexts /\ OwnName(its, i).order = Plain
          /\ OwnName(its, i).stem = i.file.stem
      BY <1>1, <2>1, WithLabelOf DEF OwnName
    <2>3. CASE its[i].given = NoText
      BY <1>3, <2>1, <2>2, <2>3 DEF Name, OwnName
    <2>4. CASE its[i].given # NoText
      <3>1. its[i].given \in AllTexts /\ Name(its, i) = WithLabel(its[i].given, its[i].label)
        BY <1>3, <2>1, <2>4 DEF Name
      <3> QED  BY <1>3, <2>1, <2>2, <2>4, <3>1, WithLabelOf
    <2> QED  BY <2>3, <2>4
  <1> QED  BY <1>2, <1>3

(* Of which files a name without an order number is, and their label. *)
LEMMA OwnNamesDiffer ==
    ASSUME NEW i \in Images, NEW j \in Images, NEW l \in Nat, NEW m \in Nat,
           WithLabel(OwnText(i), l) = WithLabel(OwnText(j), m)
    PROVE  i.file.stem = j.file.stem /\ l = m
  <1>1. /\ OwnText(i) \in AllTexts /\ OwnText(i).stem = i.file.stem /\ OwnText(i).labels = <<>>
        /\ OwnText(j) \in AllTexts /\ OwnText(j).stem = j.file.stem /\ OwnText(j).labels = <<>>
    BY ImageIs
  <1>2. /\ WithLabel(OwnText(i), l).stem = i.file.stem
        /\ l = 0 => WithLabel(OwnText(i), l).labels = <<>>
        /\ l # 0 => WithLabel(OwnText(i), l).labels = Append(<<>>, l)
    <2>1. PICK t \in AllTexts : t = OwnText(i)
      BY <1>1
    <2>2. /\ WithLabel(t, l).stem = t.stem /\ (l = 0 => WithLabel(t, l) = t)
          /\ (l # 0 => WithLabel(t, l).labels = Append(t.labels, l))
      BY WithLabelOf
    <2> QED  BY <1>1, <2>1, <2>2
  <1>3. /\ WithLabel(OwnText(j), m).stem = j.file.stem
        /\ m = 0 => WithLabel(OwnText(j), m).labels = <<>>
        /\ m # 0 => WithLabel(OwnText(j), m).labels = Append(<<>>, m)
    <2>1. PICK t \in AllTexts : t = OwnText(j)
      BY <1>1
    <2>2. /\ WithLabel(t, m).stem = t.stem /\ (m = 0 => WithLabel(t, m) = t)
          /\ (m # 0 => WithLabel(t, m).labels = Append(t.labels, m))
      BY WithLabelOf
    <2> QED  BY <1>1, <2>1, <2>2
  <1>4. /\ Append(<<>>, l) = <<l>> /\ Append(<<>>, m) = <<m>>
        /\ <<l>> # <<>> /\ <<m>> # <<>> /\ (<<l>> = <<m>> => l = m)
    OBVIOUS
  <1>5. PICK a, b, c : a = <<>> /\ b = <<l>> /\ c = <<m>>
    OBVIOUS
  <1>6. WithLabel(OwnText(i), l).labels = WithLabel(OwnText(j), m).labels
    OBVIOUS
  <1>7. PICK p, q : p = WithLabel(OwnText(i), l).labels /\ q = WithLabel(OwnText(j), m).labels
    OBVIOUS
  <1>8. /\ p = q /\ (l = 0 => p = a) /\ (l # 0 => p = b)
        /\ (m = 0 => q = a) /\ (m # 0 => q = c)
    BY <1>2, <1>3, <1>4, <1>5, <1>6, <1>7
  <1>9. b # a /\ c # a /\ (b = c => l = m)
    BY <1>4, <1>5
  <1>10. i.file.stem = j.file.stem
    BY <1>2, <1>3
  <1> QED  BY <1>8, <1>9, <1>10

(* The next label is above those there are. *)
LEMMA NextLabelOf ==
    ASSUME NEW its, IsItems(its), NEW i \in Images
    PROVE  /\ NextLabel(its, i) \in Nat
           /\ \A j \in DOMAIN its : SameName(j, i) => its[j].label < NextLabel(its, i)
  <1> DEFINE group == {k \in DOMAIN its : SameName(k, i)}
             labels == {its[j].label : j \in group}
             f == [k \in group |-> its[k].label]
  <1>1. labels \subseteq Nat
    BY DEF IsItems, Record
  <1>2. IsFiniteSet(labels)
    <2>1. IsFiniteSet(group)
      <3>1. group \subseteq DOMAIN its
        OBVIOUS
      <3> QED  BY <3>1, FS_Subset DEF IsItems
    <2>2. f \in Surjection(group, labels)
      BY DEF Surjection
    <2> HIDE DEF f, labels, group
    <2> QED  BY <2>1, <2>2, FS_Surjection
  <1>3. NextLabel(its, i) = IF labels = {} THEN 0 ELSE Max(labels) + 1
    BY DEF NextLabel
  <1>4. labels # {} => Max(labels) \in labels /\ \A y \in labels : y <= Max(labels)
    <2> HIDE DEF labels
    <2> QED  BY <1>1, <1>2, MaxOf
  <1>5. ASSUME NEW j \in DOMAIN its, SameName(j, i) PROVE its[j].label \in labels
    BY <1>5
  <1> HIDE DEF labels
  <1>6. NextLabel(its, i) \in Nat
    <2>1. CASE labels = {}
      BY <1>3, <2>1
    <2>2. CASE labels # {}
      <3>1. Max(labels) \in Nat
        BY <1>1, <1>4, <2>2
      <3> QED  BY <1>3, <2>2, <3>1
    <2> QED  BY <2>1, <2>2
  <1>7. ASSUME NEW j \in DOMAIN its, SameName(j, i) PROVE its[j].label < NextLabel(its, i)
    <2>1. its[j].label \in labels
      BY <1>5, <1>7
    <2>2. its[j].label \in Nat /\ Max(labels) \in Nat /\ its[j].label <= Max(labels)
      BY <1>1, <1>4, <2>1
    <2> QED  BY <1>3, <2>1, <2>2
  <1> QED  BY <1>6, <1>7

(* Only an empty page has the file name of an empty page. *)
LEMMA EmptyAlone ==
    ASSUME NEW i \in Images, NEW j \in Images, i.file = Empty, SameName(i, j) \/ SameName(j, i)
    PROVE  i = j
  <1>1. i.file.stem = 0 /\ j.file.stem = 0 /\ i.page = j.page
    BY ImageIs DEF SameName
  <1>2. j.file = Empty
    BY <1>1, ImageIs
  <1> QED  BY <1>1, <1>2, ImageIs

(* An image is registered, or its record changed. *)
RegisteredIn(its, i, g, r) ==
    /\ IsItems(r) /\ LabelsDiffer(r) /\ EmptyUnlabelled(r)
    /\ DOMAIN r = DOMAIN its \cup {i} /\ r[i].given = g
    /\ \A k \in DOMAIN its : r[k].label = its[k].label /\ (k # i => r[k] = its[k])

LEMMA RegisterOf ==
    ASSUME NEW its, IsItems(its), LabelsDiffer(its), EmptyUnlabelled(its),
           NEW i \in Images, NEW g \in AllTexts \cup {NoText}
    PROVE  RegisteredIn(its, i, g, Register(its, i, g))
  <1> DEFINE r == Register(its, i, g)
             l == IF i \in DOMAIN its THEN its[i].label ELSE NextLabel(its, i)
  <1>1. l \in Nat /\ \A j \in DOMAIN its : j # i /\ SameName(j, i) => its[j].label # l
    <2>1. CASE i \in DOMAIN its
      BY <2>1 DEF IsItems, Record, LabelsDiffer
    <2>2. CASE i \notin DOMAIN its
      <3>1. \A j \in DOMAIN its : its[j].label \in Nat
        BY DEF IsItems, Record
      <3> QED  BY <2>2, <3>1, NextLabelOf
    <2> QED  BY <2>1, <2>2
  <1>2. i.file = Empty => l = 0
    <2> SUFFICES ASSUME i.file = Empty, i \notin DOMAIN its PROVE NextLabel(its, i) = 0
      BY DEF EmptyUnlabelled
    <2>1. {k \in DOMAIN its : SameName(k, i)} = {}
      BY EmptyAlone DEF IsItems
    <2> QED  BY <2>1 DEF NextLabel
  <1>3. /\ r = [k \in DOMAIN its \cup {i} |-> IF k = i THEN [label |-> l, given |-> g] ELSE its[k]]
        /\ i \in DOMAIN its => l = its[i].label
    BY DEF Register, With
  <1> HIDE DEF r, l
  <1>4. /\ DOMAIN r = DOMAIN its \cup {i} /\ r[i] = [label |-> l, given |-> g]
        /\ \A k \in DOMAIN its : k # i => r[k] = its[k]
    BY <1>3
  <1>5. \A k \in DOMAIN its : r[k].label = its[k].label
    BY <1>3, <1>4
  <1>6. IsItems(r)
    <2>1. IsFiniteSet(DOMAIN its \cup {i})
      BY FS_AddElement DEF IsItems
    <2>2. r[i] \in Record
      BY <1>1, <1>4 DEF Record
    <2> QED  BY <1>4, <2>1, <2>2 DEF IsItems
  <1>7. LabelsDiffer(r)
    <2> SUFFICES ASSUME NEW j \in DOMAIN r, NEW k \in DOMAIN r, j # k, SameName(j, k)
                 PROVE  r[j].label # r[k].label
      BY DEF LabelsDiffer
    <2>1. CASE j # i /\ k # i
      BY <1>4, <2>1 DEF LabelsDiffer
    <2>2. CASE k = i
      BY <1>1, <1>4, <2>2
    <2>3. CASE j = i
      <3>1. SameName(k, i)
        BY <2>3 DEF SameName
      <3> QED  BY <1>1, <1>4, <2>3, <3>1
    <2> QED  BY <2>1, <2>2, <2>3
  <1>8. EmptyUnlabelled(r)
    BY <1>2, <1>4 DEF EmptyUnlabelled
  <1>9. RegisteredIn(its, i, g, r)
    BY <1>4, <1>5, <1>6, <1>7, <1>8 DEF RegisteredIn
  <1> QED  BY <1>9 DEF r

LEMMA ListIsFinite ==
    ASSUME NEW S, NEW seq \in Seq(S)
    PROVE  ToSet(seq) \subseteq S /\ IsFiniteSet(ToSet(seq))
  <1>1. /\ Len(seq) \in Nat /\ DOMAIN seq = 1 .. Len(seq) /\ seq \in [1 .. Len(seq) -> S]
    BY LenProperties
  <1>2. PICK n \in Nat : n = Len(seq)
    BY <1>1
  <1>3. IsFiniteSet(1 .. n)
    BY FS_Interval
  <1>4. seq \in Surjection(1 .. n, ToSet(seq))
    BY <1>1, <1>2 DEF Surjection, ToSet
  <1> QED  BY <1>1, <1>3, <1>4, FS_Surjection DEF ToSet

LEMMA PlaceOfOne ==
    ASSUME NEW S, NEW seq \in Seq(S), NEW x \in ToSet(seq)
    PROVE  PlaceIn(seq, x) \in Nat /\ seq[PlaceIn(seq, x)] = x
  <1>1. DOMAIN seq = 1 .. Len(seq) /\ Len(seq) \in Nat
    BY LenProperties
  <1>2. \E k \in DOMAIN seq : seq[k] = x
    BY DEF ToSet
  <1>3. PlaceIn(seq, x) \in DOMAIN seq /\ seq[PlaceIn(seq, x)] = x
    BY <1>2 DEF PlaceIn
  <1> QED  BY <1>1, <1>3

(* The images of a list are registered, one after the other. *)
UpdatedTo(its, seq, r) ==
    /\ IsItems(r) /\ LabelsDiffer(r) /\ EmptyUnlabelled(r)
    /\ DOMAIN r = DOMAIN its \cup ToSet(seq)
    /\ \A k \in DOMAIN its : r[k] = its[k]
    /\ \A k \in DOMAIN r \ DOMAIN its : r[k].given = NoText

LEMMA UpdateOf ==
    ASSUME NEW its, IsItems(its), LabelsDiffer(its), EmptyUnlabelled(its),
           NEW seq \in Seq(Images)
    PROVE  UpdatedTo(its, seq, UpdateDisambiguationRecords(its, seq))
  <1> DEFINE r == UpdateDisambiguationRecords(its, seq)
             new == ToSet(seq) \ DOMAIN its
             earlier(i) == {j \in new : SameName(j, i) /\ PlaceIn(seq, j) < PlaceIn(seq, i)}
             label(i) == NextLabel(its, i) + Cardinality(earlier(i))
  <1>1. ToSet(seq) \subseteq Images /\ IsFiniteSet(ToSet(seq)) /\ IsFiniteSet(new)
    BY ListIsFinite, FS_Subset
  <1>2. r = [i \in DOMAIN its \cup ToSet(seq) |->
                IF i \in DOMAIN its THEN its[i] ELSE [label |-> label(i), given |-> NoText]]
    BY DEF UpdateDisambiguationRecords
  <1>3. ASSUME NEW i \in new
        PROVE  /\ IsFiniteSet(earlier(i)) /\ Cardinality(earlier(i)) \in Nat
               /\ NextLabel(its, i) \in Nat
               /\ \A j \in DOMAIN its : SameName(j, i) => its[j].label < NextLabel(its, i)
    <2>1. earlier(i) \subseteq new
      OBVIOUS
    <2>2. IsFiniteSet(earlier(i))
      BY <1>1, <2>1, FS_Subset
    <2> QED  BY <1>1, <2>2, FS_CardinalityType, NextLabelOf
  <1>4. ASSUME NEW i \in new, NEW j \in new, SameName(i, j), PlaceIn(seq, i) < PlaceIn(seq, j)
        PROVE  label(i) < label(j)
    <2>1. NextLabel(its, i) = NextLabel(its, j)
      <3>1. {k \in DOMAIN its : SameName(k, i)} = {k \in DOMAIN its : SameName(k, j)}
        BY <1>4 DEF SameName
      <3> QED  BY <3>1 DEF NextLabel
    <2>2. earlier(i) \cup {i} \subseteq earlier(j) /\ i \notin earlier(i)
      <3>1. PlaceIn(seq, i) \in Nat /\ PlaceIn(seq, j) \in Nat
        BY PlaceOfOne
      <3>2. ASSUME NEW k \in earlier(i) PROVE k \in earlier(j)
        <4>1. PlaceIn(seq, k) \in Nat
          BY PlaceOfOne
        <4>2. SameName(k, j)
          BY <1>4 DEF SameName
        <4> QED  BY <1>4, <3>1, <4>1, <4>2
      <3> QED  BY <1>4, <3>1, <3>2
    <2>3. Cardinality(earlier(i)) < Cardinality(earlier(j))
      <3>1. /\ IsFiniteSet(earlier(i)) /\ Cardinality(earlier(i)) \in Nat
            /\ IsFiniteSet(earlier(j)) /\ Cardinality(earlier(j)) \in Nat
        BY <1>3
      <3> HIDE DEF earlier
      <3>2. Cardinality(earlier(i) \cup {i}) = Cardinality(earlier(i)) + 1
        BY <2>2, <3>1, FS_AddElement
      <3>3. Cardinality(earlier(i) \cup {i}) <= Cardinality(earlier(j))
        BY <2>2, <3>1, FS_Subset
      <3> QED  BY <3>1, <3>2, <3>3
    <2>4. /\ NextLabel(its, i) \in Nat /\ Cardinality(earlier(i)) \in Nat
          /\ Cardinality(earlier(j)) \in Nat
      BY <1>3
    <2> HIDE DEF earlier
    <2> QED  BY <2>1, <2>3, <2>4
  <1>5. ASSUME NEW i \in new PROVE label(i) \in Nat
    <2>1. NextLabel(its, i) \in Nat /\ Cardinality(earlier(i)) \in Nat
      BY <1>3
    <2> HIDE DEF earlier
    <2> QED  BY <2>1
  <1>6. ASSUME NEW i \in new, NEW j \in DOMAIN its, SameName(j, i) PROVE its[j].label < label(i)
    <2>1. /\ NextLabel(its, i) \in Nat /\ Cardinality(earlier(i)) \in Nat
          /\ its[j].label < NextLabel(its, i)
      BY <1>3, <1>6
    <2>2. its[j].label \in Nat
      BY DEF IsItems, Record
    <2> HIDE DEF earlier
    <2> QED  BY <2>1, <2>2
  <1>7. ASSUME NEW i \in new, i.file = Empty PROVE label(i) = 0
    <2>1. i \in Images /\ DOMAIN its \subseteq Images /\ new \subseteq Images
      BY <1>1 DEF IsItems
    <2>2. {k \in DOMAIN its : SameName(k, i)} = {}
      BY <1>7, <2>1, EmptyAlone
    <2>3. earlier(i) = {}
      <3>1. PlaceIn(seq, i) \in Nat
        BY PlaceOfOne
      <3>2. \A j \in new : SameName(j, i) => j = i
        BY <1>7, <2>1, EmptyAlone
      <3> QED  BY <3>1, <3>2
    <2>4. NextLabel(its, i) = 0
      BY <2>2 DEF NextLabel
    <2>5. Cardinality(earlier(i)) = 0
      BY <2>3, FS_EmptySet
    <2> HIDE DEF earlier
    <2> QED  BY <2>4, <2>5
  <1>8. PICK lab : lab = [i \in new |-> label(i)]
    OBVIOUS
  <1>9. /\ \A i \in new : lab[i] \in Nat /\ (i.file = Empty => lab[i] = 0)
        /\ \A i, j \in new : SameName(i, j) /\ PlaceIn(seq, i) < PlaceIn(seq, j) => lab[i] < lab[j]
        /\ \A i \in new, j \in DOMAIN its : SameName(j, i) => its[j].label < lab[i]
    <2> HIDE DEF label, new
    <2>1. \A i \in new : lab[i] = label(i)
      BY <1>8
    <2> QED  BY <1>4, <1>5, <1>6, <1>7, <2>1
  <1>10. PICK fresh : fresh = new
    OBVIOUS
  <1>11. r = [i \in DOMAIN its \cup fresh |->
                IF i \in DOMAIN its THEN its[i] ELSE [label |-> lab[i], given |-> NoText]]
    <2>1. DOMAIN its \cup ToSet(seq) = DOMAIN its \cup new
      OBVIOUS
    <2>2. \A i \in DOMAIN its \cup new : i \notin DOMAIN its => label(i) = lab[i]
      <3> HIDE DEF label
      <3> QED  BY <1>8
    <2> HIDE DEF label, r
    <2> QED  BY <1>2, <1>10, <2>1, <2>2
  <1>12. /\ fresh \subseteq Images /\ IsFiniteSet(fresh)
         /\ DOMAIN its \cup fresh = DOMAIN its \cup ToSet(seq)
         /\ \A i \in fresh : i \in ToSet(seq) /\ i \notin DOMAIN its
    BY <1>1, <1>10
  <1>13. /\ \A i \in fresh : lab[i] \in Nat /\ (i.file = Empty => lab[i] = 0)
         /\ \A i, j \in fresh : SameName(i, j) /\ PlaceIn(seq, i) < PlaceIn(seq, j) => lab[i] < lab[j]
         /\ \A i \in fresh, j \in DOMAIN its : SameName(j, i) => its[j].label < lab[i]
    <2> HIDE DEF new
    <2> QED  BY <1>9, <1>10
  <1> HIDE DEF r, new, label, earlier
  <1>14. /\ DOMAIN r = DOMAIN its \cup fresh
         /\ \A k \in DOMAIN its : r[k] = its[k]
         /\ \A k \in fresh : r[k] = [label |-> lab[k], given |-> NoText]
    BY <1>11, <1>12
  <1>15. \A k \in fresh : r[k] \in Record /\ r[k].label = lab[k] /\ r[k].given = NoText
    BY <1>13, <1>14 DEF Record
  <1>16. IsItems(r)
    <2>1. IsFiniteSet(DOMAIN its \cup fresh)
      BY <1>12, FS_Union DEF IsItems
    <2> QED  BY <1>12, <1>14, <1>15, <2>1 DEF IsItems
  <1>17. \A j \in DOMAIN its : its[j].label \in Nat
    BY DEF IsItems, Record
  <1>18. LabelsDiffer(r)
    <2> SUFFICES ASSUME NEW i \in DOMAIN r, NEW j \in DOMAIN r, i # j, SameName(i, j)
                 PROVE  r[i].label # r[j].label
      BY DEF LabelsDiffer
    <2>1. SameName(j, i)
      BY DEF SameName
    <2>2. CASE i \in DOMAIN its /\ j \in DOMAIN its
      BY <1>14, <2>2 DEF LabelsDiffer
    <2>3. CASE i \in fresh /\ j \in DOMAIN its
      BY <1>13, <1>14, <1>15, <1>17, <2>1, <2>3
    <2>4. CASE j \in fresh /\ i \in DOMAIN its
      BY <1>13, <1>14, <1>15, <1>17, <2>4
    <2>5. CASE i \in fresh /\ j \in fresh
      <3>1. PlaceIn(seq, i) # PlaceIn(seq, j) /\ PlaceIn(seq, i) \in Nat /\ PlaceIn(seq, j) \in Nat
        BY <1>12, <2>5, PlaceOfOne
      <3>2. lab[i] < lab[j] \/ lab[j] < lab[i]
        BY <1>13, <2>1, <2>5, <3>1
      <3> QED  BY <1>13, <1>15, <2>5, <3>2
    <2> QED  BY <1>14, <2>2, <2>3, <2>4, <2>5
  <1>19. EmptyUnlabelled(r)
    <2> SUFFICES ASSUME NEW i \in DOMAIN r, i.file = Empty PROVE r[i].label = 0
      BY DEF EmptyUnlabelled
    <2>1. CASE i \in DOMAIN its
      BY <1>14, <2>1 DEF EmptyUnlabelled
    <2>2. CASE i \in fresh
      BY <1>13, <1>15, <2>2
    <2> QED  BY <1>14, <2>1, <2>2
  <1>20. UpdatedTo(its, seq, r)
    BY <1>12, <1>14, <1>15, <1>16, <1>18, <1>19 DEF UpdatedTo
  <1> QED  BY <1>20 DEF r

-----------------------------------------------------------------------------
(* Whose a name is. *)

GoodItems(its) == IsItems(its) /\ LabelsDiffer(its) /\ EmptyUnlabelled(its)

Clean(i) == i.file # Empty /\ ~Ambiguous(i)

(* What was given is known: of a file's image it is the user's, and that of
   an empty page has an order number, or else is the user's as well. *)
GivenKnown(its, ren, rel, tk) ==
    \A i \in DOMAIN its :
        /\ i.file # Empty /\ its[i].given # NoText =>
               /\ i \in ren /\ Name(its, i) \in tk
               /\ i \notin rel => OwnName(its, i) \in tk
        /\ i.file = Empty =>
               its[i].given = NoText \/ its[i].given.order # Plain \/ Name(its, i) \in tk

(* The images whose outputs must be their own. *)
Own(its, done, rel, tk) ==
    {i \in done \cap DOMAIN its : i \notin rel /\ Clean(i) /\ OwnName(its, i) \notin tk}

(* No file and no task has such a name for another image. *)
Owners(its, done, fl, t, rel, tk) ==
    \A i \in Own(its, done, rel, tk) :
        /\ OwnName(its, i) \in DOMAIN fl => fl[OwnName(its, i)] = i
        /\ t # None /\ OwnName(its, i) = t.name => t.image = i

(* A name made of a file and a label is the name of no other page. *)
LEMMA SoleOwner ==
    ASSUME NEW its, GoodItems(its), NEW ren, NEW rel, NEW tk, GivenKnown(its, ren, rel, tk),
           NEW i \in DOMAIN its, Clean(i), OwnName(its, i) \notin tk,
           NEW j \in Images, j \in DOMAIN its \/ Name(its, j) \in tk,
           Name(its, j) = OwnName(its, i)
    PROVE  j = i
  <1>1. i \in Images /\ IsItems(its)
    BY DEF GoodItems, IsItems
  <1>2. j \in DOMAIN its /\ Name(its, j) \notin tk
    OBVIOUS
  <1>3. i.file # Empty /\ i.file \in Files /\ i.file.stem # 0 /\ i = Image(i.file)
    BY <1>1, ImageIs DEF Clean
  <1>4. its[i].label \in Nat /\ OwnName(its, i).stem = i.file.stem /\ OwnName(its, i).order = Plain
    BY <1>1, NameIs
  <1>5. its[j].given = NoText
    <2>1. SUFFICES ASSUME its[j].given # NoText PROVE FALSE
      OBVIOUS
    <2>2. CASE j.file # Empty
      BY <1>2, <2>1, <2>2 DEF GivenKnown
    <2>3. CASE j.file = Empty
      <3>1. its[j].given.order # Plain
        BY <1>2, <2>1, <2>3 DEF GivenKnown
      <3>2. Name(its, j).order = its[j].given.order
        BY <1>1, <1>2, <2>1, NameIs
      <3> QED  BY <1>4, <3>1, <3>2
    <2> QED  BY <2>2, <2>3
  <1>6. /\ Name(its, j) = OwnName(its, j) /\ OwnName(its, j).stem = j.file.stem
        /\ its[j].label \in Nat
    BY <1>1, <1>2, <1>5, NameIs
  <1>7. WithLabel(OwnText(j), its[j].label) = WithLabel(OwnText(i), its[i].label)
    BY <1>6 DEF OwnName
  <1>8. j.file.stem = i.file.stem /\ its[j].label = its[i].label
    BY <1>1, <1>4, <1>6, <1>7, OwnNamesDiffer
  <1>9. j.file # Empty /\ j.file \in Files /\ j = Image(j.file)
    BY <1>3, <1>8, ImageIs
  <1>10. j.file.ext = i.file.ext
    BY <1>8, <1>9 DEF Clean, Ambiguous
  <1>11. i.page = 0 /\ j.page = 0
    BY <1>3, <1>9 DEF Image
  <1>12. SameName(j, i)
    BY <1>8, <1>10, <1>11 DEF SameName
  <1> QED  BY <1>2, <1>8, <1>12 DEF GoodItems, LabelsDiffer

(* Outputs stay their own when records keep their labels and files outside
   the user's names are left alone. *)
LEMMA OwnersKept ==
    ASSUME NEW its, NEW itsN, NEW done, NEW doneN, NEW fl, NEW flN, NEW t, NEW tN,
           NEW rel, NEW relN, NEW tk, NEW tkN,
           Owners(its, done, fl, t, rel, tk),
           rel \subseteq relN, tk \subseteq tkN,
           \A k \in (doneN \cap DOMAIN itsN) \ relN :
               k \in done /\ k \in DOMAIN its /\ itsN[k].label = its[k].label,
           \A n \in DOMAIN flN \ tkN : n \in DOMAIN fl /\ flN[n] = fl[n],
           tN # None => t # None /\ tN.name = t.name /\ tN.image = t.image
    PROVE  Owners(itsN, doneN, flN, tN, relN, tkN)
  <1> SUFFICES ASSUME NEW i \in Own(itsN, doneN, relN, tkN)
               PROVE  /\ OwnName(itsN, i) \in DOMAIN flN => flN[OwnName(itsN, i)] = i
                      /\ tN # None /\ OwnName(itsN, i) = tN.name => tN.image = i
    BY DEF Owners
  <1>1. /\ i \in doneN \cap DOMAIN itsN /\ i \notin relN /\ Clean(i)
        /\ OwnName(itsN, i) \notin tkN
    BY DEF Own
  <1>2. i \in done /\ i \in DOMAIN its /\ itsN[i].label = its[i].label
    BY <1>1
  <1>3. OwnName(itsN, i) = OwnName(its, i)
    BY <1>2 DEF OwnName
  <1>4. i \in Own(its, done, rel, tk)
    BY <1>1, <1>2, <1>3 DEF Own
  <1>5. /\ OwnName(its, i) \in DOMAIN fl => fl[OwnName(its, i)] = i
        /\ t # None /\ OwnName(its, i) = t.name => t.image = i
    BY <1>4 DEF Owners
  <1> QED  BY <1>1, <1>3, <1>5

(* What is known stays known. *)
LEMMA GivenStaysKnown ==
    ASSUME NEW its, NEW ren, NEW rel, NEW relN, NEW tk, NEW tkN,
           GivenKnown(its, ren, rel, tk), rel \subseteq relN, tk \subseteq tkN
    PROVE  GivenKnown(its, ren, relN, tkN)
  BY DEF GivenKnown

-----------------------------------------------------------------------------
(* The invariant. *)

GoodTask(t) == t = None \/ t \in [image : Images, name : AllTexts, closed : BOOLEAN]

(* Every page has a record, but for those relinking dropped the records of. *)
Registered(seq, its, done, rel, tk) ==
    /\ seq \in Seq(Images) /\ IsInjective(seq)
    /\ done \subseteq Images
    /\ \A i \in ToSet(seq) : i \in DOMAIN its \/ (i \in rel /\ Name(its, i) \in tk)
    /\ \A i \in done : i \in DOMAIN its \/ i \in rel

(* The task in hand writes under its page's name of now, or one given up. *)
TaskKnown(t, its, rel, tk) ==
    t # None /\ t.closed = FALSE /\ t.image \notin rel =>
        /\ t.image \in DOMAIN its
        /\ Clean(t.image) => OwnName(its, t.image) = t.name \/ OwnName(its, t.image) \in tk

(* The project file: its records are still those of the disambiguator, so
   that nothing else got their labels. *)
SavedSound(s, its, fl, t, rel, tk) ==
    s # None =>
        /\ s.images \in Seq(Images) /\ IsInjective(s.images)
        /\ s.made \subseteq ToSet(s.images)
        /\ \A i \in ToSet(s.images) : i \in DOMAIN s.items \/ i \in rel
        /\ GoodItems(s.items) /\ GivenKnown(s.items, s.renamed, rel, tk)
        /\ \A i \in DOMAIN s.items : i \in rel \/ (i \in DOMAIN its /\ its[i].label = s.items[i].label)
        /\ Owners(s.items, s.made, fl, t, rel, tk)
        /\ \A i \in DOMAIN s.names : i \in DOMAIN s.items /\ s.names[i] = Name(s.items, i)

PagesInv == Registered(images, items, made, relinked, taken)
ItemsInv == GoodItems(items) /\ GivenKnown(items, renamed, relinked, taken)
FilesInv == Owners(items, made, files, task, relinked, taken)
TaskInv == GoodTask(task) /\ TaskKnown(task, items, relinked, taken)
SavedInv == SavedSound(saved, items, files, task, relinked, taken)

NamesIInv == PagesInv /\ ItemsInv /\ FilesInv /\ TaskInv /\ SavedInv

(* The saved project stays sound when records keep their labels and files
   outside the user's names are left alone. *)
LEMMA SavedKept ==
    ASSUME NEW s, NEW its, NEW itsN, NEW fl, NEW flN, NEW t, NEW tN,
           NEW rel, NEW relN, NEW tk, NEW tkN,
           SavedSound(s, its, fl, t, rel, tk),
           rel \subseteq relN, tk \subseteq tkN,
           \A k \in DOMAIN its \ relN : k \in DOMAIN itsN /\ itsN[k].label = its[k].label,
           \A n \in DOMAIN flN \ tkN : n \in DOMAIN fl /\ flN[n] = fl[n],
           tN # None => t # None /\ tN.name = t.name /\ tN.image = t.image
    PROVE  SavedSound(s, itsN, flN, tN, relN, tkN)
  <1> SUFFICES ASSUME s # None PROVE SavedSound(s, itsN, flN, tN, relN, tkN)
    BY DEF SavedSound
  <1>1. GivenKnown(s.items, s.renamed, relN, tkN)
    BY GivenStaysKnown DEF SavedSound
  <1>2. Owners(s.items, s.made, flN, tN, relN, tkN)
    <2>1. Owners(s.items, s.made, fl, t, rel, tk)
      BY DEF SavedSound
    <2>2. PICK si, sm : si = s.items /\ sm = s.made
      OBVIOUS
    <2>3. Owners(si, sm, fl, t, rel, tk)
      BY <2>1, <2>2
    <2>4. Owners(si, sm, flN, tN, relN, tkN)
      BY <2>3, OwnersKept
    <2> QED  BY <2>2, <2>4
  <1>3. \A i \in DOMAIN s.items : i \in relN \/ (i \in DOMAIN itsN /\ itsN[i].label = s.items[i].label)
    BY DEF SavedSound
  <1>4. \A i \in ToSet(s.images) : i \in DOMAIN s.items \/ i \in relN
    BY DEF SavedSound
  <1> QED  BY <1>1, <1>2, <1>3, <1>4 DEF SavedSound

(* The invariant says what the properties do of the state. *)
LEMMA NamesInvOwn ==
    ASSUME NamesIInv
    PROVE  OwnOutput
  <1>1. /\ images \in Seq(Images) /\ InProject \subseteq Images /\ IsItems(items)
        /\ LabelsDiffer(items)
    BY ListIsFinite DEF NamesIInv, PagesInv, ItemsInv, Registered, GoodItems, InProject
  <1>2. ASSUME NEW i \in DOMAIN items, i.file # Empty, i \notin renamed
        PROVE  Name(items, i) = OwnName(items, i) /\ items[i].label \in Nat
    <2>1. items[i].given = NoText
      BY <1>2 DEF NamesIInv, ItemsInv, GivenKnown
    <2> QED  BY <1>1, <2>1, NameIs DEF IsItems
  <1>3. NamesDistinct
    <2> SUFFICES ASSUME NEW i \in InProject \cap DOMAIN items, NEW j \in InProject \cap DOMAIN items,
                        i # j, SameName(i, j)
                 PROVE  /\ items[i].label # items[j].label
                        /\ i \notin renamed /\ j \notin renamed => Name(items, i) # Name(items, j)
      BY DEF NamesDistinct
    <2>1. items[i].label # items[j].label
      BY <1>1 DEF LabelsDiffer
    <2>2. i \in Images /\ j \in Images
      BY <1>1
    <2>3. i.file # Empty /\ j.file # Empty
      <3>1. SameName(j, i)
        BY DEF SameName
      <3> QED  BY <2>2, <3>1, EmptyAlone
    <2>4. ASSUME i \notin renamed, j \notin renamed, Name(items, i) = Name(items, j) PROVE FALSE
      <3>1. WithLabel(OwnText(i), items[i].label) = WithLabel(OwnText(j), items[j].label)
        BY <1>2, <2>3, <2>4 DEF OwnName
      <3>2. items[i].label \in Nat /\ items[j].label \in Nat
        BY <1>2, <2>3, <2>4
      <3> QED  BY <2>1, <2>2, <3>1, <3>2, OwnNamesDiffer
    <2> QED  BY <2>1, <2>4
  <1>4. FilesBelong
    <2> SUFFICES ASSUME NEW i \in (InProject \cap made) \ (renamed \cup relinked),
                        i.file # Empty, ~Ambiguous(i), Name(items, i) \in DOMAIN files \ taken
                 PROVE  files[Name(items, i)] = i
      BY DEF FilesBelong
    <2>1. i \in DOMAIN items
      BY DEF NamesIInv, PagesInv, Registered
    <2>2. Name(items, i) = OwnName(items, i)
      BY <1>2, <2>1
    <2>3. i \in Own(items, made, relinked, taken)
      BY <2>1, <2>2 DEF Own, Clean
    <2> QED  BY <2>2, <2>3 DEF NamesIInv, FilesInv, Owners
  <1> QED  BY <1>3, <1>4 DEF OwnOutput

LEMMA NamesInvInit ==
    ASSUME NamesInit
    PROVE  NamesIInv
  <1>1. PICK p \in Projects : images = [k \in DOMAIN p |-> Image(p[k])]
    BY DEF NamesInit
  <1>2. p \in Seq(Files) /\ IsInjective(p)
    BY OutputNamesAssumption
  <1>3. images \in Seq(Images) /\ IsInjective(images)
    <2>1. PICK n \in Nat : n = Len(p)
      BY <1>2, LenProperties
    <2>2. DOMAIN p = 1 .. n /\ \A k \in 1 .. n : p[k] \in Files
      BY <1>2, <2>1, LenProperties
    <2>3. \A k \in 1 .. n : Image(p[k]) \in Images
      BY <2>2 DEF Image, Images
    <2>4. images = [k \in 1 .. n |-> Image(p[k])]
      BY <1>1, <2>2
    <2>5. images \in Seq(Images)
      BY <2>3, <2>4, IsASeq
    <2>6. IsInjective(images)
      <3> SUFFICES ASSUME NEW a \in 1 .. n, NEW b \in 1 .. n, images[a] = images[b] PROVE a = b
        BY <2>4 DEF IsInjective
      <3>1. Image(p[a]) = Image(p[b])
        BY <2>4
      <3>2. p[a] = p[b]
        BY <3>1 DEF Image
      <3> QED  BY <1>2, <2>2, <3>2 DEF IsInjective
    <2> QED  BY <2>5, <2>6
  <1>4. PICK none : none = <<>> /\ DOMAIN none = {}
    OBVIOUS
  <1>5. GoodItems(none)
    BY <1>4, FS_EmptySet DEF GoodItems, IsItems, LabelsDiffer, EmptyUnlabelled
  <1>6. PICK seq : seq = images
    OBVIOUS
  <1>7. PICK r : r = UpdateDisambiguationRecords(none, seq)
    OBVIOUS
  <1>8. /\ GoodItems(r) /\ DOMAIN r = ToSet(seq) /\ \A k \in DOMAIN r : r[k].given = NoText
    <2>1. IsItems(none) /\ LabelsDiffer(none) /\ EmptyUnlabelled(none) /\ seq \in Seq(Images)
      BY <1>3, <1>5, <1>6 DEF GoodItems
    <2>2. /\ IsItems(r) /\ LabelsDiffer(r) /\ EmptyUnlabelled(r)
          /\ DOMAIN r = DOMAIN none \cup ToSet(seq)
          /\ \A k \in DOMAIN r \ DOMAIN none : r[k].given = NoText
      <3>1. UpdatedTo(none, seq, r)
        BY <1>7, <2>1, UpdateOf
      <3> QED  BY <3>1 DEF UpdatedTo
    <2> QED  BY <1>4, <2>2 DEF GoodItems
  <1>9. items = r
    BY <1>4, <1>6, <1>7 DEF NamesInit
  <1>10. PagesInv
    BY <1>3, <1>6, <1>8, <1>9 DEF PagesInv, Registered, NamesInit
  <1>11. ItemsInv
    BY <1>8, <1>9 DEF ItemsInv, GivenKnown
  <1>12. FilesInv
    BY DEF FilesInv, Owners, Own, NamesInit
  <1>13. TaskInv
    BY DEF TaskInv, GoodTask, TaskKnown, NamesInit
  <1>14. SavedInv
    BY DEF SavedInv, SavedSound, NamesInit
  <1> QED  BY <1>10, <1>11, <1>12, <1>13, <1>14 DEF NamesIInv

(* Pages are inserted. *)
LEMMA InsertImageKeeps ==
    ASSUME NamesIInv, NEW place \in 1 .. Len(images) + 1, NEW i \in Images, i \notin InProject,
           NEW given \in AllTexts \cup {NoText},
           given = NoText \/ (i.file = Empty /\ given.order # Plain),
           InsertImage(place, i, given)
    PROVE  /\ NamesIInv'
           /\ \A k \in InProject : Name(items', k) = Name(items, k)
  <1>1. GoodItems(items) /\ GivenKnown(items, renamed, relinked, taken)
    BY DEF NamesIInv, ItemsInv
  <1>2. PICK its, r : its = items /\ r = Register(its, i, given)
    OBVIOUS
  <1>3. items' = r
    BY <1>2 DEF InsertImage
  <1>4. /\ GoodItems(r) /\ DOMAIN r = DOMAIN its \cup {i} /\ r[i].given = given
        /\ \A k \in DOMAIN its : r[k].label = its[k].label /\ (k # i => r[k] = its[k])
    <2>1. IsItems(its) /\ LabelsDiffer(its) /\ EmptyUnlabelled(its)
      BY <1>1, <1>2 DEF GoodItems
    <2>2. /\ IsItems(r) /\ LabelsDiffer(r) /\ EmptyUnlabelled(r)
          /\ DOMAIN r = DOMAIN its \cup {i} /\ r[i].given = given
          /\ \A k \in DOMAIN its : r[k].label = its[k].label /\ (k # i => r[k] = its[k])
      <3>1. RegisteredIn(its, i, given, r)
        BY <1>2, <2>1, RegisterOf
      <3> QED  BY <3>1 DEF RegisteredIn
    <2> QED  BY <2>2 DEF GoodItems
  <1>5. \A k : k # i => Name(r, k) = Name(its, k) /\ (k \in DOMAIN its => OwnName(r, k) = OwnName(its, k))
    BY <1>4 DEF Name, OwnName
  <1>6. PagesInv'
    <2>1. PICK seq, n : seq = images /\ n = InsertAt(seq, place, i)
      OBVIOUS
    <2>2. /\ seq \in Seq(Images) /\ IsInjective(seq) /\ i \notin ToSet(seq)
          /\ place \in 1 .. Len(seq) + 1
      BY <2>1 DEF NamesIInv, PagesInv, Registered, InProject
    <2>3. n \in Seq(Images) /\ IsInjective(n) /\ ToSet(n) = ToSet(seq) \cup {i}
      BY <2>1, <2>2, PutIn
    <2>4. images' = n
      BY <2>1 DEF InsertImage
    <2>5. made' = made /\ relinked' = relinked /\ taken' = taken
      BY DEF InsertImage
    <2>6. ASSUME NEW k \in ToSet(n) PROVE k \in DOMAIN r \/ (k \in relinked /\ Name(r, k) \in taken)
      <3>1. CASE k = i
        BY <1>4, <3>1
      <3>2. CASE k # i
        <4>1. k \in DOMAIN its \/ (k \in relinked /\ Name(its, k) \in taken)
          BY <1>2, <2>1, <2>3, <3>2 DEF NamesIInv, PagesInv, Registered
        <4> QED  BY <1>4, <1>5, <3>2, <4>1
      <3> QED  BY <3>1, <3>2
    <2>7. made \subseteq Images /\ \A k \in made : k \in DOMAIN r \/ k \in relinked
      BY <1>2, <1>4 DEF NamesIInv, PagesInv, Registered
    <2>8. Registered(n, r, made, relinked, taken)
      BY <2>3, <2>6, <2>7 DEF Registered
    <2> QED  BY <1>3, <2>4, <2>5, <2>8 DEF PagesInv
  <1>7. ItemsInv'
    <2>1. renamed' = renamed \ {i} /\ relinked' = relinked /\ taken' = taken
      BY DEF InsertImage
    <2>2. GivenKnown(r, renamed \ {i}, relinked, taken)
      <3> SUFFICES ASSUME NEW k \in DOMAIN r
                   PROVE  /\ k.file # Empty /\ r[k].given # NoText =>
                                /\ k \in renamed \ {i} /\ Name(r, k) \in taken
                                /\ k \notin relinked => OwnName(r, k) \in taken
                          /\ k.file = Empty =>
                                r[k].given = NoText \/ r[k].given.order # Plain \/ Name(r, k) \in taken
        BY DEF GivenKnown
      <3>1. CASE k = i
        BY <1>4, <3>1
      <3>2. CASE k # i
        <4>1. k \in DOMAIN its /\ r[k] = its[k]
          BY <1>4, <3>2
        <4> QED  BY <1>1, <1>2, <1>5, <3>2, <4>1 DEF GivenKnown
      <3> QED  BY <3>1, <3>2
    <2> QED  BY <1>3, <1>4, <2>1, <2>2 DEF ItemsInv
  <1>8. FilesInv'
    <2>1. UNCHANGED <<made, files, task, relinked, taken>>
      BY DEF InsertImage
    <2>2. Owners(its, made, files, task, relinked, taken)
      BY <1>2 DEF NamesIInv, FilesInv
    <2>3. \A k \in (made \cap DOMAIN r) \ relinked : k \in made /\ k \in DOMAIN its /\ r[k].label = its[k].label
      BY <1>2, <1>4 DEF NamesIInv, PagesInv, Registered
    <2>4. Owners(r, made, files, task, relinked, taken)
      BY <2>2, <2>3, OwnersKept
    <2> QED  BY <1>3, <2>1, <2>4 DEF FilesInv
  <1>9. TaskInv'
    <2>1. UNCHANGED <<task, relinked, taken>>
      BY DEF InsertImage
    <2>2. TaskKnown(task, its, relinked, taken)
      BY <1>2 DEF NamesIInv, TaskInv
    <2>3. TaskKnown(task, r, relinked, taken)
      BY <1>4, <2>2 DEF TaskKnown, OwnName
    <2> QED  BY <1>3, <2>1, <2>3 DEF TaskInv, NamesIInv
  <1>10. SavedInv'
    <2>1. UNCHANGED <<saved, files, task, relinked, taken>>
      BY DEF InsertImage
    <2>2. SavedSound(saved, its, files, task, relinked, taken)
      BY <1>2 DEF NamesIInv, SavedInv
    <2>3. SavedSound(saved, r, files, task, relinked, taken)
      BY <1>4, <2>2, SavedKept
    <2> QED  BY <1>3, <2>1, <2>3 DEF SavedInv
  <1>11. \A k \in InProject : Name(items', k) = Name(items, k)
    BY <1>2, <1>3, <1>5
  <1> QED  BY <1>6, <1>7, <1>8, <1>9, <1>10, <1>11 DEF NamesIInv

(* A file is inserted, or an empty page: what was there keeps its name. *)
LEMMA InsertFileKeeps ==
    ASSUME NamesIInv, NEW file \in Files, NEW place, InsertFile(file, place)
    PROVE  /\ NamesIInv'
           /\ \A k \in InProject : Name(items', k) = Name(items, k)
  <1>1. /\ Image(file) \notin InProject /\ place \in 1 .. Len(images) + 1
        /\ InsertImage(place, Image(file), NoText)
    BY DEF InsertFile
  <1>2. Image(file) \in Images
    BY DEF Image, Images
  <1>3. PICK i : i = Image(file)
    OBVIOUS
  <1>4. /\ i \in Images /\ i \notin InProject /\ InsertImage(place, i, NoText)
    BY <1>1, <1>2, <1>3
  <1> QED  BY <1>1, <1>4, InsertImageKeeps

(* The names of neighbours, and the one that is suggested for between them. *)
LEMMA NameAtIs ==
    ASSUME NamesIInv, NEW place \in Int
    PROVE  /\ place \in DOMAIN images => /\ images[place] \in Images
                                         /\ NameAt(place) = Name(items, images[place])
                                         /\ NameAt(place) \in AllTexts /\ NameAt(place) # None
           /\ place \notin DOMAIN images => NameAt(place) = None
  <1>1. images \in Seq(Images) /\ IsItems(items)
    BY DEF NamesIInv, PagesInv, Registered, ItemsInv, GoodItems
  <1>2. ASSUME place \in DOMAIN images PROVE images[place] \in Images
    BY <1>1, <1>2, LenProperties
  <1>3. place \in DOMAIN images => NameAt(place) = Name(items, images[place])
    BY DEF NameAt
  <1>4. ASSUME place \in DOMAIN images PROVE NameAt(place) \in AllTexts /\ NameAt(place) # None
    <2>1. NameAt(place) \in AllTexts
      BY <1>1, <1>2, <1>3, <1>4, NameIs
    <2> QED  BY <2>1, OutputNamesAssumption
  <1> QED  BY <1>2, <1>3, <1>4 DEF NameAt

LEMMA ValueOf ==
    ASSUME NEW t \in AllTexts
    PROVE  /\ Value(t) \in Nat /\ Value(t) >= t.order /\ t.order \in Nat \cup {Plain}
           /\ t.order # Plain => Value(t) = t.order
           /\ t.order = Plain => Value(t) = 0
  BY DEF Value, AllTexts, Plain

LEMMA AboveOf ==
    ASSUME NEW low \in AllTexts
    PROVE  /\ Above(low) \in AllTexts /\ SameBase(low, Above(low)) /\ Above(low).order = Value(low) + Step
           /\ Above(low).order # Plain /\ low.order < Above(low).order
  <1>1. Step \in Nat /\ Step > 0
    BY OutputNamesAssumption
  <1>2. Value(low) \in Nat /\ Value(low) >= low.order /\ low.order \in Nat \cup {Plain}
    BY ValueOf
  <1>3. PICK v : v = Value(low)
    OBVIOUS
  <1>4. v + Step \in Nat /\ low.order < v + Step /\ v + Step # Plain
    BY <1>1, <1>2, <1>3 DEF Plain
  <1>5. Above(low) = [low EXCEPT !.order = v + Step]
    BY <1>3 DEF Above
  <1>6. /\ Above(low) \in AllTexts /\ Above(low).order = v + Step /\ Above(low).stem = low.stem
        /\ Above(low).labels = low.labels
    BY <1>4, <1>5 DEF AllTexts
  <1> QED  BY <1>3, <1>4, <1>6 DEF SameBase

LEMMA BetweenOf ==
    ASSUME NEW low \in AllTexts, NEW high \in AllTexts, SameBase(low, high)
    PROVE  LET t == [low EXCEPT !.order = Between(Value(low), Value(high))] IN
           /\ t \in AllTexts /\ SameBase(low, t) /\ t.order # Plain
           /\ t.order = Between(Value(low), Value(high))
  <1>1. Value(low) \in Nat /\ Value(high) \in Nat
    BY ValueOf
  <1>2. PICK b : b = Between(Value(low), Value(high))
    OBVIOUS
  <1>3. b \in Nat
    BY <1>1, <1>2 DEF Between
  <1>4. [low EXCEPT !.order = b] \in AllTexts /\ SameBase(low, [low EXCEPT !.order = b])
    BY <1>3 DEF AllTexts, SameBase
  <1> QED  BY <1>2, <1>3, <1>4 DEF Plain, AllTexts

LEMMA SuggestionOf ==
    ASSUME NEW low \in AllTexts \cup {None}, NEW high \in AllTexts \cup {None}, low # None \/ high # None
    PROVE  LET t == SuggestOverridenFileName(low, high) IN
           t = NoText \/ (t \in AllTexts /\ t.order # Plain)
  <1>1. CASE low = None
    <2>1. high \in AllTexts
      BY <1>1
    <2>2. SuggestOverridenFileName(low, high) = Below(high)
      BY <1>1 DEF SuggestOverridenFileName
    <2>3. CASE high.stem > LowestStem
      <3>1. Below(high) = Text(high.stem - 1, <<>>, Step)
        BY <2>3 DEF Below
      <3>2. high.stem - 1 \in Nat /\ Step \in Nat /\ Step # Plain /\ <<>> \in Seq(Nat)
        BY <2>1, <2>3, OutputNamesAssumption DEF AllTexts, Plain
      <3> QED  BY <2>2, <3>1, <3>2 DEF Text, AllTexts
    <2> QED  BY <2>2, <2>3 DEF Below
  <1>2. CASE low # None /\ (high = None \/ ~SameBase(low, high))
    <2>1. low \in AllTexts /\ SuggestOverridenFileName(low, high) = Above(low)
      BY <1>2 DEF SuggestOverridenFileName
    <2> QED  BY <2>1, AboveOf
  <1>3. CASE low # None /\ high # None /\ SameBase(low, high)
    <2>1. /\ low \in AllTexts /\ high \in AllTexts
          /\ SuggestOverridenFileName(low, high) = [low EXCEPT !.order = Between(Value(low), Value(high))]
      BY <1>3 DEF SuggestOverridenFileName
    <2> QED  BY <1>3, <2>1, BetweenOf
  <1> QED  BY <1>1, <1>2, <1>3

(* The empty page and its name. *)
LEMMA EmptyPageIs ==
    ASSUME NamesIInv, NEW place, InsertEmptyPage(place)
    PROVE  LET given == SuggestOverridenFileName(NameAt(place - 1), NameAt(place)) IN
           \E i \in Images :
               /\ i.file = Empty /\ i \notin InProject /\ InsertImage(place, i, given)
               /\ given = NoText \/ (given \in AllTexts /\ given.order # Plain)
               /\ place \in 1 .. Len(images) + 1
               /\ place - 1 \in DOMAIN images \/ place \in DOMAIN images
               /\ NameAt(place - 1) \in AllTexts \cup {None}
               /\ NameAt(place) \in AllTexts \cup {None}
  <1> DEFINE numbers == {i.page : i \in {j \in InProject : j.file = Empty}}
             number == IF numbers = {} THEN 0 ELSE Max(numbers) + 1
             given == SuggestOverridenFileName(NameAt(place - 1), NameAt(place))
  <1>1. /\ images # <<>> /\ place \in 1 .. Len(images) + 1
        /\ InsertImage(place, [file |-> Empty, page |-> number], given)
    BY DEF InsertEmptyPage
  <1>2. images \in Seq(Images) /\ InProject \subseteq Images /\ IsFiniteSet(InProject)
    BY ListIsFinite DEF NamesIInv, PagesInv, Registered, InProject
  <1>3. number \in Nat /\ \A j \in InProject : j.file = Empty => j.page # number
    <2>1. numbers \subseteq Nat
      BY <1>2, ImageIs
    <2>2. IsFiniteSet(numbers)
      <3> DEFINE pages == {j \in InProject : j.file = Empty}
                 f == [i \in pages |-> i.page]
      <3>1. pages \subseteq InProject
        OBVIOUS
      <3>2. f \in Surjection(pages, numbers)
        BY DEF Surjection
      <3>3. IsFiniteSet(pages)
        BY <1>2, <3>1, FS_Subset
      <3> HIDE DEF f, pages, numbers
      <3> QED  BY <3>2, <3>3, FS_Surjection
    <2>3. \A j \in InProject : j.file = Empty => j.page \in numbers
      OBVIOUS
    <2> HIDE DEF numbers
    <2>4. CASE numbers = {}
      BY <2>3, <2>4
    <2>5. CASE numbers # {}
      <3>1. Max(numbers) \in numbers /\ \A y \in numbers : y <= Max(numbers)
        BY <2>1, <2>2, <2>5, MaxOf
      <3>2. PICK m, ns : m = Max(numbers) /\ ns = numbers
        OBVIOUS
      <3>3. m \in Nat /\ m + 1 \in Nat /\ m + 1 \notin ns
        <4>1. ns \subseteq Nat /\ m \in ns /\ \A y \in ns : y <= m
          BY <2>1, <3>1, <3>2
        <4>2. m \in Nat /\ m + 1 \in Nat /\ ~(m + 1 <= m)
          BY <4>1
        <4> QED  BY <4>1, <4>2
      <3>4. number = m + 1
        BY <2>5, <3>2
      <3> HIDE DEF number
      <3> QED  BY <2>3, <3>2, <3>3, <3>4
    <2> QED  BY <2>4, <2>5
  <1> HIDE DEF number
  <1>4. PICK i : i = [file |-> Empty, page |-> number]
    OBVIOUS
  <1>5. i \in Images /\ i.file = Empty /\ i.page = number /\ i \notin InProject
    BY <1>3, <1>4 DEF Images
  <1>6. PICK n \in Nat : n = Len(images) /\ n # 0 /\ DOMAIN images = 1 .. n
    BY <1>1, <1>2, LenProperties, EmptySeq
  <1>7. place \in Int /\ place - 1 \in Int /\ (place - 1 \in DOMAIN images \/ place \in DOMAIN images)
    BY <1>1, <1>6
  <1>8. /\ NameAt(place - 1) \in AllTexts \cup {None} /\ NameAt(place) \in AllTexts \cup {None}
        /\ NameAt(place - 1) # None \/ NameAt(place) # None
    BY <1>7, NameAtIs
  <1>9. given = NoText \/ (given \in AllTexts /\ given.order # Plain)
    BY <1>8, SuggestionOf
  <1> HIDE DEF given
  <1>10. InsertImage(place, i, given)
    BY <1>1, <1>4
  <1> QED  BY <1>1, <1>5, <1>7, <1>8, <1>9, <1>10 DEF given

LEMMA InsertEmptyPageKeeps ==
    ASSUME NamesIInv, NEW place, InsertEmptyPage(place)
    PROVE  /\ NamesIInv'
           /\ \A k \in InProject : Name(items', k) = Name(items, k)
  <1>1. PICK given : given = SuggestOverridenFileName(NameAt(place - 1), NameAt(place))
    OBVIOUS
  <1>2. PICK i \in Images :
            /\ i.file = Empty /\ i \notin InProject /\ InsertImage(place, i, given)
            /\ given = NoText \/ (given \in AllTexts /\ given.order # Plain)
            /\ place \in 1 .. Len(images) + 1
    BY <1>1, EmptyPageIs
  <1>3. given \in AllTexts \cup {NoText} /\ (given = NoText \/ (i.file = Empty /\ given.order # Plain))
    BY <1>2
  <1> QED  BY <1>2, <1>3, InsertImageKeeps

IsWith(g, f, x, y) ==
    /\ DOMAIN g = DOMAIN f \cup {x} /\ g[x] = y
    /\ \A k \in DOMAIN f : k # x => g[k] = f[k]

LEMMA WithIs ==
    ASSUME NEW f, NEW x, NEW y
    PROVE  IsWith(With(f, x, y), f, x, y)
  BY DEF With, IsWith

(* A name is given: the old one and the new one are the user's from now on,
   and only files of these names are touched. *)
LEMMA RenameResultKeeps ==
    ASSUME NamesIInv, NEW i, NEW text \in AllTexts, NEW replace, RenameResult(i, text, replace)
    PROVE  NamesIInv'
  <1> DEFINE old == Name(items, i)
             there == text # old /\ text \in DOMAIN files
             moves == text # old /\ old \in DOMAIN files
  <1>1. i \in InProject /\ UNCHANGED <<images, made, task, saved, relinked>>
    BY DEF RenameResult
  <1>2. i \in Images
    BY <1>1, ListIsFinite DEF NamesIInv, PagesInv, Registered, InProject
  <1>3. CASE UNCHANGED <<files, items, renamed, taken>>
    BY <1>1, <1>3 DEF NamesIInv, PagesInv, ItemsInv, FilesInv, TaskInv, SavedInv
  <1>4. CASE /\ files' = CASE moves -> With(Without({old}), text, files[old])
                           [] ~moves /\ there /\ replace -> Without({text})
                           [] OTHER -> files
             /\ items' = Register(items, i, text)
             /\ renamed' = renamed \cup {i}
             /\ taken' = taken \cup {old, text, Name(items', i)}
    <2>1. PICK its, r : its = items /\ r = Register(its, i, text)
      OBVIOUS
    <2>2. items' = r
      BY <1>4, <2>1
    <2>3. GoodItems(its) /\ GivenKnown(its, renamed, relinked, taken)
      BY <2>1 DEF NamesIInv, ItemsInv
    <2>4. /\ GoodItems(r) /\ DOMAIN r = DOMAIN its \cup {i} /\ r[i].given = text
          /\ \A k \in DOMAIN its : r[k].label = its[k].label /\ (k # i => r[k] = its[k])
      <3>1. IsItems(its) /\ LabelsDiffer(its) /\ EmptyUnlabelled(its)
        BY <2>3 DEF GoodItems
      <3>2. RegisteredIn(its, i, text, r)
        BY <1>2, <2>1, <3>1, RegisterOf
      <3> QED  BY <3>2 DEF RegisteredIn, GoodItems
    <2>5. PICK tk : tk = taken \cup {old, text, Name(r, i)}
      OBVIOUS
    <2>6. taken' = tk /\ taken \subseteq tk
      BY <1>4, <2>2, <2>5
    <2>7. \A n \in DOMAIN files' \ tk : n \in DOMAIN files /\ files'[n] = files[n]
      <3>1. PICK o : o = old
        OBVIOUS
      <3>2. ASSUME NEW n \in DOMAIN files', n # o, n # text PROVE n \in DOMAIN files /\ files'[n] = files[n]
        <4>1. CASE files' = With(Without({o}), text, files[o])
          <5>1. DOMAIN Without({o}) = DOMAIN files \ {o} /\ \A m \in DOMAIN files \ {o} : Without({o})[m] = files[m]
            BY DEF Without
          <5>2. n \in DOMAIN Without({o}) /\ files'[n] = Without({o})[n]
            <6>1. PICK g : g = Without({o})
              OBVIOUS
            <6>2. files' = With(g, text, files[o])
              BY <4>1, <6>1
            <6>3. PICK fs, v : fs = files' /\ v = files[o]
              OBVIOUS
            <6>4. IsWith(fs, g, text, v)
              BY <6>2, <6>3, WithIs
            <6> QED  BY <3>2, <6>1, <6>3, <6>4 DEF IsWith
          <5> QED  BY <3>2, <5>1, <5>2
        <4>2. CASE files' = Without({text})
          BY <3>2, <4>2 DEF Without
        <4>3. CASE files' = files
          BY <4>3, <3>2
        <4> QED  BY <1>4, <3>1, <4>1, <4>2, <4>3
      <3>3. o \in tk /\ text \in tk
        BY <2>5, <3>1
      <3> QED  BY <3>2, <3>3
    <2> HIDE DEF old, there, moves
    <2>8. \A k : k # i => Name(r, k) = Name(its, k) /\ (k \in DOMAIN its => OwnName(r, k) = OwnName(its, k))
      BY <2>4 DEF Name, OwnName
    <2>9. \A k \in DOMAIN its : OwnName(r, k) = OwnName(its, k)
      BY <2>4 DEF OwnName
    <2>10. PagesInv'
      <3>1. Registered(images, r, made, relinked, tk)
        <4>1. Registered(images, its, made, relinked, taken)
          BY <2>1 DEF NamesIInv, PagesInv
        <4> QED  BY <2>4, <2>6, <2>8, <4>1 DEF Registered
      <3> QED  BY <1>1, <2>2, <2>6, <3>1 DEF PagesInv
    <2>11. ItemsInv'
      <3>1. GivenKnown(r, renamed \cup {i}, relinked, tk)
        <4> SUFFICES ASSUME NEW k \in DOMAIN r
                     PROVE  /\ k.file # Empty /\ r[k].given # NoText =>
                                  /\ k \in renamed \cup {i} /\ Name(r, k) \in tk
                                  /\ k \notin relinked => OwnName(r, k) \in tk
                            /\ k.file = Empty =>
                                  r[k].given = NoText \/ r[k].given.order # Plain \/ Name(r, k) \in tk
          BY DEF GivenKnown
        <4>1. CASE k # i
          <5>1. k \in DOMAIN its /\ r[k] = its[k]
            BY <2>4, <4>1
          <5> QED  BY <2>3, <2>6, <2>8, <4>1, <5>1 DEF GivenKnown
        <4>2. CASE k = i
          <5>1. Name(r, i) \in tk /\ old \in tk
            BY <2>5
          <5>2. ASSUME i \notin relinked, i.file # Empty PROVE OwnName(r, i) \in tk
            <6>1. i \in DOMAIN its
              BY <1>1, <2>1, <5>2 DEF NamesIInv, PagesInv, Registered, InProject
            <6>2. OwnName(r, i) = OwnName(its, i)
              BY <2>9, <6>1
            <6>3. CASE its[i].given = NoText
              <7>1. IsItems(its)
                BY <2>3 DEF GoodItems
              <7>2. Name(its, i) = OwnName(its, i)
                BY <1>2, <6>1, <6>3, <7>1, NameIs
              <7> QED  BY <2>1, <5>1, <6>2, <7>2 DEF old
            <6>4. CASE its[i].given # NoText
              BY <2>3, <2>6, <5>2, <6>1, <6>2, <6>4 DEF GivenKnown
            <6> QED  BY <6>3, <6>4
          <5> QED  BY <4>2, <5>1, <5>2
        <4> QED  BY <4>1, <4>2
      <3> QED  BY <1>1, <1>4, <2>2, <2>4, <2>6, <3>1 DEF ItemsInv
    <2>12. FilesInv'
      <3>1. Owners(its, made, files, task, relinked, taken)
        BY <2>1 DEF NamesIInv, FilesInv
      <3>2. \A k \in (made \cap DOMAIN r) \ relinked : k \in made /\ k \in DOMAIN its /\ r[k].label = its[k].label
        BY <2>1, <2>4 DEF NamesIInv, PagesInv, Registered
      <3>3. PICK fl : fl = files'
        OBVIOUS
      <3>4. \A n \in DOMAIN fl \ tk : n \in DOMAIN files /\ fl[n] = files[n]
        BY <2>7, <3>3
      <3>5. Owners(r, made, fl, task, relinked, tk)
        BY <2>6, <3>1, <3>2, <3>4, OwnersKept
      <3> QED  BY <1>1, <2>2, <2>6, <3>3, <3>5 DEF FilesInv
    <2>13. TaskInv'
      <3>1. TaskKnown(task, its, relinked, taken)
        BY <2>1 DEF NamesIInv, TaskInv
      <3>2. TaskKnown(task, r, relinked, tk)
        BY <2>4, <2>6, <2>9, <3>1 DEF TaskKnown
      <3> QED  BY <1>1, <2>2, <2>6, <3>2 DEF TaskInv, NamesIInv
    <2>14. SavedInv'
      <3>1. SavedSound(saved, its, files, task, relinked, taken)
        BY <2>1 DEF NamesIInv, SavedInv
      <3>2. PICK fl : fl = files'
        OBVIOUS
      <3>3. \A n \in DOMAIN fl \ tk : n \in DOMAIN files /\ fl[n] = files[n]
        BY <2>7, <3>2
      <3>4. SavedSound(saved, r, fl, task, relinked, tk)
        BY <2>4, <2>6, <3>1, <3>3, SavedKept
      <3> QED  BY <1>1, <2>2, <2>6, <3>2, <3>4 DEF SavedInv
    <2> QED  BY <2>10, <2>11, <2>12, <2>13, <2>14 DEF NamesIInv
  <1>5. \/ UNCHANGED <<files, items, renamed, taken>>
        \/ /\ files' = CASE moves -> With(Without({old}), text, files[old])
                         [] ~moves /\ there /\ replace -> Without({text})
                         [] OTHER -> files
           /\ items' = Register(items, i, text)
           /\ renamed' = renamed \cup {i}
           /\ taken' = taken \cup {old, text, Name(items', i)}
    BY DEF RenameResult
  <1> QED  BY <1>3, <1>4, <1>5

(* A page and its file are removed; its record stays. *)
LEMMA RemovePagesKeeps ==
    ASSUME NamesIInv, NEW i, RemovePages(i)
    PROVE  NamesIInv'
  <1>1. /\ i \in InProject /\ images' = RemoveAt(images, PlaceIn(images, i))
        /\ files' = Without({Name(items, i)})
        /\ UNCHANGED <<items, made, task, saved, renamed, relinked, taken>>
    BY DEF RemovePages, ghosts
  <1>2. PICK fl : fl = files'
    OBVIOUS
  <1>3. \A n \in DOMAIN fl \ taken : n \in DOMAIN files /\ fl[n] = files[n]
    BY <1>1, <1>2 DEF Without
  <1>4. PagesInv'
    <2>1. PICK seq, n : seq = images /\ n = RemoveAt(seq, PlaceIn(seq, i))
      OBVIOUS
    <2>2. Registered(seq, items, made, relinked, taken)
      BY <2>1 DEF NamesIInv, PagesInv
    <2>3. n \in Seq(Images) /\ IsInjective(n) /\ ToSet(n) = ToSet(seq) \ {i}
      <3>1. seq \in Seq(Images) /\ IsInjective(seq) /\ i \in ToSet(seq)
        BY <1>1, <2>1, <2>2 DEF Registered, InProject
      <3> QED  BY <2>1, <3>1, TakenOut
    <2>4. Registered(n, items, made, relinked, taken)
      BY <2>2, <2>3 DEF Registered
    <2> QED  BY <1>1, <2>1, <2>4 DEF PagesInv
  <1>5. FilesInv'
    <2>1. Owners(items, made, files, task, relinked, taken)
      BY DEF NamesIInv, FilesInv
    <2>2. Owners(items, made, fl, task, relinked, taken)
      BY <1>3, <2>1, OwnersKept
    <2> QED  BY <1>1, <1>2, <2>2 DEF FilesInv
  <1>6. SavedInv'
    <2>1. SavedSound(saved, items, files, task, relinked, taken)
      BY DEF NamesIInv, SavedInv
    <2>2. SavedSound(saved, items, fl, task, relinked, taken)
      BY <1>3, <2>1, SavedKept
    <2> QED  BY <1>1, <1>2, <2>2 DEF SavedInv
  <1>7. ItemsInv' /\ TaskInv'
    BY <1>1 DEF NamesIInv, ItemsInv, TaskInv
  <1> QED  BY <1>4, <1>5, <1>6, <1>7 DEF NamesIInv

(* A task gets the name of its page, which is nobody else's. *)
LEMMA OutputStartsKeeps ==
    ASSUME NamesIInv, NEW i, OutputStarts(i)
    PROVE  NamesIInv'
  <1>1. /\ i \in InProject /\ task' = [image |-> i, name |-> Name(items, i), closed |-> FALSE]
        /\ UNCHANGED <<images, items, made, files, saved, renamed, relinked, taken>>
    BY DEF OutputStarts, project, ghosts
  <1>2. i \in Images /\ (i \in DOMAIN items \/ (i \in relinked /\ Name(items, i) \in taken))
    BY <1>1, ListIsFinite DEF NamesIInv, PagesInv, Registered, InProject
  <1>3. GoodItems(items) /\ IsItems(items) /\ GivenKnown(items, renamed, relinked, taken)
    BY DEF NamesIInv, ItemsInv, GoodItems
  <1>4. Name(items, i) \in AllTexts
    BY <1>2, <1>3, NameIs
  <1>5. PICK t : t = task'
    OBVIOUS
  <1>6. t.image = i /\ t.name = Name(items, i) /\ GoodTask(t)
    BY <1>1, <1>2, <1>4, <1>5 DEF GoodTask
  <1>7. ASSUME NEW k \in DOMAIN items, Clean(k), OwnName(items, k) \notin taken, OwnName(items, k) = t.name
        PROVE  t.image = k
    BY <1>2, <1>3, <1>6, <1>7, SoleOwner
  <1>8. FilesInv'
    <2>1. Owners(items, made, files, t, relinked, taken)
      BY <1>7 DEF NamesIInv, FilesInv, Owners, Own
    <2> QED  BY <1>1, <1>5, <2>1 DEF FilesInv
  <1>9. TaskInv'
    <2>1. ASSUME i \notin relinked, Clean(i) PROVE OwnName(items, i) = t.name \/ OwnName(items, i) \in taken
      <3>1. i \in DOMAIN items /\ i.file # Empty
        BY <1>2, <2>1 DEF Clean
      <3>2. CASE items[i].given = NoText
        BY <1>2, <1>3, <1>6, <3>1, <3>2, NameIs
      <3>3. CASE items[i].given # NoText
        BY <1>3, <2>1, <3>1, <3>3 DEF GivenKnown
      <3> QED  BY <3>2, <3>3
    <2>2. TaskKnown(t, items, relinked, taken)
      BY <1>2, <1>6, <2>1 DEF TaskKnown
    <2> QED  BY <1>1, <1>5, <1>6, <2>2 DEF TaskInv
  <1>10. SavedInv'
    <2>1. SavedSound(saved, items, files, task, relinked, taken)
      BY DEF NamesIInv, SavedInv
    <2>2. ASSUME saved # None PROVE Owners(saved.items, saved.made, files, t, relinked, taken)
      <3> SUFFICES ASSUME NEW k \in Own(saved.items, saved.made, relinked, taken)
                   PROVE  /\ OwnName(saved.items, k) \in DOMAIN files => files[OwnName(saved.items, k)] = k
                          /\ OwnName(saved.items, k) = t.name => t.image = k
        BY DEF Owners
      <3>1. k \in DOMAIN saved.items /\ k \notin relinked /\ Clean(k) /\ OwnName(saved.items, k) \notin taken
        BY DEF Own
      <3>2. k \in DOMAIN items /\ items[k].label = saved.items[k].label
        BY <2>1, <2>2, <3>1 DEF SavedSound
      <3>3. OwnName(items, k) = OwnName(saved.items, k)
        BY <3>2 DEF OwnName
      <3>4. OwnName(saved.items, k) \in DOMAIN files => files[OwnName(saved.items, k)] = k
        BY <2>1, <2>2 DEF SavedSound, Owners
      <3> QED  BY <1>7, <3>1, <3>2, <3>3, <3>4
    <2>3. SavedSound(saved, items, files, t, relinked, taken)
      BY <2>1, <2>2 DEF SavedSound
    <2> QED  BY <1>1, <1>5, <2>3 DEF SavedInv
  <1>11. PagesInv' /\ ItemsInv'
    BY <1>1 DEF NamesIInv, PagesInv, ItemsInv
  <1> QED  BY <1>8, <1>9, <1>10, <1>11 DEF NamesIInv

(* It is written, for the page if its project is still open, and over no
   other's, be it of the open project or of the saved one. *)
LEMMA OutputWrittenKeeps ==
    ASSUME NamesIInv, OutputWritten
    PROVE  NamesIInv'
  <1>1. /\ task # None /\ files' = With(files, task.name, task.image) /\ task' = None
        /\ made' = IF task.closed THEN made ELSE made \cup {task.image}
        /\ UNCHANGED <<images, items, saved, renamed, relinked, taken>>
    BY DEF OutputWritten, ghosts
  <1>2. PICK fl, done : fl = files' /\ done = made'
    OBVIOUS
  <1>3. PICK t : t = task
    OBVIOUS
  <1>4. t \in [image : Images, name : AllTexts, closed : BOOLEAN] /\ t # None
    BY <1>1, <1>3 DEF NamesIInv, TaskInv, GoodTask
  <1>5. /\ DOMAIN fl = DOMAIN files \cup {t.name} /\ fl[t.name] = t.image
        /\ \A n \in DOMAIN files : n # t.name => fl[n] = files[n]
    <2>1. fl = With(files, t.name, t.image)
      BY <1>1, <1>2, <1>3
    <2>2. IsWith(fl, files, t.name, t.image)
      BY <2>1, WithIs
    <2> QED  BY <2>2 DEF IsWith
  <1>6. done = made \/ (t.closed = FALSE /\ done = made \cup {t.image})
    <2>1. CASE t.closed = TRUE
      BY <1>1, <1>2, <1>3, <2>1
    <2>2. CASE t.closed = FALSE
      BY <1>1, <1>2, <1>3, <2>2
    <2> QED  BY <1>4, <2>1, <2>2
  <1>7. TaskKnown(t, items, relinked, taken)
    BY <1>3 DEF NamesIInv, TaskInv
  <1>8. PagesInv'
    <2>1. Registered(images, items, made, relinked, taken)
      BY DEF NamesIInv, PagesInv
    <2>2. t.image \in Images /\ (t.closed = FALSE => t.image \in DOMAIN items \/ t.image \in relinked)
      BY <1>4, <1>7 DEF TaskKnown
    <2>3. Registered(images, items, done, relinked, taken)
      BY <1>6, <2>1, <2>2 DEF Registered
    <2> QED  BY <1>1, <1>2, <2>3 DEF PagesInv
  <1>9. FilesInv'
    <2>1. Owners(items, made, files, t, relinked, taken)
      BY <1>3 DEF NamesIInv, FilesInv
    <2>2. ASSUME NEW k \in Own(items, done, relinked, taken), OwnName(items, k) \in DOMAIN fl
          PROVE  fl[OwnName(items, k)] = k
      <3>1. k \in done \cap DOMAIN items /\ k \notin relinked /\ Clean(k) /\ OwnName(items, k) \notin taken
        BY DEF Own
      <3>2. CASE k \in made
        <4>1. k \in Own(items, made, relinked, taken)
          BY <3>1, <3>2 DEF Own
        <4>2. /\ OwnName(items, k) \in DOMAIN files => files[OwnName(items, k)] = k
              /\ OwnName(items, k) = t.name => t.image = k
          BY <1>4, <2>1, <4>1 DEF Owners
        <4> QED  BY <1>5, <2>2, <4>2
      <3>3. CASE k = t.image /\ t.closed = FALSE
        <4>1. OwnName(items, k) = t.name
          BY <1>4, <1>7, <3>1, <3>3 DEF TaskKnown
        <4> QED  BY <1>5, <3>3, <4>1
      <3> QED  BY <1>6, <3>1, <3>2, <3>3
    <2>3. Owners(items, done, fl, None, relinked, taken)
      BY <2>2 DEF Owners
    <2> QED  BY <1>1, <1>2, <2>3 DEF FilesInv
  <1>10. SavedInv'
    <2>1. SavedSound(saved, items, files, t, relinked, taken)
      BY <1>3 DEF NamesIInv, SavedInv
    <2>2. ASSUME saved # None PROVE Owners(saved.items, saved.made, fl, None, relinked, taken)
      <3>1. Owners(saved.items, saved.made, files, t, relinked, taken)
        BY <2>1, <2>2 DEF SavedSound
      <3> QED  BY <1>4, <1>5, <3>1 DEF Owners
    <2>3. SavedSound(saved, items, fl, None, relinked, taken)
      BY <2>1, <2>2 DEF SavedSound
    <2> QED  BY <1>1, <1>2, <2>3 DEF SavedInv
  <1>11. ItemsInv' /\ TaskInv'
    BY <1>1 DEF NamesIInv, ItemsInv, TaskInv, GoodTask, TaskKnown
  <1> QED  BY <1>8, <1>9, <1>10, <1>11 DEF NamesIInv

(* The records of the files with a page are saved. *)
LEMMA SaveKeeps ==
    ASSUME NamesIInv, Save
    PROVE  NamesIInv'
  <1>1. /\ saved' = [images |-> images, items |-> Packed(items), made |-> made \cap InProject,
                     renamed |-> renamed \cap InProject,
                     names |-> [i \in InProject \cap DOMAIN items |-> Name(items, i)]]
        /\ UNCHANGED <<images, items, made, files, task, renamed, relinked, taken>>
    BY DEF Save, project, ghosts
  <1>2. PICK s, its, packed : s = saved' /\ its = items /\ packed = Packed(items)
    OBVIOUS
  <1>3. /\ s.images = images /\ s.items = packed /\ s.made = made \cap InProject
        /\ s.renamed = renamed \cap InProject
        /\ s.names = [i \in InProject \cap DOMAIN its |-> Name(its, i)]
    BY <1>1, <1>2
  <1>4. GoodItems(its) /\ GivenKnown(its, renamed, relinked, taken)
    BY <1>2 DEF NamesIInv, ItemsInv
  <1>5. Registered(images, its, made, relinked, taken)
    BY <1>2 DEF NamesIInv, PagesInv
  <1>6. InProject \subseteq Images /\ DOMAIN its \subseteq Images
    BY <1>4, <1>5, ListIsFinite DEF Registered, InProject, GoodItems, IsItems
  <1>7. /\ DOMAIN packed = {j \in DOMAIN its : \E k \in InProject : k.file = j.file}
        /\ \A k \in DOMAIN packed : packed[k] = its[k]
    BY <1>2 DEF Packed
  <1>8. InProject \cap DOMAIN its \subseteq DOMAIN packed /\ DOMAIN packed \subseteq DOMAIN its
    BY <1>7
  <1>9. \A k \in DOMAIN packed : Name(packed, k) = Name(its, k) /\ OwnName(packed, k) = OwnName(its, k)
    BY <1>7, <1>8 DEF Name, OwnName
  <1>10. GoodItems(packed)
    <2>1. IsFiniteSet(DOMAIN packed)
      BY <1>4, <1>8, FS_Subset DEF GoodItems, IsItems
    <2> QED  BY <1>4, <1>7, <1>8, <2>1 DEF GoodItems, IsItems, LabelsDiffer, EmptyUnlabelled
  <1>11. GivenKnown(packed, renamed \cap InProject, relinked, taken)
    <2> SUFFICES ASSUME NEW k \in DOMAIN packed
                 PROVE  /\ k.file # Empty /\ packed[k].given # NoText =>
                              /\ k \in renamed \cap InProject /\ Name(packed, k) \in taken
                              /\ k \notin relinked => OwnName(packed, k) \in taken
                        /\ k.file = Empty =>
                              packed[k].given = NoText \/ packed[k].given.order # Plain
                              \/ Name(packed, k) \in taken
      BY DEF GivenKnown
    <2>1. k.file # Empty => k \in InProject
      <3>1. SUFFICES ASSUME k.file # Empty PROVE k \in InProject
        OBVIOUS
      <3>2. PICK j \in InProject : j.file = k.file
        BY <1>7
      <3>3. k = Image(k.file) /\ j = Image(j.file)
        BY <1>6, <1>8, <3>1, <3>2, ImageIs
      <3> QED  BY <3>2, <3>3
    <2> QED  BY <1>4, <1>7, <1>8, <1>9, <2>1 DEF GivenKnown
  <1>12. Owners(packed, made \cap InProject, files, task, relinked, taken)
    <2>1. Owners(its, made, files, task, relinked, taken)
      BY <1>2 DEF NamesIInv, FilesInv
    <2>2. PICK done : done = made \cap InProject
      OBVIOUS
    <2>3. \A k \in (done \cap DOMAIN packed) \ relinked :
              k \in made /\ k \in DOMAIN its /\ packed[k].label = its[k].label
      BY <1>7, <1>8, <2>2
    <2>4. Owners(packed, done, files, task, relinked, taken)
      BY <2>1, <2>3, OwnersKept
    <2> QED  BY <2>2, <2>4
  <1>13. SavedSound(s, its, files, task, relinked, taken)
    <2>1. \A i \in ToSet(s.images) : i \in DOMAIN packed \/ i \in relinked
      BY <1>3, <1>5, <1>8 DEF Registered, InProject
    <2>2. s.images \in Seq(Images) /\ IsInjective(s.images) /\ s.made \subseteq ToSet(s.images)
      BY <1>3, <1>5 DEF Registered, InProject
    <2>3. \A i \in DOMAIN s.names : i \in DOMAIN packed /\ s.names[i] = Name(packed, i)
      BY <1>3, <1>8, <1>9
    <2>4. \A i \in DOMAIN packed : i \in DOMAIN its /\ its[i].label = packed[i].label
      BY <1>7, <1>8
    <2>5. GivenKnown(s.items, s.renamed, relinked, taken)
      BY <1>3, <1>11
    <2>6. Owners(s.items, s.made, files, task, relinked, taken)
      BY <1>3, <1>12
    <2> QED  BY <1>3, <1>10, <2>1, <2>2, <2>3, <2>4, <2>5, <2>6 DEF SavedSound
  <1>14. SavedInv'
    BY <1>1, <1>2, <1>13 DEF SavedInv
  <1> QED  BY <1>1, <1>14 DEF NamesIInv, PagesInv, ItemsInv, FilesInv, TaskInv

(* The saved records come back, and only pages without one get another. *)
LEMMA ReopenKeeps ==
    ASSUME NamesIInv, Reopen
    PROVE  /\ NamesIInv'
           /\ \A i \in DOMAIN saved.names : Name(items', i) = saved.names[i]
  <1>1. /\ saved # None /\ images' = saved.images
        /\ items' = UpdateDisambiguationRecords(saved.items, saved.images)
        /\ made' = saved.made /\ renamed' = saved.renamed
        /\ saved' = None \/ saved' = saved
        /\ UNCHANGED <<files, relinked, taken>>
    BY DEF Reopen
  <1>2. PICK t : t = task'
    OBVIOUS
  <1>3. /\ GoodTask(t)
        /\ t # None => task # None /\ t.name = task.name /\ t.image = task.image /\ t.closed = TRUE
    <2>1. t = None \/ (task # None /\ t = [task EXCEPT !.closed = TRUE])
      BY <1>2 DEF Reopen
    <2>2. task # None => task \in [image : Images, name : AllTexts, closed : BOOLEAN]
      BY DEF NamesIInv, TaskInv, GoodTask
    <2> QED  BY <2>1, <2>2 DEF GoodTask
  <1>4. PICK sits, seq, done, ren : sits = saved.items /\ seq = saved.images /\ done = saved.made /\ ren = saved.renamed
    OBVIOUS
  <1>5. /\ seq \in Seq(Images) /\ IsInjective(seq) /\ done \subseteq ToSet(seq)
        /\ \A i \in ToSet(seq) : i \in DOMAIN sits \/ i \in relinked
        /\ GoodItems(sits) /\ GivenKnown(sits, ren, relinked, taken)
        /\ Owners(sits, done, files, task, relinked, taken)
        /\ \A i \in DOMAIN saved.names : i \in DOMAIN sits /\ saved.names[i] = Name(sits, i)
    BY <1>1, <1>4 DEF NamesIInv, SavedInv, SavedSound
  <1>6. PICK r : r = UpdateDisambiguationRecords(sits, seq)
    OBVIOUS
  <1>7. items' = r
    BY <1>1, <1>4, <1>6
  <1>8. /\ GoodItems(r) /\ DOMAIN r = DOMAIN sits \cup ToSet(seq)
        /\ \A k \in DOMAIN sits : r[k] = sits[k]
        /\ \A k \in DOMAIN r \ DOMAIN sits : r[k].given = NoText
    <2>1. IsItems(sits) /\ LabelsDiffer(sits) /\ EmptyUnlabelled(sits)
      BY <1>5 DEF GoodItems
    <2>2. UpdatedTo(sits, seq, r)
      BY <1>5, <1>6, <2>1, UpdateOf
    <2> QED  BY <2>2 DEF UpdatedTo, GoodItems
  <1>9. \A k \in DOMAIN sits : Name(r, k) = Name(sits, k) /\ OwnName(r, k) = OwnName(sits, k)
    BY <1>8 DEF Name, OwnName
  <1>10. PagesInv'
    <2>1. ToSet(seq) \subseteq Images
      BY <1>5, ListIsFinite
    <2>2. Registered(seq, r, done, relinked, taken)
      BY <1>5, <1>8, <2>1 DEF Registered
    <2> QED  BY <1>1, <1>4, <1>7, <2>2 DEF PagesInv
  <1>11. ItemsInv'
    <2>1. GivenKnown(r, ren, relinked, taken)
      BY <1>5, <1>8, <1>9 DEF GivenKnown
    <2> QED  BY <1>1, <1>4, <1>7, <1>8, <2>1 DEF ItemsInv
  <1>12. FilesInv'
    <2>1. \A k \in (done \cap DOMAIN r) \ relinked : k \in done /\ k \in DOMAIN sits /\ r[k].label = sits[k].label
      BY <1>5, <1>8
    <2>2. Owners(r, done, files, t, relinked, taken)
      BY <1>3, <1>5, <2>1, OwnersKept
    <2> QED  BY <1>1, <1>2, <1>4, <1>7, <2>2 DEF FilesInv
  <1>13. TaskInv'
    <2>1. TaskKnown(t, r, relinked, taken)
      BY <1>3 DEF TaskKnown
    <2> QED  BY <1>1, <1>2, <1>3, <1>7, <2>1 DEF TaskInv
  <1>14. SavedInv'
    <2>1. CASE saved' = None
      BY <2>1 DEF SavedInv, SavedSound
    <2>2. CASE saved' = saved
      <3>1. Owners(sits, done, files, t, relinked, taken)
        BY <1>3, <1>5 DEF Owners
      <3>2. SavedSound(saved, r, files, t, relinked, taken)
        BY <1>1, <1>4, <1>5, <1>8, <3>1 DEF SavedSound
      <3> QED  BY <1>1, <1>2, <1>7, <2>2, <3>2 DEF SavedInv
    <2> QED  BY <1>1, <2>1, <2>2
  <1>15. \A i \in DOMAIN saved.names : Name(items', i) = saved.names[i]
    BY <1>5, <1>7, <1>9
  <1> QED  BY <1>10, <1>11, <1>12, <1>13, <1>14, <1>15 DEF NamesIInv

(* Where relinking moves images to. *)
LEMMA MovedIs ==
    ASSUME images \in Seq(Images), NEW f \in Moves
    PROVE  /\ \A i \in Images : i.file \in DOMAIN f => i \in InProject /\ i.file # Empty
           /\ \A i \in Images : Moved(i, f) \in Images
           /\ \A i \in Images : i.file \notin DOMAIN f => Moved(i, f) = i
           /\ \A i \in Images : Moved(i, f).file = Empty => Moved(i, f) = i
           /\ \A i \in InProject, j \in InProject : Moved(i, f) = Moved(j, f) => i = j
  <1> DEFINE sources == {g \in Files : Image(g) \in InProject}
  <1>1. PICK s \in SUBSET sources : f \in [s -> Files]
    BY DEF Moves
  <1>2. /\ DOMAIN f \subseteq sources /\ \A a \in DOMAIN f : f[a] \in Files
        /\ \A a \in DOMAIN f : f[a] # a /\ (f[a] \in sources => f[a] \in DOMAIN f)
        /\ \A a, b \in DOMAIN f : a # b => f[a] # f[b]
    BY <1>1 DEF Moves
  <1>3. InProject \subseteq Images
    BY ListIsFinite DEF InProject
  <1>4. \A g \in Files : g # Empty
    BY OutputNamesAssumption DEF Empty
  <1>5. ASSUME NEW i \in Images, i.file \in DOMAIN f
        PROVE  /\ i \in InProject /\ i.file # Empty /\ i = Image(i.file)
               /\ Moved(i, f) = Image(f[i.file]) /\ Moved(i, f).file = f[i.file]
               /\ Moved(i, f) \in Images
    <2>1. i.file \in Files /\ Image(i.file) \in InProject /\ i.file # Empty
      BY <1>2, <1>4, <1>5
    <2>2. i = Image(i.file)
      BY <2>1, ImageIs
    <2>3. PICK g \in Files : g = f[i.file]
      BY <1>2, <1>5
    <2>4. Moved(i, f) = [i EXCEPT !.file = g]
      BY <1>5, <2>3 DEF Moved
    <2>5. i = [file |-> i.file, page |-> 0]
      BY <2>2 DEF Image
    <2>6. Moved(i, f) = [file |-> g, page |-> 0]
      <3>1. PICK h : h = i.file
        OBVIOUS
      <3>2. i = [file |-> h, page |-> 0]
        BY <2>5, <3>1
      <3> QED  BY <2>4, <3>2
    <2>7. [file |-> g, page |-> 0] \in Images /\ [file |-> g, page |-> 0].file = g
      BY DEF Images
    <2> QED  BY <2>1, <2>2, <2>3, <2>6, <2>7 DEF Image
  <1>6. ASSUME NEW i \in Images, i.file \notin DOMAIN f PROVE Moved(i, f) = i
    BY <1>6 DEF Moved
  <1>7. ASSUME NEW i \in Images, Moved(i, f).file = Empty PROVE Moved(i, f) = i
    BY <1>2, <1>4, <1>5, <1>6, <1>7
  <1>8. ASSUME NEW i \in InProject, NEW j \in InProject, Moved(i, f) = Moved(j, f) PROVE i = j
    <2>1. i \in Images /\ j \in Images
      BY <1>3
    <2>2. CASE i.file \in DOMAIN f /\ j.file \in DOMAIN f
      <3>1. f[i.file] = f[j.file]
        BY <1>5, <1>8, <2>1, <2>2
      <3>2. i.file = j.file
        BY <1>2, <2>2, <3>1
      <3>3. i = Image(i.file) /\ j = Image(j.file)
        BY <1>5, <2>1, <2>2
      <3> QED  BY <3>2, <3>3
    <2>3. ASSUME NEW a \in InProject, NEW b \in InProject, Moved(a, f) = Moved(b, f),
                 a.file \in DOMAIN f, b.file \notin DOMAIN f
          PROVE  FALSE
      <3>1. a \in Images /\ b \in Images
        BY <1>3
      <3>2. b = Image(f[a.file]) /\ b.file = f[a.file] /\ f[a.file] \in Files
        BY <1>2, <1>5, <1>6, <2>3, <3>1
      <3>3. f[a.file] \in sources
        BY <3>2
      <3> QED  BY <1>2, <2>3, <3>2, <3>3
    <2>4. CASE i.file \notin DOMAIN f /\ j.file \notin DOMAIN f
      BY <1>6, <1>8, <2>1, <2>4
    <2> QED  BY <1>8, <2>2, <2>3, <2>4
  <1> QED  BY <1>5, <1>6, <1>7, <1>8

(* The records that relinking leaves. *)
RelinkedTo(its, f, r) ==
    /\ IsFiniteSet(DOMAIN r)
    /\ \A k \in DOMAIN r : \E a \in DOMAIN its : k = Moved(a, f) /\ r[k] = its[a]
    /\ \A k, m \in DOMAIN r :
          k # m => \E a, b \in DOMAIN its : /\ k = Moved(a, f) /\ r[k] = its[a]
                                            /\ m = Moved(b, f) /\ r[m] = its[b]
                                            /\ ~Conflict(its, f, a, b)

LEMMA RelinkedOf ==
    ASSUME NEW its, IsFiniteSet(DOMAIN its), NEW f, NEW r \in Relinked(its, f)
    PROVE  RelinkedTo(its, f, r)
  <1>1. PICK s \in SUBSET DOMAIN its :
            /\ \A i, j \in s : i # j => ~Conflict(its, f, i, j)
            /\ r = [k \in {Moved(i, f) : i \in s} |-> its[CHOOSE i \in s : Moved(i, f) = k]]
    BY DEF Relinked
  <1> DEFINE at(k) == CHOOSE i \in s : Moved(i, f) = k
             there == {Moved(i, f) : i \in s}
  <1>2. DOMAIN r = there /\ \A k \in there : r[k] = its[at(k)]
    BY <1>1
  <1>3. ASSUME NEW k \in there PROVE at(k) \in s /\ Moved(at(k), f) = k
    <2>1. \E i \in s : Moved(i, f) = k
      OBVIOUS
    <2> QED  BY <2>1
  <1>4. IsFiniteSet(there)
    <2>1. IsFiniteSet(s)
      BY FS_Subset
    <2>2. [i \in s |-> Moved(i, f)] \in Surjection(s, there)
      BY DEF Surjection
    <2> HIDE DEF there
    <2> QED  BY <2>1, <2>2, FS_Surjection
  <1> HIDE DEF at, there
  <1>5. ASSUME NEW k \in DOMAIN r
        PROVE  \E a \in DOMAIN its : k = Moved(a, f) /\ r[k] = its[a]
    BY <1>2, <1>3
  <1>6. ASSUME NEW k \in DOMAIN r, NEW m \in DOMAIN r, k # m
        PROVE  \E a, b \in DOMAIN its : /\ k = Moved(a, f) /\ r[k] = its[a]
                                        /\ m = Moved(b, f) /\ r[m] = its[b]
                                        /\ ~Conflict(its, f, a, b)
    <2>1. /\ at(k) \in s /\ Moved(at(k), f) = k /\ r[k] = its[at(k)]
          /\ at(m) \in s /\ Moved(at(m), f) = m /\ r[m] = its[at(m)]
      BY <1>2, <1>3
    <2>2. at(k) # at(m)
      BY <1>6, <2>1
    <2>3. ~Conflict(its, f, at(k), at(m))
      BY <1>1, <2>1, <2>2
    <2> QED  BY <2>1, <2>3
  <1> QED  BY <1>2, <1>4, <1>5, <1>6 DEF RelinkedTo

(* The project is relinked: where nothing was moved or dropped, all is as before. *)
LEMMA PerformRelinkingKeeps ==
    ASSUME NamesIInv, NEW f \in Moves, PerformRelinking(f)
    PROVE  NamesIInv'
  <1> DEFINE dropped == {i \in DOMAIN items : i \in DOMAIN items' => items'[i] # items[i]}
             between == UNION {{i, Moved(i, f)} : i \in {j \in InProject : Moved(j, f) # j}}
  <1>1. /\ images' = [k \in DOMAIN images |-> Moved(images[k], f)]
        /\ items' \in Relinked(items, f)
        /\ made' = {Moved(i, f) : i \in made}
        /\ renamed' = {Moved(i, f) : i \in renamed}
        /\ relinked' = relinked \cup between \cup dropped
        /\ taken' = taken \cup {Name(items', i) : i \in ToSet(images') \ DOMAIN items'}
        /\ UNCHANGED <<files, task, saved>>
    BY DEF PerformRelinking
  <1>2. PICK its, r, seq, rel, tk, done, ren :
            its = items /\ r = items' /\ seq = images' /\ rel = relinked' /\ tk = taken' /\ done = made' /\ ren = renamed'
    OBVIOUS
  <1>3. relinked \subseteq rel /\ taken \subseteq tk
    BY <1>1, <1>2
  <1>4. /\ GoodItems(its) /\ GivenKnown(its, renamed, relinked, taken)
        /\ DOMAIN its \subseteq Images /\ IsFiniteSet(DOMAIN its) /\ IsItems(its)
    BY <1>2 DEF NamesIInv, ItemsInv, GoodItems, IsItems
  <1>5. Registered(images, its, made, relinked, taken)
    BY <1>2 DEF NamesIInv, PagesInv
  <1>6. /\ \A i \in Images : i.file \in DOMAIN f => i \in InProject /\ i.file # Empty
        /\ \A i \in Images : Moved(i, f) \in Images
        /\ \A i \in Images : i.file \notin DOMAIN f => Moved(i, f) = i
        /\ \A i \in Images : Moved(i, f).file = Empty => Moved(i, f) = i
        /\ \A i \in InProject, j \in InProject : Moved(i, f) = Moved(j, f) => i = j
    BY <1>5, MovedIs DEF Registered
  <1>7. \A i \in Images : Moved(i, f) # i => i \in rel /\ Moved(i, f) \in rel
    BY <1>1, <1>2, <1>6
  <1>8. \A k \in DOMAIN its \ rel : k \in DOMAIN r /\ r[k] = its[k]
    BY <1>1, <1>2
  <1>9. RelinkedTo(its, f, r)
    BY <1>1, <1>2, <1>4, RelinkedOf
  <1>10. tk = taken \cup {Name(r, i) : i \in ToSet(seq) \ DOMAIN r}
    BY <1>1, <1>2
  <1> HIDE DEF dropped, between
  <1>11. GoodItems(r)
    <2>1. ASSUME NEW k \in DOMAIN r PROVE k \in Images /\ r[k] \in Record
      <3>1. PICK a \in DOMAIN its : k = Moved(a, f) /\ r[k] = its[a]
        BY <1>9 DEF RelinkedTo
      <3> QED  BY <1>4, <1>6, <3>1 DEF IsItems
    <2>2. IsItems(r)
      BY <1>9, <2>1 DEF IsItems, RelinkedTo
    <2>3. ASSUME NEW k \in DOMAIN r, NEW m \in DOMAIN r, k # m, SameName(k, m) PROVE r[k].label # r[m].label
      <3>1. PICK a \in DOMAIN its, b \in DOMAIN its :
                /\ k = Moved(a, f) /\ r[k] = its[a] /\ m = Moved(b, f) /\ r[m] = its[b]
                /\ ~Conflict(its, f, a, b)
        BY <1>9, <2>3 DEF RelinkedTo
      <3>2. ~(SameName(Moved(a, f), Moved(b, f)) /\ its[a].label = its[b].label)
        BY <3>1 DEF Conflict
      <3> QED  BY <2>3, <3>1, <3>2
    <2>4. ASSUME NEW k \in DOMAIN r, k.file = Empty PROVE r[k].label = 0
      <3>1. PICK a \in DOMAIN its : k = Moved(a, f) /\ r[k] = its[a]
        BY <1>9 DEF RelinkedTo
      <3>2. k = a
        BY <1>4, <1>6, <2>4, <3>1
      <3> QED  BY <1>4, <2>4, <3>1, <3>2 DEF GoodItems, EmptyUnlabelled
    <2> QED  BY <2>2, <2>3, <2>4 DEF GoodItems, LabelsDiffer, EmptyUnlabelled
  <1>12. GivenKnown(r, ren, rel, tk)
    <2> SUFFICES ASSUME NEW k \in DOMAIN r
                 PROVE  /\ k.file # Empty /\ r[k].given # NoText =>
                              /\ k \in ren /\ Name(r, k) \in tk
                              /\ k \notin rel => OwnName(r, k) \in tk
                        /\ k.file = Empty =>
                              r[k].given = NoText \/ r[k].given.order # Plain \/ Name(r, k) \in tk
      BY DEF GivenKnown
    <2>1. PICK a \in DOMAIN its : k = Moved(a, f) /\ r[k] = its[a]
      BY <1>9 DEF RelinkedTo
    <2>2. a \in Images
      BY <1>4
    <2>3. CASE k = a
      <3>1. Name(r, k) = Name(its, k) /\ OwnName(r, k) = OwnName(its, k)
        BY <2>1, <2>3 DEF Name, OwnName
      <3>2. a \in renamed => k \in ren
        BY <1>1, <1>2, <2>1
      <3> QED  BY <1>3, <1>4, <2>1, <2>3, <3>1, <3>2 DEF GivenKnown
    <2>4. CASE k # a
      <3>1. a.file # Empty /\ k.file # Empty /\ k \in rel
        BY <1>6, <1>7, <2>1, <2>2, <2>4
      <3>2. ASSUME r[k].given # NoText PROVE k \in ren /\ Name(r, k) \in tk
        <4>1. a \in renamed /\ Name(its, a) \in taken
          BY <1>4, <2>1, <3>1, <3>2 DEF GivenKnown
        <4>2. Name(r, k) = Name(its, a)
          BY <2>1, <3>2 DEF Name
        <4> QED  BY <1>1, <1>2, <1>3, <2>1, <4>1, <4>2
      <3> QED  BY <3>1, <3>2
    <2> QED  BY <2>3, <2>4
  <1>13. done \subseteq Images /\ \A k \in done \ rel : k \in made /\ k \in DOMAIN its
    <2> SUFFICES ASSUME NEW k \in done
                 PROVE  k \in Images /\ (k \notin rel => k \in made /\ k \in DOMAIN its)
      OBVIOUS
    <2>1. PICK i \in made : k = Moved(i, f)
      BY <1>1, <1>2
    <2>2. i \in Images
      BY <1>5 DEF Registered
    <2>3. k \notin rel => k = i
      BY <1>7, <2>1, <2>2
    <2>4. k \notin rel => k \in DOMAIN its
      BY <1>3, <1>5, <2>1, <2>3 DEF Registered
    <2> QED  BY <1>6, <2>1, <2>2, <2>3, <2>4
  <1>14. Registered(seq, r, done, rel, tk)
    <2>1. PICK n \in Nat : n = Len(images) /\ DOMAIN images = 1 .. n /\ \A k \in 1 .. n : images[k] \in Images
      BY <1>5, LenProperties DEF Registered
    <2>2. seq = [k \in 1 .. n |-> Moved(images[k], f)]
      BY <1>1, <1>2, <2>1
    <2>3. seq \in Seq(Images)
      BY <1>6, <2>1, <2>2, IsASeq
    <2>4. DOMAIN seq = 1 .. n /\ \A k \in 1 .. n : seq[k] = Moved(images[k], f) /\ images[k] \in InProject
      BY <2>1, <2>2 DEF InProject, ToSet
    <2>5. IsInjective(seq)
      <3> SUFFICES ASSUME NEW k \in 1 .. n, NEW m \in 1 .. n, seq[k] = seq[m] PROVE k = m
        BY <2>4 DEF IsInjective
      <3>1. images[k] = images[m]
        BY <1>6, <2>4
      <3> QED  BY <1>5, <2>1, <3>1 DEF Registered, IsInjective
    <2>6. ASSUME NEW i \in ToSet(seq) PROVE i \in DOMAIN r \/ (i \in rel /\ Name(r, i) \in tk)
      <3>1. PICK k \in 1 .. n : i = seq[k]
        BY <2>4 DEF ToSet
      <3>2. i = Moved(images[k], f) /\ images[k] \in InProject /\ images[k] \in Images
        BY <2>1, <2>4, <3>1
      <3>3. ASSUME i \notin rel PROVE i \in DOMAIN r
        <4>1. i = images[k]
          BY <1>7, <3>2, <3>3
        <4>2. i \in DOMAIN its
          BY <1>3, <1>5, <3>2, <3>3, <4>1 DEF Registered, InProject
        <4> QED  BY <1>8, <3>3, <4>2
      <3>4. i \notin DOMAIN r => Name(r, i) \in tk
        BY <1>10
      <3> QED  BY <3>3, <3>4
    <2>7. \A i \in done : i \in DOMAIN r \/ i \in rel
      BY <1>8, <1>13
    <2> QED  BY <1>13, <2>3, <2>5, <2>6, <2>7 DEF Registered
  <1>15. Owners(r, done, files, task, rel, tk)
    <2>1. Owners(its, made, files, task, relinked, taken)
      BY <1>2 DEF NamesIInv, FilesInv
    <2>2. \A k \in (done \cap DOMAIN r) \ rel : k \in made /\ k \in DOMAIN its /\ r[k].label = its[k].label
      BY <1>8, <1>13
    <2> QED  BY <1>3, <2>1, <2>2, OwnersKept
  <1>16. TaskKnown(task, r, rel, tk)
    <2>1. TaskKnown(task, its, relinked, taken)
      BY <1>2 DEF NamesIInv, TaskInv
    <2>2. \A k \in DOMAIN its \ rel : OwnName(r, k) = OwnName(its, k)
      BY <1>8 DEF OwnName
    <2> QED  BY <1>3, <1>8, <2>1, <2>2 DEF TaskKnown
  <1>17. SavedSound(saved, r, files, task, rel, tk)
    <2>1. SavedSound(saved, its, files, task, relinked, taken)
      BY <1>2 DEF NamesIInv, SavedInv
    <2> QED  BY <1>3, <1>8, <2>1, SavedKept
  <1>18. PagesInv'
    BY <1>2, <1>14 DEF PagesInv
  <1>19. ItemsInv'
    BY <1>2, <1>11, <1>12 DEF ItemsInv
  <1>20. FilesInv'
    BY <1>1, <1>2, <1>15 DEF FilesInv
  <1>21. TaskInv'
    BY <1>1, <1>2, <1>16 DEF NamesIInv, TaskInv
  <1>22. SavedInv'
    BY <1>1, <1>2, <1>17 DEF SavedInv
  <1> QED  BY <1>18, <1>19, <1>20, <1>21, <1>22 DEF NamesIInv

-----------------------------------------------------------------------------
(* The theorems on the names. *)

LEMMA TextsAre ==
    ASSUME NamesIInv
    PROVE  Texts \subseteq AllTexts
  <1>1. \A s \in UserStems : Text(s, <<>>, Plain) \in AllTexts
    BY OutputNamesAssumption DEF Text, AllTexts
  <1>2. \A i \in InProject : Name(items, i) \in AllTexts
    <2>1. InProject \subseteq Images /\ IsItems(items)
      BY ListIsFinite DEF NamesIInv, PagesInv, Registered, InProject, ItemsInv, GoodItems
    <2> QED  BY <2>1, NameIs
  <1> QED  BY <1>1, <1>2 DEF Texts

LEMMA NamesInvNext ==
    ASSUME NamesIInv, [NamesNext]_namesVars
    PROVE  NamesIInv'
  <1>1. CASE \E file \in Files, place \in 1 .. Len(images) + 1 : InsertFile(file, place)
    BY <1>1, InsertFileKeeps
  <1>2. CASE \E place \in 1 .. Len(images) + 1 : InsertEmptyPage(place)
    BY <1>2, InsertEmptyPageKeeps
  <1>3. CASE \E i \in InProject, text \in Texts : RenameResult(i, text, TRUE) \/ RenameResult(i, text, FALSE)
    <2>1. PICK i \in InProject, text \in Texts : RenameResult(i, text, TRUE) \/ RenameResult(i, text, FALSE)
      BY <1>3
    <2>2. text \in AllTexts
      BY TextsAre
    <2> QED  BY <2>1, <2>2, RenameResultKeeps
  <1>4. CASE \E i \in InProject : RemovePages(i) \/ OutputStarts(i)
    BY <1>4, RemovePagesKeeps, OutputStartsKeeps
  <1>5. CASE \E f \in Moves : PerformRelinking(f)
    BY <1>5, PerformRelinkingKeeps
  <1>6. CASE OutputWritten
    BY <1>6, OutputWrittenKeeps
  <1>7. CASE Save
    BY <1>7, SaveKeeps
  <1>8. CASE Reopen
    BY <1>8, ReopenKeeps
  <1>9. CASE UNCHANGED namesVars
    BY <1>9 DEF namesVars, project, ghosts, NamesIInv, PagesInv, ItemsInv, FilesInv, TaskInv, SavedInv
  <1> QED  BY <1>1, <1>2, <1>3, <1>4, <1>5, <1>6, <1>7, <1>8, <1>9 DEF NamesNext

LEMMA NamesInvariant == NamesSpec => []NamesIInv
  <1>1. NamesInit => NamesIInv
    BY NamesInvInit
  <1>2. NamesIInv /\ [NamesNext]_namesVars => NamesIInv'
    BY NamesInvNext
  <1> QED  BY <1>1, <1>2, PTL DEF NamesSpec

(* registerFile gives no two files of a name one label, and so no two pages
   one output file, whatever was inserted, removed, relinked, saved and loaded
   again: what is found under the name of a processed page is its own output. *)
THEOREM OutputsAreOwn == NamesSpec => []OwnOutput
  <1>1. NamesIInv => OwnOutput
    BY NamesInvOwn
  <1> QED  BY <1>1, NamesInvariant, PTL

LEMMA NamesKeptStep ==
    ASSUME NamesIInv, NamesNext
    PROVE  /\ \A i \in InProject \cap InProject' :
                 \/ Name(items', i) = Name(items, i)
                 \/ Reopen
                 \/ \E f \in Moves : PerformRelinking(f)
                 \/ \E text \in Texts, replace \in BOOLEAN : RenameResult(i, text, replace)
           /\ Reopen => \A i \in DOMAIN saved.names : Name(items', i) = saved.names[i]
  <1>1. ASSUME Reopen PROVE \A i \in DOMAIN saved.names : Name(items', i) = saved.names[i]
    BY <1>1, ReopenKeeps
  <1>2. ASSUME NEW i \in InProject, NEW k \in InProject, NEW text \in Texts, NEW replace \in BOOLEAN,
               RenameResult(k, text, replace)
        PROVE  Name(items', i) = Name(items, i) \/ i = k
    <2>1. items' = items \/ items' = Register(items, k, text)
      BY <1>2 DEF RenameResult
    <2>2. ASSUME items' = Register(items, k, text), i # k PROVE Name(items', i) = Name(items, i)
      <3>1. PICK its, r : its = items /\ r = Register(its, k, text)
        OBVIOUS
      <3>2. r = With(its, k, [label |-> IF k \in DOMAIN its THEN its[k].label ELSE NextLabel(its, k),
                              given |-> text])
        BY <3>1 DEF Register
      <3>3. PICK v : v = [label |-> IF k \in DOMAIN its THEN its[k].label ELSE NextLabel(its, k),
                          given |-> text]
        OBVIOUS
      <3>4. IsWith(r, its, k, v)
        BY <3>2, <3>3, WithIs
      <3>5. Name(r, i) = Name(its, i)
        BY <2>2, <3>4 DEF IsWith, Name
      <3> QED  BY <2>2, <3>1, <3>5
    <2> QED  BY <2>1, <2>2
  <1>3. ASSUME NEW i \in InProject, Name(items', i) # Name(items, i), ~Reopen,
               ~ \E f \in Moves : PerformRelinking(f)
        PROVE  \E text \in Texts, replace \in BOOLEAN : RenameResult(i, text, replace)
    <2>1. CASE \E file \in Files, place \in 1 .. Len(images) + 1 : InsertFile(file, place)
      BY <1>3, <2>1, InsertFileKeeps
    <2>2. CASE \E place \in 1 .. Len(images) + 1 : InsertEmptyPage(place)
      BY <1>3, <2>2, InsertEmptyPageKeeps
    <2>3. CASE \E k \in InProject, text \in Texts : RenameResult(k, text, TRUE) \/ RenameResult(k, text, FALSE)
      <3>1. PICK k \in InProject, text \in Texts, replace \in BOOLEAN : RenameResult(k, text, replace)
        BY <2>3
      <3>2. i = k
        BY <1>2, <1>3, <3>1
      <3> QED  BY <3>1, <3>2
    <2>4. CASE \E k \in InProject : RemovePages(k) \/ OutputStarts(k)
      <3>1. items' = items
        BY <2>4 DEF RemovePages, OutputStarts, project
      <3> QED  BY <1>3, <3>1
    <2>5. CASE OutputWritten \/ Save
      <3>1. items' = items
        BY <2>5 DEF OutputWritten, Save, project
      <3> QED  BY <1>3, <3>1
    <2> QED  BY <1>3, <2>1, <2>2, <2>3, <2>4, <2>5 DEF NamesNext
  <1> QED  BY <1>1, <1>3

(* Only renaming and relinking change a page's name; and what toXml saved and
   the main window loads again gives each page the name it was saved with. *)
THEOREM PagesKeepTheirNames == NamesSpec => NamesKept
  <1>1. NamesIInv /\ [NamesNext]_namesVars =>
            [/\ \A i \in InProject \cap InProject' :
                   \/ Name(items', i) = Name(items, i)
                   \/ Reopen
                   \/ \E f \in Moves : PerformRelinking(f)
                   \/ \E text \in Texts, replace \in BOOLEAN : RenameResult(i, text, replace)
             /\ Reopen => \A i \in DOMAIN saved.names : Name(items', i) = saved.names[i]]_namesVars
    BY NamesKeptStep
  <1> QED  BY <1>1, NamesInvariant, PTL DEF NamesSpec, NamesKept

-----------------------------------------------------------------------------
(* The order of the names. *)

LEMMA PrefixIs ==
    ASSUME NEW a \in Seq(Nat), NEW b \in Seq(Nat), IsPrefix(a, b)
    PROVE  /\ Len(a) \in Nat /\ Len(b) \in Nat /\ Len(a) <= Len(b)
           /\ \A k \in 1 .. Len(a) : a[k] = b[k]
           /\ Len(a) = Len(b) => a = b
  <1>1. PICK n \in Nat, m \in Nat : n = Len(a) /\ m = Len(b)
    BY LenProperties
  <1>2. n <= m /\ SubSeq(a, 1, n) = SubSeq(b, 1, n)
    BY <1>1 DEF IsPrefix
  <1>3. /\ \A k \in 1 .. n : a[k] \in Nat
        /\ \A k \in 1 .. m : b[k] \in Nat
    BY <1>1, LenProperties
  <1>4. ASSUME NEW k \in 1 .. n PROVE a[k] = b[k]
    <2>1. SubSeq(a, 1, n)[k] = a[k]
      BY <1>3, <1>4, SubSeqProperties
    <2>2. SubSeq(b, 1, n)[k] = b[k]
      <3>1. \A j \in 1 .. n : b[j] \in Nat
        BY <1>2, <1>3
      <3> QED  BY <3>1, <1>4, SubSeqProperties
    <2> QED  BY <1>2, <2>1, <2>2
  <1>5. n = m => a = b
    BY <1>1, <1>4, SeqEqual
  <1> QED  BY <1>1, <1>2, <1>4, <1>5

LEMMA LabelsAsymmetric ==
    ASSUME NEW a \in Seq(Nat), NEW b \in Seq(Nat), LabelsBefore(a, b), LabelsBefore(b, a)
    PROVE  FALSE
  <1>1. /\ DOMAIN a = 1 .. Len(a) /\ DOMAIN b = 1 .. Len(b) /\ Len(a) \in Nat /\ Len(b) \in Nat
        /\ \A k \in DOMAIN a : a[k] \in Nat
        /\ \A k \in DOMAIN b : b[k] \in Nat
    BY LenProperties
  <1>2. CASE a # b /\ IsPrefix(a, b)
    <2>1. Len(a) < Len(b) /\ \A k \in 1 .. Len(a) : a[k] = b[k]
      BY <1>2, PrefixIs
    <2>2. CASE b # a /\ IsPrefix(b, a)
      BY <1>1, <2>1, <2>2, PrefixIs
    <2>3. CASE \E k \in DOMAIN b \cap DOMAIN a : b[k] < a[k]
      BY <1>1, <2>1, <2>3
    <2> QED  BY <2>2, <2>3 DEF LabelsBefore
  <1>3. ASSUME NEW k \in DOMAIN a \cap DOMAIN b, a[k] < b[k], \A m \in 1 .. k - 1 : a[m] = b[m]
        PROVE  FALSE
    <2>1. CASE b # a /\ IsPrefix(b, a)
      <3>1. \A j \in 1 .. Len(b) : b[j] = a[j]
        BY <2>1, PrefixIs
      <3> QED  BY <1>1, <1>3, <3>1
    <2>2. ASSUME NEW j \in DOMAIN b \cap DOMAIN a, b[j] < a[j], \A m \in 1 .. j - 1 : b[m] = a[m]
          PROVE  FALSE
      <3>1. j \in Nat /\ k \in Nat /\ j >= 1 /\ k >= 1
        BY <1>1
      <3>2. CASE j < k
        <4>1. j \in 1 .. k - 1
          BY <3>1, <3>2
        <4>2. a[j] = b[j] /\ a[j] \in Nat
          BY <1>1, <1>3, <4>1
        <4> QED  BY <2>2, <4>2
      <3>3. CASE k < j
        <4>1. k \in 1 .. j - 1
          BY <3>1, <3>3
        <4>2. a[k] = b[k] /\ a[k] \in Nat
          BY <1>1, <2>2, <4>1
        <4> QED  BY <1>3, <4>2
      <3>4. CASE k = j
        <4>1. a[k] \in Nat /\ b[k] \in Nat
          BY <1>1
        <4> QED  BY <1>3, <2>2, <3>4, <4>1
      <3> QED  BY <3>1, <3>2, <3>3, <3>4
    <2> QED  BY <2>1, <2>2 DEF LabelsBefore
  <1> QED  BY <1>2, <1>3 DEF LabelsBefore

(* A name keeps what is below it when its order number grows, and what is
   above it when the number falls. *)
LEMMA OrderGrows ==
    ASSUME NEW x \in AllTexts, NEW a \in AllTexts, NEW b \in AllTexts,
           SameBase(a, b), a.order < b.order
    PROVE  /\ Before(a, b)
           /\ Before(x, a) => Before(x, b)
           /\ Before(b, x) => Before(a, x)
  <1>1. /\ a.stem = b.stem /\ a.labels = b.labels
        /\ x.order \in Int /\ a.order \in Int /\ b.order \in Int
        /\ x.stem \in Nat /\ a.stem \in Nat /\ b.stem \in Nat
    BY DEF SameBase, AllTexts, Plain
  <1>2. Before(a, b)
    BY DEF Before
  <1>3. ASSUME Before(x, a) PROVE Before(x, b)
    BY <1>1, <1>3 DEF Before, SameBase
  <1>4. ASSUME Before(b, x) PROVE Before(a, x)
    BY <1>1, <1>4 DEF Before, SameBase
  <1> QED  BY <1>2, <1>3, <1>4

(* A name of another base between two of one base is out of order. *)
LEMMA BaseIsBroken ==
    ASSUME NEW low \in AllTexts, NEW high \in AllTexts, NEW x \in AllTexts,
           Before(low, high), ~SameBase(low, high), Before(high, x), SameBase(low, x)
    PROVE  FALSE
  <1>1. /\ low.stem = x.stem /\ low.labels = x.labels
        /\ low.stem \in Nat /\ high.stem \in Nat
        /\ low.labels \in Seq(Nat) /\ high.labels \in Seq(Nat)
    BY DEF SameBase, AllTexts
  <1>2. low.stem < high.stem \/ (low.stem = high.stem /\ LabelsBefore(low.labels, high.labels))
    BY DEF Before
  <1>3. /\ ~SameBase(high, x)
        /\ high.stem < low.stem \/ (high.stem = low.stem /\ LabelsBefore(high.labels, low.labels))
    <2>1. ~SameBase(high, x)
      BY <1>1 DEF SameBase
    <2> QED  BY <1>1, <2>1 DEF Before
  <1>4. LabelsBefore(low.labels, high.labels) /\ LabelsBefore(high.labels, low.labels)
    BY <1>1, <1>2, <1>3
  <1> QED  BY <1>1, <1>4, LabelsAsymmetric

(* Is there room between two names?  *)
RoomBetween(low, high) ==
    CASE low = None -> high.stem > LowestStem
      [] low # None /\ high # None /\ SameBase(low, high) ->
             \E order \in 0 .. high.order : low.order < order /\ order < high.order
      [] OTHER -> Value(low) + Step <= MaxOrder

(* Then the suggested name is between them, and above and below what they are. *)
FitsBetween(low, high, t) ==
    /\ t \in AllTexts /\ t.order <= MaxOrder
    /\ low # None => /\ Before(low, t)
                     /\ \A x \in AllTexts : Before(x, low) => Before(x, t)
    /\ high # None => /\ Before(t, high)
                      /\ \A x \in AllTexts :
                             Before(high, x) /\ (low # None => Before(low, x)) => Before(t, x)

LEMMA SuggestionFits ==
    ASSUME NEW low \in AllTexts \cup {None}, NEW high \in AllTexts \cup {None},
           low # None \/ high # None,
           low # None => low.order <= MaxOrder, high # None => high.order <= MaxOrder,
           low # None /\ high # None => Before(low, high),
           RoomBetween(low, high)
    PROVE  FitsBetween(low, high, SuggestOverridenFileName(low, high))
  <1>1. PICK t : t = SuggestOverridenFileName(low, high)
    OBVIOUS
  <1>2. Step \in Nat /\ Step <= MaxOrder /\ MaxOrder \in Nat /\ LowestStem \in Nat
    BY OutputNamesAssumption
  <1>3. CASE low = None
    <2>1. high \in AllTexts /\ high # None /\ high.stem \in Nat /\ high.stem > LowestStem
      BY <1>3 DEF RoomBetween, AllTexts
    <2>2. t = Text(high.stem - 1, <<>>, Step)
      BY <1>1, <1>3, <2>1 DEF SuggestOverridenFileName, Below
    <2>3. t \in AllTexts /\ t.stem = high.stem - 1 /\ t.order = Step
      <3>1. high.stem - 1 \in Nat
        BY <1>2, <2>1
      <3> QED  BY <1>2, <2>2, <3>1 DEF Text, AllTexts
    <2>4. Before(t, high)
      BY <2>1, <2>3 DEF Before
    <2>5. ASSUME NEW x \in AllTexts, Before(high, x) PROVE Before(t, x)
      <3>1. high.stem <= x.stem /\ x.stem \in Nat
        BY <2>1, <2>5 DEF Before, SameBase, AllTexts
      <3> QED  BY <2>1, <2>3, <3>1 DEF Before
    <2> QED  BY <1>1, <1>2, <1>3, <2>3, <2>4, <2>5 DEF FitsBetween
  <1>4. CASE low # None /\ (high = None \/ ~SameBase(low, high))
    <2>1. low \in AllTexts /\ t = Above(low) /\ Value(low) + Step <= MaxOrder
      BY <1>1, <1>4 DEF SuggestOverridenFileName, RoomBetween
    <2>2. /\ t \in AllTexts /\ SameBase(low, t) /\ t.order = Value(low) + Step /\ low.order < t.order
      BY <2>1, AboveOf
    <2>3. Before(low, t) /\ \A x \in AllTexts : Before(x, low) => Before(x, t)
      BY <2>1, <2>2, OrderGrows
    <2>4. ASSUME NEW x \in AllTexts, Before(low, x), ~SameBase(low, x) PROVE Before(t, x)
      BY <2>2, <2>4 DEF Before, SameBase
    <2>5. ASSUME high # None PROVE Before(t, high)
      BY <1>4, <2>4, <2>5
    <2>6. ASSUME NEW x \in AllTexts, high # None, Before(high, x), Before(low, x) PROVE Before(t, x)
      <3>1. ~SameBase(low, x)
        BY <1>4, <2>1, <2>6, BaseIsBroken
      <3> QED  BY <2>4, <2>6, <3>1
    <2> QED  BY <1>1, <1>4, <2>1, <2>2, <2>3, <2>5, <2>6 DEF FitsBetween
  <1>5. CASE low # None /\ high # None /\ SameBase(low, high)
    <2>1. /\ low \in AllTexts /\ high \in AllTexts
          /\ t = [low EXCEPT !.order = Between(Value(low), Value(high))]
      BY <1>1, <1>5 DEF SuggestOverridenFileName
    <2>2. PICK order \in 0 .. high.order : low.order < order /\ order < high.order
      BY <1>5 DEF RoomBetween
    <2>3. t \in AllTexts /\ SameBase(low, t) /\ t.order = Between(Value(low), Value(high))
      BY <1>5, <2>1, BetweenOf
    <2>4. low.order < t.order /\ t.order < high.order
      <3>1. PICK a, b, v, w : a = low.order /\ b = high.order /\ v = Value(low) /\ w = Value(high)
        OBVIOUS
      <3>2. /\ a \in Nat \cup {-1} /\ b \in Nat \cup {-1} /\ v \in Nat /\ w \in Nat
            /\ a # -1 => v = a
            /\ a = -1 => v = 0
            /\ b # -1 => w = b
        BY <2>1, <3>1, ValueOf DEF Plain
      <3>3. order \in Int /\ 0 <= order /\ a < order /\ order < b
        BY <2>1, <2>2, <3>1 DEF AllTexts, Plain
      <3>4. a < (v + w) \div 2 /\ (v + w) \div 2 < b
        BY <3>2, <3>3
      <3> QED  BY <2>3, <3>1, <3>4 DEF Between
    <2>5. SameBase(t, high)
      BY <1>5, <2>3 DEF SameBase
    <2>6. Before(low, t) /\ \A x \in AllTexts : Before(x, low) => Before(x, t)
      BY <2>1, <2>3, <2>4, OrderGrows
    <2>7. Before(t, high) /\ \A x \in AllTexts : Before(high, x) => Before(t, x)
      BY <2>1, <2>3, <2>4, <2>5, OrderGrows
    <2>8. t.order <= MaxOrder
      <3>1. t.order \in Int /\ high.order \in Int
        BY <2>1, <2>3 DEF AllTexts, Plain
      <3> QED  BY <1>2, <1>5, <2>4, <3>1
    <2> QED  BY <1>1, <1>5, <2>3, <2>6, <2>7, <2>8 DEF FitsBetween
  <1> QED  BY <1>3, <1>4, <1>5

LEMMA EmptyPageInOrder ==
    ASSUME NamesIInv, NEW place \in 1 .. Len(images) + 1,
           InsertEmptyPage(place), Sorted(items, images), Room(place)
    PROVE  Sorted(items', images')
  <1>1. PICK low, high : low = NameAt(place - 1) /\ high = NameAt(place)
    OBVIOUS
  <1>2. PICK t : t = SuggestOverridenFileName(low, high)
    OBVIOUS
  <1>3. PICK i \in Images :
            /\ i.file = Empty /\ i \notin InProject /\ InsertImage(place, i, t)
            /\ t = NoText \/ (t \in AllTexts /\ t.order # Plain)
            /\ place - 1 \in DOMAIN images \/ place \in DOMAIN images
            /\ low \in AllTexts \cup {None} /\ high \in AllTexts \cup {None}
    BY <1>1, <1>2, EmptyPageIs
  <1>4. RoomBetween(low, high)
    BY <1>1 DEF Room, RoomBetween
  <1>5. PICK n \in Nat : n = Len(images) /\ DOMAIN images = 1 .. n /\ \A k \in 1 .. n : images[k] \in Images
    BY LenProperties DEF NamesIInv, PagesInv, Registered
  <1>6. PICK name \in [1 .. n -> AllTexts] : \A k \in 1 .. n : name[k] = Name(items, images[k])
    <2>1. IsItems(items)
      BY DEF NamesIInv, ItemsInv, GoodItems
    <2>2. \A k \in 1 .. n : Name(items, images[k]) \in AllTexts
      BY <1>5, <2>1, NameIs
    <2>3. [k \in 1 .. n |-> Name(items, images[k])] \in [1 .. n -> AllTexts]
      BY <2>2
    <2> QED  BY <2>3
  <1>7. /\ \A k \in 1 .. n : name[k].order <= MaxOrder
        /\ \A k, m \in 1 .. n : k < m => Before(name[k], name[m])
    BY <1>5, <1>6 DEF Sorted
  <1>8. /\ place \in 1 .. n + 1
        /\ place - 1 \in 1 .. n => low = name[place - 1] /\ low # None
        /\ place - 1 \notin 1 .. n => low = None
        /\ place \in 1 .. n => high = name[place] /\ high # None
        /\ place \notin 1 .. n => high = None
    <2>1. place \in Int /\ place - 1 \in Int /\ place \in 1 .. n + 1
      BY <1>5
    <2> QED  BY <1>1, <1>5, <1>6, <2>1, NameAtIs
  <1>9. FitsBetween(low, high, t)
    <2>1. low # None \/ high # None
      BY <1>3, <1>5, <1>8
    <2>2. (low # None => low.order <= MaxOrder) /\ (high # None => high.order <= MaxOrder)
      BY <1>7, <1>8
    <2>3. low # None /\ high # None => Before(low, high)
      <3>1. place - 1 < place
        BY <1>8
      <3> QED  BY <1>7, <1>8, <3>1
    <2> QED  BY <1>2, <1>3, <1>4, <2>1, <2>2, <2>3, SuggestionFits
  <1>10. t \in AllTexts /\ t # NoText /\ t.order <= MaxOrder
    BY <1>9, OutputNamesAssumption DEF FitsBetween
  <1>11. ASSUME NEW k \in 1 .. n, k < place PROVE Before(name[k], t)
    <2>1. place - 1 \in 1 .. n /\ k <= place - 1
      BY <1>8, <1>11
    <2>2. name[k] \in AllTexts /\ low = name[place - 1] /\ low # None
      BY <1>6, <1>8, <2>1
    <2>3. k = place - 1 \/ Before(name[k], low)
      BY <1>7, <1>8, <2>1, <2>2
    <2> QED  BY <1>9, <2>2, <2>3 DEF FitsBetween
  <1>12. ASSUME NEW k \in 1 .. n, k >= place PROVE Before(t, name[k])
    <2>1. place \in 1 .. n
      BY <1>8, <1>12
    <2>2. name[k] \in AllTexts /\ high = name[place] /\ high # None
      BY <1>6, <1>8, <2>1
    <2>3. k = place \/ Before(high, name[k])
      BY <1>7, <1>12, <2>1, <2>2
    <2>4. low # None => Before(low, name[k])
      <3>1. place - 1 \in 1 .. n => place - 1 < k
        BY <1>8, <1>12
      <3> QED  BY <1>7, <1>8, <3>1
    <2> QED  BY <1>9, <2>2, <2>3, <2>4 DEF FitsBetween
  <1>13. /\ NamesIInv' /\ \A k \in InProject : Name(items', k) = Name(items, k)
    BY InsertEmptyPageKeeps
  <1>14. Name(items', i) = t
    <2>1. i \in DOMAIN items' /\ items'[i].given = t
      <3>1. items' = Register(items, i, t)
        BY <1>3 DEF InsertImage
      <3> QED  BY <3>1 DEF Register, With
    <2>2. items'[i].label = 0
      BY <1>3, <1>13, <2>1 DEF NamesIInv, ItemsInv, GoodItems, EmptyUnlabelled
    <2> QED  BY <1>10, <2>1, <2>2 DEF Name, WithLabel
  <1>15. PICK seq : seq = images'
    OBVIOUS
  <1>16. /\ DOMAIN seq = 1 .. n + 1
         /\ \A j \in 1 .. n + 1 :
                seq[j] = IF j < place THEN images[j] ELSE IF j = place THEN i ELSE images[j - 1]
    <2>1. PICK old : old = images
      OBVIOUS
    <2>2. old \in Seq(Images) /\ place \in 1 .. Len(old) + 1
      BY <2>1 DEF NamesIInv, PagesInv, Registered
    <2>3. seq = InsertAt(old, place, i)
      BY <1>3, <1>15, <2>1 DEF InsertImage
    <2>4. seq \in Seq(Images) /\ InsertedAt(old, place, i, seq)
      BY <2>2, <2>3, InsertAtOf
    <2>5. /\ seq \in Seq(Images) /\ Len(seq) = Len(old) + 1
          /\ \A j \in 1 .. Len(old) + 1 :
                 seq[j] = IF j < place THEN old[j] ELSE IF j = place THEN i ELSE old[j - 1]
      BY <2>4 DEF InsertedAt
    <2> QED  BY <1>5, <2>1, <2>5, LenProperties
  <1>17. PICK its : its = items'
    OBVIOUS
  <1>18. \A k \in 1 .. n : Name(its, images[k]) = name[k]
    <2>1. \A k \in 1 .. n : images[k] \in InProject
      BY <1>5 DEF InProject, ToSet
    <2> QED  BY <1>6, <1>13, <1>17, <2>1
  <1>19. ASSUME NEW j \in 1 .. n + 1
         PROVE  /\ j < place => j \in 1 .. n /\ Name(its, seq[j]) = name[j]
                /\ j = place => Name(its, seq[j]) = t
                /\ j > place => j - 1 \in 1 .. n /\ j - 1 >= place /\ Name(its, seq[j]) = name[j - 1]
    <2>1. CASE j < place
      BY <1>8, <1>16, <1>18, <2>1
    <2>2. CASE j = place
      BY <1>8, <1>14, <1>16, <1>17, <2>2
    <2>3. CASE j > place
      <3>1. j - 1 \in 1 .. n /\ j - 1 >= place /\ ~(j < place) /\ j # place
        BY <1>8, <2>3
      <3> QED  BY <1>16, <1>18, <2>3, <3>1
    <2> QED  BY <1>8, <2>1, <2>2, <2>3
  <1>20. ASSUME NEW j \in 1 .. n + 1 PROVE Name(its, seq[j]).order <= MaxOrder
    <2>1. j < place \/ j = place \/ j > place
      BY <1>8
    <2> QED  BY <1>7, <1>10, <1>19, <2>1
  <1>21. ASSUME NEW j \in 1 .. n + 1, NEW m \in 1 .. n + 1, j < m
         PROVE  Before(Name(its, seq[j]), Name(its, seq[m]))
    <2>1. CASE m < place
      <3>1. j < place
        BY <1>8, <1>21, <2>1
      <3> QED  BY <1>7, <1>19, <1>21, <2>1, <3>1
    <2>2. CASE m = place
      BY <1>11, <1>19, <1>21, <2>2
    <2>3. CASE j = place
      <3>1. m > place
        BY <1>8, <1>21, <2>3
      <3> QED  BY <1>12, <1>19, <2>3, <3>1
    <2>4. CASE j > place
      <3>1. m > place /\ j - 1 < m - 1
        BY <1>8, <1>21, <2>4
      <3>2. j - 1 \in 1 .. n /\ m - 1 \in 1 .. n
        BY <1>19, <2>4, <3>1
      <3> QED  BY <1>7, <1>19, <2>4, <3>1, <3>2
    <2>5. CASE j < place /\ m > place
      <3>1. j \in 1 .. n /\ m - 1 \in 1 .. n /\ j < m - 1
        BY <1>8, <1>19, <2>5
      <3> QED  BY <1>7, <1>19, <2>5, <3>1
    <2> QED  BY <1>8, <2>1, <2>2, <2>3, <2>4, <2>5
  <1>22. Sorted(its, seq)
    BY <1>16, <1>20, <1>21 DEF Sorted
  <1> QED  BY <1>15, <1>17, <1>22

(* Of names in alphabetical order suggestOverridenFileName makes, for an empty
   page inserted anywhere among them, one that fits, if there is a number left. *)
THEOREM EmptyPagesKeepTheOrder == NamesSpec => EmptyPagesInOrder
  <1>1. NamesIInv /\ [NamesNext]_namesVars =>
            [\A place \in 1 .. Len(images) + 1 :
                InsertEmptyPage(place) /\ Sorted(items, images) /\ Room(place)
                    => Sorted(items', images')]_namesVars
    BY EmptyPageInOrder
  <1> QED  BY <1>1, NamesInvariant, PTL DEF NamesSpec, EmptyPagesInOrder
=============================================================================
