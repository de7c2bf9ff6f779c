----------------------- MODULE BatchProcessingProofs -----------------------
(***************************************************************************)
(* Proofs about BatchProcessing for any pages, filters and orders, with no *)
(* bound on what the user does: the queues are in step with the tasks      *)
(* under way, what is displayed belongs to what is selected, and a batch   *)
(* that ends by itself has applied the result of each of its pages.        *)
(*                                                                         *)
(* The inductive invariant IInv says of the window, the list of the thread *)
(* and the results on their way                                            *)
(*   - Base: each task under way is in one place (Once); the entries taken *)
(*     are those of the tasks under way that nobody cancelled, an entry    *)
(*     not yet taken has its task nowhere else, each queue holds tasks of  *)
(*     one type, and ids are not used again (Core);                        *)
(*   - Shown: what is displayed, and the page that has been asked for, are *)
(*     of the selected page and filter;                                    *)
(*   - Account: in a batch, the pages whose results were applied and those *)
(*     still in the queue are the pages of the batch, unless a shortcut of *)
(*     a stage has cleared both queues: then no result has an entry, and   *)
(*     none can end the batch.                                             *)
(* The methods of the window are followed one by one, as they call one     *)
(* another within a slot: each keeps Base, and updateMainArea(), with      *)
(* which most slots end, establishes Shown.                                *)
(***************************************************************************)
EXTENDS BatchProcessing, FiniteSetTheorems, SequenceTheorems, TLAPS

(* The lowest of a set of numbers. *)
LEMMA MinOf ==
    ASSUME NEW S \in SUBSET Nat, S # {}
    PROVE  Min(S) \in S /\ \A n \in S : Min(S) <= n
  <1> DEFINE R == OpToRel(<, Nat)
  <1>1. IsWellFoundedOn(R, Nat)
    BY NatLessThanWellFounded
  <1>2. \A x, y \in Nat : x < y => <<x, y>> \in R
    BY DEF OpToRel
  <1> HIDE DEF R
  <1>3. \E x \in S : \A y \in S : ~ (<<y, x>> \in R)
    BY <1>1, WFMin
  <1>4. PICK x \in S : \A y \in S : ~ (<<y, x>> \in R)
    BY <1>3
  <1>5. \A y \in S : x \in Nat /\ y \in Nat /\ ~(y < x)
    BY <1>2, <1>4
  <1>6. \E z \in S : \A y \in S : z <= y
    BY <1>5
  <1> QED  BY <1>6 DEF Min

(* The highest of a set of numbers that are bounded. *)
LEMMA MaxOf ==
    ASSUME NEW N \in Nat, NEW S \in SUBSET 1 .. N, S # {}
    PROVE  Max(S) \in S /\ \A n \in S : n <= Max(S)
  <1> DEFINE T == {N - n : n \in S}
  <1>1. T \in SUBSET Nat /\ T # {}
    <2>1. \A n \in S : N - n \in Nat
      OBVIOUS
    <2> QED  BY <2>1
  <1>2. Min(T) \in T /\ \A n \in T : Min(T) <= n
    BY <1>1, MinOf
  <1>3. PICK x \in S : Min(T) = N - x
    BY <1>2
  <1>4. \A y \in S : N - x <= N - y
    BY <1>2, <1>3
  <1>5. \A y \in S : x >= y
    BY <1>4
  <1> QED  BY <1>5 DEF Max

(* A finite set is put in order by how many elements come before each, when
   of two elements just one comes before the other. *)
LEMMA SortedOf ==
    ASSUME NEW S, IsFiniteSet(S), NEW less,
           \A x, y \in S : x # y => (less[<<x, y>>] <=> ~less[<<y, x>>]),
           \A x, y, z \in S : x # y /\ y # z /\ less[<<x, y>>] /\ less[<<y, z>>] => less[<<x, z>>]
    PROVE  /\ Cardinality(S) \in Nat
           /\ Sorted(S, less) \in Surjection(1 .. Cardinality(S), S)
           /\ \A i, j \in 1 .. Cardinality(S) : i < j => less[<<Sorted(S, less)[i], Sorted(S, less)[j]>>]
           /\ \A i, j \in 1 .. Cardinality(S) : i # j => Sorted(S, less)[i] # Sorted(S, less)[j]
  <1> DEFINE N == Cardinality(S)
             below(x) == {y \in S \ {x} : less[<<y, x>>]}
             rank == [x \in S |-> Cardinality(below(x)) + 1]
             f == [k \in 1 .. N |-> CHOOSE x \in S : rank[x] = k]
  <1>1. N \in Nat
    BY FS_CardinalityType
  <1>2. ASSUME NEW x \in S
        PROVE  IsFiniteSet(below(x)) /\ Cardinality(below(x)) \in Nat /\ rank[x] \in 1 .. N
    <2>1. below(x) \in SUBSET (S \ {x}) /\ IsFiniteSet(S \ {x})
      BY FS_Subset
    <2>2. Cardinality(S \ {x}) = N - 1
      BY FS_RemoveElement
    <2>3. IsFiniteSet(below(x)) /\ Cardinality(below(x)) <= N - 1
      <3> HIDE DEF below, N
      <3> QED  BY <2>1, <2>2, FS_Subset
    <2>4. Cardinality(below(x)) \in Nat
      BY <2>3, FS_CardinalityType
    <2>5. rank[x] = Cardinality(below(x)) + 1
      OBVIOUS
    <2> DEFINE c == Cardinality(below(x))
    <2>6. c + 1 \in 1 .. N
      <3>1. c \in Nat /\ c <= N - 1
        BY <2>3, <2>4
      <3> HIDE DEF c, N
      <3> QED  BY <1>1, <3>1
    <2> HIDE DEF below, N, rank
    <2> QED  BY <2>3, <2>4, <2>5, <2>6
  <1>3. ASSUME NEW x \in S, NEW y \in S, x # y, less[<<x, y>>] PROVE rank[x] < rank[y]
    <2>1. below(x) \in SUBSET below(y) /\ x \in below(y) /\ x \notin below(x)
      <3>1. \A z \in below(x) : z \in S \ {y} /\ less[<<z, y>>]
        BY <1>3
      <3> QED  BY <3>1, <1>3
    <2>2. Cardinality(below(x)) <= Cardinality(below(y)) /\ Cardinality(below(x)) # Cardinality(below(y))
      <3> HIDE DEF below
      <3> QED  BY <1>2, <2>1, FS_Subset
    <2>3. Cardinality(below(x)) \in Nat /\ Cardinality(below(y)) \in Nat
      BY <1>2
    <2> HIDE DEF below
    <2> QED  BY <2>2, <2>3
  <1>4. \A x, y \in S : rank[x] = rank[y] => x = y
    <2> SUFFICES ASSUME NEW x \in S, NEW y \in S, rank[x] = rank[y], x # y PROVE FALSE
      OBVIOUS
    <2>1. rank[x] < rank[y] \/ rank[y] < rank[x]
      BY <1>3
    <2>2. rank[x] \in 1 .. N /\ rank[y] \in 1 .. N
      BY <1>2
    <2> HIDE DEF rank, N
    <2> QED  BY <1>1, <2>1, <2>2
  <1>5. rank \in [S -> 1 .. N]
    BY <1>2
  <1>6. rank \in Surjection(S, 1 .. N)
    <2>1. rank \in Injection(S, 1 .. N)
      <3> HIDE DEF rank, N
      <3> QED  BY <1>4, <1>5 DEF Injection, IsInjective
    <2>2. IsFiniteSet(1 .. N) /\ Cardinality(1 .. N) = N
      BY <1>1, FS_Interval
    <2> HIDE DEF rank
    <2> QED  BY <2>1, <2>2, FS_Injection
  <1>7. \A k \in 1 .. N : \E x \in S : rank[x] = k
    <2> HIDE DEF rank
    <2> QED  BY <1>6 DEF Surjection
  <1>8. Sorted(S, less) = f
    <2>1. \A k \in 1 .. N : \A x \in S : Cardinality(below(x)) = k - 1 <=> rank[x] = k
      <3> SUFFICES ASSUME NEW k \in 1 .. N, NEW x \in S
                   PROVE  Cardinality(below(x)) = k - 1 <=> rank[x] = k
        OBVIOUS
      <3>1. Cardinality(below(x)) \in Nat /\ rank[x] = Cardinality(below(x)) + 1
        BY <1>2
      <3> HIDE DEF below, rank
      <3> QED  BY <1>1, <3>1
    <2>2. \A k \in 1 .. N : (CHOOSE x \in S : Cardinality(below(x)) = k - 1) = f[k]
      <3> HIDE DEF below, rank
      <3> QED  BY <2>1
    <2> HIDE DEF rank
    <2> QED  BY <2>2 DEF Sorted
  <1>9. f \in [1 .. N -> S] /\ \A k \in 1 .. N : rank[f[k]] = k
    <2> HIDE DEF rank
    <2> QED  BY <1>7
  <1>10. \A i, j \in 1 .. N : i # j => f[i] # f[j]
    <2> HIDE DEF f, rank
    <2> QED  BY <1>9
  <1>11. \A x \in S : \E i \in 1 .. N : f[i] = x
    <2> SUFFICES ASSUME NEW x \in S PROVE f[rank[x]] = x /\ rank[x] \in 1 .. N
      OBVIOUS
    <2>1. rank[x] \in 1 .. N
      BY <1>2
    <2>2. f[rank[x]] \in S /\ rank[f[rank[x]]] = rank[x]
      <3> HIDE DEF f, rank
      <3> QED  BY <1>9, <2>1
    <2> HIDE DEF f, rank
    <2> QED  BY <1>4, <2>1, <2>2
  <1>12. \A i, j \in 1 .. N : i < j => less[<<f[i], f[j]>>]
    <2> SUFFICES ASSUME NEW i \in 1 .. N, NEW j \in 1 .. N, i < j, ~less[<<f[i], f[j]>>] PROVE FALSE
      OBVIOUS
    <2>1. f[i] \in S /\ f[j] \in S /\ f[i] # f[j] /\ rank[f[i]] = i /\ rank[f[j]] = j
      <3> HIDE DEF f, rank
      <3> QED  BY <1>9, <1>10, <1>1
    <2>2. less[<<f[j], f[i]>>]
      <3> HIDE DEF f
      <3> QED  BY <2>1
    <2>3. rank[f[j]] < rank[f[i]]
      <3> HIDE DEF f, rank
      <3> QED  BY <1>3, <2>1, <2>2
    <2> HIDE DEF f, rank
    <2> QED  BY <1>1, <2>1, <2>3
  <1>13. f \in Surjection(1 .. N, S)
    <2> HIDE DEF f
    <2> QED  BY <1>9, <1>11 DEF Surjection
  <1> HIDE DEF f
  <1> QED  BY <1>1, <1>8, <1>10, <1>12, <1>13

(* The same for numbers. *)
LEMMA AscendingOf ==
    ASSUME NEW S \in SUBSET Int, IsFiniteSet(S)
    PROVE  /\ Cardinality(S) \in Nat
           /\ Ascending(S) \in [1 .. Cardinality(S) -> S]
           /\ \A i, j \in 1 .. Cardinality(S) : i < j => Ascending(S)[i] < Ascending(S)[j]
           /\ \A n \in S : \E i \in 1 .. Cardinality(S) : Ascending(S)[i] = n
  <1> DEFINE less == [pair \in S \X S |-> pair[1] < pair[2]]
  <1>1. \A x, y \in S : less[<<x, y>>] <=> x < y
    OBVIOUS
  <1>2. \A x \in S : x \in Int
    OBVIOUS
  <1> HIDE DEF less
  <1>3. /\ \A x, y \in S : x # y => (less[<<x, y>>] <=> ~less[<<y, x>>])
        /\ \A x, y, z \in S : x # y /\ y # z /\ less[<<x, y>>] /\ less[<<y, z>>] => less[<<x, z>>]
    <2>1. \A x, y, z \in S : x # y => (x < y <=> ~(y < x)) /\ (x < y /\ y < z => x < z)
      <3> SUFFICES ASSUME NEW x \in S, NEW y \in S, NEW z \in S, x # y
                   PROVE  (x < y <=> ~(y < x)) /\ (x < y /\ y < z => x < z)
        OBVIOUS
      <3>1. x \in Int /\ y \in Int /\ z \in Int
        BY <1>2
      <3> QED  BY <3>1
    <2> QED  BY <1>1, <2>1
  <1>4. Ascending(S) = Sorted(S, less)
    BY DEF Ascending, less
  <1>5. Cardinality(S) \in Nat /\ Sorted(S, less) \in Surjection(1 .. Cardinality(S), S)
    BY <1>3, SortedOf
  <1>6. \A i, j \in 1 .. Cardinality(S) : i < j => less[<<Sorted(S, less)[i], Sorted(S, less)[j]>>]
    BY <1>3, SortedOf
  <1>7. \A x \in S : \E i \in 1 .. Cardinality(S) : Sorted(S, less)[i] = x
    BY <1>5 DEF Surjection
  <1>8. \A i, j \in 1 .. Cardinality(S) : i < j => Sorted(S, less)[i] < Sorted(S, less)[j]
    <2> DEFINE a == Sorted(S, less)
    <2>1. \A i \in 1 .. Cardinality(S) : a[i] \in S
      BY <1>5 DEF Surjection
    <2>2. \A i, j \in 1 .. Cardinality(S) : i < j => less[<<a[i], a[j]>>]
      BY <1>6
    <2> HIDE DEF a
    <2>3. \A i, j \in 1 .. Cardinality(S) : i < j => a[i] < a[j]
      BY <1>1, <2>1, <2>2
    <2> QED  BY <2>3 DEF a
  <1> QED  BY <1>4, <1>5, <1>7, <1>8 DEF Surjection

(* The list holds elements of q at the places P. *)
OutOf(list, q, P) ==
    /\ Len(list) = Cardinality(P) /\ Cardinality(P) \in Nat
    /\ \A k \in 1 .. Cardinality(P) : \E i \in P : list[k] = q[i]

(* The elements that are left are elements of the list. *)
LEMMA OnlyOf ==
    ASSUME NEW S, NEW q \in Seq(S), NEW P, P \subseteq DOMAIN q
    PROVE  Only(q, P) \in Seq(S) /\ OutOf(Only(q, P), q, P)
  <1>1. Len(q) \in Nat /\ DOMAIN q = 1 .. Len(q) /\ \A i \in 1 .. Len(q) : q[i] \in S
    BY LenProperties
  <1>2. IsFiniteSet(P) /\ P \in SUBSET Int
    <2>1. P \in SUBSET (1 .. Len(q)) /\ IsFiniteSet(1 .. Len(q))
      BY <1>1, FS_Interval
    <2>2. P \in SUBSET Int
      BY <1>1, <2>1
    <2> QED  BY <2>1, <2>2, FS_Subset
  <1>3. Cardinality(P) \in Nat /\ Ascending(P) \in [1 .. Cardinality(P) -> P]
    BY <1>2, AscendingOf
  <1> DEFINE a == Ascending(P)
             n == Cardinality(P)
             b == [k \in 1 .. n |-> q[a[k]]]
  <1> HIDE DEF a, n
  <1>4. n \in Nat /\ a \in [1 .. n -> P] /\ Only(q, P) = b
    BY <1>3 DEF a, n, Only
  <1>5. b \in [1 .. n -> S] /\ \A k \in 1 .. n : a[k] \in P /\ b[k] = q[a[k]]
    BY <1>1, <1>4
  <1> HIDE DEF b
  <1>6. b \in Seq(S) /\ Len(b) = n
    <2>1. b \in Seq(S)
      BY <1>4, <1>5, SeqDef
    <2> QED  BY <1>4, <1>5, <2>1, LenProperties
  <1> QED  BY <1>4, <1>5, <1>6 DEF n, OutOf

(* A list without the element at one place. *)
LEMMA RemoveAtOf ==
    ASSUME NEW S, NEW q \in Seq(S), NEW i \in 1 .. Len(q)
    PROVE  /\ RemoveAt(q, i) \in Seq(S) /\ Len(RemoveAt(q, i)) = Len(q) - 1
           /\ \A j \in 1 .. Len(q) - 1 : RemoveAt(q, i)[j] = IF j < i THEN q[j] ELSE q[j + 1]
  <1>1. Len(q) \in Nat /\ \A j \in 1 .. Len(q) : q[j] \in S
    BY LenProperties
  <1> DEFINE a == SubSeq(q, 1, i - 1)
             b == SubSeq(q, i + 1, Len(q))
  <1>2. a \in Seq(S) /\ Len(a) = i - 1 /\ \A j \in 1 .. i - 1 : a[j] = q[j]
    <2>1. \A j \in 1 .. i - 1 : q[j] \in S
      BY <1>1
    <2> QED  BY <2>1, <1>1, SubSeqProperties
  <1>3. b \in Seq(S) /\ Len(b) = Len(q) - i /\ \A j \in 1 .. Len(q) - i : b[j] = q[j + i]
    <2>1. \A j \in i + 1 .. Len(q) : q[j] \in S
      BY <1>1
    <2> QED  BY <2>1, <1>1, SubSeqProperties
  <1> HIDE DEF a, b
  <1>4. /\ a \o b \in Seq(S) /\ Len(a \o b) = Len(a) + Len(b)
        /\ \A j \in 1 .. Len(a) + Len(b) : (a \o b)[j] = IF j <= Len(a) THEN a[j] ELSE b[j - Len(a)]
    BY <1>2, <1>3, ConcatProperties
  <1>5. RemoveAt(q, i) = a \o b
    BY DEF RemoveAt, a, b
  <1>6. \A j \in 1 .. Len(q) - 1 : (a \o b)[j] = IF j < i THEN q[j] ELSE q[j + 1]
    <2> SUFFICES ASSUME NEW j \in 1 .. Len(q) - 1
                 PROVE  (a \o b)[j] = IF j < i THEN q[j] ELSE q[j + 1]
      OBVIOUS
    <2>1. CASE j < i
      BY <1>1, <1>2, <1>3, <1>4, <2>1
    <2>2. CASE ~(j < i)
      <3>1. j - (i - 1) \in 1 .. Len(q) - i /\ (j - (i - 1)) + i = j + 1
        BY <1>1, <2>2
      <3>2. (a \o b)[j] = b[j - (i - 1)]
        BY <1>1, <1>2, <1>3, <1>4, <2>2
      <3> QED  BY <1>3, <2>2, <3>1, <3>2
    <2> QED  BY <2>1, <2>2
  <1> QED  BY <1>1, <1>2, <1>3, <1>4, <1>5, <1>6

(* A set of one element, and of none, as a list. *)
LEMMA SetToSeqOf == SetToSeq({}) = <<>> /\ \A x : SetToSeq({x}) = <<x>>
  <1>1. ASSUME NEW x PROVE SetToSeq({x}) = <<x>>
    <2>1. Cardinality({x}) = 1
      BY FS_Singleton
    <2>2. IsInjective([i \in 1 .. 1 |-> x])
      BY DEF IsInjective
    <2>3. SetToSeq({x}) \in [1 .. 1 -> {x}]
      BY <2>1, <2>2 DEF SetToSeq
    <2> QED  BY <2>3
  <1>2. SetToSeq({}) = <<>>
    <2>1. Cardinality({}) = 0 /\ 1 .. 0 = {}
      BY FS_EmptySet
    <2>2. \A f \in [1 .. 0 -> {}] : f = <<>>
      OBVIOUS
    <2>3. \E f \in [1 .. 0 -> {}] : IsInjective(f)
      <3> DEFINE g == [x \in 1 .. 0 |-> x]
      <3>1. g \in [1 .. 0 -> {}] /\ DOMAIN g = {}
        BY <2>1
      <3> HIDE DEF g
      <3> QED  BY <3>1 DEF IsInjective
    <2>4. SetToSeq({}) \in [1 .. 0 -> {}]
      BY <2>1, <2>3 DEF SetToSeq
    <2> QED  BY <2>2, <2>4
  <1> QED  BY <1>1, <1>2

-----------------------------------------------------------------------------
(* Tasks, and the entries of the queues. *)
Task == [id : Nat, page : Pages, filter : Filters, type : {"INTERACTIVE", "BATCH"}]
Entries == [page : Pages, task : Task, takenForProcessing : BOOLEAN]

(* A set with an element, and without one. *)
With(S, x) == S \cup {x}
Without(S, x) == S \ {x}

(* The entries of a queue: of one type, for the page of their tasks, each task
   once, and the taken ones first. *)
InOrderOf(list, type) ==
    /\ list \in Seq(Entries)
    /\ \A i \in 1 .. Len(list) : list[i].task.page = list[i].page /\ list[i].task.type = type
    /\ \A i, j \in 1 .. Len(list) : i # j => list[i].task # list[j].task
    /\ \A i, j \in 1 .. Len(list) :
           i < j /\ list[j].takenForProcessing => list[i].takenForProcessing

Taken(list) == {list[i].task : i \in {j \in 1 .. Len(list) : list[j].takenForProcessing}}

(* The two lists of entries and the tasks in flight. *)
Core(pages, leader, inter, batch, inBatch, cancelled, nextId, flight) ==
    /\ InOrderOf(inter, "INTERACTIVE") /\ InOrderOf(batch, "BATCH")
    /\ Len(inter) <= 1
    /\ \A i \in 1 .. Len(inter) : inter[i].takenForProcessing /\ inter[i].page \in pages
    /\ ~inBatch => batch = <<>>
    /\ inBatch => pages # {}
    /\ leader \in IF pages = {} THEN {NoPage} ELSE pages
    /\ nextId \in Nat /\ flight \subseteq Task /\ cancelled \subseteq Task
    /\ \A t \in flight \cup cancelled : t.id < nextId
    /\ \A i \in 1 .. Len(inter) : inter[i].task.id < nextId
    /\ \A i \in 1 .. Len(batch) : batch[i].task.id < nextId
    /\ \A i \in 1 .. Len(batch) :
           ~batch[i].takenForProcessing => batch[i].task \notin flight \cup cancelled
    /\ Taken(inter) \cup Taken(batch) = flight \ cancelled

(* The entries of a list. *)
LEMMA EntriesAre ==
    ASSUME NEW list \in Seq(Entries)
    PROVE  /\ Len(list) \in Nat /\ DOMAIN list = 1 .. Len(list)
           /\ \A i \in 1 .. Len(list) :
                 /\ list[i] \in Entries /\ list[i].task \in Task /\ list[i].page \in Pages
                 /\ list[i].takenForProcessing \in BOOLEAN /\ list[i].task.id \in Nat
  <1>1. /\ Len(list) \in Nat /\ DOMAIN list = 1 .. Len(list)
        /\ \A i \in 1 .. Len(list) : list[i] \in Entries
    BY LenProperties
  <1> QED  BY <1>1 DEF Entries, Task

(* Tasks are in one queue only, as their types are different. *)
LEMMA Apart ==
    ASSUME NEW a, NEW b, InOrderOf(a, "INTERACTIVE"), InOrderOf(b, "BATCH")
    PROVE  Taken(a) \cap Taken(b) = {} /\ Taken(a) \subseteq Task /\ Taken(b) \subseteq Task
  <1>1. /\ \A i \in 1 .. Len(a) : a[i].task \in Task /\ a[i].task.type = "INTERACTIVE"
        /\ \A i \in 1 .. Len(b) : b[i].task \in Task /\ b[i].task.type = "BATCH"
    BY EntriesAre DEF InOrderOf
  <1> QED  BY <1>1 DEF Taken

(* The list of no entries. *)
LEMMA NoEntries ==
    ASSUME NEW type PROVE InOrderOf(<<>>, type) /\ Taken(<<>>) = {} /\ Len(<<>>) = 0
BY DEF InOrderOf, Taken

(* cancelAndClear() of either queue. *)
(* cancelAndClear() leaves an empty queue. *)
LEMMA ClearedInteractive ==
    ASSUME NEW pages, NEW leader, NEW a, NEW b, NEW inBatch, NEW c, NEW n, NEW F,
           Core(pages, leader, a, b, inBatch, c, n, F)
    PROVE  Core(pages, leader, <<>>, b, inBatch, c \cup Taken(a), n, F)
  <1>1. Taken(a) \cap Taken(b) = {} /\ Taken(a) \subseteq Task
    BY Apart DEF Core
  <1>2. Taken(a) \subseteq F
    BY DEF Core
  <1>3. \A i \in 1 .. Len(b) : ~b[i].takenForProcessing => b[i].task \notin Taken(a)
    BY <1>2 DEF Core
  <1> QED  BY <1>1, <1>2, <1>3, NoEntries DEF Core

(* cancelAndClear() of the batch queue; the batch may go on. *)
LEMMA ClearedBatch ==
    ASSUME NEW pages, NEW leader, NEW a, NEW b, NEW inBatch, NEW c, NEW n, NEW F,
           Core(pages, leader, a, b, inBatch, c, n, F), NEW still, still => inBatch
    PROVE  Core(pages, leader, a, <<>>, still, c \cup Taken(b), n, F)
  <1>1. Taken(a) \cap Taken(b) = {} /\ Taken(b) \subseteq Task
    BY Apart DEF Core
  <1>2. Taken(b) \subseteq F
    BY DEF Core
  <1> QED  BY <1>1, <1>2, NoEntries DEF Core

(* A request of the page for a new task, taken at once. *)
LEMMA Requested ==
    ASSUME NEW pages \in SUBSET Pages, NEW leader, NEW b, NEW inBatch, NEW c, NEW n, NEW F,
           Core(pages, leader, <<>>, b, inBatch, c, n, F),
           NEW t \in Task, t.id = n, t.page \in pages, t.type = "INTERACTIVE",
           NEW d \in Seq(Entries), Len(d) = 1,
           d[1].task = t, d[1].page = t.page, d[1].takenForProcessing
    PROVE  Core(pages, leader, d, b, inBatch, c, n + 1, With(F, t)) /\ t \notin F \cup c
  <1>1. t \notin F \cup c /\ n \in Nat
    BY DEF Core
  <1>2. \A i \in 1 .. 1 : i = 1
    OBVIOUS
  <1>3. 1 \in 1 .. 1
    OBVIOUS
  <1>4. InOrderOf(d, "INTERACTIVE") /\ Taken(d) = {t}
    BY <1>2, <1>3 DEF InOrderOf, Taken
  <1>5. \A i \in 1 .. Len(b) : b[i].task.id \in Nat /\ b[i].task.id < n /\ b[i].task # t
    BY EntriesAre DEF Core, InOrderOf
  <1>6. \A u \in F \cup c : u.id < n + 1
    BY <1>1 DEF Core, Task
  <1>7. \A i \in 1 .. Len(b) : b[i].task.id < n + 1
    BY <1>1, <1>5
  <1>8. Taken(<<>>) = {}
    BY NoEntries
  <1>9. Taken(d) \cup Taken(b) = (F \cup {t}) \ c
    BY <1>1, <1>4, <1>8 DEF Core
  <1>10. /\ Len(d) <= 1
         /\ \A i \in 1 .. Len(d) : /\ d[i].takenForProcessing /\ d[i].page \in pages
                                   /\ d[i].task.id < n + 1
    BY <1>1, <1>2, <1>3
  <1>11. \A i \in 1 .. Len(b) : ~b[i].takenForProcessing => b[i].task \notin (F \cup {t}) \cup c
    BY <1>5 DEF Core
  <1>12. n + 1 \in Nat /\ F \cup {t} \subseteq Task /\ t.id < n + 1
    BY <1>1 DEF Core
  <1>13. Core(pages, leader, d, b, inBatch, c, n + 1, F \cup {t})
    BY <1>1, <1>4, <1>6, <1>7, <1>9, <1>10, <1>11, <1>12 DEF Core
  <1> QED  BY <1>1, <1>13 DEF With

(* The entry k is marked as taken. *)
Marked(b, k, d) ==
    /\ d \in Seq(Entries) /\ Len(d) = Len(b)
    /\ d[k].page = b[k].page /\ d[k].task = b[k].task /\ d[k].takenForProcessing
    /\ \A i \in 1 .. Len(b) : i # k => d[i] = b[i]

(* takeForProcessing() marks one entry. *)
LEMMA MarkedBy ==
    ASSUME NEW b \in Seq(Entries), NEW k \in 1 .. Len(b)
    PROVE  Marked(b, k, [b EXCEPT ![k].takenForProcessing = TRUE])
  <1>1. Len(b) \in Nat /\ DOMAIN b = 1 .. Len(b) /\ \A i \in 1 .. Len(b) : b[i] \in Entries
    BY EntriesAre
  <1> DEFINE e == [b[k] EXCEPT !.takenForProcessing = TRUE]
             d == [b EXCEPT ![k] = e]
  <1>2. /\ e \in Entries /\ e.page = b[k].page /\ e.task = b[k].task /\ e.takenForProcessing
    BY <1>1 DEF Entries
  <1>3. [b EXCEPT ![k].takenForProcessing = TRUE] = d
    OBVIOUS
  <1> HIDE DEF e
  <1>4. d \in Seq(Entries) /\ Len(d) = Len(b)
    BY <1>2, ExceptSeq
  <1>5. \A i \in 1 .. Len(b) : d[i] = IF i = k THEN e ELSE b[i]
    BY <1>1
  <1>6. /\ d[k].page = b[k].page /\ d[k].task = b[k].task /\ d[k].takenForProcessing
        /\ \A i \in 1 .. Len(b) : i # k => d[i] = b[i]
    BY <1>2, <1>5
  <1> HIDE DEF d
  <1> QED  BY <1>3, <1>4, <1>6 DEF Marked

(* The first entry that has not been taken is taken. *)
LEMMA TookNext ==
    ASSUME NEW pages, NEW leader, NEW a, NEW b, NEW inBatch, NEW c, NEW n, NEW F,
           Core(pages, leader, a, b, inBatch, c, n, F),
           NEW k \in 1 .. Len(b), ~b[k].takenForProcessing,
           \A i \in 1 .. k - 1 : b[i].takenForProcessing,
           NEW d, Marked(b, k, d)
    PROVE  /\ Core(pages, leader, a, d, inBatch, c, n, With(F, b[k].task))
           /\ b[k].task \in Task /\ b[k].task \notin F
  <1>1. b \in Seq(Entries) /\ Len(b) \in Nat /\ \A i \in 1 .. Len(b) : b[i] \in Entries
    BY EntriesAre DEF Core, InOrderOf
  <1>4. d \in Seq(Entries) /\ Len(d) = Len(b)
    BY DEF Marked
  <1>5. /\ \A i \in 1 .. Len(b) : d[i].page = b[i].page /\ d[i].task = b[i].task
        /\ d[k].takenForProcessing
        /\ \A i \in 1 .. Len(b) : i # k => d[i].takenForProcessing = b[i].takenForProcessing
    BY DEF Marked
  <1>6. \A i \in 1 .. Len(b) : b[i].takenForProcessing => i < k
    BY <1>1 DEF Core, InOrderOf
  <1>7. InOrderOf(d, "BATCH")
    <2>1. InOrderOf(b, "BATCH")
      BY DEF Core
    <2>2. /\ \A i \in 1 .. Len(d) : d[i].task.page = d[i].page /\ d[i].task.type = "BATCH"
          /\ \A i, j \in 1 .. Len(d) : i # j => d[i].task # d[j].task
      BY <1>4, <1>5, <2>1 DEF InOrderOf
    <2>3. \A i, j \in 1 .. Len(d) : i < j /\ d[j].takenForProcessing => d[i].takenForProcessing
      <3>1. \A i \in 1 .. k - 1 : i \in 1 .. Len(b)
        BY <1>1
      <3>2. \A i, j \in 1 .. Len(d) : i < j /\ j <= k => i \in 1 .. k - 1
        BY <1>1, <1>4
      <3>3. \A i \in 1 .. Len(d) : d[i].takenForProcessing => i <= k
        BY <1>1, <1>4, <1>5, <1>6
      <3>4. \A i \in 1 .. k - 1 : d[i].takenForProcessing
        BY <1>5, <3>1
      <3> QED  BY <3>2, <3>3, <3>4
    <2> QED  BY <1>4, <2>2, <2>3 DEF InOrderOf
  <1>8. Taken(d) = Taken(b) \cup {b[k].task}
    <2>1. \A x : x \in Taken(d) => x \in Taken(b) \cup {b[k].task}
      BY <1>4, <1>5 DEF Taken
    <2>2. \A x : x \in Taken(b) \cup {b[k].task} => x \in Taken(d)
      BY <1>4, <1>5 DEF Taken
    <2> QED  BY <2>1, <2>2
  <1>9. b[k].task \in Task /\ b[k].task \notin F \cup c /\ b[k].task.id < n
    BY <1>1 DEF Core, Entries
  <1>10. \A i \in 1 .. Len(d) : ~d[i].takenForProcessing => d[i].task \notin (F \cup {b[k].task}) \cup c
    BY <1>4, <1>5 DEF Core, InOrderOf
  <1>11. inBatch
    BY <1>1 DEF Core
  <1>12. Taken(a) \cup Taken(d) = (F \cup {b[k].task}) \ c
    BY <1>8, <1>9 DEF Core
  <1>13. \A i \in 1 .. Len(d) : d[i].task.id < n
    BY <1>4, <1>5 DEF Core
  <1>14. Core(pages, leader, a, d, inBatch, c, n, F \cup {b[k].task})
    BY <1>7, <1>9, <1>10, <1>11, <1>12, <1>13 DEF Core
  <1> QED  BY <1>4, <1>5, <1>9, <1>14 DEF With

(* The rest of startBatchProcessing(): an entry for each page. *)
LEMMA Filled ==
    ASSUME NEW pages, pages # {}, NEW leader, NEW a, NEW inBatch, NEW c, NEW n, NEW F,
           Core(pages, leader, a, <<>>, inBatch, c, n, F),
           NEW m \in Nat, NEW d \in Seq(Entries), Len(d) = m,
           \A i \in 1 .. m : /\ d[i].task.page = d[i].page /\ d[i].task.type = "BATCH"
                             /\ d[i].task.id = n + i - 1 /\ ~d[i].takenForProcessing
    PROVE  Core(pages, leader, a, d, TRUE, c, n + m, F)
  <1>1. n \in Nat
    BY DEF Core
  <1>2. InOrderOf(d, "BATCH") /\ Taken(d) = {}
    <2>1. \A i, j \in 1 .. m : i # j => d[i].task.id # d[j].task.id
      BY <1>1
    <2> QED  BY <2>1 DEF InOrderOf, Taken
  <1>3. \A i \in 1 .. m : d[i].task.id < n + m /\ d[i].task \notin F \cup c
    BY <1>1 DEF Core
  <1>4. /\ \A t \in F \cup c : t.id < n + m
        /\ \A i \in 1 .. Len(a) : a[i].task.id < n + m
    <2>1. \A t \in F \cup c : t.id \in Nat
      BY DEF Core, Task
    <2>2. \A i \in 1 .. Len(a) : a[i].task.id \in Nat
      BY EntriesAre DEF Core, InOrderOf
    <2>3. \A x \in Nat : x < n => x < n + m
      BY <1>1
    <2> QED  BY <2>1, <2>2, <2>3 DEF Core
  <1>5. Taken(<<>>) = {}
    BY NoEntries
  <1> QED  BY <1>1, <1>2, <1>3, <1>4, <1>5 DEF Core

(* The leader, or the tasks that are cancelled and no longer in flight. *)
LEMMA LedBy ==
    ASSUME NEW pages, NEW leader, NEW a, NEW b, NEW inBatch, NEW c, NEW n, NEW F,
           Core(pages, leader, a, b, inBatch, c, n, F), NEW p \in pages
    PROVE  Core(pages, p, a, b, inBatch, c, n, F)
BY DEF Core

(* A cancelled task is no longer under way: no entry was waiting for it. *)
LEMMA CancelledGone ==
    ASSUME NEW pages, NEW leader, NEW a, NEW b, NEW inBatch, NEW c, NEW n, NEW F,
           Core(pages, leader, a, b, inBatch, c, n, F), NEW t \in c
    PROVE  Core(pages, leader, a, b, inBatch, c, n, Without(F, t))
BY DEF Core, Without

(* The entry k is gone; all the others stay. *)
OneGone(b, k, d) ==
    /\ \A i \in 1 .. Len(d) : \E j \in 1 .. Len(b) : j # k /\ d[i] = b[j]
    /\ \A j \in 1 .. Len(b) : j # k => \E i \in 1 .. Len(d) : d[i] = b[j]

(* The entry of a task goes when its result is there. *)
LEMMA EntryGone ==
    ASSUME NEW type, NEW b, InOrderOf(b, type), NEW k \in 1 .. Len(b), b[k].takenForProcessing,
           NEW d, d = RemoveAt(b, k)
    PROVE  /\ InOrderOf(d, type)
           /\ Taken(d) = Taken(b) \ {b[k].task}
           /\ Len(d) = Len(b) - 1 /\ OneGone(b, k, d)
  <1>1. b \in Seq(Entries) /\ Len(b) \in Nat
    BY LenProperties DEF InOrderOf
  <1>2. /\ d \in Seq(Entries) /\ Len(d) = Len(b) - 1
        /\ \A j \in 1 .. Len(b) - 1 : d[j] = IF j < k THEN b[j] ELSE b[j + 1]
    BY <1>1, RemoveAtOf
  <1> DEFINE from(j) == IF j < k THEN j ELSE j + 1
  <1>3. \A j \in 1 .. Len(d) : from(j) \in 1 .. Len(b) /\ from(j) # k /\ d[j] = b[from(j)]
    BY <1>1, <1>2
  <1>4. \A i, j \in 1 .. Len(d) : (i # j => from(i) # from(j)) /\ (i < j => from(i) < from(j))
    BY <1>1, <1>2
  <1>5. \A j \in 1 .. Len(b) : j # k => \E i \in 1 .. Len(d) : from(i) = j
    <2> SUFFICES ASSUME NEW j \in 1 .. Len(b), j # k PROVE \E i \in 1 .. Len(d) : from(i) = j
      OBVIOUS
    <2>1. CASE j < k
      <3>1. j \in 1 .. Len(d) /\ from(j) = j
        BY <1>1, <1>2, <2>1
      <3> QED  BY <3>1
    <2>2. CASE k < j
      <3>1. j - 1 \in 1 .. Len(d) /\ from(j - 1) = j
        BY <1>1, <1>2, <2>2
      <3> QED  BY <3>1
    <2> QED  BY <1>1, <2>1, <2>2
  <1> HIDE DEF from
  <1>6. InOrderOf(d, type)
    <2>1. \A i \in 1 .. Len(d) : d[i].task.page = d[i].page /\ d[i].task.type = type
      BY <1>3 DEF InOrderOf
    <2>2. \A i, j \in 1 .. Len(d) : i # j => d[i].task # d[j].task
      BY <1>3, <1>4 DEF InOrderOf
    <2>3. \A i, j \in 1 .. Len(d) : i < j /\ d[j].takenForProcessing => d[i].takenForProcessing
      BY <1>3, <1>4 DEF InOrderOf
    <2> QED  BY <1>2, <2>1, <2>2, <2>3 DEF InOrderOf
  <1>7. \A j \in 1 .. Len(b) : j # k => \E i \in 1 .. Len(d) : d[i] = b[j]
    BY <1>3, <1>5
  <1>8. \A i \in 1 .. Len(d) : \E j \in 1 .. Len(b) : j # k /\ d[i] = b[j]
    BY <1>3
  <1>9. Taken(d) = Taken(b) \ {b[k].task}
    <2>1. \A x \in Taken(d) : x \in Taken(b) /\ x # b[k].task
      BY <1>8 DEF Taken, InOrderOf
    <2>2. \A x \in Taken(b) : x # b[k].task => x \in Taken(d)
      BY <1>7 DEF Taken
    <2> QED  BY <2>1, <2>2
  <1> QED  BY <1>2, <1>6, <1>7, <1>8, <1>9 DEF OneGone

(* The result of the request: its entry goes, and there is no other. *)
LEMMA FinishedInteractive ==
    ASSUME NEW pages, NEW leader, NEW a, NEW b, NEW inBatch, NEW c, NEW n, NEW F,
           Core(pages, leader, a, b, inBatch, c, n, F),
           NEW k \in 1 .. Len(a), NEW t, t = a[k].task
    PROVE  RemoveAt(a, k) = <<>> /\ Core(pages, leader, <<>>, b, inBatch, c, n, Without(F, t))
  <1> DEFINE d == RemoveAt(a, k)
  <1>1. a \in Seq(Entries) /\ Len(a) = 1 /\ k = 1
    <2>1. a \in Seq(Entries) /\ Len(a) <= 1
      BY DEF Core, InOrderOf
    <2>2. Len(a) \in Nat
      BY <2>1, EntriesAre
    <2>3. \A m \in Nat : m <= 1 => \A j \in 1 .. m : m = 1 /\ j = 1
      OBVIOUS
    <2>4. Len(a) = 1 /\ k = 1
      BY ONLY <2>1, <2>2, <2>3, k \in 1 .. Len(a)
    <2> QED  BY <2>1, <2>4
  <1>2. /\ Taken(d) = Taken(a) \ {t} /\ Len(d) = 0
    BY <1>1, EntryGone DEF Core
  <1>3. d \in Seq(Entries)
    BY <1>1, RemoveAtOf
  <1> HIDE DEF d
  <1>4. d = <<>>
    BY <1>2, <1>3, EmptySeq
  <1>5. t \in Taken(a)
    BY DEF Core, Taken
  <1>6. Taken(a) \cap Taken(b) = {}
    BY Apart DEF Core
  <1>7. Taken(<<>>) \cup Taken(b) = (F \ {t}) \ c
    BY <1>2, <1>4, <1>5, <1>6 DEF Core
  <1>8. Core(pages, leader, <<>>, b, inBatch, c, n, F \ {t})
    BY <1>7, NoEntries DEF Core
  <1> QED  BY <1>4, <1>8 DEF d, Without

(* A result of the batch: the entry goes with its task. *)
LEMMA FinishedBatch ==
    ASSUME NEW pages, NEW leader, NEW a, NEW b, NEW inBatch, NEW c, NEW n, NEW F,
           Core(pages, leader, a, b, inBatch, c, n, F),
           NEW k \in 1 .. Len(b), b[k].takenForProcessing, NEW t, t = b[k].task
    PROVE  Core(pages, leader, a, RemoveAt(b, k), inBatch, c, n, Without(F, t))
  <1> DEFINE d == RemoveAt(b, k)
  <1>1. /\ InOrderOf(d, "BATCH") /\ Taken(d) = Taken(b) \ {t}
        /\ \A i \in 1 .. Len(d) : \E j \in 1 .. Len(b) : j # k /\ d[i] = b[j]
    <2>1. InOrderOf(b, "BATCH")
      BY DEF Core
    <2> QED  BY <2>1, EntryGone DEF OneGone
  <1> HIDE DEF d
  <1>2. t \in Taken(b)
    BY DEF Taken
  <1>3. Taken(a) \cap Taken(b) = {}
    BY Apart DEF Core
  <1>4. Taken(a) \cup Taken(d) = (F \ {t}) \ c
    BY <1>1, <1>2, <1>3 DEF Core
  <1>5. \A i \in 1 .. Len(d) : /\ d[i].task.id < n
                               /\ ~d[i].takenForProcessing => d[i].task \notin (F \ {t}) \cup c
    BY <1>1 DEF Core
  <1>6. inBatch
    BY DEF Core
  <1>7. Core(pages, leader, a, d, inBatch, c, n, F \ {t})
    BY <1>1, <1>4, <1>5, <1>6 DEF Core
  <1> QED  BY <1>7 DEF d, Without

(* The entries whose pages stay, and the tasks under way for those that go. *)
Staying(a, gone) == {i \in DOMAIN a : a[i].page \notin gone}
Leaving(a, gone) ==
    {a[i].task : i \in {j \in DOMAIN a : a[j].takenForProcessing /\ a[j].page \in gone}}

(* Pages go, with their entry and its task. *)
LEMMA PagesGone ==
    ASSUME NEW pages \in SUBSET Pages, NEW leader, NEW a, NEW b, NEW inBatch, NEW c, NEW n, NEW F,
           Core(pages, leader, a, b, inBatch, c, n, F), ~inBatch,
           NEW gone \in SUBSET pages,
           NEW l, l \in IF pages \ gone = {} THEN {NoPage} ELSE pages \ gone
    PROVE  Core(pages \ gone, l, Only(a, Staying(a, gone)), b, inBatch, c \cup Leaving(a, gone), n, F)
  <1> DEFINE kept == Staying(a, gone)
             d == Only(a, kept)
             x == Leaving(a, gone)
  <1> SUFFICES Core(pages \ gone, l, d, b, inBatch, c \cup x, n, F)
    OBVIOUS
  <1>1. /\ a \in Seq(Entries) /\ Len(a) \in Nat /\ DOMAIN a = 1 .. Len(a)
        /\ \A i \in 1 .. Len(a) : a[i] \in Entries
    BY EntriesAre DEF Core, InOrderOf
  <1>2. /\ d \in Seq(Entries) /\ Len(d) = Cardinality(kept) /\ Cardinality(kept) \in Nat
        /\ \A k \in 1 .. Cardinality(kept) : \E i \in kept : d[k] = a[i]
    <2>1. kept \subseteq DOMAIN a
      BY DEF Staying
    <2>2. d \in Seq(Entries) /\ OutOf(d, a, kept)
      <3> HIDE DEF kept
      <3> QED  BY <1>1, <2>1, OnlyOf
    <2> HIDE DEF d, kept
    <2> QED  BY <2>2 DEF OutOf
  <1>3. b = <<>> /\ Taken(b) = {}
    BY NoEntries DEF Core
  <1>4. /\ \A i \in 1 .. Len(a) : i \in kept <=> a[i].page \notin gone
        /\ \A t : t \in x <=> \E i \in 1 .. Len(a) : t = a[i].task /\ a[i].takenForProcessing
                                                    /\ a[i].page \in gone
        /\ kept \subseteq 1 .. Len(a)
    BY <1>1 DEF Staying, Leaving
  <1> HIDE DEF kept, x, d
  <1>5. Len(a) <= 1 /\ \A i \in 1 .. Len(a) : a[i].takenForProcessing /\ a[i].page \in pages
    BY DEF Core
  <1>6. CASE kept = {}
    <2>1. Len(d) = 0
      BY <1>2, <1>6, FS_EmptySet
    <2>2. d = <<>>
      BY <1>2, <2>1, EmptySeq
    <2>3. x = Taken(a)
      BY <1>1, <1>4, <1>5, <1>6 DEF Taken
    <2>4. Core(pages, leader, <<>>, b, inBatch, c \cup x, n, F)
      BY <2>3, ClearedInteractive
    <2>5. Core(pages \ gone, l, <<>>, b, inBatch, c \cup x, n, F)
      BY <2>4, NoEntries DEF Core
    <2> QED  BY <2>2, <2>5
  <1>7. CASE kept # {}
    <2>1. Len(a) = 1 /\ kept = {1} /\ a[1].page \in pages \ gone
      <3>1. PICK i \in 1 .. Len(a) : i \in kept
        BY <1>4, <1>7
      <3>2. \A m \in Nat : m <= 1 => \A j \in 1 .. m : m = 1 /\ j = 1
        OBVIOUS
      <3>3. Len(a) \in Nat /\ Len(a) <= 1 /\ i \in 1 .. Len(a)
        BY <1>1, <1>5, <3>1
      <3>4. Len(a) = 1 /\ i = 1
        BY ONLY <3>2, <3>3
      <3>5. kept = {1}
        <4>1. \A j \in 1 .. 1 : j = 1
          OBVIOUS
        <4>2. kept \subseteq 1 .. 1 /\ 1 \in kept
          BY <1>4, <3>1, <3>4
        <4> QED  BY ONLY <4>1, <4>2
      <3>6. 1 \in 1 .. Len(a) /\ 1 \in kept
        BY ONLY <3>1, <3>3, <3>4
      <3>7. a[1].page \in pages
        BY <1>5, <3>6
      <3>8. a[1].page \notin gone
        BY <1>4, <3>6
      <3> QED  BY <3>4, <3>5, <3>7, <3>8
    <2>2. Cardinality(kept) = 1
      BY <2>1, FS_Singleton
    <2>3. Len(d) = 1 /\ d[1] = a[1]
      BY <1>2, <2>1, <2>2
    <2>4. d = a
      BY <1>1, <1>2, <2>1, <2>3, SeqEqual
    <2>5. x = {}
      BY <1>1, <1>4, <2>1
    <2>6. Core(pages \ gone, l, a, b, inBatch, c, n, F)
      BY <1>3, <2>1 DEF Core
    <2>7. c \cup x = c
      BY <2>5
    <2> QED  BY <2>4, <2>6, <2>7
  <1> QED  BY <1>6, <1>7

-----------------------------------------------------------------------------
Results == [task : Task, filter : NoFilter .. NumFilters]

(* What is under way: tasks of the list posted to the thread, and results. *)
Flight(line, done) ==
    {line[i] : i \in 1 .. Len(line)} \cup {done[i].task : i \in 1 .. Len(done)}

(* Every task is in one place only. *)
Once(line, done) ==
    /\ line \in Seq(Task) /\ done \in Seq(Results)
    /\ \A i, j \in 1 .. Len(line) : i # j => line[i] # line[j]
    /\ \A i, j \in 1 .. Len(done) : i # j => done[i].task # done[j].task
    /\ \A i \in 1 .. Len(line), j \in 1 .. Len(done) : line[i] # done[j].task

(* What is under way are tasks. *)
LEMMA FlightTyped ==
    ASSUME NEW line, NEW done, Once(line, done) PROVE Flight(line, done) \subseteq Task
  <1>1. /\ \A i \in 1 .. Len(line) : line[i] \in Task
        /\ \A i \in 1 .. Len(done) : done[i] \in Results
    BY LenProperties DEF Once
  <1> QED  BY <1>1 DEF Flight, Results

(* A task is posted. *)
LEMMA Posted ==
    ASSUME NEW line, NEW done, Once(line, done), NEW t \in Task, t \notin Flight(line, done)
    PROVE  /\ Once(Append(line, t), done)
           /\ Flight(Append(line, t), done) = With(Flight(line, done), t)
  <1> DEFINE l == Append(line, t)
  <1>1. Len(line) \in Nat /\ \A i \in 1 .. Len(line) : line[i] \in Task
    BY LenProperties DEF Once
  <1>2. /\ l \in Seq(Task) /\ Len(l) = Len(line) + 1
        /\ \A i \in 1 .. Len(line) : l[i] = line[i]
        /\ l[Len(line) + 1] = t
    BY AppendProperties DEF Once
  <1>3. \A i \in 1 .. Len(l) : i \in 1 .. Len(line) \/ i = Len(line) + 1
    BY <1>1, <1>2
  <1>4. /\ \A i \in 1 .. Len(line) : i \in 1 .. Len(l) /\ l[i] = line[i]
        /\ Len(line) + 1 \in 1 .. Len(l)
    BY <1>1, <1>2
  <1> HIDE DEF l
  <1>5. /\ \A i \in 1 .. Len(line) : line[i] # t
        /\ \A j \in 1 .. Len(done) : done[j].task # t
    BY DEF Flight
  <1>6. Once(l, done)
    <2>1. \A i, j \in 1 .. Len(l) : i # j => l[i] # l[j]
      BY <1>2, <1>3, <1>5 DEF Once
    <2>2. \A i \in 1 .. Len(l), j \in 1 .. Len(done) : l[i] # done[j].task
      BY <1>2, <1>3, <1>5 DEF Once
    <2> QED  BY <1>2, <2>1, <2>2 DEF Once
  <1>7. {l[i] : i \in 1 .. Len(l)} = {line[i] : i \in 1 .. Len(line)} \cup {t}
    <2>1. \A x : (\E i \in 1 .. Len(l) : x = l[i]) => x = t \/ \E i \in 1 .. Len(line) : x = line[i]
      BY <1>2, <1>3
    <2>2. \A i \in 1 .. Len(line) : \E j \in 1 .. Len(l) : line[i] = l[j]
      BY <1>4
    <2>3. \E j \in 1 .. Len(l) : t = l[j]
      BY <1>2, <1>4
    <2> QED  BY <2>1, <2>2, <2>3
  <1> QED  BY <1>6, <1>7 DEF Flight, With, l

(* What the rest of a list holds. *)
LEMMA RestOf ==
    ASSUME NEW S, NEW s \in Seq(S), s # <<>>
    PROVE  /\ Tail(s) \in Seq(S) /\ Len(Tail(s)) \in Nat /\ Head(s) = s[1] /\ 1 \in 1 .. Len(s)
           /\ \A i \in 1 .. Len(Tail(s)) : i + 1 \in 1 .. Len(s) /\ Tail(s)[i] = s[i + 1]
           /\ \A i \in 1 .. Len(s) : i # 1 => i - 1 \in 1 .. Len(Tail(s)) /\ s[i] = Tail(s)[i - 1]
  <1>1. Len(s) \in Nat /\ Len(s) # 0
    BY EmptySeq
  <1>2. /\ Tail(s) \in Seq(S) /\ Len(Tail(s)) = Len(s) - 1
        /\ \A i \in 1 .. Len(Tail(s)) : Tail(s)[i] = s[i + 1]
    BY HeadTailProperties
  <1>3. Head(s) = s[1]
    BY <1>1
  <1>4. \A i \in 1 .. Len(s) : i # 1 => i - 1 \in 1 .. Len(Tail(s)) /\ (i - 1) + 1 = i
    BY <1>1, <1>2
  <1>5. \A i \in 1 .. Len(Tail(s)) : i + 1 \in 1 .. Len(s)
    BY <1>1, <1>2
  <1>6. \A i \in 1 .. Len(s) : i # 1 => s[i] = Tail(s)[i - 1]
    BY <1>2, <1>4
  <1> QED  BY <1>1, <1>2, <1>3, <1>4, <1>5, <1>6

(* The thread drops a task, or hands its result over. *)
LEMMA Dropped ==
    ASSUME NEW line, NEW done, Once(line, done), line # <<>>
    PROVE  /\ Once(Tail(line), done)
           /\ Flight(Tail(line), done) = Without(Flight(line, done), Head(line))
           /\ Head(line) \in Task /\ Head(line) \in Flight(line, done)
  <1> DEFINE l == Tail(line)
             h == Head(line)
  <1>1. /\ l \in Seq(Task) /\ Len(l) \in Nat /\ h = line[1] /\ 1 \in 1 .. Len(line)
        /\ \A i \in 1 .. Len(l) : i + 1 \in 1 .. Len(line) /\ l[i] = line[i + 1]
        /\ \A i \in 1 .. Len(line) : i # 1 => i - 1 \in 1 .. Len(l) /\ line[i] = l[i - 1]
    BY RestOf DEF Once
  <1> HIDE DEF l, h
  <1>2. \A i, j \in 1 .. Len(l) : i # j => i + 1 # j + 1
    BY <1>1
  <1>3. \A i \in 1 .. Len(l) : i + 1 # 1
    BY <1>1
  <1>4. Once(l, done)
    BY <1>1, <1>2 DEF Once
  <1>5. /\ \A i \in 1 .. Len(l) : l[i] # h
        /\ \A j \in 1 .. Len(done) : done[j].task # h
    BY <1>1, <1>3 DEF Once
  <1>6. {l[i] : i \in 1 .. Len(l)} = {line[i] : i \in 1 .. Len(line)} \ {h}
    <2>1. \A i \in 1 .. Len(l) : l[i] # h /\ \E j \in 1 .. Len(line) : l[i] = line[j]
      BY <1>1, <1>5
    <2>2. \A j \in 1 .. Len(line) : line[j] # h => \E i \in 1 .. Len(l) : line[j] = l[i]
      BY <1>1
    <2> QED  BY <2>1, <2>2
  <1>7. h \in Task
    BY <1>1, LenProperties DEF Once
  <1>8. h \in Flight(line, done)
    BY <1>1 DEF Flight
  <1>9. Flight(l, done) = Flight(line, done) \ {h}
    BY <1>5, <1>6 DEF Flight
  <1> QED  BY <1>4, <1>7, <1>8, <1>9 DEF l, h, Without

(* The thread has a result of a task: it is still under way. *)
LEMMA Delivered ==
    ASSUME NEW line, NEW done, Once(line, done), line # <<>>,
           NEW f \in NoFilter .. NumFilters,
           NEW d, d = Append(done, [task |-> Head(line), filter |-> f])
    PROVE  Once(Tail(line), d) /\ Flight(Tail(line), d) = Flight(line, done)
  <1> DEFINE l == Tail(line)
             h == Head(line)
             r == [task |-> h, filter |-> f]
  <1>1. /\ Once(l, done) /\ Flight(l, done) = Flight(line, done) \ {h}
        /\ h \in Task /\ h \in Flight(line, done)
    BY Dropped DEF Without
  <1> HIDE DEF l, h
  <1>2. r \in Results /\ r.task = h
    BY <1>1 DEF Results
  <1>3. d = Append(done, r)
    BY DEF h
  <1> HIDE DEF r
  <1>4. done \in Seq(Results) /\ Len(done) \in Nat
    BY <1>1, LenProperties DEF Once
  <1>5. /\ d \in Seq(Results) /\ Len(d) = Len(done) + 1
        /\ \A i \in 1 .. Len(done) : d[i] = done[i]
        /\ d[Len(done) + 1] = r
    BY <1>2, <1>3, <1>4, AppendProperties
  <1>6. \A i \in 1 .. Len(d) : i \in 1 .. Len(done) \/ i = Len(done) + 1
    BY <1>4, <1>5
  <1>7. /\ \A i \in 1 .. Len(done) : i \in 1 .. Len(d)
        /\ Len(done) + 1 \in 1 .. Len(d)
    BY <1>4, <1>5
  <1>8. h \notin Flight(l, done)
    BY <1>1
  <1>9. /\ \A i \in 1 .. Len(l) : l[i] # h
        /\ \A j \in 1 .. Len(done) : done[j].task # h
    BY <1>8 DEF Flight
  <1>10. Once(l, d)
    <2>1. \A i, j \in 1 .. Len(d) : i # j => d[i].task # d[j].task
      BY <1>1, <1>2, <1>5, <1>6, <1>9 DEF Once
    <2>2. \A i \in 1 .. Len(l), j \in 1 .. Len(d) : l[i] # d[j].task
      BY <1>1, <1>2, <1>5, <1>6, <1>9 DEF Once
    <2> QED  BY <1>1, <1>5, <2>1, <2>2 DEF Once
  <1>11. {d[i].task : i \in 1 .. Len(d)} = {done[i].task : i \in 1 .. Len(done)} \cup {h}
    <2>1. \A i \in 1 .. Len(d) : d[i].task = h \/ \E j \in 1 .. Len(done) : d[i].task = done[j].task
      BY <1>2, <1>5, <1>6
    <2>2. \A j \in 1 .. Len(done) : \E i \in 1 .. Len(d) : d[i].task = done[j].task
      BY <1>5, <1>7
    <2>3. \E i \in 1 .. Len(d) : d[i].task = h
      BY <1>2, <1>5, <1>7
    <2>4. {d[i].task : i \in 1 .. Len(d)} \subseteq {done[i].task : i \in 1 .. Len(done)} \cup {h}
      BY <2>1
    <2>5. {done[i].task : i \in 1 .. Len(done)} \subseteq {d[i].task : i \in 1 .. Len(d)}
      BY <2>2
    <2>6. h \in {d[i].task : i \in 1 .. Len(d)}
      BY <2>3
    <2> QED  BY ONLY <2>4, <2>5, <2>6
  <1>12. Flight(l, d) = Flight(l, done) \cup {h}
    BY <1>11 DEF Flight
  <1>13. Flight(l, d) = Flight(line, done)
    BY <1>1, <1>12
  <1> QED  BY <1>10, <1>13 DEF l

(* The window takes a result. *)
LEMMA Received ==
    ASSUME NEW line, NEW done, Once(line, done), done # <<>>
    PROVE  /\ Once(line, Tail(done))
           /\ Flight(line, Tail(done)) = Without(Flight(line, done), Head(done).task)
           /\ Head(done) \in Results /\ Head(done).task \in Flight(line, done)
  <1> DEFINE d == Tail(done)
             h == Head(done)
  <1>1. /\ d \in Seq(Results) /\ Len(d) \in Nat /\ h = done[1] /\ 1 \in 1 .. Len(done)
        /\ \A i \in 1 .. Len(d) : i + 1 \in 1 .. Len(done) /\ d[i] = done[i + 1]
        /\ \A i \in 1 .. Len(done) : i # 1 => i - 1 \in 1 .. Len(d) /\ done[i] = d[i - 1]
    BY RestOf DEF Once
  <1> HIDE DEF d, h
  <1>2. \A i, j \in 1 .. Len(d) : i # j => i + 1 # j + 1
    BY <1>1
  <1>3. \A i \in 1 .. Len(d) : i + 1 # 1
    BY <1>1
  <1>4. Once(line, d)
    <2>1. \A i, j \in 1 .. Len(d) : i # j => done[i + 1].task # done[j + 1].task
      BY <1>1, <1>2 DEF Once
    <2>2. \A i, j \in 1 .. Len(d) : i # j => d[i].task # d[j].task
      <3>1. \A i \in 1 .. Len(d) : d[i].task = done[i + 1].task
        BY <1>1
      <3> QED  BY ONLY <2>1, <3>1
    <2>3. \A i \in 1 .. Len(line), j \in 1 .. Len(d) : line[i] # done[j + 1].task
      BY <1>1 DEF Once
    <2>4. \A i \in 1 .. Len(line), j \in 1 .. Len(d) : line[i] # d[j].task
      BY <1>1, <2>3
    <2> QED  BY <1>1, <2>2, <2>4 DEF Once
  <1>5. /\ \A i \in 1 .. Len(d) : d[i].task # h.task
        /\ \A j \in 1 .. Len(line) : line[j] # h.task
    <2>1. \A i \in 1 .. Len(d) : done[i + 1].task # done[1].task
      BY <1>1, <1>3 DEF Once
    <2>2. \A i \in 1 .. Len(d) : d[i].task # h.task
      BY <1>1, <2>1
    <2>3. \A j \in 1 .. Len(line) : line[j] # done[1].task
      BY <1>1 DEF Once
    <2> QED  BY <1>1, <2>2, <2>3
  <1>6. {d[i].task : i \in 1 .. Len(d)} = {done[i].task : i \in 1 .. Len(done)} \ {h.task}
    <2>1. \A i \in 1 .. Len(d) : d[i].task # h.task
                                /\ \E j \in 1 .. Len(done) : d[i].task = done[j].task
      BY <1>1, <1>5
    <2>2. \A j \in 1 .. Len(done) : done[j].task # h.task
                                  => \E i \in 1 .. Len(d) : done[j].task = d[i].task
      BY <1>1
    <2>3. {d[i].task : i \in 1 .. Len(d)} \subseteq {done[i].task : i \in 1 .. Len(done)} \ {h.task}
      BY <2>1
    <2>4. \A x \in {done[i].task : i \in 1 .. Len(done)} :
             x # h.task => x \in {d[i].task : i \in 1 .. Len(d)}
      BY <2>2
    <2> QED  BY ONLY <2>3, <2>4
  <1>7. h \in Results
    BY HeadTailProperties DEF Once, h
  <1>8. h.task \in Flight(line, done)
    <2>1. \E i \in 1 .. Len(done) : h.task = done[i].task
      BY <1>1
    <2> QED  BY <2>1 DEF Flight
  <1>9. Flight(line, d) = Flight(line, done) \ {h.task}
    BY <1>5, <1>6 DEF Flight
  <1> QED  BY <1>4, <1>7, <1>8, <1>9 DEF d, h, Without

-----------------------------------------------------------------------------
PageOrNone == Pages \cup {NoPage}

Queue == [order : {"SEQUENTIAL_ORDER", "RANDOM_ORDER"}, queue : Seq(Entries),
          selectedPage : PageOrNone]

(* takeForProcessing(): nothing is left to take, or the first of what is. *)
LEMMA Takes ==
    ASSUME NEW q \in Queue, NEW l, l = q.queue
    PROVE  /\ TakeForProcessing(q) \in Queue
           /\ \/ /\ TakeForProcessing(q) = q
                 /\ SetToSeq(TaskToTake(q)) = <<>>
                 /\ \A i \in 1 .. Len(l) : l[i].takenForProcessing
              \/ \E k \in 1 .. Len(l) :
                    /\ ~l[k].takenForProcessing
                    /\ \A i \in 1 .. k - 1 : l[i].takenForProcessing
                    /\ TakeForProcessing(q).queue = [l EXCEPT ![k].takenForProcessing = TRUE]
                    /\ SetToSeq(TaskToTake(q)) = <<l[k].task>>
  <1>1. /\ l \in Seq(Entries) /\ Len(l) \in Nat /\ DOMAIN l = 1 .. Len(l)
        /\ \A i \in 1 .. Len(l) : l[i] \in Entries /\ l[i].page \in Pages
    <2>1. l \in Seq(Entries)
      BY DEF Queue
    <2> QED  BY <2>1, EntriesAre
  <1>2. Untaken(q) = {i \in 1 .. Len(l) : ~l[i].takenForProcessing}
    BY <1>1 DEF Untaken
  <1> DEFINE U == Untaken(q)
             k == Min(Untaken(q))
  <1>3. CASE U = {}
    <2>1. TaskToTake(q) = {}
      BY <1>3 DEF TaskToTake
    <2>2. SetToSeq(TaskToTake(q)) = <<>>
      BY <2>1, SetToSeqOf
    <2>3. TakeForProcessing(q) = q
      BY <1>3 DEF TakeForProcessing
    <2> QED  BY <1>2, <1>3, <2>2, <2>3
  <1>4. CASE U # {}
    <2>1. U \in SUBSET Nat
      BY <1>1, <1>2
    <2>2. k \in U /\ \A i \in U : k <= i
      BY <1>4, <2>1, MinOf
    <2>3. TaskToTake(q) = {l[k].task}
      BY <2>2 DEF TaskToTake
    <2>4. SetToSeq(TaskToTake(q)) = <<l[k].task>>
      BY <2>3, SetToSeqOf
    <2>5. TakeForProcessing(q) =
             [q EXCEPT !.queue[k].takenForProcessing = TRUE,
                       !.selectedPage = IF q.order = "RANDOM_ORDER" THEN q.queue[k].page ELSE @]
      BY <1>4 DEF TakeForProcessing
    <2> HIDE DEF k, U
    <2>6. k \in 1 .. Len(l) /\ ~l[k].takenForProcessing
      BY <1>2, <2>2 DEF U
    <2>7. \A i \in 1 .. k - 1 : l[i].takenForProcessing
      <3>1. \A i \in 1 .. k - 1 : i \in 1 .. Len(l) /\ ~(k <= i)
        BY <1>1, <2>6
      <3> QED  BY <1>2, <2>2, <3>1 DEF U
    <2> DEFINE e == [l[k] EXCEPT !.takenForProcessing = TRUE]
    <2>8. e \in Entries
      BY <1>1, <2>6 DEF Entries
    <2>9. [l EXCEPT ![k].takenForProcessing = TRUE] = [l EXCEPT ![k] = e]
      OBVIOUS
    <2>10. [l EXCEPT ![k] = e] \in Seq(Entries)
      <3> HIDE DEF e
      <3> QED  BY <1>1, <2>6, <2>8, ExceptSeq
    <2>11. /\ TakeForProcessing(q).queue = [l EXCEPT ![k].takenForProcessing = TRUE]
           /\ TakeForProcessing(q) \in Queue
      <3> DEFINE m == [l EXCEPT ![k].takenForProcessing = TRUE]
                 p == IF q.order = "RANDOM_ORDER" THEN q.queue[k].page ELSE q.selectedPage
      <3>1. TakeForProcessing(q) = [q EXCEPT !.queue = m, !.selectedPage = p]
        BY <2>5
      <3>2. m \in Seq(Entries)
        BY <2>9, <2>10
      <3>3. p \in PageOrNone
        BY <1>1, <2>6 DEF Queue, PageOrNone
      <3> HIDE DEF m, p
      <3>4. TakeForProcessing(q).queue = m /\ TakeForProcessing(q) \in Queue
        BY <3>1, <3>2, <3>3 DEF Queue
      <3> QED  BY <3>4 DEF m
    <2> QED  BY <2>4, <2>6, <2>7, <2>11
  <1> QED  BY <1>3, <1>4

(* The queue p is q without the entry of the task t, if that was taken. *)
FinishedIn(q, t, p) ==
    \/ t \notin Taken(q.queue) /\ p = q
    \/ \E k \in 1 .. Len(q.queue) : /\ q.queue[k].takenForProcessing /\ q.queue[k].task = t
                                     /\ p.queue = RemoveAt(q.queue, k)

(* processingFinished() is faithful to that, though it stops searching early. *)
LEMMA Finishes ==
    ASSUME NEW q \in Queue, NEW type, InOrderOf(q.queue, type), NEW t
    PROVE  ProcessingFinished(q, t) \in Queue /\ FinishedIn(q, t, ProcessingFinished(q, t))
  <1> DEFINE l == q.queue
  <1>1. /\ l \in Seq(Entries) /\ Len(l) \in Nat /\ DOMAIN l = 1 .. Len(l)
        /\ \A i \in 1 .. Len(l) : l[i] \in Entries /\ l[i].page \in Pages
    <2>1. l \in Seq(Entries)
      BY DEF Queue
    <2> QED  BY <2>1, EntriesAre
  <1> DEFINE E == EntriesOf(q, t)
             k == Min(EntriesOf(q, t))
  <1>2. E = {i \in 1 .. Len(l) : l[i].task = t /\ l[i].takenForProcessing}
    <2>1. E = {i \in 1 .. Len(l) : l[i].task = t /\ \A j \in 1 .. i : l[j].takenForProcessing}
      BY <1>1 DEF EntriesOf
    <2>2. \A i \in 1 .. Len(l) : l[i].takenForProcessing <=> \A j \in 1 .. i : l[j].takenForProcessing
      <3> SUFFICES ASSUME NEW i \in 1 .. Len(l)
                   PROVE  l[i].takenForProcessing <=> \A j \in 1 .. i : l[j].takenForProcessing
        OBVIOUS
      <3>1. \A j \in 1 .. i : j \in 1 .. Len(l) /\ (j < i \/ j = i)
        BY <1>1
      <3>2. i \in 1 .. i
        BY <1>1
      <3> QED  BY <3>1, <3>2 DEF InOrderOf
    <2> HIDE DEF E
    <2> QED  BY <2>1, <2>2
  <1>3. CASE E = {}
    <2>1. ProcessingFinished(q, t) = q
      BY <1>3 DEF ProcessingFinished
    <2>2. t \notin Taken(l)
      BY <1>2, <1>3 DEF Taken
    <2> QED  BY <2>1, <2>2 DEF FinishedIn
  <1>4. CASE E # {}
    <2>1. E \in SUBSET Nat
      BY <1>1, <1>2
    <2>2. k \in E
      BY <1>4, <2>1, MinOf
    <2>3. k \in 1 .. Len(l) /\ l[k].task = t /\ l[k].takenForProcessing
      BY <1>2, <2>2
    <2>4. ProcessingFinished(q, t) =
             [q EXCEPT !.queue = RemoveAt(l, k),
                       !.selectedPage = IF q.order = "SEQUENTIAL_ORDER" THEN l[k].page ELSE @]
      BY <1>4 DEF ProcessingFinished
    <2> HIDE DEF k, E
    <2>5. RemoveAt(l, k) \in Seq(Entries)
      BY <1>1, <2>3, RemoveAtOf
    <2>6. ProcessingFinished(q, t) \in Queue /\ ProcessingFinished(q, t).queue = RemoveAt(l, k)
      <3> DEFINE p == IF q.order = "SEQUENTIAL_ORDER" THEN l[k].page ELSE q.selectedPage
                 m == RemoveAt(l, k)
      <3>1. p \in PageOrNone
        BY <1>1, <2>3 DEF Queue, PageOrNone
      <3>2. ProcessingFinished(q, t) = [q EXCEPT !.queue = m, !.selectedPage = p]
        BY <2>4
      <3>3. m \in Seq(Entries)
        BY <2>5
      <3> HIDE DEF p, m
      <3>4. ProcessingFinished(q, t) \in Queue /\ ProcessingFinished(q, t).queue = m
        BY <3>1, <3>2, <3>3 DEF Queue
      <3> QED  BY <3>4 DEF m
    <2> QED  BY <2>3, <2>6 DEF FinishedIn
  <1> QED  BY <1>3, <1>4

(* The tasks of the entries taken. *)
LEMMA TakenOf ==
    ASSUME NEW q \in Queue PROVE TakenTasks(q, Pages) = Taken(q.queue)
  <1>1. \A i \in 1 .. Len(q.queue) : q.queue[i].page \in Pages
    <2>1. q.queue \in Seq(Entries)
      BY DEF Queue
    <2> QED  BY <2>1, EntriesAre
  <1>2. DOMAIN q.queue = 1 .. Len(q.queue)
    BY LenProperties DEF Queue
  <1> QED  BY <1>1, <1>2 DEF TakenTasks, Taken

LEMMA Cleared ==
    ASSUME NEW q \in Queue
    PROVE  CancelAndClear(q) \in Queue /\ CancelAndClear(q).queue = <<>>
BY EmptySeq DEF CancelAndClear, Queue, PageOrNone

-----------------------------------------------------------------------------
Areas == [kind : {"none", "panel", "processing", "batch", "error", "result"},
          page : PageOrNone, filter : NoFilter .. NumFilters]

Windows == [pages : SUBSET Pages, selectionLeader : PageOrNone, curFilter : Filters,
            interactiveQueue : Queue, batchQueue : Queue, inBatch : BOOLEAN,
            cancelled : SUBSET Task, nextId : Nat, posted : Seq(Task), mainArea : Areas]

(* The window s while the list w has been posted and the results r are due. *)
Base(s, w, r) ==
    /\ s \in Windows
    /\ w \in Seq(Task)
    /\ Once(w \o s.posted, r)
    /\ Core(s.pages, s.selectionLeader, s.interactiveQueue.queue, s.batchQueue.queue,
            s.inBatch, s.cancelled, s.nextId, Flight(w \o s.posted, r))

(* What is on display is what is selected, and so is what has been asked for. *)
Shown(s) ==
    /\ s.mainArea.kind \in {"processing", "result"} =>
          /\ s.mainArea.page = s.selectionLeader
          /\ s.mainArea.filter = s.curFilter
    /\ s.inBatch => s.mainArea.kind = "batch"
    /\ ~s.inBatch => \A i \in 1 .. Len(s.interactiveQueue.queue) :
                        s.interactiveQueue.queue[i].page = s.selectionLeader

(* The screens of the main area. *)
LEMMA AreasAre ==
    /\ \A kind \in {"none", "panel", "processing", "batch", "error", "result"} :
          /\ PlainArea(kind) \in Areas /\ PlainArea(kind).kind = kind
          /\ \A p \in Pages, f \in Filters \cup {NoFilter} :
                Area(kind, p, f) \in Areas /\ Area(kind, p, f).kind = kind
                /\ Area(kind, p, f).page = p /\ Area(kind, p, f).filter = f
  <1>1. NumFilters \in Nat /\ NoFilter \in NoFilter .. NumFilters
        /\ \A f \in Filters : f \in NoFilter .. NumFilters
    BY FilterAssumption DEF Filters, NoFilter
  <1> QED  BY <1>1 DEF PlainArea, Area, Areas, PageOrNone

(* setSelection(): the page, unless it is none of the project. *)
LEMMA Selected ==
    ASSUME NEW s, NEW w, NEW r, Base(s, w, r), NEW p, NEW t, t = SetSelection(s, p)
    PROVE  /\ Base(t, w, r)
           /\ t.pages = s.pages /\ t.curFilter = s.curFilter /\ t.inBatch = s.inBatch
           /\ t.interactiveQueue = s.interactiveQueue /\ t.batchQueue = s.batchQueue
           /\ t.mainArea = s.mainArea /\ t.posted = s.posted
           /\ p \in s.pages => t.selectionLeader = p
           /\ p \notin s.pages => t = s
  <1>1. CASE p \in s.pages
    <2>1. t = [s EXCEPT !.selectionLeader = p]
      BY <1>1 DEF SetSelection
    <2>2. /\ t \in Windows /\ t.selectionLeader = p
          /\ t.pages = s.pages /\ t.curFilter = s.curFilter /\ t.inBatch = s.inBatch
          /\ t.interactiveQueue = s.interactiveQueue /\ t.batchQueue = s.batchQueue
          /\ t.mainArea = s.mainArea /\ t.posted = s.posted
          /\ t.cancelled = s.cancelled /\ t.nextId = s.nextId
      BY <1>1, <2>1 DEF Base, Windows, PageOrNone
    <2>3. Base(t, w, r)
      BY <1>1, <2>2, LedBy DEF Base
    <2> QED  BY <1>1, <2>2, <2>3
  <1>2. CASE p \notin s.pages
    <2>1. t = s
      BY <1>2 DEF SetSelection, Base, Windows
    <2> QED  BY <1>2, <2>1
  <1> QED  BY <1>1, <1>2

(* The interactive queue is cleared. *)
LEMMA InteractiveCleared ==
    ASSUME NEW s, NEW w, NEW r, Base(s, w, r), NEW t, t = CancelAndClearInteractive(s)
    PROVE  /\ Base(t, w, r) /\ t.interactiveQueue.queue = <<>>
           /\ t.pages = s.pages /\ t.curFilter = s.curFilter /\ t.inBatch = s.inBatch
           /\ t.batchQueue = s.batchQueue /\ t.mainArea = s.mainArea /\ t.posted = s.posted
           /\ t.selectionLeader = s.selectionLeader
  <1> DEFINE x == TakenTasks(s.interactiveQueue, Pages)
             q == CancelAndClear(s.interactiveQueue)
  <1>1. s.interactiveQueue \in Queue
    BY DEF Base, Windows
  <1>2. x = Taken(s.interactiveQueue.queue) /\ q \in Queue /\ q.queue = <<>>
    BY <1>1, TakenOf, Cleared
  <1>3. x \in SUBSET Task
    BY <1>2, Apart DEF Base, Core
  <1>4. t = [s EXCEPT !.cancelled = s.cancelled \cup x, !.interactiveQueue = q]
    BY DEF CancelAndClearInteractive, Base, Windows
  <1> HIDE DEF x, q
  <1>5. /\ t \in Windows /\ t.cancelled = s.cancelled \cup x /\ t.interactiveQueue = q
        /\ t.pages = s.pages /\ t.curFilter = s.curFilter /\ t.inBatch = s.inBatch
        /\ t.batchQueue = s.batchQueue /\ t.mainArea = s.mainArea /\ t.posted = s.posted
        /\ t.selectionLeader = s.selectionLeader /\ t.nextId = s.nextId
    BY <1>2, <1>3, <1>4 DEF Base, Windows
  <1>6. Core(s.pages, s.selectionLeader, <<>>, s.batchQueue.queue,
             s.inBatch, s.cancelled \cup x, s.nextId, Flight(w \o s.posted, r))
    BY <1>2, ClearedInteractive DEF Base
  <1> QED  BY <1>2, <1>5, <1>6 DEF Base

(* The batch queue is cleared. *)
LEMMA BatchQueueCleared ==
    ASSUME NEW s, NEW w, NEW r, Base(s, w, r), NEW t, t = CancelAndClearBatch(s)
    PROVE  /\ Base(t, w, r) /\ t.batchQueue.queue = <<>>
           /\ t.pages = s.pages /\ t.curFilter = s.curFilter /\ t.inBatch = s.inBatch
           /\ t.interactiveQueue = s.interactiveQueue /\ t.mainArea = s.mainArea /\ t.posted = s.posted
           /\ t.selectionLeader = s.selectionLeader
  <1> DEFINE x == TakenTasks(s.batchQueue, Pages)
             q == CancelAndClear(s.batchQueue)
  <1>1. s.batchQueue \in Queue
    BY DEF Base, Windows
  <1>2. x = Taken(s.batchQueue.queue) /\ q \in Queue /\ q.queue = <<>>
    BY <1>1, TakenOf, Cleared
  <1>3. x \in SUBSET Task
    BY <1>2, Apart DEF Base, Core
  <1>4. t = [s EXCEPT !.cancelled = s.cancelled \cup x, !.batchQueue = q]
    BY DEF CancelAndClearBatch, Base, Windows
  <1> HIDE DEF x, q
  <1>5. /\ t \in Windows /\ t.cancelled = s.cancelled \cup x /\ t.batchQueue = q
        /\ t.pages = s.pages /\ t.curFilter = s.curFilter /\ t.inBatch = s.inBatch
        /\ t.interactiveQueue = s.interactiveQueue /\ t.mainArea = s.mainArea /\ t.posted = s.posted
        /\ t.selectionLeader = s.selectionLeader /\ t.nextId = s.nextId
    BY <1>2, <1>3, <1>4 DEF Base, Windows
  <1>6. Core(s.pages, s.selectionLeader, s.interactiveQueue.queue, <<>>,
             s.inBatch, s.cancelled \cup x, s.nextId, Flight(w \o s.posted, r))
    BY <1>2, ClearedBatch DEF Base
  <1> QED  BY <1>2, <1>5, <1>6 DEF Base

(* The batch is over. *)
LEMMA NoBatch ==
    ASSUME NEW s, NEW w, NEW r, Base(s, w, r), s.batchQueue.queue = <<>>,
           NEW t, t = [s EXCEPT !.inBatch = FALSE]
    PROVE  /\ Base(t, w, r) /\ ~t.inBatch
           /\ t.pages = s.pages /\ t.curFilter = s.curFilter /\ t.posted = s.posted
           /\ t.selectionLeader = s.selectionLeader
  <1>1. /\ t \in Windows /\ ~t.inBatch /\ t.inBatch = FALSE
        /\ t.pages = s.pages /\ t.curFilter = s.curFilter /\ t.posted = s.posted
        /\ t.interactiveQueue = s.interactiveQueue /\ t.batchQueue = s.batchQueue
        /\ t.selectionLeader = s.selectionLeader /\ t.nextId = s.nextId /\ t.cancelled = s.cancelled
    BY DEF Base, Windows
  <1>2. Core(s.pages, s.selectionLeader, s.interactiveQueue.queue, <<>>,
             FALSE, s.cancelled, s.nextId, Flight(w \o s.posted, r))
    BY DEF Base, Core
  <1> QED  BY <1>1, <1>2 DEF Base

(* Another screen and filter. *)
Displaying(s, area, f) == [s EXCEPT !.curFilter = f, !.mainArea = area]

(* Only what is displayed changes, and the filter. *)
LEMMA AreaSet ==
    ASSUME NEW s, NEW w, NEW r, Base(s, w, r), NEW area \in Areas, NEW f \in Filters,
           NEW t, t = Displaying(s, area, f)
    PROVE  /\ Base(t, w, r) /\ t.mainArea = area /\ t.curFilter = f
           /\ t.pages = s.pages /\ t.inBatch = s.inBatch /\ t.posted = s.posted
           /\ t.interactiveQueue = s.interactiveQueue /\ t.batchQueue = s.batchQueue
           /\ t.selectionLeader = s.selectionLeader
  <1>1. /\ t \in Windows /\ t.mainArea = area /\ t.curFilter = f
        /\ t.pages = s.pages /\ t.inBatch = s.inBatch /\ t.posted = s.posted
        /\ t.interactiveQueue = s.interactiveQueue /\ t.batchQueue = s.batchQueue
        /\ t.selectionLeader = s.selectionLeader /\ t.nextId = s.nextId /\ t.cancelled = s.cancelled
    BY DEF Displaying, Base, Windows
  <1> QED  BY <1>1 DEF Base

-----------------------------------------------------------------------------
(* Only what is displayed changes. *)
LEMMA DisplaySet ==
    ASSUME NEW s, NEW w, NEW r, Base(s, w, r), NEW area \in Areas,
           NEW t, t = [s EXCEPT !.mainArea = area]
    PROVE  /\ Base(t, w, r) /\ t.mainArea = area /\ t.curFilter = s.curFilter
           /\ t.pages = s.pages /\ t.inBatch = s.inBatch /\ t.posted = s.posted
           /\ t.interactiveQueue = s.interactiveQueue /\ t.batchQueue = s.batchQueue
           /\ t.selectionLeader = s.selectionLeader
  <1>1. /\ t \in Windows /\ t.mainArea = area /\ t.curFilter = s.curFilter
        /\ t.pages = s.pages /\ t.inBatch = s.inBatch /\ t.posted = s.posted
        /\ t.interactiveQueue = s.interactiveQueue /\ t.batchQueue = s.batchQueue
        /\ t.selectionLeader = s.selectionLeader /\ t.nextId = s.nextId /\ t.cancelled = s.cancelled
    BY DEF Base, Windows
  <1> QED  BY <1>1 DEF Base

(* A task is added to those a slot has posted. *)
LEMMA LineOf ==
    ASSUME NEW w \in Seq(Task), NEW p \in Seq(Task)
    PROVE  /\ p \o <<>> = p
           /\ \A x \in Task : /\ p \o <<x>> \in Seq(Task)
                              /\ w \o (p \o <<x>>) = Append(w \o p, x)
  <1>1. p \o <<>> = p
    BY ConcatEmptySeq
  <1>2. ASSUME NEW x \in Task
        PROVE  p \o <<x>> \in Seq(Task) /\ w \o (p \o <<x>>) = Append(w \o p, x)
    <2>1. <<x>> \in Seq(Task) /\ w \o p \in Seq(Task)
      BY ConcatProperties
    <2>2. p \o <<x>> \in Seq(Task)
      BY <2>1, ConcatProperties
    <2>3. (w \o p) \o <<x>> = w \o (p \o <<x>>)
      BY <2>1, ConcatAssociative
    <2>4. Append(w \o p, x) = (w \o p) \o <<x>>
      BY <2>1, AppendIsConcat
    <2> QED  BY <2>2, <2>3, <2>4
  <1> QED  BY <1>1, <1>2

(* The queue with one request, and what takeForProcessing() makes of it. *)
LEMMA OneRequest ==
    ASSUME NEW c \in Queue, c.queue = <<>>, NEW t \in Task,
           NEW q, q = AddProcessingTask(c, t.page, t),
           NEW u, u = TakeForProcessing(q)
    PROVE  /\ u \in Queue /\ u.queue \in Seq(Entries) /\ Len(u.queue) = 1
           /\ u.queue[1].task = t /\ u.queue[1].page = t.page /\ u.queue[1].takenForProcessing
           /\ SetToSeq(TaskToTake(q)) = <<t>>
  <1> DEFINE f == Entry(t.page, t)
             l == <<f>>
  <1>1. f \in Entries /\ f.task = t /\ f.page = t.page /\ ~f.takenForProcessing
    BY DEF Entry, Entries, Task
  <1>2. q = [c EXCEPT !.queue = l]
    BY DEF AddProcessingTask, Queue
  <1>3. l \in Seq(Entries) /\ Len(l) = 1 /\ l[1] = f
    BY <1>1
  <1>4. q \in Queue /\ q.queue = l
    <2> HIDE DEF l
    <2> QED  BY <1>2, <1>3 DEF Queue
  <1> HIDE DEF f, l
  <1>5. /\ TakeForProcessing(q) \in Queue
        /\ \/ \A i \in 1 .. Len(l) : l[i].takenForProcessing
           \/ \E k \in 1 .. Len(l) :
                    /\ TakeForProcessing(q).queue = [l EXCEPT ![k].takenForProcessing = TRUE]
                    /\ SetToSeq(TaskToTake(q)) = <<l[k].task>>
    BY ONLY <1>4, Takes, ZenonT(60)
  <1>6. /\ \A k \in 1 .. 1 : k = 1
        /\ 1 \in 1 .. Len(l)
    BY <1>3
  <1>7. ~(\A i \in 1 .. Len(l) : l[i].takenForProcessing)
    BY <1>1, <1>3, <1>6
  <1>8. PICK k \in 1 .. Len(l) :
            /\ TakeForProcessing(q).queue = [l EXCEPT ![k].takenForProcessing = TRUE]
            /\ SetToSeq(TaskToTake(q)) = <<l[k].task>>
    BY <1>5, <1>7
  <1>9. k = 1
    BY <1>3, <1>6, <1>8
  <1>10. u.queue = [l EXCEPT ![1].takenForProcessing = TRUE] /\ SetToSeq(TaskToTake(q)) = <<t>>
    BY <1>1, <1>3, <1>8, <1>9
  <1>11. u \in Queue /\ u.queue \in Seq(Entries)
    BY <1>5 DEF Queue
  <1>12. /\ u.queue[1].task = t /\ u.queue[1].page = t.page /\ u.queue[1].takenForProcessing
         /\ DOMAIN u.queue = DOMAIN l
    BY <1>1, <1>3, <1>6, <1>10, LenProperties DEF Entries
  <1>13. Len(u.queue) = 1
    BY <1>3, <1>11, <1>12, LenProperties
  <1> QED  BY <1>10, <1>11, <1>12, <1>13

(* loadPageInteractive(): the request takes the place of the one there was, or
   the page is not ready and nothing is asked for. *)
LEMMA Loads ==
    ASSUME NEW s, NEW w, NEW r, Base(s, w, r), ~s.inBatch, NEW page \in s.pages,
           page = s.selectionLeader,
           NEW t \in LoadPageInteractive(s, page)
    PROVE  Base(t, w, r) /\ Shown(t) /\ ~t.inBatch /\ t.pages = s.pages /\ t.batchQueue = s.batchQueue
  <1> DEFINE c == CancelAndClearInteractive(s)
             k == NewTask(c, page, "INTERACTIVE")
             q == AddProcessingTask(c.interactiveQueue, page, k)
             u == TakeForProcessing(q)
             d == u.queue
             area == Area("processing", page, s.curFilter)
             loading == [PerformTask(c, TaskToTake(q)) EXCEPT
                            !.interactiveQueue = u, !.nextId = @ + 1, !.mainArea = area]
             first == SetSelection(c, Min(c.pages))
             notReady == [first EXCEPT !.mainArea = PlainArea("error")]
  <1>1. t = loading \/ t = notReady
    BY DEF LoadPageInteractive
  <1>2. /\ Base(c, w, r) /\ c.interactiveQueue.queue = <<>>
        /\ c.pages = s.pages /\ c.curFilter = s.curFilter /\ c.inBatch = s.inBatch
        /\ c.batchQueue = s.batchQueue /\ c.mainArea = s.mainArea /\ c.posted = s.posted
        /\ c.selectionLeader = s.selectionLeader
    BY InteractiveCleared
  <1> HIDE DEF c
  <1>3. /\ c \in Windows /\ c.interactiveQueue \in Queue /\ c.nextId \in Nat /\ c.posted \in Seq(Task)
        /\ w \in Seq(Task) /\ page \in Pages /\ page \in PageOrNone /\ c.pages \in SUBSET Pages
        /\ s.curFilter \in Filters /\ c.batchQueue.queue \in Seq(Entries) /\ c.cancelled \in SUBSET Task
    BY <1>2 DEF Base, Windows, PageOrNone, Queue
  <1>4. /\ k \in Task /\ k.id = c.nextId /\ k.page = page /\ k.type = "INTERACTIVE"
    BY <1>2, <1>3 DEF NewTask, Task
  <1> HIDE DEF k
  <1>5. /\ u \in Queue /\ SetToSeq(TaskToTake(q)) = <<k>>
        /\ d \in Seq(Entries) /\ Len(d) = 1
        /\ d[1].task = k /\ d[1].page = k.page /\ d[1].takenForProcessing
    <2>1. q = AddProcessingTask(c.interactiveQueue, k.page, k)
      BY <1>4
    <2> DEFINE iq == c.interactiveQueue
    <2>2. iq \in Queue /\ iq.queue = <<>> /\ k \in Task
      BY <1>2, <1>3, <1>4
    <2> HIDE DEF q
    <2> QED  BY <2>1, <2>2, OneRequest
  <1>7. area \in Areas /\ area.kind = "processing" /\ area.page = page /\ area.filter = s.curFilter
    BY <1>3, AreasAre
  <1>8. CASE t = loading
    <2> DEFINE p == c.posted \o <<k>>
    <2>1. t = [c EXCEPT !.posted = p, !.interactiveQueue = u, !.nextId = c.nextId + 1,
                        !.mainArea = area]
      BY <1>3, <1>5, <1>8 DEF PerformTask, Windows
    <2>2. p \in Seq(Task) /\ w \o p = Append(w \o c.posted, k)
      BY <1>3, <1>4, LineOf
    <2> HIDE DEF u, area, p, q, loading, notReady, first
    <2>3. c.nextId + 1 \in Nat
      BY <1>3
    <2>4. /\ t \in Windows /\ t.posted = p /\ t.interactiveQueue = u /\ t.nextId = c.nextId + 1
          /\ t.mainArea = area /\ t.pages = c.pages /\ t.inBatch = c.inBatch
          /\ t.batchQueue = c.batchQueue /\ t.selectionLeader = c.selectionLeader
          /\ t.curFilter = c.curFilter /\ t.cancelled = c.cancelled
      BY <1>3, <1>5, <1>7, <2>1, <2>2, <2>3 DEF Windows
    <2> DEFINE F == Flight(w \o c.posted, r)
    <2>5. /\ Core(c.pages, c.selectionLeader, d, c.batchQueue.queue, c.inBatch, c.cancelled,
                  c.nextId + 1, With(F, k))
          /\ k \notin F
      <3>1. Core(c.pages, c.selectionLeader, <<>>, c.batchQueue.queue, c.inBatch, c.cancelled,
                 c.nextId, F)
        BY <1>2 DEF Base
      <3>2. /\ d \in Seq(Entries) /\ Len(d) = 1
            /\ d[1].task = k /\ d[1].page = k.page /\ d[1].takenForProcessing
        BY <1>5
      <3> HIDE DEF F, d, u
      <3>3. k.page \in c.pages
        BY <1>2, <1>4
      <3>4. c.pages \in SUBSET Pages /\ k \in Task /\ k.id = c.nextId /\ k.type = "INTERACTIVE"
        BY <1>3, <1>4
      <3>5. Core(c.pages, c.selectionLeader, d, c.batchQueue.queue, c.inBatch, c.cancelled,
                 c.nextId + 1, With(F, k))
        BY ONLY <3>1, <3>2, <3>3, <3>4, Requested
      <3>6. k \notin F
        BY <1>3, <3>1, <3>4 DEF Core
      <3> QED  BY <3>5, <3>6
    <2>6. Once(w \o c.posted, r)
      BY <1>2 DEF Base
    <2>7. Once(w \o p, r) /\ Flight(w \o p, r) = With(F, k)
      <3> DEFINE m == w \o c.posted
                 m2 == w \o p
      <3>1. Once(m, r) /\ k \in Task /\ k \notin Flight(m, r) /\ m2 = Append(m, k)
        BY <1>4, <2>2, <2>5, <2>6
      <3> HIDE DEF m2, m, F, d
      <3>2. Once(m2, r) /\ Flight(m2, r) = With(Flight(m, r), k)
        BY ONLY <3>1, Posted
      <3> QED  BY <3>2 DEF m2, m, F
    <2> HIDE DEF F
    <2>8. Base(t, w, r)
      BY <1>3, <1>5, <2>4, <2>5, <2>7 DEF Base
    <2>9. Shown(t)
      <3>1. \A i \in 1 .. Len(d) : d[i].page = page
        <4>1. \A i \in 1 .. 1 : i = 1
          OBVIOUS
        <4> QED  BY <1>4, <1>5, <4>1
      <3> QED  BY <1>2, <1>5, <1>7, <2>4, <3>1 DEF Shown
    <2> QED  BY <1>2, <2>4, <2>8, <2>9
  <1>9. CASE t = notReady
    <2>1. /\ Base(first, w, r)
          /\ first.pages = c.pages /\ first.inBatch = c.inBatch
          /\ first.interactiveQueue = c.interactiveQueue /\ first.batchQueue = c.batchQueue
      BY <1>2, Selected
    <2> HIDE DEF first
    <2>2. PlainArea("error") \in Areas /\ PlainArea("error").kind = "error"
      BY AreasAre
    <2>3. /\ Base(t, w, r) /\ t.mainArea.kind = "error"
          /\ t.pages = s.pages /\ t.inBatch = s.inBatch
          /\ t.interactiveQueue.queue = <<>> /\ t.batchQueue = s.batchQueue
      BY <1>2, <1>9, <2>1, <2>2, DisplaySet
    <2> HIDE DEF notReady, loading
    <2>4. Shown(t)
      <3>1. \A i \in 1 .. Len(<<>>) : FALSE
        OBVIOUS
      <3> QED  BY <2>3, <3>1 DEF Shown
    <2> QED  BY <2>3, <2>4
  <1> QED  BY <1>1, <1>8, <1>9

(* updateMainArea(): afterwards what is displayed is what is selected. *)
LEMMA Updates ==
    ASSUME NEW s, NEW w, NEW r, Base(s, w, r), NEW t \in UpdateMainArea(s)
    PROVE  /\ Base(t, w, r) /\ Shown(t)
           /\ t.inBatch = s.inBatch /\ t.pages = s.pages /\ t.batchQueue = s.batchQueue
           /\ s.inBatch => t.interactiveQueue = s.interactiveQueue
  <1>1. s \in Windows /\ s.inBatch \in BOOLEAN
    BY DEF Base, Windows
  <1>2. CASE s.pages = {}
    <2>1. t = [s EXCEPT !.mainArea = PlainArea("panel")]
      BY <1>2 DEF UpdateMainArea
    <2>2. PlainArea("panel") \in Areas /\ PlainArea("panel").kind = "panel"
      BY AreasAre
    <2>3. /\ Base(t, w, r) /\ t.mainArea.kind = "panel"
          /\ t.pages = s.pages /\ t.inBatch = s.inBatch
          /\ t.interactiveQueue = s.interactiveQueue /\ t.batchQueue = s.batchQueue
      BY <2>1, <2>2, DisplaySet
    <2>4. ~s.inBatch
      BY <1>2 DEF Base, Core
    <2>5. \A i \in 1 .. Len(s.interactiveQueue.queue) : FALSE
      BY <1>2 DEF Base, Core
    <2>6. Shown(t)
      BY <2>3, <2>4, <2>5 DEF Shown
    <2> QED  BY <2>3, <2>6
  <1>3. CASE s.pages # {} /\ s.inBatch
    <2>1. t = [s EXCEPT !.mainArea = PlainArea("batch")]
      BY <1>3 DEF UpdateMainArea
    <2>2. PlainArea("batch") \in Areas /\ PlainArea("batch").kind = "batch"
      BY AreasAre
    <2>3. /\ Base(t, w, r) /\ t.mainArea.kind = "batch"
          /\ t.pages = s.pages /\ t.inBatch = s.inBatch
          /\ t.interactiveQueue = s.interactiveQueue /\ t.batchQueue = s.batchQueue
      BY <2>1, <2>2, DisplaySet
    <2>4. Shown(t)
      BY <1>3, <2>3 DEF Shown
    <2> QED  BY <2>3, <2>4
  <1>4. CASE s.pages # {} /\ ~s.inBatch
    <2>1. t \in LoadPageInteractive(s, s.selectionLeader)
      BY <1>4 DEF UpdateMainArea
    <2>2. s.selectionLeader \in s.pages
      BY <1>4 DEF Base, Core
    <2>3. Base(t, w, r) /\ Shown(t) /\ ~t.inBatch /\ t.pages = s.pages /\ t.batchQueue = s.batchQueue
      BY <1>4, <2>1, <2>2, Loads
    <2>4. t.inBatch = s.inBatch
      BY <1>1, <1>4, <2>3 DEF Base, Windows
    <2> QED  BY <1>4, <2>3, <2>4
  <1> QED  BY <1>2, <1>3, <1>4

-----------------------------------------------------------------------------
(* The pages of the entries of a queue. *)
PagesOf(list) == {list[i].page : i \in 1 .. Len(list)}

(* The batch takes its next task; its entries stay. *)
LEMMA NextTaken ==
    ASSUME NEW s, NEW w, NEW r, Base(s, w, r), NEW u, u = TakeNext(s)
    PROVE  /\ Base(u, w, r)
           /\ u.pages = s.pages /\ u.curFilter = s.curFilter /\ u.inBatch = s.inBatch
           /\ u.interactiveQueue = s.interactiveQueue /\ u.mainArea = s.mainArea
           /\ Len(u.batchQueue.queue) = Len(s.batchQueue.queue)
           /\ PagesOf(u.batchQueue.queue) = PagesOf(s.batchQueue.queue)
  <1> DEFINE q == s.batchQueue
             b == s.batchQueue.queue
             v == TakeForProcessing(q)
             d == v.queue
             p == s.posted \o SetToSeq(TaskToTake(q))
             t == [PerformTask(s, TaskToTake(q)) EXCEPT !.batchQueue = TakeForProcessing(@)]
             F == Flight(w \o s.posted, r)
  <1>1. u = SetSelection(t, t.batchQueue.selectedPage)
    BY DEF TakeNext
  <1>2. /\ s \in Windows /\ q \in Queue /\ b \in Seq(Entries)
        /\ w \in Seq(Task) /\ s.posted \in Seq(Task)
        /\ Once(w \o s.posted, r)
        /\ Core(s.pages, s.selectionLeader, s.interactiveQueue.queue, b,
                s.inBatch, s.cancelled, s.nextId, F)
    BY DEF Base, Windows, Queue
  <1>3. t = [s EXCEPT !.posted = p, !.batchQueue = v]
    BY <1>2 DEF PerformTask, Windows
  <1>4. /\ v \in Queue
        /\ \/ v = q /\ SetToSeq(TaskToTake(q)) = <<>>
           \/ \E k \in 1 .. Len(b) :
                 /\ ~b[k].takenForProcessing
                 /\ \A i \in 1 .. k - 1 : b[i].takenForProcessing
                 /\ d = [b EXCEPT ![k].takenForProcessing = TRUE]
                 /\ SetToSeq(TaskToTake(q)) = <<b[k].task>>
    BY ONLY <1>2, Takes, ZenonT(60)
  <1> HIDE DEF t
  <1>5. /\ p \in Seq(Task) /\ Once(w \o p, r) /\ Len(d) = Len(b) /\ PagesOf(d) = PagesOf(b)
        /\ Core(s.pages, s.selectionLeader, s.interactiveQueue.queue, d,
                s.inBatch, s.cancelled, s.nextId, Flight(w \o p, r))
    <2>1. CASE v = q /\ SetToSeq(TaskToTake(q)) = <<>>
      <3>1. p = s.posted
        BY <1>2, <2>1, LineOf
      <3>2. d = b
        BY <2>1
      <3> QED  BY <1>2, <3>1, <3>2
    <2>2. CASE \E k \in 1 .. Len(b) :
                 /\ ~b[k].takenForProcessing
                 /\ \A i \in 1 .. k - 1 : b[i].takenForProcessing
                 /\ d = [b EXCEPT ![k].takenForProcessing = TRUE]
                 /\ SetToSeq(TaskToTake(q)) = <<b[k].task>>
      <3>1. PICK k \in 1 .. Len(b) :
                 /\ ~b[k].takenForProcessing
                 /\ \A i \in 1 .. k - 1 : b[i].takenForProcessing
                 /\ d = [b EXCEPT ![k].takenForProcessing = TRUE]
                 /\ SetToSeq(TaskToTake(q)) = <<b[k].task>>
        BY <2>2
      <3> DEFINE x == b[k].task
                 m == w \o s.posted
                 m2 == w \o p
      <3>2. /\ Core(s.pages, s.selectionLeader, s.interactiveQueue.queue, d,
                    s.inBatch, s.cancelled, s.nextId, With(F, x))
            /\ x \in Task /\ x \notin F
        <4>1. Marked(b, k, d)
          <5> HIDE DEF d, b
          <5> QED  BY <1>2, <3>1, MarkedBy
        <4> HIDE DEF d, F, b
        <4> QED  BY <1>2, <3>1, <4>1, TookNext
      <3>3. p = s.posted \o <<x>>
        BY <3>1
      <3>4. p \in Seq(Task) /\ m2 = Append(m, x)
        BY <1>2, <3>2, <3>3, LineOf
      <3>5. Once(m2, r) /\ Flight(m2, r) = With(Flight(m, r), x)
        <4>1. Once(m, r) /\ x \in Task /\ x \notin Flight(m, r) /\ m2 = Append(m, x)
          BY <1>2, <3>2, <3>4
        <4> HIDE DEF m, m2, x
        <4> QED  BY ONLY <4>1, Posted
      <3>6. PagesOf(d) = PagesOf(b) /\ Len(d) = Len(b)
        <4>1. Marked(b, k, d)
          <5> HIDE DEF d, b
          <5> QED  BY <1>2, <3>1, MarkedBy
        <4> HIDE DEF d, b
        <4>2. Len(d) = Len(b) /\ \A i \in 1 .. Len(b) : d[i].page = b[i].page
          BY <4>1 DEF Marked
        <4> QED  BY <4>2 DEF PagesOf
      <3>7. Flight(m2, r) = With(F, x)
        BY <3>5
      <3> HIDE DEF F, x, d, b, p, v, q
      <3> QED  BY <3>2, <3>4, <3>5, <3>6, <3>7
    <2> QED  BY <1>4, <2>1, <2>2
  <1>6. v.queue = d
    OBVIOUS
  <1> HIDE DEF v, p, q, b, d
  <1>7. /\ t \in Windows /\ t.posted = p /\ t.batchQueue = v
        /\ t.pages = s.pages /\ t.curFilter = s.curFilter /\ t.inBatch = s.inBatch
        /\ t.interactiveQueue = s.interactiveQueue /\ t.mainArea = s.mainArea
        /\ t.selectionLeader = s.selectionLeader /\ t.nextId = s.nextId /\ t.cancelled = s.cancelled
    BY <1>2, <1>3, <1>4, <1>5 DEF Windows
  <1>8. Base(t, w, r)
    BY <1>2, <1>5, <1>6, <1>7 DEF Base
  <1>9. /\ Base(u, w, r)
        /\ u.pages = t.pages /\ u.curFilter = t.curFilter /\ u.inBatch = t.inBatch
        /\ u.interactiveQueue = t.interactiveQueue /\ u.batchQueue = t.batchQueue
        /\ u.mainArea = t.mainArea
    BY <1>1, <1>8, Selected
  <1> QED  BY <1>5, <1>6, <1>7, <1>9 DEF b, q

(* stopBatchProcessing(): there is no batch afterwards. *)
LEMMA Stops ==
    ASSUME NEW s, NEW w, NEW r, Base(s, w, r), NEW t \in StopBatchProcessing(s)
    PROVE  Base(t, w, r) /\ Shown(t) /\ ~t.inBatch /\ t.pages = s.pages
  <1> DEFINE a == SetSelection(s, s.batchQueue.selectedPage)
             b == CancelAndClearBatch(a)
             c == [b EXCEPT !.inBatch = FALSE]
  <1>1. t \in UpdateMainArea(c)
    BY DEF StopBatchProcessing
  <1>2. Base(a, w, r) /\ a.pages = s.pages
    BY Selected
  <1> HIDE DEF a
  <1>3. Base(b, w, r) /\ b.batchQueue.queue = <<>> /\ b.pages = s.pages
    BY <1>2, BatchQueueCleared
  <1> HIDE DEF b
  <1>4. Base(c, w, r) /\ ~c.inBatch /\ c.pages = s.pages
    BY <1>3, NoBatch
  <1> HIDE DEF c
  <1> QED  BY <1>1, <1>4, Updates

(* goToPage(): the page is selected and the main area updated. *)
LEMMA Goes ==
    ASSUME NEW s, NEW w, NEW r, Base(s, w, r), NEW page, NEW t \in GoToPage(s, page)
    PROVE  /\ Base(t, w, r) /\ Shown(t) /\ t.inBatch = s.inBatch /\ t.pages = s.pages
           /\ t.batchQueue = s.batchQueue
  <1> DEFINE a == SetSelection(s, page)
  <1>1. t \in UpdateMainArea(a)
    BY DEF GoToPage
  <1>2. Base(a, w, r) /\ a.pages = s.pages /\ a.inBatch = s.inBatch /\ a.batchQueue = s.batchQueue
    BY Selected
  <1> HIDE DEF a
  <1> QED  BY <1>1, <1>2, Updates

(* The end of the batch, which may take the view back to the first page. *)
LEMMA Ends ==
    ASSUME NEW s, NEW w, NEW r, Base(s, w, r), NEW t \in EndBatch(s)
    PROVE  Base(t, w, r) /\ Shown(t) /\ ~t.inBatch /\ t.pages = s.pages
  <1>1. PICK u \in StopBatchProcessing(s) :
           t \in IF u.selectionLeader = Max(u.pages) THEN GoToPage(u, Min(u.pages)) ELSE {u}
    BY DEF EndBatch
  <1>2. Base(u, w, r) /\ Shown(u) /\ ~u.inBatch /\ u.pages = s.pages
    BY Stops
  <1>3. CASE u.selectionLeader = Max(u.pages)
    <2>1. t \in GoToPage(u, Min(u.pages))
      BY <1>1, <1>3
    <2>2. Base(t, w, r) /\ Shown(t) /\ t.inBatch = u.inBatch /\ t.pages = u.pages
      BY <1>2, <2>1, Goes
    <2> QED  BY <1>2, <2>2
  <1>4. CASE u.selectionLeader # Max(u.pages)
    BY <1>1, <1>2, <1>4
  <1> QED  BY <1>3, <1>4

-----------------------------------------------------------------------------
(* The pages from one on. *)
From(pages, start) == {p \in pages : p >= start}

(* The pages of a batch, in order: at least one. *)
LEMMA InOrderFrom ==
    ASSUME NEW pages \in SUBSET Pages, NEW start \in pages,
           NEW todo, todo = Ascending(From(pages, start))
    PROVE  todo \in Seq(pages) /\ Len(todo) # 0
  <1> DEFINE S == {p \in pages : p >= start}
  <1>1. NumPages \in Nat /\ pages \in SUBSET (1 .. NumPages)
    BY PageAssumption DEF Pages
  <1>2. IsFiniteSet(S) /\ S \in SUBSET Int /\ start \in S
    <2>0. \A x \in 1 .. NumPages : x \in Int
      BY <1>1
    <2>1. S \in SUBSET (1 .. NumPages) /\ IsFiniteSet(1 .. NumPages)
      <3>1. IsFiniteSet(1 .. NumPages)
        BY <1>1, FS_Interval
      <3>2. \A x \in S : x \in 1 .. NumPages
        BY <1>1
      <3> QED  BY <3>1, <3>2
    <2>2. start \in Int /\ start >= start
      BY <1>1, <2>0
    <2>3. S \in SUBSET Int /\ start \in S
      BY <1>1, <2>0, <2>1, <2>2
    <2> HIDE DEF S
    <2> QED  BY <2>1, <2>3, FS_Subset
  <1>3. S \in SUBSET pages /\ todo = Ascending(S)
    BY DEF From
  <1> HIDE DEF S
  <1>4. Cardinality(S) \in Nat /\ todo \in [1 .. Cardinality(S) -> S]
    BY <1>2, <1>3, AscendingOf
  <1>5. Cardinality(S) # 0
    BY <1>2, FS_EmptySet
  <1> DEFINE n == Cardinality(S)
  <1> HIDE DEF n
  <1>6. n \in Nat /\ n # 0 /\ todo \in [1 .. n -> pages]
    BY <1>3, <1>4, <1>5 DEF n
  <1>7. todo \in Seq(pages)
    BY <1>6, SeqDef
  <1>8. Len(todo) = n
    BY <1>6
  <1> QED  BY <1>6, <1>7, <1>8

(* The elements of a list. *)
Items(list) == {list[i] : i \in DOMAIN list}

(* The batch queue is filled: an entry, not taken, for each page. *)
LEMMA Fills ==
    ASSUME NEW s, NEW w, NEW r, Base(s, w, r), ~s.inBatch, NEW order \in Orders,
           NEW todo \in Seq(s.pages), Len(todo) # 0,
           NEW u, u = FillBatchQueue(s, order, todo)
    PROVE  /\ Base(u, w, r) /\ u.inBatch
           /\ u.pages = s.pages /\ u.interactiveQueue = s.interactiveQueue
           /\ u.batchQueue.queue # <<>>
           /\ PagesOf(u.batchQueue.queue) = Items(todo)
  <1> DEFINE m == Len(todo)
             task(i) == [NewTask(s, todo[i], "BATCH") EXCEPT !.id = s.nextId + i - 1]
             d == [i \in DOMAIN todo |-> Entry(todo[i], task(i))]
             q == [EmptyQueue(order) EXCEPT !.queue = d]
             n == s.nextId + m
  <1>1. u = [s EXCEPT !.inBatch = TRUE, !.nextId = n, !.batchQueue = q]
    BY DEF FillBatchQueue
  <1>2. /\ m \in Nat /\ m # 0 /\ DOMAIN todo = 1 .. m /\ \A i \in 1 .. m : todo[i] \in s.pages
    BY LenProperties
  <1>3. /\ s \in Windows /\ s.pages \in SUBSET Pages /\ s.curFilter \in Filters /\ s.nextId \in Nat
        /\ s.batchQueue.queue = <<>> /\ s.batchQueue \in Queue
        /\ Core(s.pages, s.selectionLeader, s.interactiveQueue.queue, <<>>,
                s.inBatch, s.cancelled, s.nextId, Flight(w \o s.posted, r))
    BY DEF Base, Windows, Core
  <1> HIDE DEF m
  <1>4. \A i \in 1 .. m : s.nextId + i - 1 \in Nat
    BY <1>2, <1>3
  <1>5. ASSUME NEW i \in 1 .. m
        PROVE  /\ task(i) \in Task /\ task(i).id = s.nextId + i - 1
               /\ task(i).page = todo[i] /\ task(i).type = "BATCH"
    BY <1>2, <1>3, <1>4 DEF NewTask, Task
  <1> HIDE DEF task
  <1>6. ASSUME NEW i \in 1 .. m
        PROVE  /\ Entry(todo[i], task(i)) \in Entries
               /\ Entry(todo[i], task(i)).page = todo[i]
               /\ Entry(todo[i], task(i)).task = task(i)
               /\ ~Entry(todo[i], task(i)).takenForProcessing
    BY <1>2, <1>3, <1>5 DEF Entry, Entries
  <1>7. d = [i \in 1 .. m |-> Entry(todo[i], task(i))]
    BY <1>2
  <1>8. d \in [1 .. m -> Entries] /\ \A i \in 1 .. m : d[i] = Entry(todo[i], task(i))
    BY <1>6, <1>7
  <1> HIDE DEF d
  <1>9. d \in Seq(Entries) /\ Len(d) = m
    <2>1. d \in Seq(Entries)
      BY <1>2, <1>8, SeqDef
    <2>2. Len(d) = m
      BY <1>2, <1>8
    <2> QED  BY <2>1, <2>2
  <1>10. \A i \in 1 .. m : /\ d[i].task.page = d[i].page /\ d[i].task.type = "BATCH"
                           /\ d[i].task.id = s.nextId + i - 1 /\ ~d[i].takenForProcessing
                           /\ d[i].page = todo[i]
    BY <1>5, <1>6, <1>8
  <1>11. q \in Queue /\ q.queue = d
    <2>1. order \in {"SEQUENTIAL_ORDER", "RANDOM_ORDER"}
      BY BoundAssumption
    <2> QED  BY <1>9, <2>1 DEF EmptyQueue, Queue, PageOrNone
  <1>12. n \in Nat
    BY <1>2, <1>3
  <1>13. s.pages # {}
    <2>1. todo[1] \in s.pages
      BY <1>2
    <2> QED  BY <2>1
  <1>14. Core(s.pages, s.selectionLeader, s.interactiveQueue.queue, d,
              TRUE, s.cancelled, n, Flight(w \o s.posted, r))
    <2> DEFINE F == Flight(w \o s.posted, r)
    <2> HIDE DEF F
    <2>1. Core(s.pages, s.selectionLeader, s.interactiveQueue.queue, <<>>,
               s.inBatch, s.cancelled, s.nextId, F)
      BY <1>3 DEF F
    <2>2. Core(s.pages, s.selectionLeader, s.interactiveQueue.queue, d,
               TRUE, s.cancelled, s.nextId + m, F)
      BY <1>2, <1>9, <1>10, <1>13, <2>1, Filled
    <2> QED  BY <2>2 DEF F
  <1>15. PagesOf(d) = Items(todo)
    BY <1>2, <1>9, <1>10 DEF PagesOf, Items
  <1>16. d # <<>>
    BY <1>2, <1>9
  <1> HIDE DEF q, n
  <1>17. /\ u \in Windows /\ u.inBatch = TRUE /\ u.nextId = n /\ u.batchQueue = q
         /\ u.pages = s.pages /\ u.interactiveQueue = s.interactiveQueue /\ u.posted = s.posted
         /\ u.selectionLeader = s.selectionLeader /\ u.cancelled = s.cancelled
    BY <1>1, <1>3, <1>11, <1>12 DEF Windows
  <1>18. Base(u, w, r)
    BY <1>11, <1>14, <1>17 DEF Base
  <1> QED  BY <1>11, <1>15, <1>16, <1>17, <1>18

(* The pages of a queue, when an entry goes. *)
LEMMA PageDone ==
    ASSUME NEW type, NEW b, InOrderOf(b, type), NEW k \in 1 .. Len(b), b[k].takenForProcessing,
           NEW d, d = RemoveAt(b, k)
    PROVE  PagesOf(b) = With(PagesOf(d), b[k].page)
  <1>0. OneGone(b, k, d)
    BY EntryGone
  <1>1. ASSUME NEW x \in PagesOf(b) PROVE x \in PagesOf(d) \cup {b[k].page}
    <2>1. PICK j \in 1 .. Len(b) : x = b[j].page
      BY <1>1 DEF PagesOf
    <2>2. CASE j = k
      BY <2>1, <2>2
    <2>3. CASE j # k
      <3>1. PICK i \in 1 .. Len(d) : d[i] = b[j]
        BY <1>0, <2>3 DEF OneGone
      <3> QED  BY <2>1, <3>1 DEF PagesOf
    <2> QED  BY <2>2, <2>3
  <1>2. ASSUME NEW x \in PagesOf(d) PROVE x \in PagesOf(b)
    <2>1. PICK i \in 1 .. Len(d) : x = d[i].page
      BY <1>2 DEF PagesOf
    <2>2. PICK j \in 1 .. Len(b) : d[i] = b[j]
      BY <1>0 DEF OneGone
    <2> QED  BY <2>1, <2>2 DEF PagesOf
  <1>3. b[k].page \in PagesOf(b)
    BY DEF PagesOf
  <1> QED  BY <1>1, <1>2, <1>3 DEF With

(* filterResult() tells the queues that the task is finished. *)
Answered(s, task) ==
    [s EXCEPT !.interactiveQueue = ProcessingFinished(@, task),
              !.batchQueue = IF s.inBatch THEN ProcessingFinished(@, task) ELSE @]

(* The result is that of a task somebody cancelled, which has no entry, or of
   the request, or of an entry of the batch, which goes. *)
LEMMA Arrives ==
    ASSUME NEW s, NEW w, NEW r, Base(s, w, r), r # <<>>, s.posted = <<>>,
           NEW task, task = Head(r).task,
           NEW t, t = Answered(s, task)
    PROVE  /\ Base(t, w, Tail(r)) /\ task \in Task /\ Head(r).filter \in NoFilter .. NumFilters
           /\ t.pages = s.pages /\ t.selectionLeader = s.selectionLeader /\ t.inBatch = s.inBatch
           /\ t.curFilter = s.curFilter /\ t.mainArea = s.mainArea /\ t.cancelled = s.cancelled
           /\ t.posted = <<>>
           /\ \/ /\ task \in s.cancelled
                 /\ t.interactiveQueue = s.interactiveQueue /\ t.batchQueue = s.batchQueue
              \/ /\ task \notin s.cancelled /\ task.type = "INTERACTIVE"
                 /\ 1 \in 1 .. Len(s.interactiveQueue.queue)
                 /\ s.interactiveQueue.queue[1].page = task.page
                 /\ t.interactiveQueue.queue = <<>> /\ t.batchQueue = s.batchQueue
              \/ /\ task \notin s.cancelled /\ task.type = "BATCH" /\ s.inBatch
                 /\ t.interactiveQueue = s.interactiveQueue
                 /\ s.batchQueue.queue # <<>>
                 /\ PagesOf(s.batchQueue.queue) = PagesOf(t.batchQueue.queue) \cup {task.page}
  <1> DEFINE F == Flight(w \o s.posted, r)
             G == Flight(w \o s.posted, Tail(r))
             a == s.interactiveQueue.queue
             b == s.batchQueue.queue
             p == ProcessingFinished(s.interactiveQueue, task)
             q == IF s.inBatch THEN ProcessingFinished(s.batchQueue, task) ELSE s.batchQueue
  <1>1. /\ s \in Windows /\ s.interactiveQueue \in Queue /\ s.batchQueue \in Queue
        /\ s.inBatch \in BOOLEAN /\ w \in Seq(Task)
        /\ Once(w \o s.posted, r)
        /\ Core(s.pages, s.selectionLeader, a, b, s.inBatch, s.cancelled, s.nextId, F)
    BY DEF Base, Windows
  <1>2. /\ Once(w \o s.posted, Tail(r)) /\ G = Without(F, task)
        /\ Head(r) \in Results /\ task \in F
    <2> DEFINE m == w \o s.posted
    <2> HIDE DEF m
    <2>1. Once(m, r)
      BY <1>1 DEF m
    <2>2. /\ Once(m, Tail(r))
          /\ Flight(m, Tail(r)) = Without(Flight(m, r), Head(r).task)
          /\ Head(r) \in Results /\ Head(r).task \in Flight(m, r)
      BY <2>1, Received
    <2> QED  BY <2>2 DEF m
  <1>3. task \in Task /\ Head(r).filter \in NoFilter .. NumFilters
    BY <1>2 DEF Results
  <1>4. t = [s EXCEPT !.interactiveQueue = p, !.batchQueue = q]
    BY <1>1 DEF Answered, Windows
  <1> HIDE DEF F, G
  <1>5. /\ InOrderOf(a, "INTERACTIVE") /\ InOrderOf(b, "BATCH")
        /\ Len(a) \in Nat /\ Len(a) <= 1 /\ (~s.inBatch => b = <<>>)
        /\ Taken(a) \cup Taken(b) = F \ s.cancelled
        /\ Taken(a) \cap Taken(b) = {}
    <2>1. /\ InOrderOf(a, "INTERACTIVE") /\ InOrderOf(b, "BATCH")
          /\ Len(a) <= 1 /\ (~s.inBatch => b = <<>>)
          /\ Taken(a) \cup Taken(b) = F \ s.cancelled
      BY <1>1 DEF Core
    <2>2. Len(a) \in Nat
      BY <2>1, LenProperties DEF InOrderOf
    <2> HIDE DEF a, b
    <2>3. Taken(a) \cap Taken(b) = {}
      BY <2>1, Apart
    <2> QED  BY <2>1, <2>2, <2>3
  <1>6. /\ p \in Queue
        /\ \/ task \notin Taken(a) /\ p = s.interactiveQueue
           \/ \E k \in 1 .. Len(a) : /\ a[k].takenForProcessing /\ a[k].task = task
                                     /\ p.queue = RemoveAt(a, k)
    <2>1. InOrderOf(s.interactiveQueue.queue, "INTERACTIVE")
      BY <1>5
    <2>2. p \in Queue /\ FinishedIn(s.interactiveQueue, task, p)
      BY <1>1, <2>1, Finishes
    <2> HIDE DEF p
    <2> QED  BY <2>2 DEF FinishedIn
  <1>7. /\ q \in Queue
        /\ \/ task \notin Taken(b) /\ q = s.batchQueue
           \/ \E k \in 1 .. Len(b) : /\ b[k].takenForProcessing /\ b[k].task = task
                                     /\ q.queue = RemoveAt(b, k)
    <2>1. CASE s.inBatch
      <3>1. InOrderOf(s.batchQueue.queue, "BATCH") /\ q = ProcessingFinished(s.batchQueue, task)
        BY <1>5, <2>1
      <3>2. q \in Queue /\ FinishedIn(s.batchQueue, task, q)
        BY <1>1, <3>1, Finishes
      <3> HIDE DEF q
      <3> QED  BY <3>2 DEF FinishedIn
    <2>2. CASE ~s.inBatch
      <3>1. b = <<>> /\ q = s.batchQueue
        BY <1>5, <2>2
      <3>2. task \notin Taken(b)
        BY <3>1, NoEntries
      <3> QED  BY <1>1, <3>1, <3>2
    <2> QED  BY <2>1, <2>2
  <1> DEFINE C(x, y) == Core(s.pages, s.selectionLeader, x, y, s.inBatch, s.cancelled, s.nextId, G)
  <1>8. \/ /\ task \in s.cancelled
           /\ p = s.interactiveQueue /\ q = s.batchQueue /\ C(a, b)
        \/ /\ task \notin s.cancelled /\ task.type = "INTERACTIVE"
           /\ 1 \in 1 .. Len(a) /\ a[1].page = task.page
           /\ p.queue = <<>> /\ q = s.batchQueue /\ C(<<>>, b)
        \/ /\ task \notin s.cancelled /\ task.type = "BATCH" /\ s.inBatch
           /\ p = s.interactiveQueue /\ b # <<>>
           /\ PagesOf(b) = PagesOf(q.queue) \cup {task.page} /\ C(a, q.queue)
    <2> HIDE DEF p, q, a, b
    <2>1. CASE task \in s.cancelled
      <3>1. task \notin Taken(a) /\ task \notin Taken(b)
        BY <1>5, <2>1
      <3>2. /\ \A k \in 1 .. Len(a) : ~(a[k].takenForProcessing /\ a[k].task = task)
            /\ \A k \in 1 .. Len(b) : ~(b[k].takenForProcessing /\ b[k].task = task)
        BY <3>1 DEF Taken
      <3>3. p = s.interactiveQueue /\ q = s.batchQueue
        BY <1>6, <1>7, <3>2
      <3>4. C(a, b)
        BY <1>1, <1>2, <2>1, CancelledGone DEF a, b
      <3> QED  BY <2>1, <3>3, <3>4
    <2>2. CASE task \notin s.cancelled /\ task \in Taken(a)
      <3>1. PICK k \in 1 .. Len(a) : /\ a[k].takenForProcessing /\ a[k].task = task
                                     /\ p.queue = RemoveAt(a, k)
        BY <1>6, <2>2
      <3>2. task \notin Taken(b)
        BY <1>5, <2>2
      <3>3. \A j \in 1 .. Len(b) : ~(b[j].takenForProcessing /\ b[j].task = task)
        BY <3>2 DEF Taken
      <3>4. q = s.batchQueue
        BY <1>7, <3>3
      <3>5. RemoveAt(a, k) = <<>> /\ C(<<>>, b)
        <4>1. Core(s.pages, s.selectionLeader, a, b, s.inBatch, s.cancelled, s.nextId, F)
          BY <1>1 DEF a, b
        <4>2. RemoveAt(a, k) = <<>>
               /\ Core(s.pages, s.selectionLeader, <<>>, b, s.inBatch, s.cancelled, s.nextId,
                        Without(F, task))
          BY <3>1, <4>1, FinishedInteractive
        <4> QED  BY <1>2, <4>2
      <3>6. k = 1
        <4>1. \A x \in Nat : x <= 1 => \A j \in 1 .. x : j = 1
          OBVIOUS
        <4> QED  BY <1>5, <3>1, <4>1
      <3>7. a[k].task.page = a[k].page /\ a[k].task.type = "INTERACTIVE"
        BY <1>5, <3>1 DEF InOrderOf
      <3> QED  BY <2>2, <3>1, <3>4, <3>5, <3>6, <3>7
    <2>3. CASE task \notin s.cancelled /\ task \notin Taken(a)
      <3>1. task \in Taken(b)
        BY <1>2, <1>5, <2>3
      <3>2. PICK k \in 1 .. Len(b) : /\ b[k].takenForProcessing /\ b[k].task = task
                                     /\ q.queue = RemoveAt(b, k)
        BY <1>7, <3>1
      <3>3. \A j \in 1 .. Len(a) : ~(a[j].takenForProcessing /\ a[j].task = task)
        BY <2>3 DEF Taken
      <3>4. p = s.interactiveQueue
        BY <1>6, <3>3
      <3>5. b # <<>> /\ s.inBatch
        <4>1. b # <<>>
          BY <3>1, NoEntries
        <4> QED  BY <1>1, <1>5, <4>1
      <3>6. b[k].task.page = b[k].page /\ b[k].task.type = "BATCH"
        BY <1>5, <3>2 DEF InOrderOf
      <3>7. C(a, q.queue)
        <4>1. Core(s.pages, s.selectionLeader, a, b, s.inBatch, s.cancelled, s.nextId, F)
          BY <1>1 DEF a, b
        <4>2. Core(s.pages, s.selectionLeader, a, RemoveAt(b, k), s.inBatch, s.cancelled, s.nextId,
                   Without(F, task))
          BY <3>2, <4>1, FinishedBatch
        <4> QED  BY <1>2, <3>2, <4>2
      <3>8. PagesOf(b) = PagesOf(q.queue) \cup {task.page}
        <4> DEFINE d == RemoveAt(b, k)
        <4>1. /\ InOrderOf(b, "BATCH") /\ b[k].takenForProcessing /\ k \in 1 .. Len(b)
              /\ d = RemoveAt(b, k)
          BY <1>5, <3>2
        <4> HIDE DEF d
        <4>2. PagesOf(b) = With(PagesOf(d), b[k].page)
          BY <4>1, PageDone
        <4>3. q.queue = d /\ b[k].page = task.page
          BY <3>2, <3>6 DEF d
        <4> QED  BY <4>2, <4>3 DEF With
      <3> QED  BY <2>3, <3>2, <3>4, <3>5, <3>6, <3>7, <3>8
    <2> QED  BY <2>1, <2>2, <2>3
  <1> HIDE DEF p, q
  <1>9. /\ t \in Windows /\ t.interactiveQueue = p /\ t.batchQueue = q
        /\ t.pages = s.pages /\ t.selectionLeader = s.selectionLeader /\ t.inBatch = s.inBatch
        /\ t.curFilter = s.curFilter /\ t.mainArea = s.mainArea /\ t.cancelled = s.cancelled
        /\ t.posted = s.posted /\ t.nextId = s.nextId
    BY <1>1, <1>4, <1>6, <1>7 DEF Windows
  <1>10. C(p.queue, q.queue)
    BY <1>8
  <1>11. Base(t, w, Tail(r))
    BY <1>1, <1>2, <1>9, <1>10 DEF Base, G
  <1> HIDE DEF C
  <1> QED  BY <1>3, <1>8, <1>9, <1>11

-----------------------------------------------------------------------------
(* The window once it has handed over what a slot has posted. *)
Handed(s) == [s EXCEPT !.posted = <<>>]

(* What a slot has posted goes to the thread. *)
LEMMA PassedOn ==
    ASSUME NEW s, NEW w, NEW r, Base(s, w, r)
    PROVE  /\ Base(Handed(s), w \o s.posted, r) /\ Handed(s).posted = <<>>
           /\ Shown(s) => Shown(Handed(s))
           /\ Handed(s).pages = s.pages /\ Handed(s).inBatch = s.inBatch
           /\ Handed(s).interactiveQueue = s.interactiveQueue
           /\ Handed(s).batchQueue = s.batchQueue
  <1> DEFINE t == [s EXCEPT !.posted = <<>>]
             l == w \o s.posted
  <1>1. /\ s \in Windows /\ w \in Seq(Task) /\ s.posted \in Seq(Task) /\ Once(w \o s.posted, r)
        /\ Core(s.pages, s.selectionLeader, s.interactiveQueue.queue, s.batchQueue.queue,
                s.inBatch, s.cancelled, s.nextId, Flight(w \o s.posted, r))
    BY DEF Base, Windows
  <1>2. l \in Seq(Task) /\ l \o <<>> = l /\ <<>> \in Seq(Task)
    BY <1>1, ConcatProperties, ConcatEmptySeq, EmptySeq
  <1>3. /\ t \in Windows /\ t.posted = <<>>
        /\ t.pages = s.pages /\ t.curFilter = s.curFilter /\ t.inBatch = s.inBatch
        /\ t.interactiveQueue = s.interactiveQueue /\ t.batchQueue = s.batchQueue
        /\ t.mainArea = s.mainArea
        /\ t.selectionLeader = s.selectionLeader /\ t.nextId = s.nextId /\ t.cancelled = s.cancelled
    BY <1>1, <1>2 DEF Windows
  <1>4. l \o t.posted = w \o s.posted
    BY <1>2, <1>3 DEF l
  <1>5. Base(t, l, r)
    <2> HIDE DEF l, t
    <2> QED  BY <1>1, <1>2, <1>3, <1>4 DEF Base
  <1>6. Shown(s) => Shown(t)
    BY <1>3 DEF Shown
  <1> HIDE DEF t
  <1>7. Handed(s) = t
    BY DEF Handed, t
  <1> QED  BY <1>3, <1>5, <1>6, <1>7

(* The filter is another one. *)
LEMMA FilterSet ==
    ASSUME NEW s, NEW w, NEW r, Base(s, w, r), NEW f \in Filters,
           NEW t, t = [s EXCEPT !.curFilter = f]
    PROVE  /\ Base(t, w, r) /\ t.pages = s.pages /\ t.inBatch = s.inBatch
           /\ t.interactiveQueue = s.interactiveQueue /\ t.batchQueue = s.batchQueue
  <1>1. /\ t \in Windows /\ t.posted = s.posted
        /\ t.pages = s.pages /\ t.inBatch = s.inBatch
        /\ t.interactiveQueue = s.interactiveQueue /\ t.batchQueue = s.batchQueue
        /\ t.selectionLeader = s.selectionLeader /\ t.nextId = s.nextId /\ t.cancelled = s.cancelled
    BY DEF Base, Windows
  <1> QED  BY <1>1 DEF Base

(* removeFromProject() up to the update of the main area. *)
LEMMA Removes ==
    ASSUME NEW s, NEW w, NEW r, Base(s, w, r), ~s.inBatch,
           NEW gone \in SUBSET s.pages,
           NEW leader, leader \in IF s.pages \ gone = {} THEN {NoPage} ELSE s.pages \ gone,
           NEW t, t = [s EXCEPT !.cancelled = @ \cup TakenTasks(s.interactiveQueue, gone),
                                !.interactiveQueue = CancelAndRemove(@, gone),
                                !.pages = s.pages \ gone,
                                !.selectionLeader = leader]
    PROVE  Base(t, w, r) /\ ~t.inBatch
  <1> DEFINE a == s.interactiveQueue.queue
             F == Flight(w \o s.posted, r)
             d == Only(a, Staying(a, gone))
             x == Leaving(a, gone)
             q == CancelAndRemove(s.interactiveQueue, gone)
             c == s.cancelled \cup x
             pages == s.pages \ gone
  <1>1. /\ s \in Windows /\ s.interactiveQueue \in Queue /\ s.pages \in SUBSET Pages
        /\ s.cancelled \in SUBSET Task
        /\ w \in Seq(Task) /\ Once(w \o s.posted, r)
        /\ Core(s.pages, s.selectionLeader, a, s.batchQueue.queue,
                s.inBatch, s.cancelled, s.nextId, F)
    BY DEF Base, Windows
  <1>2. Core(pages, leader, d, s.batchQueue.queue, s.inBatch, c, s.nextId, F)
    <2> HIDE DEF F, a
    <2> QED  BY <1>1, PagesGone
  <1>3. d \in Seq(Entries) /\ c \in SUBSET Task
    BY <1>2 DEF Core, InOrderOf
  <1>4. q \in Queue /\ q.queue = d
    <2> DEFINE removed == {a[i].page : i \in DOMAIN a} \cap gone
               p == IF s.interactiveQueue.selectedPage \in removed THEN NoPage
                    ELSE s.interactiveQueue.selectedPage
    <2>1. q = [s.interactiveQueue EXCEPT !.queue = d, !.selectedPage = p]
      BY <1>1 DEF CancelAndRemove, Queue, Staying
    <2>2. p \in PageOrNone
      BY <1>1 DEF Queue, PageOrNone
    <2> HIDE DEF q, d, p
    <2> QED  BY <1>1, <1>3, <2>1, <2>2 DEF Queue
  <1>5. TakenTasks(s.interactiveQueue, gone) = x
    BY DEF TakenTasks, Leaving
  <1>6. leader \in PageOrNone /\ pages \in SUBSET Pages
    BY <1>1 DEF PageOrNone
  <1>7. t = [s EXCEPT !.cancelled = c, !.interactiveQueue = q, !.pages = pages,
                      !.selectionLeader = leader]
    BY <1>1, <1>5 DEF Windows
  <1> HIDE DEF c, q, pages, d
  <1>8. /\ t \in Windows /\ t.cancelled = c /\ t.interactiveQueue = q /\ t.pages = pages
        /\ t.selectionLeader = leader /\ t.inBatch = s.inBatch /\ t.posted = s.posted
        /\ t.batchQueue = s.batchQueue /\ t.nextId = s.nextId
    BY <1>1, <1>3, <1>4, <1>6, <1>7 DEF Windows
  <1>9. Base(t, w, r)
    BY <1>1, <1>2, <1>4, <1>8 DEF Base
  <1> QED  BY <1>8, <1>9

(* The thread is done with a task: it has no result, or one. *)
LEMMA DoneWith ==
    ASSUME NEW s, NEW w, NEW r, Base(s, w, r), s.posted = <<>>, w # <<>>
    PROVE  /\ Head(w) \in s.cancelled => Base(s, Tail(w), r)
           /\ \A f \in NoFilter .. Head(w).filter :
                 Base(s, Tail(w), Append(r, [task |-> Head(w), filter |-> f]))
  <1>1. /\ s \in Windows /\ w \in Seq(Task) /\ w \o s.posted = w /\ Tail(w) \in Seq(Task)
        /\ Tail(w) \o s.posted = Tail(w)
    <2>1. s \in Windows /\ w \in Seq(Task) /\ Tail(w) \in Seq(Task)
      BY HeadTailProperties DEF Base
    <2> QED  BY <2>1, ConcatEmptySeq
  <1> DEFINE C(F) == Core(s.pages, s.selectionLeader, s.interactiveQueue.queue, s.batchQueue.queue,
                          s.inBatch, s.cancelled, s.nextId, F)
  <1>2. Once(w, r) /\ C(Flight(w, r))
    BY <1>1 DEF Base
  <1>3. Head(w) \in s.cancelled => Base(s, Tail(w), r)
    <2>1. Once(Tail(w), r) /\ Flight(Tail(w), r) = Without(Flight(w, r), Head(w))
      BY <1>2, Dropped
    <2>2. Head(w) \in s.cancelled => C(Without(Flight(w, r), Head(w)))
      BY <1>2, CancelledGone
    <2> QED  BY <1>1, <2>1, <2>2 DEF Base
  <1>4. ASSUME NEW f \in NoFilter .. Head(w).filter
        PROVE  Base(s, Tail(w), Append(r, [task |-> Head(w), filter |-> f]))
    <2>1. f \in NoFilter .. NumFilters
      <3>1. Head(w) \in Task
        BY <1>1, HeadTailProperties
      <3>2. Head(w).filter \in 1 .. NumFilters /\ NumFilters \in Nat
        BY <3>1, FilterAssumption DEF Task, Filters
      <3> QED  BY <3>2 DEF NoFilter
    <2> DEFINE d == Append(r, [task |-> Head(w), filter |-> f])
    <2>2. d = Append(r, [task |-> Head(w), filter |-> f])
      OBVIOUS
    <2> HIDE DEF d
    <2>3. Once(Tail(w), d) /\ Flight(Tail(w), d) = Flight(w, r)
      BY <1>2, <2>1, <2>2, Delivered
    <2>4. Base(s, Tail(w), d)
      BY <1>1, <1>2, <2>3 DEF Base
    <2> QED  BY <2>4 DEF d
  <1> QED  BY <1>3, <1>4

-----------------------------------------------------------------------------
(* In a batch, its pages are either in the queue or done, or a shortcut of a
   stage has cleared both queues. *)
Account(s, all, done) ==
    s.inBatch => \/ s.interactiveQueue.queue = <<>> /\ s.batchQueue.queue = <<>>
                 \/ s.batchQueue.queue # <<>> /\ all = done \cup PagesOf(s.batchQueue.queue)

(* The dialog opens outside of a batch, while there are pages. *)
DialogAllowed(s, open) == open => ~s.inBatch /\ s.pages # {}

(* The inductive invariant. *)
IInv ==
    /\ Base(window, workerQ, results) /\ window.posted = <<>>
    /\ Shown(window)
    /\ dialog \in BOOLEAN /\ DialogAllowed(window, dialog)
    /\ batched \subseteq Pages /\ applied \subseteq Pages
    /\ Account(window, batched, applied)

(* A slot keeps IInv if each window it may leave behind is sound; it hands the
   tasks it posted to the thread. *)
LEMMA SlotOf ==
    ASSUME NEW S, NEW r,
           \A s \in S : Base(s, workerQ, r) /\ Shown(s) /\ Account(s, batched', applied')
                        /\ DialogAllowed(s, dialog'),
           Slot(S), results' = r,
           dialog' \in BOOLEAN, batched' \subseteq Pages, applied' \subseteq Pages
    PROVE  IInv'
  <1>1. PICK s \in S : window' = Handed(s) /\ workerQ' = workerQ \o s.posted
    BY DEF Slot, Handed
  <1>2. /\ Base(s, workerQ, r) /\ Shown(s) /\ Account(s, batched', applied')
        /\ DialogAllowed(s, dialog')
    OBVIOUS
  <1>3. /\ Base(window', workerQ', r) /\ window'.posted = <<>> /\ Shown(window')
        /\ window'.pages = s.pages /\ window'.inBatch = s.inBatch
        /\ window'.interactiveQueue = s.interactiveQueue /\ window'.batchQueue = s.batchQueue
    BY <1>1, <1>2, PassedOn
  <1>4. Account(window', batched', applied') /\ DialogAllowed(window', dialog')
    BY <1>2, <1>3 DEF Account, DialogAllowed
  <1> QED  BY <1>3, <1>4 DEF IInv

(* The first page of the project is being loaded. *)
LEMMA Start == Init => IInv
  <1> SUFFICES ASSUME Init PROVE IInv
    OBVIOUS
  <1>1. PICK s \in UpdateMainArea(Opened) : window = Handed(s) /\ workerQ = s.posted
    BY DEF Init, Handed
  <1>2. <<>> \in Seq(Task) /\ <<>> \in Seq(Results) /\ <<>> \in Seq(Entries) /\ Len(<<>>) = 0
    BY EmptySeq
  <1>3. Once(<<>>, <<>>) /\ Flight(<<>>, <<>>) = {}
    BY <1>2 DEF Once, Flight
  <1>4. Base(Opened, <<>>, <<>>)
    <2>1. 1 \in Pages /\ 1 \in Filters /\ NoFilter \in NoFilter .. NumFilters
      BY PageAssumption, FilterAssumption DEF Pages, Filters, NoFilter
    <2>2. PlainArea("none") \in Areas
      BY AreasAre
    <2>3. EmptyQueue("RANDOM_ORDER") \in Queue /\ EmptyQueue("SEQUENTIAL_ORDER") \in Queue
      BY <1>2 DEF EmptyQueue, Queue, PageOrNone
    <2>4. Opened \in Windows
      BY <1>2, <2>1, <2>2, <2>3 DEF Opened, Windows, PageOrNone
    <2>5. Core(Pages, 1, <<>>, <<>>, FALSE, {}, 1, {})
      <3>1. \A i \in 1 .. Len(<<>>) : FALSE
        BY <1>2
      <3>2. InOrderOf(<<>>, "INTERACTIVE") /\ InOrderOf(<<>>, "BATCH") /\ Taken(<<>>) = {}
        BY NoEntries
      <3> QED  BY <1>2, <2>1, <3>1, <3>2 DEF Core
    <2>6. <<>> \o Opened.posted = <<>>
      BY <1>2, ConcatEmptySeq DEF Opened
    <2>7. /\ Opened.pages = Pages /\ Opened.selectionLeader = 1
          /\ Opened.interactiveQueue.queue = <<>> /\ Opened.batchQueue.queue = <<>>
          /\ Opened.inBatch = FALSE /\ Opened.cancelled = {} /\ Opened.nextId = 1
      BY DEF Opened, EmptyQueue
    <2> QED  BY <1>2, <1>3, <2>4, <2>5, <2>6, <2>7 DEF Base
  <1>5. Base(s, <<>>, <<>>) /\ Shown(s) /\ s.inBatch = Opened.inBatch
    BY <1>4, Updates
  <1>6. workerQ = <<>> \o s.posted
    <2>1. s.posted \in Seq(Task)
      BY <1>5 DEF Base, Windows
    <2> QED  BY <1>1, <2>1, ConcatEmptySeq
  <1>7. /\ Base(window, workerQ, <<>>) /\ window.posted = <<>> /\ Shown(window)
        /\ window.inBatch = s.inBatch
    BY <1>1, <1>5, <1>6, PassedOn
  <1>8. ~window.inBatch
    BY <1>5, <1>7 DEF Opened
  <1> QED  BY <1>7, <1>8 DEF IInv, Init, Account, DialogAllowed

(* The user clicks a page: in a batch, that ends it. *)
LEMMA SelectionKept ==
    ASSUME IInv, NEW page, page \in Pages, UserSelects(page) PROVE IInv'
  <1> DEFINE s == SetSelection(window, page)
             S == CASE window.inBatch -> StopBatchProcessing(s)
                    [] ~window.inBatch /\ page # window.selectionLeader -> UpdateMainArea(s)
                    [] OTHER -> {s}
  <1>1. /\ page \in window.pages /\ Slot(S) /\ ~dialog
        /\ results' = results /\ dialog' = dialog /\ batched' = batched /\ applied' = applied
    BY DEF UserSelects, UserStep
  <1>2. /\ Base(window, workerQ, results) /\ Shown(window)
        /\ batched \subseteq Pages /\ applied \subseteq Pages
        /\ dialog \in BOOLEAN
    BY DEF IInv
  <1>3. /\ Base(s, workerQ, results) /\ s.selectionLeader = page
        /\ s.pages = window.pages /\ s.curFilter = window.curFilter /\ s.inBatch = window.inBatch
        /\ s.interactiveQueue = window.interactiveQueue /\ s.batchQueue = window.batchQueue
        /\ s.mainArea = window.mainArea
    BY <1>1, <1>2, Selected
  <1> HIDE DEF s
  <1>4. ASSUME NEW t \in S PROVE Base(t, workerQ, results) /\ Shown(t) /\ ~t.inBatch
    <2>1. CASE window.inBatch
      <3>1. t \in StopBatchProcessing(s)
        BY <1>4, <2>1
      <3> QED  BY <1>3, <3>1, Stops
    <2>2. CASE ~window.inBatch /\ page # window.selectionLeader
      <3>1. t \in UpdateMainArea(s)
        BY <1>4, <2>2
      <3>2. Base(t, workerQ, results) /\ Shown(t) /\ t.inBatch = s.inBatch
        BY <1>3, <3>1, Updates
      <3> QED  BY <1>3, <2>2, <3>2
    <2>3. CASE ~window.inBatch /\ page = window.selectionLeader
      <3>1. t = s
        BY <1>4, <2>3
      <3>2. Shown(s)
        BY <1>2, <1>3, <2>3 DEF Shown
      <3> QED  BY <1>3, <2>3, <3>1, <3>2
    <2> QED  BY <2>1, <2>2, <2>3
  <1>5. \A t \in S : Base(t, workerQ, results) /\ Shown(t) /\ Account(t, batched', applied')
                     /\ DialogAllowed(t, dialog')
    BY <1>1, <1>4 DEF Account, DialogAllowed
  <1> HIDE DEF S
  <1> QED  BY <1>1, <1>2, <1>5, SlotOf

(* The user goes to a page, outside of a batch. *)
LEMMA GoingKept ==
    ASSUME IInv, NEW page \in Pages, UserGoesTo(page) PROVE IInv'
  <1> DEFINE S == GoToPage(window, page)
  <1>1. /\ ~window.inBatch /\ Slot(S) /\ ~dialog
        /\ results' = results /\ dialog' = dialog /\ batched' = batched /\ applied' = applied
    BY DEF UserGoesTo, UserStep
  <1>2. /\ Base(window, workerQ, results) /\ batched \subseteq Pages /\ applied \subseteq Pages
        /\ dialog \in BOOLEAN
    BY DEF IInv
  <1>3. ASSUME NEW t \in S PROVE Base(t, workerQ, results) /\ Shown(t) /\ ~t.inBatch
    <2>1. Base(t, workerQ, results) /\ Shown(t) /\ t.inBatch = window.inBatch
      BY <1>2, Goes
    <2> QED  BY <1>1, <2>1
  <1>4. \A t \in S : Base(t, workerQ, results) /\ Shown(t) /\ Account(t, batched', applied')
                     /\ DialogAllowed(t, dialog')
    BY <1>1, <1>3 DEF Account, DialogAllowed
  <1> HIDE DEF S
  <1> QED  BY <1>1, <1>2, <1>4, SlotOf

(* The user switches to another stage, in a batch too. *)
LEMMA SwitchKept ==
    ASSUME IInv, NEW filter \in Filters, SwitchFilter(filter) PROVE IInv'
  <1> DEFINE s == CancelAndClearInteractive(window)
             t == IF s.inBatch THEN CancelAndClearBatch(s) ELSE s
             u == [t EXCEPT !.curFilter = filter]
             S == UpdateMainArea(u)
  <1>1. /\ Slot(S) /\ ~dialog
        /\ results' = results /\ dialog' = dialog /\ batched' = batched /\ applied' = applied
    BY DEF SwitchFilter, UserStep
  <1>2. /\ Base(window, workerQ, results) /\ batched \subseteq Pages /\ applied \subseteq Pages
        /\ dialog \in BOOLEAN
    BY DEF IInv
  <1>3. Base(s, workerQ, results) /\ s.interactiveQueue.queue = <<>>
    BY <1>2, InteractiveCleared
  <1> HIDE DEF s
  <1>4. /\ Base(t, workerQ, results) /\ t.interactiveQueue.queue = <<>>
        /\ t.inBatch => t.batchQueue.queue = <<>>
    <2>1. CASE s.inBatch
      <3>1. t = CancelAndClearBatch(s)
        BY <2>1
      <3> HIDE DEF t
      <3>2. /\ Base(t, workerQ, results) /\ t.batchQueue.queue = <<>>
            /\ t.interactiveQueue = s.interactiveQueue
        BY <1>3, <3>1, BatchQueueCleared
      <3> QED  BY <1>3, <3>2
    <2>2. CASE ~s.inBatch
      BY <1>3, <2>2
    <2> QED  BY <2>1, <2>2
  <1> HIDE DEF t
  <1>5. /\ Base(u, workerQ, results) /\ u.inBatch = t.inBatch
        /\ u.interactiveQueue = t.interactiveQueue /\ u.batchQueue = t.batchQueue
    BY <1>4, FilterSet
  <1> HIDE DEF u
  <1>6. ASSUME NEW v \in S
        PROVE  Base(v, workerQ, results) /\ Shown(v) /\ Account(v, batched', applied')
    <2>1. /\ Base(v, workerQ, results) /\ Shown(v)
          /\ v.inBatch = u.inBatch /\ v.batchQueue = u.batchQueue
          /\ u.inBatch => v.interactiveQueue = u.interactiveQueue
      BY <1>5, Updates
    <2> QED  BY <1>4, <1>5, <2>1 DEF Account
  <1>7. \A v \in S : Base(v, workerQ, results) /\ Shown(v) /\ Account(v, batched', applied')
                     /\ DialogAllowed(v, dialog')
    BY <1>1, <1>6 DEF DialogAllowed
  <1> HIDE DEF S
  <1> QED  BY <1>1, <1>2, <1>7, SlotOf

(* The dialog of startBatchProcessing() opens: the request is withdrawn. *)
LEMMA DialogOpens == ASSUME IInv, OpenStartDialog PROVE IInv'
  <1> DEFINE s == CancelAndClearInteractive(window)
  <1>1. /\ Slot({s}) /\ ~window.inBatch /\ window.pages # {}
        /\ results' = results /\ dialog' = TRUE /\ batched' = batched /\ applied' = applied
    BY DEF OpenStartDialog
  <1>2. /\ Base(window, workerQ, results) /\ Shown(window)
        /\ batched \subseteq Pages /\ applied \subseteq Pages
    BY DEF IInv
  <1>3. /\ Base(s, workerQ, results) /\ s.interactiveQueue.queue = <<>>
        /\ s.pages = window.pages /\ s.curFilter = window.curFilter /\ s.inBatch = window.inBatch
        /\ s.mainArea = window.mainArea /\ s.selectionLeader = window.selectionLeader
    BY <1>2, InteractiveCleared
  <1> HIDE DEF s
  <1>4. \A i \in 1 .. Len(<<>>) : FALSE
    OBVIOUS
  <1>5. Shown(s)
    BY <1>1, <1>2, <1>3, <1>4 DEF Shown
  <1>6. \A t \in {s} : Base(t, workerQ, results) /\ Shown(t) /\ Account(t, batched', applied')
                       /\ DialogAllowed(t, dialog')
    BY <1>1, <1>3, <1>5 DEF Account, DialogAllowed
  <1> QED  BY <1>1, <1>2, <1>6, SlotOf

(* The dialog is accepted, and the batch begins. *)
LEMMA Accepted == ASSUME IInv, StartBatch PROVE IInv'
  <1>1. PICK order \in Orders, processAll \in BOOLEAN :
          LET start == IF processAll THEN Min(window.pages)
                                     ELSE window.selectionLeader
              todo == Ascending({p \in window.pages : p >= start})
              s == FillBatchQueue(window, order, todo)
          IN  /\ Slot(UpdateMainArea(TakeNext(s)))
              /\ batched' = {todo[i] : i \in DOMAIN todo}
    BY DEF StartBatch
  <1> DEFINE start == IF processAll THEN Min(window.pages) ELSE window.selectionLeader
             todo == Ascending({p \in window.pages : p >= start})
             s == FillBatchQueue(window, order, todo)
             u == TakeNext(s)
             S == UpdateMainArea(u)
  <1>2. /\ Slot(S) /\ batched' = {todo[i] : i \in DOMAIN todo}
        /\ dialog /\ dialog' = FALSE /\ applied' = {} /\ results' = results
    BY <1>1 DEF StartBatch
  <1>3. /\ Base(window, workerQ, results) /\ ~window.inBatch /\ window.pages # {}
        /\ window.pages \in SUBSET Pages
    BY <1>2 DEF IInv, DialogAllowed, Base, Windows
  <1>4. start \in window.pages
    <2>1. window.selectionLeader \in window.pages
      BY <1>3 DEF Base, Core
    <2>2. window.pages \in SUBSET Nat
      BY <1>3, PageAssumption DEF Pages
    <2>3. Min(window.pages) \in window.pages
      BY <1>3, <2>2, MinOf
    <2> QED  BY <2>1, <2>3
  <1> HIDE DEF start
  <1>5. todo \in Seq(window.pages) /\ Len(todo) # 0
    <2>1. todo = Ascending(From(window.pages, start))
      BY DEF From
    <2> HIDE DEF todo
    <2> QED  BY <1>3, <1>4, <2>1, InOrderFrom
  <1> HIDE DEF todo
  <1>6. /\ Base(s, workerQ, results) /\ s.inBatch /\ s.batchQueue.queue # <<>>
        /\ PagesOf(s.batchQueue.queue) = {todo[i] : i \in DOMAIN todo}
    <2>1. order \in Orders
      BY <1>1
    <2>2. s = FillBatchQueue(window, order, todo)
      OBVIOUS
    <2> HIDE DEF s
    <2>3. PagesOf(s.batchQueue.queue) = Items(todo) /\ Base(s, workerQ, results) /\ s.inBatch
          /\ s.batchQueue.queue # <<>>
      BY <1>3, <1>5, <2>1, <2>2, Fills
    <2> QED  BY <2>3 DEF Items
  <1> HIDE DEF s
  <1>7. /\ Base(u, workerQ, results) /\ u.inBatch = s.inBatch
        /\ Len(u.batchQueue.queue) = Len(s.batchQueue.queue)
        /\ PagesOf(u.batchQueue.queue) = PagesOf(s.batchQueue.queue)
    BY <1>6, NextTaken
  <1> HIDE DEF u
  <1>8. u.batchQueue.queue # <<>>
    <2>1. s.batchQueue.queue \in Seq(Entries) /\ u.batchQueue.queue \in Seq(Entries)
      BY <1>6, <1>7 DEF Base, Windows, Queue
    <2>2. Len(s.batchQueue.queue) # 0
      BY <1>6, <2>1, EmptySeq
    <2>3. Len(u.batchQueue.queue) # 0
      BY <1>7, <2>2
    <2> QED  BY <2>3
  <1>9. ASSUME NEW t \in S
        PROVE  Base(t, workerQ, results) /\ Shown(t) /\ Account(t, batched', applied')
    <2>1. /\ Base(t, workerQ, results) /\ Shown(t)
          /\ t.inBatch = u.inBatch /\ t.batchQueue = u.batchQueue
      BY <1>7, Updates
    <2>2. t.batchQueue.queue # <<>> /\ batched' = applied' \cup PagesOf(t.batchQueue.queue)
      BY <1>2, <1>6, <1>7, <1>8, <2>1
    <2> QED  BY <2>1, <2>2 DEF Account
  <1>10. \A t \in S : Base(t, workerQ, results) /\ Shown(t) /\ Account(t, batched', applied')
                     /\ DialogAllowed(t, dialog')
    BY <1>2, <1>9 DEF DialogAllowed
  <1>11. batched' \subseteq Pages
    <2>1. \A i \in DOMAIN todo : todo[i] \in window.pages
      BY <1>5, LenProperties
    <2> QED  BY <1>2, <1>3, <2>1
  <1> HIDE DEF S
  <1> QED  BY <1>2, <1>10, <1>11, SlotOf

(* The user stops the batch. *)
LEMMA StopKept == ASSUME IInv, StopBatch PROVE IInv'
  <1> DEFINE S == StopBatchProcessing(window)
  <1>1. /\ Slot(S) /\ ~dialog
        /\ results' = results /\ dialog' = dialog /\ batched' = batched /\ applied' = applied
    BY DEF StopBatch, UserStep
  <1>2. /\ Base(window, workerQ, results) /\ batched \subseteq Pages /\ applied \subseteq Pages
        /\ dialog \in BOOLEAN
    BY DEF IInv
  <1>3. \A t \in S : Base(t, workerQ, results) /\ Shown(t) /\ ~t.inBatch
    BY <1>2, Stops
  <1>4. \A t \in S : Base(t, workerQ, results) /\ Shown(t) /\ Account(t, batched', applied')
                     /\ DialogAllowed(t, dialog')
    BY <1>1, <1>3 DEF Account, DialogAllowed
  <1> HIDE DEF S
  <1> QED  BY <1>1, <1>2, <1>4, SlotOf

(* The user removes pages. *)
LEMMA RemovalKept ==
    ASSUME IInv, NEW gone \in SUBSET Pages, RemovePages(gone) PROVE IInv'
  <1> DEFINE kept == window.pages \ gone
             before == {p \in kept : \A g \in gone : p < g}
             leader == CASE kept = {} -> NoPage
                         [] kept # {} /\ before # {} -> Max(before)
                         [] kept # {} /\ before = {} -> Min(kept)
             s == [window EXCEPT
                     !.cancelled = @ \cup TakenTasks(window.interactiveQueue, gone),
                     !.interactiveQueue = CancelAndRemove(@, gone),
                     !.pages = window.pages \ gone,
                     !.selectionLeader = leader]
             S == UpdateMainArea(s)
  <1>1. /\ ~window.inBatch /\ gone \in SUBSET window.pages /\ Slot(S) /\ ~dialog
        /\ results' = results /\ dialog' = dialog /\ batched' = batched /\ applied' = applied
    BY DEF RemovePages, UserStep
  <1>2. /\ Base(window, workerQ, results) /\ batched \subseteq Pages /\ applied \subseteq Pages
        /\ dialog \in BOOLEAN /\ window.pages \in SUBSET Pages
    BY DEF IInv, Base, Windows
  <1>3. leader \in IF kept = {} THEN {NoPage} ELSE kept
    <2>1. CASE kept = {}
      BY <2>1
    <2>2. CASE kept # {} /\ before # {}
      <3>1. leader = Max(before)
        BY <2>2
      <3>2. NumPages \in Nat /\ before \in SUBSET (1 .. NumPages)
        BY <1>2, PageAssumption DEF Pages
      <3> HIDE DEF leader
      <3>3. Max(before) \in before
        <4> HIDE DEF before
        <4> QED  BY <2>2, <3>2, MaxOf
      <3> QED  BY <2>2, <3>1, <3>3
    <2>3. CASE kept # {} /\ before = {}
      <3>1. leader = Min(kept)
        BY <2>3
      <3>2. kept \in SUBSET Nat
        BY <1>2, PageAssumption DEF Pages
      <3> HIDE DEF leader
      <3>3. Min(kept) \in kept
        <4> HIDE DEF kept
        <4> QED  BY <2>3, <3>2, MinOf
      <3> QED  BY <2>3, <3>1, <3>3
    <2> QED  BY <2>1, <2>2, <2>3
  <1> HIDE DEF leader
  <1>4. Base(s, workerQ, results) /\ ~s.inBatch
    BY <1>1, <1>2, <1>3, Removes
  <1> HIDE DEF s
  <1>5. ASSUME NEW t \in S PROVE Base(t, workerQ, results) /\ Shown(t) /\ ~t.inBatch
    <2>1. Base(t, workerQ, results) /\ Shown(t) /\ t.inBatch = s.inBatch
      BY <1>4, Updates
    <2> QED  BY <1>4, <2>1
  <1>6. \A t \in S : Base(t, workerQ, results) /\ Shown(t) /\ Account(t, batched', applied')
                     /\ DialogAllowed(t, dialog')
    BY <1>1, <1>5 DEF Account, DialogAllowed
  <1> HIDE DEF S
  <1> QED  BY <1>1, <1>2, <1>6, SlotOf

(* A queued reloadRequested() is served, in a batch or not. *)
LEMMA ReloadKept == ASSUME IInv, ReloadRequested PROVE IInv'
  <1> DEFINE S == UpdateMainArea(window)
  <1>1. /\ Slot(S)
        /\ results' = results /\ dialog' = dialog /\ batched' = batched /\ applied' = applied
    BY DEF ReloadRequested
  <1>2. /\ Base(window, workerQ, results) /\ batched \subseteq Pages /\ applied \subseteq Pages
        /\ dialog \in BOOLEAN /\ DialogAllowed(window, dialog) /\ Account(window, batched, applied)
    BY DEF IInv
  <1>3. ASSUME NEW t \in S
        PROVE  /\ Base(t, workerQ, results) /\ Shown(t) /\ Account(t, batched', applied')
               /\ DialogAllowed(t, dialog')
    <2>1. /\ Base(t, workerQ, results) /\ Shown(t)
          /\ t.inBatch = window.inBatch /\ t.pages = window.pages /\ t.batchQueue = window.batchQueue
          /\ window.inBatch => t.interactiveQueue = window.interactiveQueue
      BY <1>2, Updates
    <2> QED  BY <1>1, <1>2, <2>1 DEF Account, DialogAllowed
  <1> HIDE DEF S
  <1> QED  BY <1>1, <1>2, <1>3, SlotOf

(* The background thread is done with a task. *)
LEMMA ThreadKept == ASSUME IInv, WorkerDone PROVE IInv'
  <1>1. /\ workerQ # <<>> /\ workerQ' = Tail(workerQ)
        /\ window' = window /\ dialog' = dialog /\ batched' = batched /\ applied' = applied
        /\ \/ Head(workerQ) \in window.cancelled /\ results' = results
           \/ \E f \in NoFilter .. Head(workerQ).filter :
                 results' = Append(results, [task |-> Head(workerQ), filter |-> f])
    BY DEF WorkerDone
  <1>2. Base(window, workerQ, results) /\ window.posted = <<>>
    BY DEF IInv
  <1>3. Base(window, Tail(workerQ), results')
    BY <1>1, <1>2, DoneWith
  <1> QED  BY <1>1, <1>3 DEF IInv

(* A result reaches the window; if it ends the batch, it was the last one. *)
LEMMA ResultKept ==
    ASSUME IInv, FilterResult
    PROVE  IInv' /\ (window.inBatch /\ ~window'.inBatch => applied' = batched)
  <1> DEFINE task == Head(results).task
             s == [window EXCEPT
                     !.interactiveQueue = ProcessingFinished(@, task),
                     !.batchQueue = IF window.inBatch
                                    THEN ProcessingFinished(@, task) ELSE @]
             S == CASE task \in s.cancelled -> {s}
                    [] task \notin s.cancelled /\ ~s.inBatch ->
                          ShowResult(s, task, Head(results).filter)
                    [] task \notin s.cancelled /\ s.inBatch ->
                          IF AllProcessed(s.batchQueue) THEN EndBatch(s) ELSE {TakeNext(s)}
             was == window.batchQueue.queue
  <1>1. /\ results # <<>> /\ results' = Tail(results) /\ Slot(S)
        /\ applied' = IF task \notin s.cancelled /\ task.type = "BATCH"
                      THEN applied \cup {task.page} ELSE applied
        /\ dialog' = dialog /\ batched' = batched
    BY DEF FilterResult
  <1>2. /\ Base(window, workerQ, results) /\ window.posted = <<>> /\ Shown(window)
        /\ dialog \in BOOLEAN /\ DialogAllowed(window, dialog)
        /\ batched \subseteq Pages /\ applied \subseteq Pages
        /\ Account(window, batched, applied)
    BY DEF IInv
  <1>3. task = Head(results).task
    OBVIOUS
  <1>4. s = Answered(window, task)
    BY DEF Answered
  <1> HIDE DEF task, s
  <1>5. /\ Base(s, workerQ, results') /\ task \in Task
        /\ Head(results).filter \in NoFilter .. NumFilters
        /\ s.pages = window.pages /\ s.selectionLeader = window.selectionLeader
        /\ s.inBatch = window.inBatch /\ s.curFilter = window.curFilter
        /\ s.mainArea = window.mainArea /\ s.cancelled = window.cancelled
        /\ s.posted = <<>>
        /\ \/ /\ task \in window.cancelled
              /\ s.interactiveQueue = window.interactiveQueue /\ s.batchQueue = window.batchQueue
           \/ /\ task \notin window.cancelled /\ task.type = "INTERACTIVE"
              /\ 1 \in 1 .. Len(window.interactiveQueue.queue)
              /\ window.interactiveQueue.queue[1].page = task.page
              /\ s.interactiveQueue.queue = <<>> /\ s.batchQueue = window.batchQueue
           \/ /\ task \notin window.cancelled /\ task.type = "BATCH" /\ window.inBatch
              /\ s.interactiveQueue = window.interactiveQueue
              /\ was # <<>>
              /\ PagesOf(was) = PagesOf(s.batchQueue.queue) \cup {task.page}
    BY <1>1, <1>2, <1>3, <1>4, Arrives
  <1> DEFINE Good(t) == /\ Base(t, workerQ, results') /\ Shown(t) /\ Account(t, batched', applied')
                        /\ DialogAllowed(t, dialog')
                        /\ window.inBatch /\ ~t.inBatch => applied' = batched
  <1>6. ASSUME task \in window.cancelled
        PROVE  \A t \in S : Good(t)
    <2>1. S = {s} /\ applied' = applied
      BY <1>1, <1>5, <1>6
    <2>2. s.interactiveQueue = window.interactiveQueue /\ s.batchQueue = window.batchQueue
      BY <1>5, <1>6
    <2>3. Shown(s) /\ Account(s, batched', applied') /\ DialogAllowed(s, dialog')
      BY <1>1, <1>2, <1>5, <2>1, <2>2 DEF Shown, Account, DialogAllowed
    <2>4. Good(s)
      BY <1>5, <2>3
    <2> QED  BY <2>1, <2>4
  <1>7. ASSUME task \notin window.cancelled /\ ~window.inBatch
        PROVE  \A t \in S : Good(t)
    <2> DEFINE c == IF Head(results).filter = NoFilter THEN s.curFilter ELSE Head(results).filter
               area == Area("result", task.page, c)
               t == [s EXCEPT !.curFilter = c, !.mainArea = area]
    <2>1. /\ task.type = "INTERACTIVE" /\ 1 \in 1 .. Len(window.interactiveQueue.queue)
          /\ window.interactiveQueue.queue[1].page = task.page
          /\ s.interactiveQueue.queue = <<>>
      BY <1>5, <1>7
    <2>2. task.page = s.selectionLeader
      BY <1>2, <1>5, <1>7, <2>1 DEF Shown
    <2>3. c \in Filters /\ task.page \in Pages
      <3>1. s.curFilter \in Filters /\ task.page \in Pages
        BY <1>5 DEF Base, Windows, Task
      <3>2. Head(results).filter # NoFilter => Head(results).filter \in Filters
        BY <1>5, FilterAssumption DEF NoFilter, Filters
      <3> QED  BY <3>1, <3>2
    <2>4. S = {t} /\ applied' = applied
      BY <1>1, <1>5, <1>7, <2>1 DEF ShowResult
    <2> HIDE DEF c
    <2>5. /\ area \in Areas /\ area.kind = "result" /\ area.page = task.page /\ area.filter = c
      BY <2>3, AreasAre
    <2> HIDE DEF area
    <2>6. t = Displaying(s, area, c)
      BY DEF Displaying
    <2> HIDE DEF t
    <2>7. /\ Base(t, workerQ, results') /\ t.mainArea = area /\ t.curFilter = c
          /\ t.pages = s.pages /\ t.inBatch = s.inBatch
          /\ t.interactiveQueue = s.interactiveQueue
          /\ t.selectionLeader = s.selectionLeader
      BY <1>5, <2>3, <2>5, <2>6, AreaSet
    <2>8. Shown(t)
      <3>1. \A i \in 1 .. Len(<<>>) : FALSE
        OBVIOUS
      <3> QED  BY <1>5, <1>7, <2>1, <2>2, <2>5, <2>7, <3>1 DEF Shown
    <2>9. Account(t, batched', applied') /\ DialogAllowed(t, dialog')
      BY <1>1, <1>2, <1>5, <1>7, <2>7 DEF Account, DialogAllowed
    <2>10. Good(t)
      BY <1>7, <2>7, <2>8, <2>9
    <2> QED  BY <2>4, <2>10
  <1>8. ASSUME task \notin window.cancelled /\ window.inBatch
        PROVE  \A t \in S : Good(t)
    <2> DEFINE now == s.batchQueue.queue
    <2>1. S = IF AllProcessed(s.batchQueue) THEN EndBatch(s) ELSE {TakeNext(s)}
      BY <1>5, <1>8
    <2>2. batched = applied' \cup PagesOf(now) /\ ~dialog
      <3>1. ~dialog
        BY <1>2, <1>8 DEF DialogAllowed
      <3>2. CASE task.type = "INTERACTIVE"
        <4>1. /\ 1 \in 1 .. Len(window.interactiveQueue.queue)
              /\ s.batchQueue = window.batchQueue
          BY <1>5, <1>8, <3>2
        <4>2. window.interactiveQueue.queue # <<>>
          <5>1. \A i \in 1 .. Len(<<>>) : FALSE
            OBVIOUS
          <5> QED  BY <4>1, <5>1
        <4>3. batched = applied \cup PagesOf(was)
          BY <1>2, <1>8, <4>2 DEF Account
        <4>4. applied' = applied
          BY <1>1, <3>2
        <4> QED  BY <3>1, <4>1, <4>3, <4>4
      <3>3. CASE task.type = "BATCH"
        <4>1. was # <<>> /\ PagesOf(was) = PagesOf(now) \cup {task.page}
          BY <1>5, <1>8, <3>3
        <4>2. batched = applied \cup PagesOf(was)
          BY <1>2, <1>8, <4>1 DEF Account
        <4>3. applied' = applied \cup {task.page}
          BY <1>1, <1>5, <1>8, <3>3
        <4> QED  BY <3>1, <4>1, <4>2, <4>3
      <3> QED  BY <1>5, <3>2, <3>3 DEF Task
    <2>3. CASE AllProcessed(s.batchQueue)
      <3>1. now = <<>>
        BY <2>3 DEF AllProcessed
      <3>2. PagesOf(now) = {}
        <4>1. \A i \in 1 .. Len(<<>>) : FALSE
          OBVIOUS
        <4> QED  BY <3>1, <4>1 DEF PagesOf
      <3>3. batched = applied'
        BY <2>2, <3>2
      <3>4. ASSUME NEW t \in S PROVE Good(t)
        <4>1. Base(t, workerQ, results') /\ Shown(t) /\ ~t.inBatch
          <5>1. t \in EndBatch(s)
            BY <2>1, <2>3, <3>4
          <5> QED  BY <1>5, <5>1, Ends
        <4> QED  BY <1>1, <2>2, <3>3, <4>1 DEF Account, DialogAllowed
      <3> QED  BY <3>4
    <2>4. CASE ~AllProcessed(s.batchQueue)
      <3> DEFINE t == TakeNext(s)
      <3>1. S = {t}
        BY <2>1, <2>4
      <3>2. t = TakeNext(s)
        OBVIOUS
      <3> HIDE DEF t
      <3>3. /\ Base(t, workerQ, results') /\ t.inBatch = s.inBatch /\ t.mainArea = s.mainArea
            /\ Len(t.batchQueue.queue) = Len(now)
            /\ PagesOf(t.batchQueue.queue) = PagesOf(now)
        BY <1>5, <3>2, NextTaken
      <3>4. t.batchQueue.queue # <<>>
        <4>1. now \in Seq(Entries) /\ now # <<>>
          BY <1>5, <2>4 DEF AllProcessed, Base, Windows, Queue
        <4>2. Len(now) # 0 /\ Len(<<>>) = 0
          BY <4>1, EmptySeq
        <4> QED  BY <3>3, <4>2
      <3>5. Shown(t)
        BY <1>2, <1>5, <1>8, <3>3 DEF Shown
      <3>6. Account(t, batched', applied')
        BY <1>1, <2>2, <3>3, <3>4 DEF Account
      <3>7. Good(t)
        BY <1>1, <1>5, <1>8, <2>2, <3>3, <3>5, <3>6 DEF DialogAllowed
      <3> QED  BY <3>1, <3>7
    <2> QED  BY <2>3, <2>4
  <1>9. \A t \in S : Good(t)
    <2> HIDE DEF S, Good
    <2> QED  BY <1>6, <1>7, <1>8
  <1>10. batched' \subseteq Pages /\ applied' \subseteq Pages /\ dialog' \in BOOLEAN
    BY <1>1, <1>2, <1>5 DEF Task
  <1> HIDE DEF S
  <1>11. IInv'
    BY <1>1, <1>9, <1>10, SlotOf
  <1>12. window.inBatch /\ ~window'.inBatch => applied' = batched
    <2>1. PICK t \in S : window' = Handed(t)
      BY <1>1 DEF Slot, Handed
    <2>2. window'.inBatch = t.inBatch
      BY <1>9, <2>1, PassedOn
    <2> QED  BY <1>9, <2>1, <2>2
  <1> QED  BY <1>11, <1>12

(* Nothing happens, or nothing to the window. *)
LEMMA NothingKept ==
    ASSUME IInv, vars' = vars \/ ChangeOptions \/ RejectStartDialog PROVE IInv'
  <1>1. /\ window' = window /\ workerQ' = workerQ /\ results' = results
        /\ batched' = batched /\ applied' = applied
        /\ dialog' = dialog \/ dialog' = FALSE
    BY DEF vars, ChangeOptions, RejectStartDialog
  <1>2. dialog' \in BOOLEAN /\ DialogAllowed(window, dialog')
    <2>1. dialog \in BOOLEAN /\ DialogAllowed(window, dialog)
      BY DEF IInv
    <2>2. CASE dialog' = dialog
      BY <2>1, <2>2
    <2>3. CASE dialog' = FALSE
      BY <2>3 DEF DialogAllowed
    <2> QED  BY <1>1, <2>2, <2>3
  <1> QED  BY <1>1, <1>2 DEF IInv

(* Every step keeps IInv, so it holds at all times. *)
LEMMA Invariance == Spec => []IInv
  <1>1. ASSUME IInv, [Next]_vars PROVE IInv'
    <2>1. ASSUME NEW p \in Pages, UserSelects(p) PROVE IInv'
      BY <1>1, <2>1, SelectionKept
    <2>2. ASSUME NEW p \in Pages, UserGoesTo(p) PROVE IInv'
      BY <1>1, <2>2, GoingKept
    <2>3. ASSUME NEW f \in Filters, SwitchFilter(f) PROVE IInv'
      BY <1>1, <2>3, SwitchKept
    <2>4. CASE OpenStartDialog
      BY <1>1, <2>4, DialogOpens
    <2>5. CASE StartBatch
      BY <1>1, <2>5, Accepted
    <2>6. CASE StopBatch
      BY <1>1, <2>6, StopKept
    <2>7. ASSUME NEW gone \in SUBSET Pages, RemovePages(gone) PROVE IInv'
      BY <1>1, <2>7, RemovalKept
    <2>8. CASE ReloadRequested
      BY <1>1, <2>8, ReloadKept
    <2>9. CASE FilterResult
      BY <1>1, <2>9, ResultKept
    <2>10. CASE WorkerDone
      BY <1>1, <2>10, ThreadKept
    <2>11. CASE vars' = vars \/ ChangeOptions \/ RejectStartDialog
      BY <1>1, <2>11, NothingKept
    <2> QED
      BY <1>1, <2>1, <2>2, <2>3, <2>4, <2>5, <2>6, <2>7, <2>8, <2>9, <2>10, <2>11
      DEF Next, User, Events, DialogCloses
  <1> QED  BY Start, <1>1, PTL DEF Spec

(* IInv says of each queue, and of the tasks under way, what QueuesInStep does. *)
LEMMA InStep == IInv => QueuesInStep
  <1> SUFFICES ASSUME IInv PROVE QueuesInStep
    OBVIOUS
  <1> DEFINE a == window.interactiveQueue.queue
             b == window.batchQueue.queue
  <1>1. /\ window \in Windows /\ workerQ \in Seq(Task) /\ Once(workerQ \o <<>>, results)
        /\ Core(window.pages, window.selectionLeader, a, b,
                window.inBatch, window.cancelled, window.nextId, Flight(workerQ \o <<>>, results))
    BY DEF IInv, Base
  <1>2. workerQ \o <<>> = workerQ
    BY <1>1, ConcatEmptySeq
  <1>3. Flight(workerQ, results) = InFlight
    <2>1. DOMAIN workerQ = 1 .. Len(workerQ) /\ DOMAIN results = 1 .. Len(results)
      BY <1>1, <1>2, LenProperties DEF Once
    <2> QED  BY <2>1 DEF Flight, InFlight
  <1>4. /\ InOrderOf(a, "INTERACTIVE") /\ InOrderOf(b, "BATCH")
        /\ Taken(a) \cup Taken(b) = Live
        /\ window.selectionLeader \in IF window.pages = {} THEN {NoPage} ELSE window.pages
    BY <1>1, <1>2, <1>3 DEF Core, Live
  <1>5. \A q \in Queues : \/ q = window.interactiveQueue /\ q.queue = a
                          \/ q = window.batchQueue /\ q.queue = b
    BY DEF Queues
  <1>6. /\ TakenTasks(window.interactiveQueue, Pages) = Taken(a)
        /\ TakenTasks(window.batchQueue, Pages) = Taken(b)
    BY <1>1, TakenOf DEF Windows
  <1>7. TypeOK
    BY <1>1, <1>4 DEF TypeOK, IInv, Windows, Areas
  <1>8. TakenFirst
    <2>1. \A q \in Queues : \E type : InOrderOf(q.queue, type)
      BY <1>4, <1>5
    <2>2. \A q \in Queues : DOMAIN q.queue = 1 .. Len(q.queue)
      BY <2>1, LenProperties DEF InOrderOf
    <2> QED  BY <2>1, <2>2 DEF TakenFirst, InOrderOf
  <1>9. TakenInFlight
    BY <1>4, <1>5, <1>6 DEF TakenInFlight
  <1>10. LiveIsTaken
    BY <1>4, <1>6 DEF LiveIsTaken, Queues
  <1> QED  BY <1>7, <1>8, <1>9, <1>10 DEF QueuesInStep

(* The entries of the queues and the tasks under way are in step: the taken
   entries come first, as the search of processingFinished() relies on; their
   tasks are under way and not cancelled; and a task that is neither done nor
   cancelled has its entry. *)
THEOREM QueuesAreInStep == Spec => []QueuesInStep
BY Invariance, InStep, PTL

(* What is being loaded, or is shown, is of the selected page and the current
   filter, whatever results, cancellations and reloads overtake one another. *)
THEOREM DisplayIsOfSelection == Spec => []DisplayedIsSelected
  <1>1. IInv => DisplayedIsSelected
    BY DEF IInv, Shown, DisplayedIsSelected
  <1> QED  BY Invariance, <1>1, PTL

(* A batch that filterResult() ends has applied the result of each page. *)
THEOREM BatchIsComplete == Spec => BatchComplete
  <1>1. IInv => [FilterResult /\ window.inBatch /\ ~window'.inBatch => applied' = batched]_vars
    BY ResultKept
  <1> QED  BY Invariance, <1>1, PTL DEF BatchComplete
=============================================================================
