--------------------------- MODULE PageListProofs ---------------------------
(***************************************************************************)
(* For any images, of any shapes, and whatever the user does in whatever    *)
(* order:                                                                   *)
(*                                                                         *)
(* 1. The list of thumbnails, the project and the widget of the stage stay  *)
(*    together: ListInv.  Neither SelectionSound nor ListShowsProject nor   *)
(*    LeaderIsLoaded is inductive.  A step that removes the leader needs    *)
(*    the page remembered to be the leader's, resetting to a stage needs    *)
(*    the level of the view (Fits), and an insertion into the list lands    *)
(*    where the project has the image only since the pages of an image      *)
(*    follow each other (Grouped).  ListInv is one conjunction of all.      *)
(*                                                                         *)
(* 2. No image ever keeps a page layout of another type than the one asked  *)
(*    for.  Every write to page_split::Settings goes through a method that  *)
(*    looks for the conflict under the mutex of the settings; the           *)
(*    interleaving of the writers does not matter.  NoConflict is inductive *)
(*    once record is known to be a function on Images to records of two     *)
(*    fields whose parameters are none or described: IInv.                  *)
(*                                                                         *)
(* 3. The thumbnails are in order (ThumbnailsInOrder).  A step may write    *)
(*    records while it makes thumbnails: the order before it, by the old    *)
(*    records, is the order after it (SameOrder), for CacheDrivenTask       *)
(*    repairs only what an order does not look at, and this needs IInv: a   *)
(*    repaired record without a conflict keeps its type.  The list is then  *)
(*    sorted, or one thumbnail is put where itemInsertPosition() wants it.  *)
(*                                                                         *)
(* It is read from the end: StepKeeps and StepIsInOrder have a lemma for    *)
(* each action, which cites a lemma for each operation of the list and of   *)
(* the project, and these rest on facts about lists and orders.             *)
(***************************************************************************)
EXTENDS PageList, FiniteSetTheorems, SequenceTheorems, TLAPS

-----------------------------------------------------------------------------
(* Sets in order. *)

(* A finite set is put in order by how many elements come before each, when
   of two elements just one comes before the other. *)
LEMMA SortedOf ==
    ASSUME NEW S, IsFiniteSet(S), NEW less,
           \A x, y \in S : x # y => (less[<<x, y>>] <=> ~less[<<y, x>>]),
           \A x, y, z \in S : x # y /\ y # z /\ less[<<x, y>>] /\ less[<<y, z>>] => less[<<x, z>>]
    PROVE  /\ Cardinality(S) \in Nat
           /\ Sorted(S, less) \in Surjection(1 .. Cardinality(S), S)
           /\ \A i, j \in 1 .. Cardinality(S) : i < j => less[<<Sorted(S, less)[i], Sorted(S, less)[j]>>]
           /\ \A i, j \in 1 .. Cardinality(S) : i # j => Sorted(S, less)[i] # Sorted(S, less)[j]
  <1> DEFINE N == Cardinality(S)
             below(x) == {y \in S \ {x} : less[<<y, x>>]}
             rank == [x \in S |-> Cardinality(below(x)) + 1]
             f == [k \in 1 .. N |-> CHOOSE x \in S : rank[x] = k]
  <1>1. N \in Nat
    BY FS_CardinalityType
  <1>2. ASSUME NEW x \in S
        PROVE  IsFiniteSet(below(x)) /\ Cardinality(below(x)) \in Nat /\ rank[x] \in 1 .. N
    <2>1. below(x) \in SUBSET (S \ {x}) /\ IsFiniteSet(S \ {x})
      BY FS_Subset
    <2>2. Cardinality(S \ {x}) = N - 1
      BY FS_RemoveElement
    <2>3. IsFiniteSet(below(x)) /\ Cardinality(below(x)) <= N - 1
      <3> HIDE DEF below, N
      <3> QED  BY <2>1, <2>2, FS_Subset
    <2>4. Cardinality(below(x)) \in Nat
      BY <2>3, FS_CardinalityType
    <2>5. rank[x] = Cardinality(below(x)) + 1
      OBVIOUS
    <2> DEFINE c == Cardinality(below(x))
    <2>6. c + 1 \in 1 .. N
      <3>1. c \in Nat /\ c <= N - 1
        BY <2>3, <2>4
      <3> HIDE DEF c, N
      <3> QED  BY <1>1, <3>1
    <2> HIDE DEF below, N, rank
    <2> QED  BY <2>3, <2>4, <2>5, <2>6
  <1>3. ASSUME NEW x \in S, NEW y \in S, x # y, less[<<x, y>>] PROVE rank[x] < rank[y]
    <2>1. below(x) \in SUBSET below(y) /\ x \in below(y) /\ x \notin below(x)
      <3>1. \A z \in below(x) : z \in S \ {y} /\ less[<<z, y>>]
        BY <1>3
      <3> QED  BY <3>1, <1>3
    <2>2. Cardinality(below(x)) <= Cardinality(below(y)) /\ Cardinality(below(x)) # Cardinality(below(y))
      <3> HIDE DEF below
      <3> QED  BY <1>2, <2>1, FS_Subset
    <2>3. Cardinality(below(x)) \in Nat /\ Cardinality(below(y)) \in Nat
      BY <1>2
    <2> HIDE DEF below
    <2> QED  BY <2>2, <2>3
  <1>4. \A x, y \in S : rank[x] = rank[y] => x = y
    <2> SUFFICES ASSUME NEW x \in S, NEW y \in S, rank[x] = rank[y], x # y PROVE FALSE
      OBVIOUS
    <2>1. rank[x] < rank[y] \/ rank[y] < rank[x]
      BY <1>3
    <2>2. rank[x] \in 1 .. N /\ rank[y] \in 1 .. N
      BY <1>2
    <2> HIDE DEF rank, N
    <2> QED  BY <1>1, <2>1, <2>2
  <1>5. rank \in [S -> 1 .. N]
    BY <1>2
  <1>6. rank \in Surjection(S, 1 .. N)
    <2>1. rank \in Injection(S, 1 .. N)
      <3> HIDE DEF rank, N
      <3> QED  BY <1>4, <1>5 DEF Injection, IsInjective
    <2>2. IsFiniteSet(1 .. N) /\ Cardinality(1 .. N) = N
      BY <1>1, FS_Interval
    <2> HIDE DEF rank
    <2> QED  BY <2>1, <2>2, FS_Injection
  <1>7. \A k \in 1 .. N : \E x \in S : rank[x] = k
    <2> HIDE DEF rank
    <2> QED  BY <1>6 DEF Surjection
  <1>8. Sorted(S, less) = f
    <2>1. \A k \in 1 .. N : \A x \in S : Cardinality(below(x)) = k - 1 <=> rank[x] = k
      <3> SUFFICES ASSUME NEW k \in 1 .. N, NEW x \in S
                   PROVE  Cardinality(below(x)) = k - 1 <=> rank[x] = k
        OBVIOUS
      <3>1. Cardinality(below(x)) \in Nat /\ rank[x] = Cardinality(below(x)) + 1
        BY <1>2
      <3> HIDE DEF below, rank
      <3> QED  BY <1>1, <3>1
    <2>2. \A k \in 1 .. N : (CHOOSE x \in S : Cardinality(below(x)) = k - 1) = f[k]
      <3> HIDE DEF below, rank
      <3> QED  BY <2>1
    <2> HIDE DEF rank
    <2> QED  BY <2>2 DEF Sorted
  <1>9. f \in [1 .. N -> S] /\ \A k \in 1 .. N : rank[f[k]] = k
    <2> HIDE DEF rank
    <2> QED  BY <1>7
  <1>10. \A i, j \in 1 .. N : i # j => f[i] # f[j]
    <2> HIDE DEF f, rank
    <2> QED  BY <1>9
  <1>11. \A x \in S : \E i \in 1 .. N : f[i] = x
    <2> SUFFICES ASSUME NEW x \in S PROVE f[rank[x]] = x /\ rank[x] \in 1 .. N
      OBVIOUS
    <2>1. rank[x] \in 1 .. N
      BY <1>2
    <2>2. f[rank[x]] \in S /\ rank[f[rank[x]]] = rank[x]
      <3> HIDE DEF f, rank
      <3> QED  BY <1>9, <2>1
    <2> HIDE DEF f, rank
    <2> QED  BY <1>4, <2>1, <2>2
  <1>12. \A i, j \in 1 .. N : i < j => less[<<f[i], f[j]>>]
    <2> SUFFICES ASSUME NEW i \in 1 .. N, NEW j \in 1 .. N, i < j, ~less[<<f[i], f[j]>>] PROVE FALSE
      OBVIOUS
    <2>1. f[i] \in S /\ f[j] \in S /\ f[i] # f[j] /\ rank[f[i]] = i /\ rank[f[j]] = j
      <3> HIDE DEF f, rank
      <3> QED  BY <1>9, <1>10, <1>1
    <2>2. less[<<f[j], f[i]>>]
      <3> HIDE DEF f
      <3> QED  BY <2>1
    <2>3. rank[f[j]] < rank[f[i]]
      <3> HIDE DEF f, rank
      <3> QED  BY <1>3, <2>1, <2>2
    <2> HIDE DEF f, rank
    <2> QED  BY <1>1, <2>1, <2>3
  <1>13. f \in Surjection(1 .. N, S)
    <2> HIDE DEF f
    <2> QED  BY <1>9, <1>11 DEF Surjection
  <1> HIDE DEF f
  <1> QED  BY <1>1, <1>8, <1>10, <1>12, <1>13

(* The same for numbers. *)
LEMMA AscendingOf ==
    ASSUME NEW S \in SUBSET Int, IsFiniteSet(S)
    PROVE  /\ Cardinality(S) \in Nat
           /\ Ascending(S) \in [1 .. Cardinality(S) -> S]
           /\ \A i, j \in 1 .. Cardinality(S) : i < j => Ascending(S)[i] < Ascending(S)[j]
           /\ \A n \in S : \E i \in 1 .. Cardinality(S) : Ascending(S)[i] = n
  <1> DEFINE less == [pair \in S \X S |-> pair[1] < pair[2]]
  <1>1. \A x, y \in S : less[<<x, y>>] <=> x < y
    OBVIOUS
  <1>2. \A x \in S : x \in Int
    OBVIOUS
  <1> HIDE DEF less
  <1>3. /\ \A x, y \in S : x # y => (less[<<x, y>>] <=> ~less[<<y, x>>])
        /\ \A x, y, z \in S : x # y /\ y # z /\ less[<<x, y>>] /\ less[<<y, z>>] => less[<<x, z>>]
    <2>1. \A x, y, z \in S : x # y => (x < y <=> ~(y < x)) /\ (x < y /\ y < z => x < z)
      <3> SUFFICES ASSUME NEW x \in S, NEW y \in S, NEW z \in S, x # y
                   PROVE  (x < y <=> ~(y < x)) /\ (x < y /\ y < z => x < z)
        OBVIOUS
      <3>1. x \in Int /\ y \in Int /\ z \in Int
        BY <1>2
      <3> QED  BY <3>1
    <2> QED  BY <1>1, <2>1
  <1>4. Ascending(S) = Sorted(S, less)
    BY DEF Ascending, less
  <1>5. Cardinality(S) \in Nat /\ Sorted(S, less) \in Surjection(1 .. Cardinality(S), S)
    BY <1>3, SortedOf
  <1>6. \A i, j \in 1 .. Cardinality(S) : i < j => less[<<Sorted(S, less)[i], Sorted(S, less)[j]>>]
    BY <1>3, SortedOf
  <1>7. \A x \in S : \E i \in 1 .. Cardinality(S) : Sorted(S, less)[i] = x
    BY <1>5 DEF Surjection
  <1>8. \A i, j \in 1 .. Cardinality(S) : i < j => Sorted(S, less)[i] < Sorted(S, less)[j]
    <2> DEFINE a == Sorted(S, less)
    <2>1. \A i \in 1 .. Cardinality(S) : a[i] \in S
      BY <1>5 DEF Surjection
    <2>2. \A i, j \in 1 .. Cardinality(S) : i < j => less[<<a[i], a[j]>>]
      BY <1>6
    <2> HIDE DEF a
    <2>3. \A i, j \in 1 .. Cardinality(S) : i < j => a[i] < a[j]
      BY <1>1, <2>1, <2>2
    <2> QED  BY <2>3 DEF a
  <1> QED  BY <1>4, <1>5, <1>7, <1>8 DEF Surjection

-----------------------------------------------------------------------------
(* Lists: elements, order, parts, joining, reversal. *)

(* Lists as sets of elements in an order. *)
Distinct(q) == \A i, j \in DOMAIN q : i # j => q[i] # q[j]
Before(q, x, y) == \E i, j \in DOMAIN q : i < j /\ q[i] = x /\ q[j] = y

(* A list in numbers: its length, its places, and the finite set of its
   elements. *)
LEMMA ElementsOf ==
    ASSUME NEW S, NEW q \in Seq(S)
    PROVE  /\ Len(q) \in Nat /\ DOMAIN q = 1 .. Len(q)
           /\ \A i \in 1 .. Len(q) : q[i] \in S
           /\ ToSet(q) \in SUBSET S /\ IsFiniteSet(ToSet(q))
           /\ \A x : x \in ToSet(q) <=> \E i \in 1 .. Len(q) : q[i] = x
           /\ Distinct(q) => Cardinality(ToSet(q)) = Len(q)
  <1>1. Len(q) \in Nat /\ DOMAIN q = 1 .. Len(q) /\ \A i \in 1 .. Len(q) : q[i] \in S
    BY LenProperties
  <1>2. ToSet(q) \in SUBSET S /\ \A x : x \in ToSet(q) <=> \E i \in 1 .. Len(q) : q[i] = x
    BY <1>1 DEF ToSet
  <1>3. IsFiniteSet(1 .. Len(q)) /\ Cardinality(1 .. Len(q)) = Len(q)
    <2> DEFINE N == Len(q)
    <2>1. N \in Nat
      BY <1>1
    <2> HIDE DEF N
    <2>2. IsFiniteSet(1 .. N) /\ Cardinality(1 .. N) = N
      BY <2>1, FS_Interval
    <2> QED  BY <2>2 DEF N
  <1>4. q \in Surjection(1 .. Len(q), ToSet(q))
    <2>1. q \in [1 .. Len(q) -> ToSet(q)]
      <3>1. q \in [1 .. Len(q) -> S] /\ \A i \in 1 .. Len(q) : q[i] \in ToSet(q)
        BY <1>1, <1>2, LenProperties
      <3> QED  BY <3>1
    <2> QED  BY <1>2, <2>1 DEF Surjection
  <1>5. IsFiniteSet(ToSet(q))
    BY <1>3, <1>4, FS_Surjection
  <1>6. ASSUME Distinct(q) PROVE Cardinality(ToSet(q)) = Len(q)
    <2>1. q \in Bijection(1 .. Len(q), ToSet(q))
      BY <1>1, <1>4, <1>6 DEF Bijection, Injection, IsInjective, Surjection, Distinct
    <2>2. ExistsBijection(1 .. Len(q), ToSet(q))
      BY <2>1 DEF ExistsBijection
    <2>3. Cardinality(1 .. Len(q)) = Cardinality(ToSet(q))
      BY <1>3, <2>2, FS_Bijection
    <2> QED  BY <1>3, <2>3
  <1> QED  BY <1>1, <1>2, <1>5, <1>6

(* What is left of a list when some of its places are kept. *)
LEMMA OnlyOf ==
    ASSUME NEW S, NEW q \in Seq(S), NEW P, P \subseteq DOMAIN q
    PROVE  /\ Only(q, P) \in Seq(S)
           /\ ToSet(Only(q, P)) = {q[i] : i \in P}
           /\ Distinct(q) => Distinct(Only(q, P))
           /\ \A x, y : Before(Only(q, P), x, y) => Before(q, x, y)
           /\ Len(Only(q, P)) = Cardinality(P) /\ Cardinality(P) \in Nat
           /\ \A k \in 1 .. Cardinality(P) : Ascending(P)[k] \in P /\ Only(q, P)[k] = q[Ascending(P)[k]]
           /\ \A j, k \in 1 .. Cardinality(P) : j < k => Ascending(P)[j] < Ascending(P)[k]
  <1> DEFINE N == Cardinality(P)
             a == Ascending(P)
             r == [k \in 1 .. N |-> q[a[k]]]
  <1>1. Len(q) \in Nat /\ DOMAIN q = 1 .. Len(q) /\ \A i \in 1 .. Len(q) : q[i] \in S
    BY LenProperties
  <1>2. IsFiniteSet(P) /\ P \in SUBSET Int
    <2>1. P \in SUBSET (1 .. Len(q)) /\ IsFiniteSet(1 .. Len(q))
      BY <1>1, FS_Interval
    <2>2. P \in SUBSET Int
      BY <1>1, <2>1
    <2> QED  BY <2>1, <2>2, FS_Subset
  <1>3. /\ N \in Nat /\ a \in [1 .. N -> P]
        /\ \A i, j \in 1 .. N : i < j => a[i] < a[j]
        /\ \A n \in P : \E i \in 1 .. N : a[i] = n
    BY <1>2, AscendingOf
  <1>4. Only(q, P) = r
    BY <1>3 DEF Only
  <1> HIDE DEF N, a
  <1>5. r \in [1 .. N -> S] /\ \A k \in 1 .. N : a[k] \in P /\ r[k] = q[a[k]]
    BY <1>1, <1>3
  <1>6. r \in Seq(S) /\ Len(r) = N /\ DOMAIN r = 1 .. N
    <2> HIDE DEF r
    <2>1. r \in Seq(S)
      BY <1>3, <1>5, SeqDef
    <2> QED  BY <1>3, <1>5, <2>1, LenProperties
  <1> HIDE DEF r
  <1>7. ToSet(r) = {q[i] : i \in P}
    <2>1. \A x \in ToSet(r) : \E i \in P : x = q[i]
      BY <1>5, <1>6 DEF ToSet
    <2>2. ASSUME NEW i \in P PROVE q[i] \in ToSet(r)
      <3>1. PICK k \in 1 .. N : a[k] = i
        BY <1>3
      <3> QED  BY <1>5, <1>6, <3>1 DEF ToSet
    <2> QED  BY <2>1, <2>2
  <1>8. \A j, k \in 1 .. N : j # k => a[j] # a[k] /\ a[j] \in 1 .. Len(q)
    <2> SUFFICES ASSUME NEW j \in 1 .. N, NEW k \in 1 .. N, j # k
                 PROVE  a[j] # a[k] /\ a[j] \in 1 .. Len(q)
      OBVIOUS
    <2>1. a[j] \in 1 .. Len(q) /\ a[k] \in 1 .. Len(q)
      BY <1>1, <1>3
    <2>2. a[j] < a[k] \/ a[k] < a[j]
      BY <1>3
    <2> QED  BY <1>1, <2>1, <2>2
  <1>9. Distinct(q) => Distinct(r)
    <2> SUFFICES ASSUME Distinct(q), NEW j \in 1 .. N, NEW k \in 1 .. N, j # k PROVE r[j] # r[k]
      BY <1>6 DEF Distinct
    <2>1. a[j] # a[k] /\ a[j] \in DOMAIN q /\ a[k] \in DOMAIN q
      BY <1>1, <1>8
    <2>2. q[a[j]] # q[a[k]]
      BY <2>1 DEF Distinct
    <2> QED  BY <1>5, <2>2
  <1>10. ASSUME NEW x, NEW y, Before(r, x, y) PROVE Before(q, x, y)
    <2>1. PICK j \in 1 .. N, k \in 1 .. N : j < k /\ r[j] = x /\ r[k] = y
      BY <1>6, <1>10 DEF Before
    <2>2. a[j] \in DOMAIN q /\ a[k] \in DOMAIN q /\ a[j] < a[k] /\ q[a[j]] = x /\ q[a[k]] = y
      BY <1>1, <1>3, <1>5, <2>1
    <2> QED  BY <2>2 DEF Before
  <1> QED  BY <1>3, <1>4, <1>5, <1>6, <1>7, <1>9, <1>10 DEF N, a

(* One list after another. *)
LEMMA ConcatOf ==
    ASSUME NEW S, NEW s \in Seq(S), NEW t \in Seq(S)
    PROVE  /\ s \o t \in Seq(S)
           /\ Len(s \o t) = Len(s) + Len(t)
           /\ ToSet(s \o t) = ToSet(s) \cup ToSet(t)
           /\ Distinct(s) /\ Distinct(t) /\ ToSet(s) \cap ToSet(t) = {} => Distinct(s \o t)
           /\ \A x, y : Before(s \o t, x, y) =>
                  Before(s, x, y) \/ Before(t, x, y) \/ (x \in ToSet(s) /\ y \in ToSet(t))
  <1> DEFINE r == s \o t
  <1>1. /\ Len(s) \in Nat /\ DOMAIN s = 1 .. Len(s) /\ \A x : x \in ToSet(s) <=> \E i \in 1 .. Len(s) : s[i] = x
        /\ Len(t) \in Nat /\ DOMAIN t = 1 .. Len(t) /\ \A x : x \in ToSet(t) <=> \E i \in 1 .. Len(t) : t[i] = x
    BY ElementsOf
  <1>2. /\ r \in Seq(S) /\ Len(r) = Len(s) + Len(t)
        /\ \A i \in 1 .. Len(s) + Len(t) : r[i] = IF i <= Len(s) THEN s[i] ELSE t[i - Len(s)]
    BY ConcatProperties
  <1> HIDE DEF r
  <1>3. DOMAIN r = 1 .. Len(s) + Len(t) /\ \A x : x \in ToSet(r) <=> \E i \in 1 .. Len(s) + Len(t) : r[i] = x
    BY <1>2, ElementsOf
  <1>4. ASSUME NEW i \in 1 .. Len(s) + Len(t)
        PROVE  \/ i \in 1 .. Len(s) /\ r[i] = s[i] /\ r[i] \in ToSet(s)
               \/ i \notin 1 .. Len(s) /\ i - Len(s) \in 1 .. Len(t) /\ r[i] = t[i - Len(s)] /\ r[i] \in ToSet(t)
    <2>1. CASE i <= Len(s)
      BY <1>1, <1>2, <2>1
    <2>2. CASE ~(i <= Len(s))
      <3>1. i - Len(s) \in 1 .. Len(t) /\ i \notin 1 .. Len(s)
        BY <1>1, <2>2
      <3>2. r[i] = t[i - Len(s)]
        BY <1>2, <2>2
      <3> QED  BY <1>1, <3>1, <3>2
    <2> QED  BY <2>1, <2>2
  <1>5. ToSet(r) = ToSet(s) \cup ToSet(t)
    <2>1. \A x \in ToSet(r) : x \in ToSet(s) \cup ToSet(t)
      BY <1>3, <1>4
    <2>2. ASSUME NEW x \in ToSet(s) PROVE x \in ToSet(r)
      <3>1. PICK i \in 1 .. Len(s) : s[i] = x
        BY <1>1
      <3>2. i \in 1 .. Len(s) + Len(t) /\ r[i] = x
        BY <1>1, <1>2, <3>1
      <3> QED  BY <1>3, <3>2
    <2>3. ASSUME NEW x \in ToSet(t) PROVE x \in ToSet(r)
      <3>1. PICK i \in 1 .. Len(t) : t[i] = x
        BY <1>1
      <3>2. i + Len(s) \in 1 .. Len(s) + Len(t) /\ ~(i + Len(s) <= Len(s)) /\ (i + Len(s)) - Len(s) = i
        BY <1>1, <3>1
      <3>3. r[i + Len(s)] = x
        BY <1>2, <3>1, <3>2
      <3> QED  BY <1>3, <3>2, <3>3
    <2> QED  BY <2>1, <2>2, <2>3
  <1>6. ASSUME Distinct(s), Distinct(t), ToSet(s) \cap ToSet(t) = {} PROVE Distinct(r)
    <2> SUFFICES ASSUME NEW i \in 1 .. Len(s) + Len(t), NEW j \in 1 .. Len(s) + Len(t), i # j, r[i] = r[j]
                 PROVE  FALSE
      BY <1>3 DEF Distinct
    <2>1. CASE i \in 1 .. Len(s) /\ j \in 1 .. Len(s)
      <3>1. s[i] = s[j]
        BY <1>4, <2>1
      <3> QED  BY <1>1, <1>6, <2>1, <3>1 DEF Distinct
    <2>2. CASE i \notin 1 .. Len(s) /\ j \notin 1 .. Len(s)
      <3>1. t[i - Len(s)] = t[j - Len(s)] /\ i - Len(s) \in 1 .. Len(t) /\ j - Len(s) \in 1 .. Len(t)
        BY <1>4, <2>2
      <3>2. i - Len(s) # j - Len(s)
        BY <1>1
      <3> QED  BY <1>1, <1>6, <3>1, <3>2 DEF Distinct
    <2> QED  BY <1>4, <1>6, <2>1, <2>2
  <1>7. ASSUME NEW x, NEW y, Before(r, x, y)
        PROVE  Before(s, x, y) \/ Before(t, x, y) \/ (x \in ToSet(s) /\ y \in ToSet(t))
    <2>1. PICK i \in 1 .. Len(s) + Len(t), j \in 1 .. Len(s) + Len(t) : i < j /\ r[i] = x /\ r[j] = y
      BY <1>3, <1>7 DEF Before
    <2>2. CASE i \in 1 .. Len(s) /\ j \in 1 .. Len(s)
      <3>1. s[i] = x /\ s[j] = y
        BY <1>4, <2>1, <2>2
      <3> QED  BY <1>1, <2>1, <2>2, <3>1 DEF Before
    <2>3. CASE i \notin 1 .. Len(s) /\ j \notin 1 .. Len(s)
      <3>1. t[i - Len(s)] = x /\ t[j - Len(s)] = y /\ i - Len(s) \in 1 .. Len(t) /\ j - Len(s) \in 1 .. Len(t)
        BY <1>4, <2>1, <2>3
      <3>2. i - Len(s) < j - Len(s)
        BY <1>1, <2>1
      <3> QED  BY <1>1, <3>1, <3>2 DEF Before
    <2>4. CASE i \in 1 .. Len(s) /\ j \notin 1 .. Len(s)
      BY <1>4, <2>1, <2>4
    <2>5. CASE i \notin 1 .. Len(s) /\ j \in 1 .. Len(s)
      BY <1>1, <2>1, <2>5
    <2> QED  BY <2>2, <2>3, <2>4, <2>5
  <1> QED  BY <1>2, <1>5, <1>6, <1>7 DEF r

(* A list from its end. *)
LEMMA ReverseOf ==
    ASSUME NEW S, NEW q \in Seq(S)
    PROVE  /\ Reverse(q) \in Seq(S) /\ Len(Reverse(q)) = Len(q)
           /\ ToSet(Reverse(q)) = ToSet(q)
           /\ Distinct(q) => Distinct(Reverse(q))
  <1> DEFINE N == Len(q)
             r == [i \in 1 .. N |-> q[(N - i) + 1]]
  <1>1. /\ N \in Nat /\ DOMAIN q = 1 .. N /\ \A i \in 1 .. N : q[i] \in S
        /\ \A x : x \in ToSet(q) <=> \E i \in 1 .. N : q[i] = x
    BY ElementsOf
  <1>2. Reverse(q) = r
    BY DEF Reverse
  <1> HIDE DEF N
  <1>3. \A i \in 1 .. N : (N - i) + 1 \in 1 .. N /\ (N - ((N - i) + 1)) + 1 = i
    BY <1>1
  <1>4. r \in [1 .. N -> S] /\ \A i \in 1 .. N : r[i] = q[(N - i) + 1]
    BY <1>1, <1>3
  <1> HIDE DEF r
  <1>5. r \in Seq(S) /\ Len(r) = N /\ DOMAIN r = 1 .. N
    <2>1. r \in Seq(S)
      BY <1>1, <1>4, SeqDef
    <2> QED  BY <1>1, <1>4, <2>1, LenProperties
  <1>6. \A x : x \in ToSet(r) <=> \E i \in 1 .. N : r[i] = x
    BY <1>5 DEF ToSet
  <1>7. ToSet(r) = ToSet(q)
    <2>1. \A x \in ToSet(r) : x \in ToSet(q)
      BY <1>1, <1>3, <1>4, <1>6
    <2>2. ASSUME NEW x \in ToSet(q) PROVE x \in ToSet(r)
      <3>1. PICK i \in 1 .. N : q[i] = x
        BY <1>1
      <3>2. (N - i) + 1 \in 1 .. N /\ r[(N - i) + 1] = q[(N - ((N - i) + 1)) + 1]
        BY <1>3, <1>4
      <3>3. r[(N - i) + 1] = x
        BY <1>3, <3>1, <3>2
      <3> QED  BY <1>6, <3>2, <3>3
    <2> QED  BY <2>1, <2>2
  <1>8. ASSUME Distinct(q) PROVE Distinct(r)
    <2> SUFFICES ASSUME NEW i \in 1 .. N, NEW j \in 1 .. N, i # j PROVE r[i] # r[j]
      BY <1>5 DEF Distinct
    <2>1. (N - i) + 1 # (N - j) + 1
      BY <1>1
    <2>2. q[(N - i) + 1] # q[(N - j) + 1]
      BY <1>1, <1>3, <1>8, <2>1 DEF Distinct
    <2> QED  BY <1>4, <2>2
  <1> QED  BY <1>2, <1>5, <1>7, <1>8 DEF N

(* The lowest of a set of natural numbers. *)
LEMMA LowestOf ==
    ASSUME NEW S \in SUBSET Nat, S # {}
    PROVE  \E m \in S : \A n \in S : m <= n
  <1> DEFINE R == OpToRel(<, Nat)
  <1>1. IsWellFoundedOn(R, Nat)
    BY NatLessThanWellFounded
  <1>2. \A x, y \in Nat : x < y => <<x, y>> \in R
    BY DEF OpToRel
  <1> HIDE DEF R
  <1>3. PICK x \in S : \A y \in S : ~ (<<y, x>> \in R)
    BY <1>1, WFMin
  <1>4. \A y \in S : x \in Nat /\ y \in Nat /\ ~(y < x)
    BY <1>2, <1>3
  <1> QED  BY <1>4

(* The highest of a set of numbers that are bounded. *)
LEMMA HighestOf ==
    ASSUME NEW N \in Nat, NEW S \in SUBSET (1 .. N), S # {}
    PROVE  \E m \in S : \A n \in S : n <= m
  <1> DEFINE T == {N - n : n \in S}
  <1>1. T \in SUBSET Nat /\ T # {}
    <2>1. \A n \in S : N - n \in Nat
      OBVIOUS
    <2> QED  BY <2>1
  <1>2. PICK t \in T : \A n \in T : t <= n
    BY <1>1, LowestOf
  <1>3. PICK x \in S : t = N - x
    BY <1>2
  <1>4. \A y \in S : N - x <= N - y
    BY <1>2, <1>3
  <1>5. \A y \in S : y <= x
    BY <1>4
  <1> QED  BY <1>5

(* A list without the element at one place. *)
LEMMA RemoveAtOf ==
    ASSUME NEW S, NEW q \in Seq(S), NEW i \in 1 .. Len(q)
    PROVE  /\ RemoveAt(q, i) \in Seq(S) /\ Len(RemoveAt(q, i)) = Len(q) - 1
           /\ \A j \in 1 .. Len(q) - 1 : RemoveAt(q, i)[j] = IF j < i THEN q[j] ELSE q[j + 1]
  <1>1. Len(q) \in Nat /\ \A j \in 1 .. Len(q) : q[j] \in S
    BY LenProperties
  <1> DEFINE a == SubSeq(q, 1, i - 1)
             b == SubSeq(q, i + 1, Len(q))
  <1>2. a \in Seq(S) /\ Len(a) = i - 1 /\ \A j \in 1 .. i - 1 : a[j] = q[j]
    <2>1. \A j \in 1 .. i - 1 : q[j] \in S
      BY <1>1
    <2> QED  BY <2>1, <1>1, SubSeqProperties
  <1>3. b \in Seq(S) /\ Len(b) = Len(q) - i /\ \A j \in 1 .. Len(q) - i : b[j] = q[j + i]
    <2>1. \A j \in i + 1 .. Len(q) : q[j] \in S
      BY <1>1
    <2> QED  BY <2>1, <1>1, SubSeqProperties
  <1> HIDE DEF a, b
  <1>4. /\ a \o b \in Seq(S) /\ Len(a \o b) = Len(a) + Len(b)
        /\ \A j \in 1 .. Len(a) + Len(b) : (a \o b)[j] = IF j <= Len(a) THEN a[j] ELSE b[j - Len(a)]
    BY <1>2, <1>3, ConcatProperties
  <1>5. RemoveAt(q, i) = a \o b
    BY DEF RemoveAt, a, b
  <1>6. \A j \in 1 .. Len(q) - 1 : (a \o b)[j] = IF j < i THEN q[j] ELSE q[j + 1]
    <2> SUFFICES ASSUME NEW j \in 1 .. Len(q) - 1
                 PROVE  (a \o b)[j] = IF j < i THEN q[j] ELSE q[j + 1]
      OBVIOUS
    <2>1. CASE j < i
      BY <1>1, <1>2, <1>3, <1>4, <2>1
    <2>2. CASE ~(j < i)
      <3>1. j - (i - 1) \in 1 .. Len(q) - i /\ (j - (i - 1)) + i = j + 1
        BY <1>1, <2>2
      <3>2. (a \o b)[j] = b[j - (i - 1)]
        BY <1>1, <1>2, <1>3, <1>4, <2>2
      <3> QED  BY <1>3, <2>2, <3>1, <3>2
    <2> QED  BY <2>1, <2>2
  <1> QED  BY <1>1, <1>2, <1>3, <1>4, <1>5, <1>6

(* A list with an element put in at one place. *)
LEMMA InsertAtOf ==
    ASSUME NEW S, NEW q \in Seq(S), NEW i \in 1 .. Len(q) + 1, NEW e \in S
    PROVE  /\ InsertAt(q, i, e) \in Seq(S) /\ Len(InsertAt(q, i, e)) = Len(q) + 1
           /\ \A j \in 1 .. Len(q) + 1 :
                  InsertAt(q, i, e)[j] = IF j < i THEN q[j] ELSE IF j = i THEN e ELSE q[j - 1]
  <1>1. Len(q) \in Nat /\ \A j \in 1 .. Len(q) : q[j] \in S
    BY LenProperties
  <1> DEFINE a == SubSeq(q, 1, i - 1)
             b == SubSeq(q, i, Len(q))
             m == a \o <<e>>
  <1>2. a \in Seq(S) /\ Len(a) = i - 1 /\ \A j \in 1 .. i - 1 : a[j] = q[j]
    <2>1. \A j \in 1 .. i - 1 : q[j] \in S
      BY <1>1
    <2> QED  BY <2>1, <1>1, SubSeqProperties
  <1>3. b \in Seq(S) /\ Len(b) = Len(q) + 1 - i /\ \A j \in 1 .. Len(q) + 1 - i : b[j] = q[j + i - 1]
    <2>1. \A j \in i .. Len(q) : q[j] \in S
      BY <1>1
    <2> QED  BY <2>1, <1>1, SubSeqProperties
  <1> HIDE DEF a, b
  <1>4. m \in Seq(S) /\ Len(m) = i /\ \A j \in 1 .. i : m[j] = IF j < i THEN q[j] ELSE e
    <2>1. <<e>> \in Seq(S) /\ Len(<<e>>) = 1 /\ <<e>>[1] = e
      OBVIOUS
    <2>2. /\ m \in Seq(S) /\ Len(m) = Len(a) + 1
          /\ \A j \in 1 .. Len(a) + 1 : m[j] = IF j <= Len(a) THEN a[j] ELSE <<e>>[j - Len(a)]
      BY <1>2, <2>1, ConcatProperties
    <2> HIDE DEF m
    <2>3. ASSUME NEW j \in 1 .. i PROVE m[j] = IF j < i THEN q[j] ELSE e
      BY <1>1, <1>2, <2>1, <2>2
    <2> QED  BY <1>1, <1>2, <2>2, <2>3
  <1> HIDE DEF m
  <1>5. /\ m \o b \in Seq(S) /\ Len(m \o b) = Len(m) + Len(b)
        /\ \A j \in 1 .. Len(m) + Len(b) : (m \o b)[j] = IF j <= Len(m) THEN m[j] ELSE b[j - Len(m)]
    BY <1>3, <1>4, ConcatProperties
  <1>6. InsertAt(q, i, e) = m \o b
    BY DEF InsertAt, a, b, m
  <1>7. ASSUME NEW j \in 1 .. Len(q) + 1
        PROVE  (m \o b)[j] = IF j < i THEN q[j] ELSE IF j = i THEN e ELSE q[j - 1]
    <2>1. CASE j <= i
      BY <1>1, <1>3, <1>4, <1>5, <2>1
    <2>2. CASE ~(j <= i)
      <3>1. j - i \in 1 .. Len(q) + 1 - i /\ (j - i) + i - 1 = j - 1 /\ ~(j < i) /\ j # i
        BY <1>1, <2>2
      <3>2. (m \o b)[j] = b[j - i]
        BY <1>1, <1>3, <1>4, <1>5, <2>2
      <3> QED  BY <1>3, <3>1, <3>2
    <2> QED  BY <2>1, <2>2
  <1> QED  BY <1>1, <1>3, <1>4, <1>5, <1>6, <1>7

(* Of both, what the elements are. *)
LEMMA Removed ==
    ASSUME NEW S, NEW q \in Seq(S), NEW i \in 1 .. Len(q)
    PROVE  /\ RemoveAt(q, i) \in Seq(S) /\ Len(RemoveAt(q, i)) = Len(q) - 1
           /\ ToSet(RemoveAt(q, i)) \subseteq ToSet(q)
           /\ Distinct(q) => /\ Distinct(RemoveAt(q, i))
                             /\ ToSet(RemoveAt(q, i)) = ToSet(q) \ {q[i]}
  <1> DEFINE r == RemoveAt(q, i)
             n == Len(q) - 1
  <1>1. /\ Len(q) \in Nat /\ DOMAIN q = 1 .. Len(q)
        /\ \A x : x \in ToSet(q) <=> \E j \in 1 .. Len(q) : q[j] = x
    BY ElementsOf
  <1>2. r \in Seq(S) /\ Len(r) = n /\ \A j \in 1 .. n : r[j] = IF j < i THEN q[j] ELSE q[j + 1]
    BY RemoveAtOf
  <1> HIDE DEF r
  <1>3. DOMAIN r = 1 .. n /\ \A x : x \in ToSet(r) <=> \E j \in 1 .. n : r[j] = x
    BY <1>2, ElementsOf
  <1> DEFINE at == [j \in 1 .. n |-> IF j < i THEN j ELSE j + 1]
  <1>4. /\ \A j \in 1 .. n : at[j] \in 1 .. Len(q) /\ at[j] # i
        /\ \A j, k \in 1 .. n : j # k => at[j] # at[k]
        /\ \A j \in 1 .. Len(q) : j # i => \E k \in 1 .. n : at[k] = j
    <2>1. \A j \in 1 .. n : at[j] \in 1 .. Len(q) /\ at[j] # i
      BY <1>1
    <2>2. \A j, k \in 1 .. n : j # k => at[j] # at[k]
      BY <1>1
    <2>3. ASSUME NEW j \in 1 .. Len(q), j # i PROVE \E k \in 1 .. n : at[k] = j
      <3>1. CASE j < i
        <4>1. j \in 1 .. n /\ at[j] = j
          BY <1>1, <3>1
        <4> QED  BY <4>1
      <3>2. CASE ~(j < i)
        <4>1. j - 1 \in 1 .. n /\ at[j - 1] = j
          BY <1>1, <2>3, <3>2
        <4> QED  BY <4>1
      <3> QED  BY <3>1, <3>2
    <2> QED  BY <2>1, <2>2, <2>3
  <1>5. \A j \in 1 .. n : r[j] = q[at[j]]
    BY <1>2
  <1> HIDE DEF at
  <1>6. ToSet(r) \subseteq ToSet(q)
    BY <1>1, <1>3, <1>4, <1>5
  <1>7. ASSUME Distinct(q) PROVE Distinct(r) /\ ToSet(r) = ToSet(q) \ {q[i]}
    <2>4. \A j, k \in 1 .. Len(q) : j # k => q[j] # q[k]
      BY <1>1, <1>7 DEF Distinct
    <2>5. ASSUME NEW j \in 1 .. n, NEW k \in 1 .. n, j # k PROVE r[j] # r[k]
      <3>1. at[j] \in 1 .. Len(q) /\ at[k] \in 1 .. Len(q) /\ at[j] # at[k]
        BY <1>4, <2>5
      <3> QED  BY <1>5, <2>4, <3>1
    <2>1. Distinct(r)
      BY <1>3, <2>5 DEF Distinct
    <2>6. ASSUME NEW j \in 1 .. n PROVE r[j] # q[i]
      <3>1. at[j] \in 1 .. Len(q) /\ at[j] # i
        BY <1>4
      <3> QED  BY <1>5, <2>4, <3>1
    <2>2. \A x \in ToSet(r) : x # q[i]
      BY <1>3, <2>6
    <2>3. ASSUME NEW x \in ToSet(q), x # q[i] PROVE x \in ToSet(r)
      <3>1. PICK j \in 1 .. Len(q) : q[j] = x
        BY <1>1
      <3>2. PICK k \in 1 .. n : at[k] = j
        BY <1>4, <2>3, <3>1
      <3> QED  BY <1>3, <1>5, <3>1, <3>2
    <2> QED  BY <1>6, <2>1, <2>2, <2>3
  <1> QED  BY <1>2, <1>6, <1>7 DEF r

(* The elements of a list with one put in, and when it stays without
   repetitions. *)
LEMMA Inserted ==
    ASSUME NEW S, NEW q \in Seq(S), NEW i \in 1 .. Len(q) + 1, NEW e \in S
    PROVE  /\ InsertAt(q, i, e) \in Seq(S) /\ Len(InsertAt(q, i, e)) = Len(q) + 1
           /\ ToSet(InsertAt(q, i, e)) = ToSet(q) \cup {e}
           /\ Distinct(q) /\ e \notin ToSet(q) => Distinct(InsertAt(q, i, e))
  <1> DEFINE r == InsertAt(q, i, e)
             n == Len(q) + 1
  <1>1. /\ Len(q) \in Nat /\ DOMAIN q = 1 .. Len(q)
        /\ \A x : x \in ToSet(q) <=> \E j \in 1 .. Len(q) : q[j] = x
    BY ElementsOf
  <1>2. /\ r \in Seq(S) /\ Len(r) = n
        /\ \A j \in 1 .. n : r[j] = IF j < i THEN q[j] ELSE IF j = i THEN e ELSE q[j - 1]
    BY InsertAtOf
  <1> HIDE DEF r
  <1>3. DOMAIN r = 1 .. n /\ \A x : x \in ToSet(r) <=> \E j \in 1 .. n : r[j] = x
    BY <1>2, ElementsOf
  <1> DEFINE at == [j \in 1 .. n |-> IF j < i THEN j ELSE j - 1]
  <1>4. /\ \A j \in 1 .. n : j # i => at[j] \in 1 .. Len(q)
        /\ \A j, k \in 1 .. n : j # k /\ j # i /\ k # i => at[j] # at[k]
        /\ \A j \in 1 .. Len(q) : \E k \in 1 .. n : k # i /\ at[k] = j
    <2>1. \A j \in 1 .. n : j # i => at[j] \in 1 .. Len(q)
      BY <1>1
    <2>2. \A j, k \in 1 .. n : j # k /\ j # i /\ k # i => at[j] # at[k]
      BY <1>1
    <2>3. ASSUME NEW j \in 1 .. Len(q) PROVE \E k \in 1 .. n : k # i /\ at[k] = j
      <3>1. CASE j < i
        <4>1. j \in 1 .. n /\ j # i /\ at[j] = j
          BY <1>1, <3>1
        <4> QED  BY <4>1
      <3>2. CASE ~(j < i)
        <4>1. j + 1 \in 1 .. n /\ j + 1 # i /\ at[j + 1] = j
          BY <1>1, <3>2
        <4> QED  BY <4>1
      <3> QED  BY <3>1, <3>2
    <2> QED  BY <2>1, <2>2, <2>3
  <1>5. i \in 1 .. n /\ r[i] = e /\ \A j \in 1 .. n : j # i => r[j] = q[at[j]]
    BY <1>1, <1>2
  <1> HIDE DEF at
  <1>6. ToSet(r) = ToSet(q) \cup {e}
    <2>1. \A x \in ToSet(r) : x \in ToSet(q) \cup {e}
      BY <1>1, <1>3, <1>4, <1>5
    <2>2. e \in ToSet(r)
      BY <1>3, <1>5
    <2>3. ASSUME NEW x \in ToSet(q) PROVE x \in ToSet(r)
      <3>1. PICK j \in 1 .. Len(q) : q[j] = x
        BY <1>1
      <3>2. PICK k \in 1 .. n : k # i /\ at[k] = j
        BY <1>4, <3>1
      <3> QED  BY <1>3, <1>5, <3>1, <3>2
    <2> QED  BY <2>1, <2>2, <2>3
  <1>7. ASSUME Distinct(q), e \notin ToSet(q) PROVE Distinct(r)
    <2> SUFFICES ASSUME NEW j \in 1 .. n, NEW k \in 1 .. n, j # k PROVE r[j] # r[k]
      BY <1>3 DEF Distinct
    <2>1. \A l \in 1 .. n : l # i => r[l] \in ToSet(q) /\ r[l] # e
      BY <1>1, <1>4, <1>5, <1>7
    <2>2. CASE j # i /\ k # i
      BY <1>1, <1>4, <1>5, <1>7, <2>2 DEF Distinct
    <2> QED  BY <1>5, <2>1, <2>2
  <1> QED  BY <1>2, <1>6, <1>7 DEF r

(* An element taken out and put in at the same place is replaced. *)
LEMMA Replaced ==
    ASSUME NEW S, NEW q \in Seq(S), NEW i \in 1 .. Len(q), NEW e \in S
    PROVE  InsertAt(RemoveAt(q, i), i, e) = [q EXCEPT ![i] = e]
  <1> DEFINE r == RemoveAt(q, i)
             t == InsertAt(r, i, e)
             u == [q EXCEPT ![i] = e]
  <1>1. Len(q) \in Nat /\ q \in [1 .. Len(q) -> S]
    BY LenProperties
  <1>2. r \in Seq(S) /\ Len(r) = Len(q) - 1
        /\ \A j \in 1 .. Len(q) - 1 : r[j] = IF j < i THEN q[j] ELSE q[j + 1]
    BY RemoveAtOf
  <1> HIDE DEF r
  <1>3. i \in 1 .. Len(r) + 1 /\ Len(r) + 1 = Len(q)
    BY <1>1, <1>2
  <1>4. t \in Seq(S) /\ Len(t) = Len(q)
        /\ \A j \in 1 .. Len(q) : t[j] = IF j < i THEN r[j] ELSE IF j = i THEN e ELSE r[j - 1]
    BY <1>2, <1>3, InsertAtOf
  <1> HIDE DEF t
  <1>5. t \in [1 .. Len(q) -> S]
    BY <1>4, LenProperties
  <1>6. ASSUME NEW j \in 1 .. Len(q) PROVE t[j] = u[j]
    <2>1. CASE j < i
      <3>1. j \in 1 .. Len(q) - 1
        BY <1>1, <2>1
      <3> QED  BY <1>1, <1>2, <1>4, <2>1, <3>1
    <2>2. CASE j = i
      BY <1>1, <1>4, <2>2
    <2>3. CASE j > i
      <3>1. j - 1 \in 1 .. Len(q) - 1 /\ ~(j - 1 < i) /\ (j - 1) + 1 = j /\ ~(j < i) /\ j # i
        BY <1>1, <2>3
      <3>2. t[j] = r[j - 1] /\ r[j - 1] = q[j]
        BY <1>2, <1>4, <3>1
      <3> QED  BY <1>1, <3>1, <3>2
    <2> QED  BY <2>1, <2>2, <2>3
  <1>7. u \in [1 .. Len(q) -> S]
    BY <1>1
  <1> HIDE DEF u
  <1> QED  BY <1>5, <1>6, <1>7 DEF r, t, u

-----------------------------------------------------------------------------
(* Lists of something of the elements of a list; the index of the selection. *)

(* A list of something of the elements of a list. *)
Mapped(f, q) == [k \in DOMAIN q |-> f[q[k]]]

(* Such a list has the same places. *)
LEMMA MappedOf ==
    ASSUME NEW S, NEW f, NEW q \in Seq(S)
    PROVE  /\ Len(Mapped(f, q)) = Len(q)
           /\ \A k \in 1 .. Len(q) : Mapped(f, q)[k] = f[q[k]]
           /\ \A T : (\A x \in S : f[x] \in T) => Mapped(f, q) \in Seq(T)
  <1> DEFINE r == [k \in 1 .. Len(q) |-> f[q[k]]]
             V == {f[x] : x \in S}
  <1>1. Len(q) \in Nat /\ DOMAIN q = 1 .. Len(q) /\ \A i \in 1 .. Len(q) : q[i] \in S
    BY LenProperties
  <1>2. Mapped(f, q) = r
    BY <1>1 DEF Mapped
  <1>3. \A k \in 1 .. Len(q) : r[k] = f[q[k]]
    OBVIOUS
  <1>4. ASSUME NEW T, \A x \in S : f[x] \in T PROVE r \in Seq(T)
    <2>1. r \in [1 .. Len(q) -> T]
      BY <1>1, <1>4
    <2> HIDE DEF r
    <2> QED  BY <1>1, <2>1, SeqDef
  <1>5. r \in Seq(V)
    BY <1>4
  <1>6. Len(r) = Len(q)
    <2>1. DOMAIN r = 1 .. Len(q)
      OBVIOUS
    <2> HIDE DEF r
    <2> QED  BY <1>1, <1>5, <2>1, LenProperties
  <1> QED  BY <1>2, <1>3, <1>4, <1>6

(* Two lists of one length with the same elements. *)
LEMMA SameList ==
    ASSUME NEW T, NEW s \in Seq(T), NEW t \in Seq(T), Len(s) = Len(t),
           \A k \in 1 .. Len(s) : s[k] = t[k]
    PROVE  s = t
  <1>1. s \in [1 .. Len(s) -> T] /\ t \in [1 .. Len(s) -> T]
    BY LenProperties
  <1> QED  BY <1>1

(* Putting an element in and mapping commute. *)
LEMMA MappedInsert ==
    ASSUME NEW S, NEW f, NEW q \in Seq(S), NEW i \in 1 .. Len(q) + 1, NEW e \in S
    PROVE  Mapped(f, InsertAt(q, i, e)) = InsertAt(Mapped(f, q), i, f[e])
  <1> DEFINE T == {f[x] : x \in S}
  <1>a. \A x \in S : f[x] \in T
    OBVIOUS
  <1> HIDE DEF T
  <1> DEFINE m == Mapped(f, q)
             r == InsertAt(q, i, e)
             s == Mapped(f, r)
             t == InsertAt(m, i, f[e])
  <1>0. Len(q) \in Nat /\ f[e] \in T
    BY <1>a, LenProperties
  <1>1. m \in Seq(T) /\ Len(m) = Len(q) /\ \A k \in 1 .. Len(q) : m[k] = f[q[k]]
    BY <1>a, MappedOf
  <1> HIDE DEF m
  <1>2. /\ r \in Seq(S) /\ Len(r) = Len(q) + 1
        /\ \A j \in 1 .. Len(q) + 1 : r[j] = IF j < i THEN q[j] ELSE IF j = i THEN e ELSE q[j - 1]
    BY InsertAtOf
  <1> HIDE DEF r
  <1>3. s \in Seq(T) /\ Len(s) = Len(q) + 1 /\ \A k \in 1 .. Len(q) + 1 : s[k] = f[r[k]]
    BY <1>a, <1>2, MappedOf
  <1>4. /\ t \in Seq(T) /\ Len(t) = Len(q) + 1
        /\ \A j \in 1 .. Len(q) + 1 : t[j] = IF j < i THEN m[j] ELSE IF j = i THEN f[e] ELSE m[j - 1]
    <2>1. i \in 1 .. Len(m) + 1 /\ f[e] \in T /\ m \in Seq(T)
      BY <1>0, <1>1
    <2> HIDE DEF t
    <2>2. /\ InsertAt(m, i, f[e]) \in Seq(T) /\ Len(InsertAt(m, i, f[e])) = Len(m) + 1
          /\ \A j \in 1 .. Len(m) + 1 : InsertAt(m, i, f[e])[j] = IF j < i THEN m[j] ELSE IF j = i THEN f[e] ELSE m[j - 1]
      BY <2>1, InsertAtOf
    <2> QED  BY <1>1, <2>2 DEF t
  <1> HIDE DEF s, t
  <1>5. ASSUME NEW j \in 1 .. Len(q) + 1 PROVE s[j] = t[j]
    <2>1. CASE j < i
      <3>1. j \in 1 .. Len(q)
        BY <1>0, <2>1
      <3>2. s[j] = f[r[j]] /\ r[j] = q[j] /\ t[j] = m[j] /\ m[j] = f[q[j]]
        BY <1>1, <1>2, <1>3, <1>4, <2>1, <3>1
      <3> QED  BY <3>2
    <2>2. CASE j = i
      BY <1>2, <1>3, <1>4, <2>2
    <2>3. CASE j > i
      <3>1. j - 1 \in 1 .. Len(q) /\ ~(j < i) /\ j # i
        BY <1>0, <2>3
      <3>2. s[j] = f[r[j]] /\ r[j] = q[j - 1] /\ t[j] = m[j - 1] /\ m[j - 1] = f[q[j - 1]]
        <4>1. s[j] = f[r[j]]
          BY <1>3
        <4>2. r[j] = q[j - 1]
          BY <1>2, <3>1
        <4>3. t[j] = m[j - 1]
          BY <1>4, <3>1
        <4>4. m[j - 1] = f[q[j - 1]]
          BY <1>1, <3>1
        <4> QED  BY <4>1, <4>2, <4>3, <4>4
      <3> QED  BY <3>2
    <2> QED  BY <2>1, <2>2, <2>3
  <1>6. s = t
    BY <1>3, <1>4, <1>5, SameList
  <1> QED  BY <1>6 DEF s, t, r, m

(* Leaving elements out and mapping commute. *)
LEMMA MappedOnly ==
    ASSUME NEW S, NEW f, NEW q \in Seq(S), NEW P \in SUBSET (DOMAIN q)
    PROVE  Mapped(f, Only(q, P)) = Only(Mapped(f, q), P)
  <1> DEFINE T == {f[x] : x \in S}
             m == Mapped(f, q)
             r == Only(q, P)
             s == Mapped(f, r)
             t == Only(m, P)
             n == Cardinality(P)
  <1>1. m \in Seq(T) /\ Len(m) = Len(q) /\ \A k \in 1 .. Len(q) : m[k] = f[q[k]]
    <2>1. \A x \in S : f[x] \in T
      OBVIOUS
    <2> HIDE DEF T
    <2> QED  BY <2>1, MappedOf
  <1>2. DOMAIN q = 1 .. Len(q) /\ DOMAIN m = DOMAIN q
    BY <1>1, LenProperties
  <1> HIDE DEF m, n
  <1>3. /\ r \in Seq(S) /\ Len(r) = n /\ n \in Nat
        /\ \A k \in 1 .. n : Ascending(P)[k] \in P /\ r[k] = q[Ascending(P)[k]]
    BY OnlyOf DEF n
  <1>4. t \in Seq(T) /\ Len(t) = n /\ \A k \in 1 .. n : t[k] = m[Ascending(P)[k]]
    BY <1>1, <1>2, OnlyOf DEF n
  <1> HIDE DEF r, t
  <1>5. s \in Seq(T) /\ Len(s) = n /\ \A k \in 1 .. n : s[k] = f[r[k]]
    <2>1. \A x \in S : f[x] \in T
      OBVIOUS
    <2> HIDE DEF T
    <2> QED  BY <1>3, <2>1, MappedOf
  <1> HIDE DEF s, T
  <1>6. \A k \in 1 .. n : s[k] = t[k]
    <2> SUFFICES ASSUME NEW k \in 1 .. n PROVE s[k] = t[k]
      OBVIOUS
    <2>1. Ascending(P)[k] \in 1 .. Len(q)
      BY <1>2, <1>3
    <2> QED  BY <1>1, <1>3, <1>4, <1>5, <2>1
  <1>7. s = t
    BY <1>4, <1>5, <1>6, SameList
  <1> QED  BY <1>7 DEF s, t, r, m

(* The elements of S come before all the others. *)
Leading(q, S) == \A x, y : Before(q, x, y) /\ y \in S => x \in S

(* What comes before something in a list is in the list, and so is the
   other. *)
LEMMA BeforeIn == \A q, x, y : Before(q, x, y) => x \in ToSet(q) /\ y \in ToSet(q)
  BY DEF Before, ToSet

(* moveToSelected(): the pages come first, then the others as they were. *)
LEMMA MoveToSelectedOf ==
    ASSUME NEW T, NEW q \in Seq(T), Distinct(q), NEW hits \in Seq(T), Distinct(hits),
           ToSet(hits) \subseteq ToSet(q)
    PROVE  /\ MoveToSelected(q, hits) \in Seq(T) /\ Distinct(MoveToSelected(q, hits))
           /\ ToSet(MoveToSelected(q, hits)) = ToSet(q)
           /\ \A S : Leading(q, S) => Leading(MoveToSelected(q, hits), S \cup ToSet(hits))
  <1> DEFINE P == {k \in DOMAIN q : q[k] \notin ToSet(hits)}
             a == Reverse(hits)
             b == Only(q, P)
  <1>1. a \in Seq(T) /\ Distinct(a) /\ ToSet(a) = ToSet(hits)
    BY ReverseOf
  <1>2. /\ b \in Seq(T) /\ Distinct(b) /\ ToSet(b) = {q[i] : i \in P}
        /\ \A x, y : Before(b, x, y) => Before(q, x, y)
    BY OnlyOf
  <1>3. ToSet(b) = ToSet(q) \ ToSet(hits)
    BY <1>2 DEF ToSet
  <1>4. MoveToSelected(q, hits) = a \o b
    BY DEF MoveToSelected
  <1> HIDE DEF a, b
  <1>5. /\ a \o b \in Seq(T) /\ ToSet(a \o b) = ToSet(a) \cup ToSet(b) /\ Distinct(a \o b)
        /\ \A x, y : Before(a \o b, x, y) =>
                Before(a, x, y) \/ Before(b, x, y) \/ (x \in ToSet(a) /\ y \in ToSet(b))
    <2>1. ToSet(a) \cap ToSet(b) = {}
      BY <1>1, <1>3
    <2> QED  BY <1>1, <1>2, <2>1, ConcatOf
  <1>6. ASSUME NEW S, Leading(q, S) PROVE Leading(a \o b, S \cup ToSet(hits))
    <2> SUFFICES ASSUME NEW x, NEW y, Before(a \o b, x, y), y \in S \cup ToSet(hits)
                 PROVE  x \in S \cup ToSet(hits)
      BY DEF Leading
    <2>1. CASE x \in ToSet(a)
      BY <1>1, <2>1
    <2>2. CASE Before(b, x, y)
      <3>1. Before(q, x, y) /\ y \in ToSet(b)
        BY <1>2, <2>2, BeforeIn
      <3>2. y \in S
        BY <1>3, <3>1
      <3> QED  BY <1>6, <3>1, <3>2 DEF Leading
    <2> QED  BY <1>5, <2>1, <2>2, BeforeIn
  <1> QED  BY <1>1, <1>3, <1>4, <1>5, <1>6

(* moveToUnselected(): the pages come last. *)
LEMMA MoveToUnselectedOf ==
    ASSUME NEW T, NEW q \in Seq(T), Distinct(q), NEW pages
    PROVE  /\ MoveToUnselected(q, pages) \in Seq(T) /\ Distinct(MoveToUnselected(q, pages))
           /\ ToSet(MoveToUnselected(q, pages)) = ToSet(q)
           /\ \A S : Leading(q, S) => Leading(MoveToUnselected(q, pages), S \ pages)
  <1> DEFINE P == {k \in DOMAIN q : q[k] \notin pages}
             R == {k \in DOMAIN q : q[k] \in pages}
             a == Only(q, P)
             b == Only(q, R)
  <1>1. /\ a \in Seq(T) /\ Distinct(a) /\ ToSet(a) = {q[i] : i \in P}
        /\ \A x, y : Before(a, x, y) => Before(q, x, y)
    BY OnlyOf
  <1>2. b \in Seq(T) /\ Distinct(b) /\ ToSet(b) = {q[i] : i \in R}
    BY OnlyOf
  <1>3. ToSet(a) = ToSet(q) \ pages /\ ToSet(b) = ToSet(q) \cap pages
    BY <1>1, <1>2 DEF ToSet
  <1>4. MoveToUnselected(q, pages) = a \o b
    BY DEF MoveToUnselected
  <1> HIDE DEF a, b
  <1>5. /\ a \o b \in Seq(T) /\ ToSet(a \o b) = ToSet(a) \cup ToSet(b) /\ Distinct(a \o b)
        /\ \A x, y : Before(a \o b, x, y) =>
                Before(a, x, y) \/ Before(b, x, y) \/ (x \in ToSet(a) /\ y \in ToSet(b))
    <2>1. ToSet(a) \cap ToSet(b) = {}
      BY <1>3
    <2> QED  BY <1>1, <1>2, <2>1, ConcatOf
  <1>6. ASSUME NEW S, Leading(q, S) PROVE Leading(a \o b, S \ pages)
    <2> SUFFICES ASSUME NEW x, NEW y, Before(a \o b, x, y), y \in S \ pages
                 PROVE  x \in S \ pages
      BY DEF Leading
    <2>1. Before(a, x, y)
      <3>1. y \notin ToSet(b)
        BY <1>3
      <3> QED  BY <1>5, <3>1, BeforeIn
    <2>2. Before(q, x, y) /\ x \in ToSet(a)
      BY <1>1, <2>1, BeforeIn
    <2> QED  BY <1>3, <1>6, <2>2 DEF Leading
  <1> QED  BY <1>3, <1>4, <1>5, <1>6

(* selectedItems() finds selected items, and all of them if they come first.*)
LEMMA SelectedItemsOf ==
    ASSUME NEW list, NEW T, list.byState \in Seq(T)
    PROVE  /\ SelectedItems(list) \subseteq list.selected
           /\ SelectedItems(list) \subseteq ToSet(list.byState)
           /\ Leading(list.byState, list.selected) /\ list.selected \subseteq ToSet(list.byState)
                  => SelectedItems(list) = list.selected
  <1> DEFINE q == list.byState
  <1>1. Len(q) \in Nat /\ DOMAIN q = 1 .. Len(q)
    BY LenProperties
  <1> HIDE DEF q
  <1>2. \A x \in SelectedItems(list) : \E k \in DOMAIN q : x = q[k] /\ \A j \in 1 .. k : q[j] \in list.selected
    BY DEF SelectedItems, q
  <1>3. \A x \in SelectedItems(list) : x \in list.selected /\ x \in ToSet(q)
    <2> SUFFICES ASSUME NEW x \in SelectedItems(list) PROVE x \in list.selected /\ x \in ToSet(q)
      OBVIOUS
    <2>1. PICK k \in DOMAIN q : x = q[k] /\ \A j \in 1 .. k : q[j] \in list.selected
      BY <1>2
    <2>2. k \in 1 .. k
      BY <1>1
    <2> QED  BY <2>1, <2>2 DEF ToSet
  <1>4. ASSUME Leading(q, list.selected), NEW x \in list.selected, x \in ToSet(q)
        PROVE  x \in SelectedItems(list)
    <2>1. PICK k \in DOMAIN q : q[k] = x
      BY <1>4 DEF ToSet
    <2>2. ASSUME NEW j \in 1 .. k PROVE q[j] \in list.selected
      <3>1. CASE j = k
        BY <2>1, <3>1
      <3>2. CASE j # k
        <4>1. j \in DOMAIN q /\ j < k
          BY <1>1, <3>2
        <4>2. Before(q, q[j], x)
          BY <2>1, <4>1 DEF Before
        <4> QED  BY <1>4, <4>2 DEF Leading
      <3> QED  BY <3>1, <3>2
    <2> QED  BY <2>1, <2>2 DEF SelectedItems, q
  <1> QED  BY <1>3, <1>4 DEF q

-----------------------------------------------------------------------------
(* The list of thumbnails and what selecting does to it. *)

(* The pages of a list of thumbnails, in its order. *)
Pages(items) == [k \in DOMAIN items |-> items[k].page]

ListShape(list) ==
    list = [items |-> list.items, byState |-> list.byState, selected |-> list.selected,
            leaders |-> list.leaders, leader |-> list.leader, view |-> list.view,
            current |-> list.current]

(* Every page has one thumbnail, and its place in the index of the selection. *)
Listed(list) ==
    /\ list.items \in Seq(Items) /\ Distinct(Pages(list.items))
    /\ list.byState \in Seq(PageIds) /\ Distinct(list.byState)
    /\ ToSet(list.byState) = Shown(list)
Frame(list) ==
    /\ ListShape(list) /\ Listed(list)
    /\ list.selected \subseteq Shown(list)
    /\ list.leaders \subseteq list.selected
    /\ list.leader \in Shown(list) \cup {NoPage}
    /\ list.leader = NoPage => list.selected = {}
Whole(list) == Frame(list) /\ (list.leader # NoPage => list.leader \in list.leaders)

(* There is no other leader, and the selected items come first in the index. *)
Tidy(list) == list.leaders \subseteq {list.leader} /\ Leading(list.byState, list.selected)

(* Pages are shown at the level of the view. *)
Fits(list) ==
    /\ list.view \in Views
    /\ list.view = "IMAGE_VIEW" => \A p \in Shown(list) : SubOf(p) = SINGLE_PAGE
(* The page that MainWindow remembers is the leader. *)
Leads(list) == list.leader # NoPage => SelectedPageGet(list.current, list.view) = list.leader

SameItems(list, new) == new.items = list.items /\ new.view = list.view

(* The pages of a list of thumbnails are a list of pages of the same
   length. *)
LEMMA PagesAre ==
    ASSUME NEW items \in Seq(Items)
    PROVE  /\ Pages(items) \in Seq(PageIds) /\ Len(Pages(items)) = Len(items)
           /\ \A k \in 1 .. Len(items) : Pages(items)[k] = items[k].page
           /\ Pages(items) = Mapped([x \in Items |-> x.page], items)
           /\ PagesOf(items) = ToSet(Pages(items)) /\ PagesOf(items) \subseteq PageIds
  <1> DEFINE f == [x \in Items |-> x.page]
  <1>1. Len(items) \in Nat /\ DOMAIN items = 1 .. Len(items) /\ \A k \in 1 .. Len(items) : items[k] \in Items
    BY LenProperties
  <1>2. \A x \in Items : f[x] = x.page /\ f[x] \in PageIds
    BY DEF Items
  <1> HIDE DEF f
  <1>3. /\ Mapped(f, items) \in Seq(PageIds) /\ Len(Mapped(f, items)) = Len(items)
        /\ \A k \in 1 .. Len(items) : Mapped(f, items)[k] = f[items[k]]
    BY <1>2, MappedOf
  <1>4. Pages(items) = Mapped(f, items)
    BY <1>1, <1>2 DEF Pages, Mapped
  <1>5. PagesOf(items) = ToSet(Pages(items))
    BY DEF PagesOf, ToSet, Pages
  <1>6. PagesOf(items) \subseteq PageIds
    BY <1>3, <1>4, <1>5, ElementsOf
  <1>7. \A k \in 1 .. Len(items) : Pages(items)[k] = items[k].page
    BY <1>1, <1>2, <1>3, <1>4
  <1> QED  BY <1>3, <1>4, <1>5, <1>6, <1>7 DEF f

(* A page is a pair of an image and a part of it, and the absence of a
   page is no page. *)
LEMMA NoPageIsNone == NoPage \notin PageIds /\ \A p \in PageIds : p = <<p[1], p[2]>> /\ p[1] \in Nat /\ p[1] # 0 /\ p[2] \in 0 .. 2
  <1>1. ASSUME NEW p \in PageIds
        PROVE  p = <<p[1], p[2]>> /\ p[1] \in Nat /\ p[1] # 0 /\ p[2] \in 0 .. 2
    <2>1. PICK i \in Images, s \in {SINGLE_PAGE, LEFT_PAGE, RIGHT_PAGE} : p = <<i, s>>
      BY DEF PageIds
    <2>2. i \in Nat /\ i # 0 /\ s \in 0 .. 2
      BY ImageAssumption DEF SINGLE_PAGE, LEFT_PAGE, RIGHT_PAGE
    <2> QED  BY <2>1, <2>2
  <1>2. NoPage[1] = 0
    BY DEF NoPage, PageId, NoImage
  <1> QED  BY <1>1, <1>2

(* What is shown are pages, so the absence of a page is never shown. *)
LEMMA ShownAre ==
    ASSUME NEW list, Listed(list)
    PROVE  Shown(list) \subseteq PageIds /\ NoPage \notin Shown(list)
  <1>1. Shown(list) \subseteq PageIds
    BY PagesAre DEF Listed, Shown
  <1> QED  BY <1>1, NoPageIsNone

(* A list stays one when a field of it is set. *)
LEMMA FieldSet ==
    ASSUME NEW list, NEW x, ListShape(list)
    PROVE  /\ ListShape([list EXCEPT !.items = x]) /\ ListShape([list EXCEPT !.byState = x])
           /\ ListShape([list EXCEPT !.selected = x]) /\ ListShape([list EXCEPT !.leaders = x])
           /\ ListShape([list EXCEPT !.leader = x]) /\ ListShape([list EXCEPT !.view = x])
           /\ ListShape([list EXCEPT !.current = x])
  BY DEF ListShape

(* newSelectionLeader: MainWindow remembers the page; the list stays as
   it is. *)
LEMMA EmitOf ==
    ASSUME NEW list, NEW page, Frame(list)
    PROVE  /\ Frame(Emit(list, page)) /\ SameItems(list, Emit(list, page))
           /\ Shown(Emit(list, page)) = Shown(list)
           /\ Emit(list, page).leader = list.leader /\ Emit(list, page).leaders = list.leaders
           /\ Emit(list, page).byState = list.byState /\ Emit(list, page).selected = list.selected
           /\ Tidy(list) => Tidy(Emit(list, page))
           /\ Whole(list) => Whole(Emit(list, page))
           /\ Fits(list) /\ list.leader # NoPage /\ page = list.leader => Leads(Emit(list, page))
  <1> DEFINE c == SelectedPageSet(list.current, page, list.view)
             new == [list EXCEPT !.current = c]
  <1>1. Emit(list, page) = new
    BY DEF Emit
  <1> HIDE DEF c
  <1>2. /\ ListShape(new) /\ new.items = list.items /\ new.byState = list.byState /\ new.selected = list.selected
        /\ new.leaders = list.leaders /\ new.leader = list.leader /\ new.view = list.view /\ new.current = c
    BY DEF Frame, ListShape
  <1> HIDE DEF new
  <1>3. Shown(new) = Shown(list)
    BY <1>2 DEF Shown
  <1>4. Frame(new)
    BY <1>2, <1>3 DEF Frame, Listed
  <1>5. ASSUME Fits(list), list.leader # NoPage, page = list.leader PROVE Leads(new)
    <2>1. page \in Shown(list) /\ page \in PageIds
      BY <1>5, ShownAre DEF Frame
    <2>2. SelectedPageGet(c, list.view) = page
      <3>1. CASE list.view = "PAGE_VIEW"
        BY <3>1 DEF c, SelectedPageSet, SelectedPageGet
      <3>2. CASE list.view = "IMAGE_VIEW"
        <4>1. SubOf(page) = SINGLE_PAGE
          BY <1>5, <2>1, <3>2 DEF Fits
        <4>2. ImageOf(c) = ImageOf(page)
          BY <3>2 DEF c, SelectedPageSet
        <4>3. PageId(ImageOf(page), SINGLE_PAGE) = page
          BY <2>1, <4>1, NoPageIsNone DEF PageId, ImageOf, SubOf
        <4> QED  BY <3>2, <4>2, <4>3 DEF SelectedPageGet
      <3> QED  BY <1>5, <3>1, <3>2 DEF Fits, Views
    <2> QED  BY <1>2, <1>5, <2>2 DEF Leads
  <1> QED  BY <1>1, <1>2, <1>3, <1>4, <1>5 DEF SameItems, Tidy, Whole

(* Items are unselected: they lose both flags and go back in the index. *)
LEMMA UnselectOf ==
    ASSUME NEW list, NEW pages, Frame(list)
    PROVE  /\ Frame(Unselect(list, pages)) /\ SameItems(list, Unselect(list, pages))
           /\ Shown(Unselect(list, pages)) = Shown(list)
           /\ Unselect(list, pages).leader = list.leader
           /\ Unselect(list, pages).leaders = list.leaders \ pages
           /\ Unselect(list, pages).selected = list.selected \ pages
           /\ Unselect(list, pages).current = list.current
           /\ Tidy(list) => Tidy(Unselect(list, pages))
  <1> DEFINE b == MoveToUnselected(list.byState, pages)
             new == [list EXCEPT !.selected = list.selected \ pages, !.leaders = list.leaders \ pages, !.byState = b]
  <1>1. Unselect(list, pages) = new
    BY DEF Unselect
  <1>2. /\ b \in Seq(PageIds) /\ Distinct(b) /\ ToSet(b) = ToSet(list.byState)
        /\ \A S : Leading(list.byState, S) => Leading(b, S \ pages)
    BY MoveToUnselectedOf DEF Frame, Listed
  <1> HIDE DEF b
  <1>3. /\ ListShape(new) /\ new.items = list.items /\ new.byState = b /\ new.selected = list.selected \ pages
        /\ new.leaders = list.leaders \ pages /\ new.leader = list.leader /\ new.view = list.view
        /\ new.current = list.current
    <2> DEFINE u == [list EXCEPT !.selected = list.selected \ pages]
               v == [u EXCEPT !.leaders = list.leaders \ pages]
    <2>1. new = [v EXCEPT !.byState = b]
      OBVIOUS
    <2>2. ListShape(u)
      BY FieldSet DEF Frame
    <2> HIDE DEF u
    <2>3. ListShape(v)
      BY <2>2, FieldSet
    <2> HIDE DEF v
    <2>5. ListShape([v EXCEPT !.byState = b])
      BY <2>3, FieldSet
    <2>6. ListShape(new)
      <3> HIDE DEF new
      <3> QED  BY <2>1, <2>5
    <2> QED  BY <2>6 DEF Frame, ListShape
  <1> HIDE DEF new
  <1>4. Shown(new) = Shown(list)
    BY <1>3 DEF Shown
  <1>5. Frame(new)
    BY <1>2, <1>3, <1>4 DEF Frame, Listed
  <1> QED  BY <1>1, <1>2, <1>3, <1>4, <1>5 DEF SameItems, Tidy

(* The item of the leader loses its flag; it stays selected. *)
LEMMA DropLeaderFlagOf ==
    ASSUME NEW list, Frame(list)
    PROVE  /\ Frame(DropLeaderFlag(list)) /\ SameItems(list, DropLeaderFlag(list))
           /\ Shown(DropLeaderFlag(list)) = Shown(list)
           /\ DropLeaderFlag(list).leader = list.leader
           /\ DropLeaderFlag(list).leaders = list.leaders \ {list.leader}
           /\ DropLeaderFlag(list).selected = list.selected
           /\ DropLeaderFlag(list).byState = list.byState
           /\ DropLeaderFlag(list).current = list.current
           /\ Tidy(list) => Tidy(DropLeaderFlag(list)) /\ DropLeaderFlag(list).leaders = {}
  <1> DEFINE new == [list EXCEPT !.leaders = list.leaders \ {list.leader}]
  <1>1. DropLeaderFlag(list) = new
    BY DEF DropLeaderFlag
  <1>3. /\ ListShape(new) /\ new.items = list.items /\ new.byState = list.byState /\ new.selected = list.selected
        /\ new.leaders = list.leaders \ {list.leader} /\ new.leader = list.leader /\ new.view = list.view
        /\ new.current = list.current
    BY DEF Frame, ListShape
  <1> HIDE DEF new
  <1>4. Shown(new) = Shown(list)
    BY <1>3 DEF Shown
  <1>5. Frame(new)
    BY <1>3, <1>4 DEF Frame, Listed
  <1> QED  BY <1>1, <1>3, <1>4, <1>5 DEF SameItems, Tidy

(* Several fields at once. *)
LEMMA LeadFieldsSet ==
    ASSUME NEW list, NEW x, NEW y, NEW z, NEW w, ListShape(list)
    PROVE  ListShape([list EXCEPT !.leader = x, !.selected = y, !.leaders = z, !.byState = w])
  <1> DEFINE a == [list EXCEPT !.leader = x]
             b == [a EXCEPT !.selected = y]
             c == [b EXCEPT !.leaders = z]
             d == [c EXCEPT !.byState = w]
  <1>1. [list EXCEPT !.leader = x, !.selected = y, !.leaders = z, !.byState = w] = d
    OBVIOUS
  <1>2. ListShape(a)
    BY FieldSet
  <1> HIDE DEF a
  <1>3. ListShape(b)
    BY <1>2, FieldSet
  <1> HIDE DEF b
  <1>4. ListShape(c)
    BY <1>3, FieldSet
  <1> HIDE DEF c
  <1>5. ListShape(d)
    BY <1>4, FieldSet
  <1> HIDE DEF d
  <1> QED  BY <1>1, <1>5

(* The three fields that selecting an item sets leave a list a list. *)
LEMMA HitFieldsSet ==
    ASSUME NEW list, NEW x, NEW y, NEW z, ListShape(list)
    PROVE  ListShape([list EXCEPT !.selected = x, !.byState = y, !.leader = z])
  <1> DEFINE a == [list EXCEPT !.selected = x]
             b == [a EXCEPT !.byState = y]
             c == [b EXCEPT !.leader = z]
  <1>1. [list EXCEPT !.selected = x, !.byState = y, !.leader = z] = c
    OBVIOUS
  <1>2. ListShape(a)
    BY FieldSet
  <1> HIDE DEF a
  <1>3. ListShape(b)
    BY <1>2, FieldSet
  <1> HIDE DEF b
  <1>4. ListShape(c)
    BY <1>3, FieldSet
  <1> HIDE DEF c
  <1> QED  BY <1>1, <1>4

(* So do the other pairs of fields that are set together. *)
LEMMA MarkFieldsSet ==
    ASSUME NEW list, NEW x, NEW y, ListShape(list)
    PROVE  /\ ListShape([list EXCEPT !.selected = x, !.leaders = y])
           /\ ListShape([list EXCEPT !.leader = x, !.leaders = y])
           /\ ListShape([list EXCEPT !.selected = x, !.byState = y])
  <1> DEFINE a == [list EXCEPT !.selected = x]
             b == [list EXCEPT !.leader = x]
  <1>1. /\ [list EXCEPT !.selected = x, !.leaders = y] = [a EXCEPT !.leaders = y]
        /\ [list EXCEPT !.leader = x, !.leaders = y] = [b EXCEPT !.leaders = y]
        /\ [list EXCEPT !.selected = x, !.byState = y] = [a EXCEPT !.byState = y]
    OBVIOUS
  <1>2. ListShape(a) /\ ListShape(b)
    BY FieldSet
  <1> HIDE DEF a, b
  <1>3. /\ ListShape([a EXCEPT !.leaders = y]) /\ ListShape([b EXCEPT !.leaders = y])
        /\ ListShape([a EXCEPT !.byState = y])
    BY <1>2, FieldSet
  <1> QED  BY <1>1, <1>3

(* Pages are selected, moved to the front, and one of those that are selected
   may then lead. *)
LEMMA ChosenOf ==
    ASSUME NEW list, NEW new, NEW hits, Frame(list),
           hits \in Seq(PageIds), Distinct(hits), ToSet(hits) \subseteq Shown(list),
           ListShape(new), SameItems(list, new), new.byState = MoveToSelected(list.byState, hits),
           new.selected \subseteq Shown(list), new.leaders \subseteq new.selected,
           new.leader \in Shown(list) \cup {NoPage}, new.leader = NoPage => new.selected = {}
    PROVE  /\ Frame(new) /\ Shown(new) = Shown(list)
           /\ Leading(list.byState, list.selected) /\ new.selected = list.selected \cup ToSet(hits)
                => Leading(new.byState, new.selected)
           /\ new.leader = NoPage \/ new.leader \in new.leaders => Whole(new)
  <1> DEFINE b == MoveToSelected(list.byState, hits)
  <1>1. /\ b \in Seq(PageIds) /\ Distinct(b) /\ ToSet(b) = ToSet(list.byState)
        /\ \A S : Leading(list.byState, S) => Leading(b, S \cup ToSet(hits))
    <2>1. list.byState \in Seq(PageIds) /\ Distinct(list.byState) /\ ToSet(hits) \subseteq ToSet(list.byState)
      BY DEF Frame, Listed
    <2> QED  BY <2>1, MoveToSelectedOf
  <1> HIDE DEF b
  <1>2. new.byState = b
    BY DEF b
  <1>3. Shown(new) = Shown(list)
    BY DEF Shown, SameItems
  <1>4. Frame(new)
    BY <1>1, <1>2, <1>3 DEF Frame, Listed, SameItems
  <1> QED  BY <1>1, <1>2, <1>3, <1>4 DEF Whole

(* An item that becomes the leader is selected, first in the index, and
   the only leader when no other item had the flag. *)
LEMMA LeadOf ==
    ASSUME NEW list, NEW page, Frame(list), page \in Shown(list)
    PROVE  /\ Frame(Lead(list, page)) /\ SameItems(list, Lead(list, page)) /\ Shown(Lead(list, page)) = Shown(list)
           /\ Whole(Lead(list, page))
           /\ Lead(list, page).leader = page /\ Lead(list, page).leaders = list.leaders \cup {page}
           /\ Lead(list, page).current = list.current
           /\ Leading(list.byState, list.selected) /\ list.leaders = {} => Tidy(Lead(list, page))
  <1> DEFINE hits == <<page>>
             b == MoveToSelected(list.byState, hits)
             new == [list EXCEPT !.leader = page, !.selected = list.selected \cup {page},
                                 !.leaders = list.leaders \cup {page}, !.byState = b]
  <1>1. page \in PageIds /\ page # NoPage
    BY ShownAre DEF Frame
  <1>2. hits \in Seq(PageIds) /\ Distinct(hits) /\ ToSet(hits) = {page}
    BY <1>1 DEF Distinct, ToSet
  <1>3. Lead(list, page) = new
    BY DEF Lead
  <1> HIDE DEF b
  <1>4. ListShape(new)
    BY LeadFieldsSet DEF Frame
  <1>5. /\ SameItems(list, new) /\ new.byState = b /\ new.selected = list.selected \cup {page}
        /\ new.leaders = list.leaders \cup {page} /\ new.leader = page /\ new.current = list.current
    BY DEF Frame, ListShape, SameItems
  <1> HIDE DEF new, hits
  <1>6. /\ Frame(new) /\ Shown(new) = Shown(list)
        /\ Leading(list.byState, list.selected) /\ new.selected = list.selected \cup ToSet(hits)
                => Leading(new.byState, new.selected)
        /\ Whole(new)
    <2>1. /\ ToSet(hits) \subseteq Shown(list) /\ new.selected \subseteq Shown(list)
          /\ new.leaders \subseteq new.selected /\ new.leader \in new.leaders
          /\ new.leader \in Shown(list) \cup {NoPage} /\ new.leader # NoPage
          /\ new.byState = MoveToSelected(list.byState, hits)
      BY <1>1, <1>2, <1>5 DEF Frame, b
    <2> QED  BY <1>2, <1>4, <1>5, <2>1, ChosenOf
  <1> QED  BY <1>2, <1>3, <1>5, <1>6 DEF Tidy

(* What setSelection() leaves selected of the others: nothing when it
   resets, all when it keeps; the leader keeps its flag when it is among
   the pages. *)
LEMMA LeaveOthersOf ==
    ASSUME NEW list, NEW pages, NEW action, Frame(list)
    PROVE  LET left == LeaveOthers(list, pages, action)
           IN  /\ Frame(left) /\ SameItems(list, left) /\ Shown(left) = Shown(list)
               /\ left.leader = list.leader /\ left.current = list.current
               /\ Tidy(list) => Tidy(left)
               /\ left.leaders \subseteq list.leaders
               /\ list.leader \in pages /\ list.leader \in list.leaders => left.leader \in left.leaders
               /\ action = "RESET_SELECTION" => left.leaders = list.leaders \ (SelectedItems(list) \ pages)
  <1> DEFINE others == SelectedItems(list) \ pages
  <1>1. CASE action = "RESET_SELECTION"
    <2>1. LeaveOthers(list, pages, action) = Unselect(list, others)
      BY <1>1 DEF LeaveOthers
    <2> HIDE DEF others
    <2>2. /\ Frame(Unselect(list, others)) /\ SameItems(list, Unselect(list, others))
          /\ Shown(Unselect(list, others)) = Shown(list)
          /\ Unselect(list, others).leader = list.leader
          /\ Unselect(list, others).leaders = list.leaders \ others
          /\ Unselect(list, others).current = list.current
          /\ Tidy(list) => Tidy(Unselect(list, others))
      BY UnselectOf
    <2> QED  BY <2>1, <2>2 DEF others
  <1>2. CASE action # "RESET_SELECTION" /\ list.leader \in others
    <2>1. LeaveOthers(list, pages, action) = DropLeaderFlag(list)
      BY <1>2 DEF LeaveOthers
    <2> QED  BY <1>2, <2>1, DropLeaderFlagOf
  <1>3. CASE action # "RESET_SELECTION" /\ list.leader \notin others
    <2>1. LeaveOthers(list, pages, action) = list
      BY <1>3 DEF LeaveOthers
    <2> QED  BY <1>3, <2>1 DEF SameItems
  <1> QED  BY <1>1, <1>2, <1>3

-----------------------------------------------------------------------------
(* setSelection(). *)

(* operator< on pairs of numbers. *)
LEMMA PageLessIsOrder ==
    ASSUME NEW S \in SUBSET (Int \X Int)
    PROVE  /\ \A x, y \in S : x # y => (PageLess(x, y) <=> ~PageLess(y, x))
           /\ \A x, y, z \in S : PageLess(x, y) /\ PageLess(y, z) => PageLess(x, z)
  <1>1. \A x \in S : x[1] \in Int /\ x[2] \in Int /\ x = <<x[1], x[2]>>
    OBVIOUS
  <1>2. ASSUME NEW x \in S, NEW y \in S, x # y PROVE PageLess(x, y) <=> ~PageLess(y, x)
    <2>1. x[1] # y[1] \/ x[2] # y[2]
      BY <1>1, <1>2
    <2>2. x[1] \in Int /\ x[2] \in Int /\ y[1] \in Int /\ y[2] \in Int
      BY <1>1
    <2> QED  BY <2>1, <2>2 DEF PageLess
  <1>3. ASSUME NEW x \in S, NEW y \in S, NEW z \in S, PageLess(x, y), PageLess(y, z) PROVE PageLess(x, z)
    <2>1. x[1] \in Int /\ x[2] \in Int /\ y[1] \in Int /\ y[2] \in Int /\ z[1] \in Int /\ z[2] \in Int
      BY <1>1
    <2> QED  BY <1>3, <2>1 DEF PageLess
  <1> QED  BY <1>2, <1>3

(* A set of pages in the order of std::set<PageId>. *)
LEMMA InOrderOf ==
    ASSUME NEW S \in SUBSET (Int \X Int), IsFiniteSet(S)
    PROVE  LET r == InOrderOfIds(S)
           IN  /\ r \in Seq(S) /\ Distinct(r) /\ ToSet(r) = S /\ DOMAIN r = 1 .. Len(r)
               /\ \A i, j \in 1 .. Len(r) : i < j => PageLess(r[i], r[j])
  <1> DEFINE less == [pq \in S \X S |-> PageLess(pq[1], pq[2])]
             r == Sorted(S, less)
             n == Cardinality(S)
  <1>1. \A x, y \in S : less[<<x, y>>] <=> PageLess(x, y)
    OBVIOUS
  <1>2. InOrderOfIds(S) = r
    BY DEF InOrderOfIds
  <1> HIDE DEF less
  <1>3. /\ \A x, y \in S : x # y => (less[<<x, y>>] <=> ~less[<<y, x>>])
        /\ \A x, y, z \in S : x # y /\ y # z /\ less[<<x, y>>] /\ less[<<y, z>>] => less[<<x, z>>]
    BY <1>1, PageLessIsOrder
  <1>4. n \in Nat /\ r \in Surjection(1 .. n, S)
    BY <1>3, SortedOf
  <1>5. \A i, j \in 1 .. n : i < j => less[<<r[i], r[j]>>]
    BY <1>3, SortedOf
  <1>6. \A i, j \in 1 .. n : i # j => r[i] # r[j]
    BY <1>3, SortedOf
  <1> HIDE DEF r, n
  <1>7. r \in [1 .. n -> S] /\ \A x \in S : \E i \in 1 .. n : r[i] = x
    BY <1>4 DEF Surjection
  <1>8. r \in Seq(S) /\ Len(r) = n /\ DOMAIN r = 1 .. n
    <2>1. r \in Seq(S)
      BY <1>4, <1>7, SeqDef
    <2> QED  BY <1>4, <1>7, <2>1, LenProperties
  <1>9. ToSet(r) = S
    <2>1. \A x : x \in ToSet(r) <=> \E i \in 1 .. n : r[i] = x
      BY <1>8, ElementsOf
    <2> QED  BY <1>7, <2>1
  <1>10. Distinct(r)
    BY <1>6, <1>8 DEF Distinct
  <1>11. \A i, j \in 1 .. n : i < j => PageLess(r[i], r[j])
    BY <1>1, <1>5, <1>7
  <1> QED  BY <1>2, <1>8, <1>9, <1>10, <1>11

(* Pages are pairs of numbers, which operator< compares. *)
LEMMA PagesArePairs == PageIds \subseteq Int \X Int
  <1>1. ASSUME NEW p \in PageIds PROVE p \in Int \X Int
    <2>1. p = <<p[1], p[2]>> /\ p[1] \in Int /\ p[2] \in Int
      BY NoPageIsNone
    <2> QED  BY <2>1
  <1> QED  BY <1>1

(* Finitely many pages are shown. *)
LEMMA ShownFinite == ASSUME NEW list, Listed(list) PROVE IsFiniteSet(Shown(list))
  BY ElementsOf DEF Listed

(* setSelection() of a page: the list keeps its thumbnails, and the page
   becomes the leader if it is shown. *)
LEMMA SetSelectionOf ==
    ASSUME NEW list, NEW page, NEW action, Frame(list), page \notin Shown(list) => Whole(list)
    PROVE  LET r == SetSelection(list, page, action)
           IN  /\ Whole(r) /\ SameItems(list, r) /\ Shown(r) = Shown(list)
               /\ Tidy(list) => Tidy(r)
               /\ r.leader \in {list.leader, page}
               /\ list.leader = NoPage => r.leader = NoPage
               /\ Fits(list) /\ Leads(list) => Leads(r)
               /\ Fits(list) /\ page \in Shown(list) => Leads(r)
               /\ action = "RESET_SELECTION" /\ page \in Shown(list) /\ list.leader # NoPage
                    => r.leader \notin SelectedItems(list) \ {page}
  <1> DEFINE left == LeaveOthers(list, {page}, action)
             led == IF left.leader \in left.leaders THEN left ELSE Lead(left, page)
  <1>1. /\ Frame(left) /\ SameItems(list, left) /\ Shown(left) = Shown(list)
        /\ left.leader = list.leader /\ left.current = list.current
        /\ Tidy(list) => Tidy(left)
        /\ left.leaders \subseteq list.leaders
        /\ action = "RESET_SELECTION" => left.leaders = list.leaders \ (SelectedItems(list) \ {page})
    BY LeaveOthersOf DEF Whole
  <1>2. CASE page \notin Shown(list)
    <2>1. SetSelection(list, page, action) = list
      BY <1>2 DEF SetSelection
    <2> QED  BY <1>2, <2>1 DEF SameItems
  <1>3. CASE page \in Shown(list) /\ list.leader = NoPage
    <2>1. SetSelection(list, page, action) = left
      BY <1>1, <1>3 DEF SetSelection
    <2> HIDE DEF left
    <2>2. Whole(left) /\ Leads(left)
      BY <1>1, <1>3 DEF Whole, Leads
    <2> QED  BY <1>1, <1>3, <2>1, <2>2 DEF SameItems
  <1>4. CASE page \in Shown(list) /\ list.leader # NoPage
    <2>1. SetSelection(list, page, action) = Emit(led, led.leader)
      BY <1>1, <1>4 DEF SetSelection
    <2> HIDE DEF left
    <2>2. /\ Whole(led) /\ SameItems(list, led) /\ Shown(led) = Shown(list)
          /\ Tidy(list) => Tidy(led)
          /\ led.leader \in {list.leader, page} /\ led.leader # NoPage
          /\ action = "RESET_SELECTION" => led.leader \notin SelectedItems(list) \ {page}
      <3>1. CASE left.leader \in left.leaders
        BY <1>1, <1>4, <3>1 DEF Whole
      <3>2. CASE left.leader \notin left.leaders
        <4>1. page \in Shown(left) /\ led = Lead(left, page)
          BY <1>1, <1>4, <3>2
        <4>2. /\ SameItems(left, Lead(left, page)) /\ Shown(Lead(left, page)) = Shown(left)
              /\ Whole(Lead(left, page)) /\ Lead(left, page).leader = page
              /\ Leading(left.byState, left.selected) /\ left.leaders = {} => Tidy(Lead(left, page))
          BY <1>1, <4>1, LeadOf
        <4>3. page # NoPage
          BY <1>1, <4>1, ShownAre DEF Frame
        <4>4. Tidy(left) => left.leaders = {} /\ Leading(left.byState, left.selected)
          BY <3>2 DEF Tidy
        <4> HIDE DEF led
        <4> QED  BY <1>1, <4>1, <4>2, <4>3, <4>4 DEF SameItems
      <3> QED  BY <3>1, <3>2
    <2> DEFINE new == Emit(led, led.leader)
    <2> HIDE DEF led
    <2>3. Fits(list) => Fits(led)
      BY <2>2 DEF Fits, SameItems
    <2>4. /\ SameItems(led, new) /\ Shown(new) = Shown(led)
          /\ new.leader = led.leader
          /\ Tidy(led) => Tidy(new)
          /\ Whole(new)
          /\ Fits(led) => Leads(new)
      BY <2>2, EmitOf DEF Whole
    <2> HIDE DEF new
    <2>5. SetSelection(list, page, action) = new
      BY <2>1 DEF new
    <2>6. /\ Whole(new) /\ SameItems(list, new) /\ Shown(new) = Shown(list)
          /\ Tidy(list) => Tidy(new)
          /\ new.leader \in {list.leader, page}
          /\ Fits(list) => Leads(new)
          /\ action = "RESET_SELECTION" => new.leader \notin SelectedItems(list) \ {page}
      BY <2>2, <2>3, <2>4 DEF SameItems
    <2> QED  BY <1>4, <2>5, <2>6
  <1> QED  BY <1>2, <1>3, <1>4

(* setSelection() of a set of pages. *)
LEMMA SetSelectionToSetOf ==
    ASSUME NEW list, NEW pages, NEW action, Whole(list)
    PROVE  LET r == SetSelectionToSet(list, pages, action)
           IN  /\ Whole(r) /\ SameItems(list, r) /\ Shown(r) = Shown(list)
               /\ Tidy(list) /\ (pages = {} \/ pages \cap Shown(list) # {}) => Tidy(r)
               /\ list.leader \in pages /\ list.leader # NoPage => r.leader = list.leader
               /\ Fits(list) => Leads(r)
  <1> DEFINE left == LeaveOthers(list, pages, action)
             need == left.leader \notin left.leaders
             hits == InOrderOfIds(pages \cap Shown(list))
             leader == IF need /\ hits # << >> THEN Last(hits) ELSE left.leader
             all == [left EXCEPT !.selected = @ \cup ToSet(hits),
                                 !.byState = MoveToSelected(@, hits),
                                 !.leader = leader]
             marked == [all EXCEPT !.selected = @ \cup {leader}, !.leaders = @ \cup {leader}]
  <1>1. /\ Frame(left) /\ SameItems(list, left) /\ Shown(left) = Shown(list)
        /\ left.leader = list.leader /\ left.current = list.current
        /\ Tidy(list) => Tidy(left)
        /\ left.leaders \subseteq list.leaders
        /\ list.leader \in pages /\ list.leader \in list.leaders => left.leader \in left.leaders
    BY LeaveOthersOf DEF Whole
  <1>2. SetSelectionToSet(list, pages, action) =
            IF pages = {}
            THEN IF left.leader = NoPage THEN left ELSE SetSelection(left, left.leader, action)
            ELSE IF leader = NoPage THEN all
            ELSE Emit(IF need THEN marked ELSE all, leader)
    <2>1. Shown(left) = Shown(list)
      BY <1>1
    <2> QED  BY <2>1 DEF SetSelectionToSet
  <1> HIDE DEF left
  <1>3. /\ hits \in Seq(PageIds) /\ Distinct(hits) /\ ToSet(hits) = pages \cap Shown(list)
        /\ Len(hits) \in Nat /\ (hits # << >> => Last(hits) \in ToSet(hits))
        /\ (hits = << >> => ToSet(hits) = {})
    <2> DEFINE S == pages \cap Shown(list)
    <2>1. S \in SUBSET (Int \X Int) /\ IsFiniteSet(S) /\ S \subseteq PageIds
      <3>1. Listed(list)
        BY DEF Whole, Frame
      <3>2. Shown(list) \subseteq PageIds /\ IsFiniteSet(Shown(list)) /\ S \in SUBSET Shown(list)
        BY <3>1, ShownAre, ShownFinite
      <3> QED  BY <3>2, PagesArePairs, FS_Subset
    <2>2. hits \in Seq(S) /\ Distinct(hits) /\ ToSet(hits) = S /\ DOMAIN hits = 1 .. Len(hits)
      BY <2>1, InOrderOf
    <2> HIDE DEF S
    <2>3. hits \in Seq(PageIds)
      BY <2>1, <2>2, SeqMonotonic
    <2> HIDE DEF hits
    <2>4. Len(hits) \in Nat /\ (hits # << >> => Len(hits) # 0) /\ Len(<< >>) = 0
      BY <2>3, EmptySeq, LenProperties
    <2>5. hits # << >> => Last(hits) \in ToSet(hits)
      <3>1. hits # << >> => Len(hits) \in DOMAIN hits
        BY <2>2, <2>4
      <3> QED  BY <3>1 DEF Last, ToSet
    <2>6. hits = << >> => ToSet(hits) = {}
      BY DEF ToSet
    <2> QED  BY <2>2, <2>3, <2>4, <2>5, <2>6 DEF S
  <1> HIDE DEF hits
  <1>4. NoPage \notin Shown(list) /\ NoPage \notin left.leaders
    BY <1>1, ShownAre DEF Whole, Frame
  <1>5. CASE pages = {} /\ left.leader = NoPage
    <2>1. SetSelectionToSet(list, pages, action) = left
      BY <1>2, <1>5
    <2>2. Whole(left) /\ Leads(left)
      BY <1>1, <1>5 DEF Whole, Leads
    <2> QED  BY <1>1, <1>5, <2>1, <2>2
  <1>6. CASE pages = {} /\ left.leader # NoPage
    <2> DEFINE new == SetSelection(left, left.leader, action)
    <2>1. SetSelectionToSet(list, pages, action) = new
      BY <1>2, <1>6
    <2>2. left.leader \in Shown(left)
      BY <1>1, <1>6 DEF Frame
    <2>3. /\ Whole(new) /\ SameItems(left, new) /\ Shown(new) = Shown(left)
          /\ Tidy(left) => Tidy(new)
          /\ Fits(left) => Leads(new)
      BY <1>1, <2>2, SetSelectionOf
    <2> HIDE DEF new
    <2>4. Fits(list) => Fits(left)
      BY <1>1 DEF Fits, SameItems
    <2> QED  BY <1>1, <1>6, <2>1, <2>3, <2>4 DEF SameItems
  <1> DEFINE b == MoveToSelected(left.byState, hits)
             L == left.selected \cup ToSet(hits)
  <1>7. all = [left EXCEPT !.selected = L, !.byState = b, !.leader = leader]
    OBVIOUS
  <1> HIDE DEF b, L
  <1>8. /\ ListShape(all) /\ SameItems(left, all) /\ all.byState = b /\ all.selected = L
        /\ all.leaders = left.leaders /\ all.leader = leader /\ all.current = left.current
    <2> HIDE DEF leader
    <2>1. ListShape([left EXCEPT !.selected = L, !.byState = b, !.leader = leader])
      BY <1>1, HitFieldsSet DEF Frame
    <2>2. all.items = left.items /\ all.view = left.view /\ all.byState = b /\ all.selected = L
          /\ all.leaders = left.leaders /\ all.leader = leader /\ all.current = left.current
      BY <1>1, <1>7 DEF Frame, ListShape
    <2> HIDE DEF all
    <2> QED  BY <1>7, <2>1, <2>2 DEF SameItems
  <1>9. /\ L \subseteq Shown(list) /\ leader \in Shown(list) \cup {NoPage}
        /\ leader = NoPage => left.leader = NoPage /\ hits = << >> /\ L = {} /\ left.leaders = {}
        /\ list.leader \in pages /\ list.leader # NoPage => leader = list.leader
        /\ ~need => leader = left.leader /\ leader \in left.leaders
        /\ hits # << >> /\ need => leader \in ToSet(hits)
    <2>1. L \subseteq Shown(list) /\ leader \in Shown(list) \cup {NoPage}
      BY <1>1, <1>3 DEF Frame, L
    <2>2. leader = NoPage => left.leader = NoPage /\ hits = << >>
      BY <1>3, <1>4
    <2>3. leader = NoPage => left.selected = {} /\ left.leaders = {} /\ ToSet(hits) = {}
      BY <1>1, <1>3, <2>2 DEF Frame
    <2>4. list.leader \in pages /\ list.leader # NoPage => leader = list.leader
      BY <1>1 DEF Whole
    <2>5. ~need => leader = left.leader /\ leader \in left.leaders
      OBVIOUS
    <2>6. hits # << >> /\ need => leader \in ToSet(hits)
      BY <1>3
    <2>7. leader = NoPage => L = {}
      BY <2>3 DEF L
    <2> HIDE DEF leader, need
    <2> QED  BY <2>1, <2>2, <2>3, <2>4, <2>5, <2>6, <2>7
  <1>10. all.byState = MoveToSelected(left.byState, hits)
    BY <1>8 DEF b
  <1>11. Fits(list) => Fits(left)
    BY <1>1 DEF Fits, SameItems
  <1> HIDE DEF all, leader
  (* No page leads. *)
  <1>12. CASE pages # {} /\ leader = NoPage
    <2>1. SetSelectionToSet(list, pages, action) = all
      BY <1>2, <1>12
    <2>2. /\ Frame(all) /\ Shown(all) = Shown(left) /\ Whole(all)
          /\ Leading(left.byState, left.selected) => Leading(all.byState, all.selected)
      <3>1. /\ ToSet(hits) \subseteq Shown(left) /\ all.selected = left.selected \cup ToSet(hits)
            /\ all.selected = {} /\ all.leaders = {} /\ all.leader = NoPage
        BY <1>1, <1>3, <1>8, <1>9, <1>12 DEF L
      <3> QED  BY <1>1, <1>3, <1>8, <1>10, <3>1, ChosenOf
    <2>3. Leads(all) /\ (Tidy(left) => Tidy(all))
      BY <1>8, <1>9, <1>12, <2>2 DEF Leads, Tidy
    <2>4. list.leader = NoPage
      BY <1>1, <1>9, <1>12
    <2> QED  BY <1>1, <1>8, <2>1, <2>2, <2>3, <2>4 DEF SameItems
  (* The leader stays. *)
  <1>13. CASE pages # {} /\ leader # NoPage /\ ~need
    <2> DEFINE new == Emit(all, leader)
    <2>1. SetSelectionToSet(list, pages, action) = new
      BY <1>2, <1>13
    <2>2. /\ Frame(all) /\ Shown(all) = Shown(left) /\ Whole(all)
          /\ Leading(left.byState, left.selected) => Leading(all.byState, all.selected)
      <3>1. /\ ToSet(hits) \subseteq Shown(left) /\ all.selected = left.selected \cup ToSet(hits)
            /\ all.selected \subseteq Shown(left) /\ all.leaders \subseteq all.selected
            /\ all.leader \in all.leaders /\ all.leader \in Shown(left) \cup {NoPage} /\ all.leader # NoPage
        BY <1>1, <1>3, <1>8, <1>9, <1>13 DEF L, Frame
      <3> QED  BY <1>1, <1>3, <1>8, <1>10, <3>1, ChosenOf
    <2>3. Tidy(left) => Tidy(all)
      BY <1>8, <1>9, <1>13, <2>2 DEF Tidy
    <2>4. /\ SameItems(all, new) /\ Shown(new) = Shown(all) /\ new.leader = all.leader
          /\ Tidy(all) => Tidy(new)
          /\ Whole(new)
          /\ Fits(all) => Leads(new)
      BY <1>8, <1>13, <2>2, EmitOf
    <2> HIDE DEF new
    <2>5. Fits(left) => Fits(all)
      BY <1>8, <2>2 DEF Fits, SameItems
    <2> QED  BY <1>1, <1>8, <1>9, <1>11, <2>1, <2>2, <2>3, <2>4, <2>5 DEF SameItems
  (* One of the pages becomes the leader, or the page that led before. *)
  <1>14. CASE pages # {} /\ leader # NoPage /\ need
    <2> DEFINE new == Emit(marked, leader)
    <2>1. SetSelectionToSet(list, pages, action) = new
      BY <1>2, <1>14
    <2>2. /\ ListShape(marked) /\ SameItems(left, marked) /\ marked.byState = all.byState
          /\ marked.selected = L \cup {leader} /\ marked.leaders = left.leaders \cup {leader}
          /\ marked.leader = leader
      <3>1. ListShape(marked)
        BY <1>8, MarkFieldsSet
      <3>2. /\ marked.items = all.items /\ marked.view = all.view /\ marked.byState = all.byState
            /\ marked.selected = all.selected \cup {leader} /\ marked.leaders = all.leaders \cup {leader}
            /\ marked.leader = all.leader
        BY <1>8 DEF ListShape
      <3> HIDE DEF marked
      <3> QED  BY <1>8, <3>1, <3>2 DEF SameItems
    <2> HIDE DEF marked
    <2>3. /\ Frame(marked) /\ Shown(marked) = Shown(left) /\ Whole(marked)
          /\ Leading(left.byState, left.selected) /\ marked.selected = left.selected \cup ToSet(hits)
                => Leading(marked.byState, marked.selected)
      <3>1. /\ ToSet(hits) \subseteq Shown(left)
            /\ marked.selected \subseteq Shown(left) /\ marked.leaders \subseteq marked.selected
            /\ marked.leader \in marked.leaders /\ marked.leader \in Shown(left) \cup {NoPage} /\ marked.leader # NoPage
            /\ marked.byState = MoveToSelected(left.byState, hits)
        BY <1>1, <1>3, <1>9, <1>10, <1>14, <2>2 DEF L, Frame
      <3> QED  BY <1>1, <1>3, <2>2, <3>1, ChosenOf
    <2>4. Tidy(left) /\ pages \cap Shown(list) # {} => Tidy(marked)
      <3> SUFFICES ASSUME Tidy(left), pages \cap Shown(list) # {} PROVE Tidy(marked)
        OBVIOUS
      <3>1. leader \in ToSet(hits)
        BY <1>3, <1>9, <1>14
      <3>2. left.leaders = {}
        BY <1>14 DEF Tidy
      <3> QED  BY <2>2, <2>3, <3>1, <3>2 DEF Tidy, L
    <2>5. /\ SameItems(marked, new) /\ Shown(new) = Shown(marked) /\ new.leader = marked.leader
          /\ Tidy(marked) => Tidy(new)
          /\ Whole(new)
          /\ Fits(marked) => Leads(new)
      BY <1>14, <2>2, <2>3, EmitOf
    <2> HIDE DEF new
    <2>6. Fits(left) => Fits(marked)
      BY <2>2, <2>3 DEF Fits, SameItems
    <2> QED  BY <1>1, <1>9, <1>11, <1>14, <2>1, <2>2, <2>3, <2>4, <2>5, <2>6 DEF SameItems
  <1> QED  BY <1>5, <1>6, <1>12, <1>13, <1>14

-----------------------------------------------------------------------------
(* ensurePageVisible() and the clicks. *)

(* ensurePageVisible() *)
LEMMA EnsurePageVisibleOf ==
    ASSUME NEW list, NEW pages, NEW leader, NEW action, Whole(list)
    PROVE  LET r == EnsurePageVisible(list, pages, leader, action)
           IN  /\ Whole(r) /\ SameItems(list, r) /\ Shown(r) = Shown(list)
               /\ Tidy(list) => Tidy(r)
               /\ Fits(list) => Leads(r)
               /\ /\ Fits(list) /\ list.view = "IMAGE_VIEW" /\ pages \subseteq Shown(list)
                  /\ list.leader # NoPage /\ leader = list.leader
                  => r.leader = list.leader
  <1> DEFINE wanted == pages \cup ({leader} \ {NoPage})
             maybe  == UNION {({page} \cap Shown(list)) \cup OtherLevel(list, page) : page \in wanted}
             moved  == {page \in wanted : /\ ImageOf(page) = ImageOf(leader)
                                          /\ OtherLevel(list, page) # {}}
             lead   == IF moved = {} THEN leader ELSE Latest(OtherLevel(list, Latest(moved)))
             one == SetSelectionToSet(list, maybe, action)
             r == SetSelection(one, lead, "KEEP_SELECTION")
  <1>1. EnsurePageVisible(list, pages, leader, action) = r
    BY DEF EnsurePageVisible
  <1>2. maybe = {} \/ maybe \cap Shown(list) # {}
    <2>1. \A page : OtherLevel(list, page) \subseteq Shown(list)
      BY DEF OtherLevel
    <2>2. \A x \in maybe : x \in Shown(list)
      BY <2>1
    <2> QED  BY <2>2
  <1>3. /\ Fits(list) /\ list.view = "IMAGE_VIEW" /\ pages \subseteq Shown(list)
        /\ list.leader # NoPage /\ leader = list.leader
        => lead = list.leader /\ list.leader \in maybe
    <2> SUFFICES ASSUME Fits(list), list.view = "IMAGE_VIEW", pages \subseteq Shown(list),
                        list.leader # NoPage, leader = list.leader
                 PROVE  lead = list.leader /\ list.leader \in maybe
      OBVIOUS
    <2>1. list.leader \in Shown(list)
      BY DEF Whole, Frame
    <2>2. ASSUME NEW page \in wanted PROVE OtherLevel(list, page) = {}
      <3>1. page \in Shown(list)
        BY <2>1
      <3> QED  BY <3>1 DEF OtherLevel, Fits
    <2>3. moved = {}
      BY <2>2
    <2>4. list.leader \in wanted
      OBVIOUS
    <2> HIDE DEF wanted
    <2> QED  BY <2>1, <2>3, <2>4
  <1> HIDE DEF maybe, lead
  <1>4. /\ Whole(one) /\ SameItems(list, one) /\ Shown(one) = Shown(list)
        /\ Tidy(list) => Tidy(one)
        /\ list.leader \in maybe /\ list.leader # NoPage => one.leader = list.leader
        /\ Fits(list) => Leads(one)
    BY <1>2, SetSelectionToSetOf
  <1> HIDE DEF one
  <1>5. /\ Whole(r) /\ SameItems(one, r) /\ Shown(r) = Shown(one)
        /\ Tidy(one) => Tidy(r)
        /\ r.leader \in {one.leader, lead}
        /\ Fits(one) /\ Leads(one) => Leads(r)
    BY <1>4, SetSelectionOf DEF Whole
  <1> HIDE DEF r
  <1>6. Fits(list) => Fits(one)
    BY <1>4 DEF Fits, SameItems
  <1> QED  BY <1>1, <1>3, <1>4, <1>5, <1>6 DEF SameItems

(* What the three kinds of clicks leave. *)
Clicked(list, r) ==
    /\ Whole(r) /\ SameItems(list, r) /\ Shown(r) = Shown(list)
    /\ Tidy(list) => Tidy(r)
    /\ Fits(list) /\ Leads(list) => Leads(r)

(* A click selects the page alone. *)
LEMMA ClickPlainOf ==
    ASSUME NEW list, NEW page, Whole(list), page \in Shown(list)
    PROVE  Clicked(list, ClickPlain(list, page))
  <1> DEFINE front == SelectedItems(list)
             cleared == [list EXCEPT !.selected = list.selected \ front, !.leaders = list.leaders \ front]
             one == Lead(cleared, page)
             r == Emit(one, page)
  <1>1. ClickPlain(list, page) = r
    BY DEF ClickPlain
  <1> HIDE DEF front
  <1>2. /\ ListShape(cleared) /\ SameItems(list, cleared) /\ cleared.byState = list.byState
        /\ cleared.selected = list.selected \ front /\ cleared.leaders = list.leaders \ front
        /\ cleared.leader = list.leader
    <2>1. ListShape(cleared)
      BY MarkFieldsSet DEF Whole, Frame
    <2>2. /\ cleared.items = list.items /\ cleared.view = list.view /\ cleared.byState = list.byState
          /\ cleared.selected = list.selected \ front /\ cleared.leaders = list.leaders \ front
          /\ cleared.leader = list.leader
      BY DEF Whole, Frame, ListShape
    <2> HIDE DEF cleared
    <2> QED  BY <2>1, <2>2 DEF SameItems
  <1> HIDE DEF cleared
  <1>3. Frame(cleared) /\ Shown(cleared) = Shown(list)
    <2>1. Shown(cleared) = Shown(list)
      BY <1>2 DEF Shown, SameItems
    <2> QED  BY <1>2, <2>1 DEF Whole, Frame, Listed, SameItems
  <1>4. Tidy(list) => cleared.selected = {} /\ cleared.leaders = {}
    <2> SUFFICES ASSUME Tidy(list) PROVE cleared.selected = {} /\ cleared.leaders = {}
      OBVIOUS
    <2>1. front = list.selected
      BY SelectedItemsOf DEF Whole, Frame, Listed, Tidy, front
    <2> QED  BY <1>2, <1>3, <2>1 DEF Frame
  <1>5. Leading(cleared.byState, {})
    BY DEF Leading
  <1>6. /\ SameItems(cleared, one) /\ Shown(one) = Shown(cleared)
        /\ Whole(one) /\ one.leader = page
        /\ Tidy(list) => Tidy(one)
    BY <1>3, <1>4, <1>5, LeadOf
  <1> HIDE DEF one
  <1>7. page # NoPage
    BY ShownAre DEF Whole, Frame
  <1>8. /\ SameItems(one, r) /\ Shown(r) = Shown(one)
        /\ Tidy(one) => Tidy(r)
        /\ Whole(r)
        /\ Fits(one) => Leads(r)
    BY <1>6, <1>7, EmitOf DEF Whole
  <1> HIDE DEF r
  <1>9. Fits(list) => Fits(one)
    BY <1>2, <1>3, <1>6 DEF Fits, SameItems
  <1> QED  BY <1>1, <1>2, <1>3, <1>6, <1>8, <1>9 DEF SameItems, Clicked

(* A page that is shown has a place in the list. *)
LEMMA IndexOfIs ==
    ASSUME NEW items \in Seq(Items), NEW page \in PagesOf(items)
    PROVE  /\ IndexOf(items, page) \in 1 .. Len(items) /\ items[IndexOf(items, page)].page = page
           /\ IndexOf(items, page) \in DOMAIN items /\ Len(items) \in Nat
           /\ Distinct(Pages(items)) => \A k \in 1 .. Len(items) : items[k].page = page => k = IndexOf(items, page)
  <1>1. Len(items) \in Nat /\ DOMAIN items = 1 .. Len(items)
    BY LenProperties
  <1>2. \E k \in DOMAIN items : items[k].page = page
    BY DEF PagesOf
  <1>3. IndexOf(items, page) \in DOMAIN items /\ items[IndexOf(items, page)].page = page
    BY <1>2 DEF IndexOf
  <1>4. ASSUME Distinct(Pages(items)), NEW k \in 1 .. Len(items), items[k].page = page
        PROVE  k = IndexOf(items, page)
    <2>1. DOMAIN Pages(items) = DOMAIN items /\ \A j \in DOMAIN items : Pages(items)[j] = items[j].page
      BY DEF Pages
    <2> QED  BY <1>1, <1>3, <1>4, <2>1 DEF Distinct
  <1> QED  BY <1>1, <1>3, <1>4

(* The nearest selected item is a selected one. *)
LEMMA NearestSelectedOf ==
    ASSUME NEW list, NEW page, Frame(list), page \in Shown(list), list.selected # {}
    PROVE  NearestSelected(list, page) \in list.selected
  <1> DEFINE items == list.items
             at == IndexOf(items, page)
             Dist(k) == IF k < at THEN 2 * (at - k) ELSE 2 * (k - at) + 1
             picks == {k \in DOMAIN items : items[k].page \in list.selected}
             D == {Dist(k) : k \in picks}
  <1>1. items \in Seq(Items) /\ DOMAIN items = 1 .. Len(items) /\ Len(items) \in Nat /\ at \in 1 .. Len(items)
    BY IndexOfIs, LenProperties DEF Frame, Listed, Shown
  <1>2. picks # {}
    <2>1. PICK p \in list.selected : p \in PagesOf(items)
      BY DEF Frame, Shown
    <2> QED  BY <2>1 DEF PagesOf
  <1>3. NearestSelected(list, page) = items[CHOOSE k \in picks : \A j \in picks : Dist(k) <= Dist(j)].page
    BY DEF NearestSelected
  <1> HIDE DEF items, at
  <1>4. \A k \in picks : Dist(k) \in Nat
    BY <1>1
  <1> HIDE DEF picks, Dist
  <1>5. D \in SUBSET Nat /\ D # {}
    BY <1>2, <1>4
  <1>6. PICK d \in D : \A n \in D : d <= n
    BY <1>5, LowestOf
  <1>7. \E k \in picks : \A j \in picks : Dist(k) <= Dist(j)
    BY <1>6
  <1>8. (CHOOSE k \in picks : \A j \in picks : Dist(k) <= Dist(j)) \in picks
    BY <1>7
  <1> QED  BY <1>3, <1>8 DEF picks

(* A click with Ctrl selects the page too, or unselects it unless nothing
   else is selected; the leader is then the selected one that is nearest. *)
LEMMA ClickControlOf ==
    ASSUME NEW list, NEW page, Whole(list), page \in Shown(list)
    PROVE  Clicked(list, ClickControl(list, page))
  <1>0. page # NoPage /\ Frame(list)
    BY ShownAre DEF Whole, Frame
  <1>1. CASE page \notin list.selected
    <2> DEFINE off == DropLeaderFlag(list)
               one == Lead(off, page)
               r == Emit(one, page)
    <2>1. ClickControl(list, page) = r
      BY <1>1 DEF ClickControl
    <2>2. /\ Frame(off) /\ SameItems(list, off) /\ Shown(off) = Shown(list)
          /\ Tidy(list) => Tidy(off) /\ off.leaders = {}
      BY <1>0, DropLeaderFlagOf
    <2> HIDE DEF off
    <2>3. /\ SameItems(off, one) /\ Shown(one) = Shown(off)
          /\ Whole(one) /\ one.leader = page
          /\ Tidy(list) => Tidy(one)
      BY <2>2, LeadOf DEF Tidy
    <2> HIDE DEF one
    <2>4. /\ SameItems(one, r) /\ Shown(r) = Shown(one)
          /\ Tidy(one) => Tidy(r)
          /\ Whole(r)
          /\ Fits(one) => Leads(r)
      BY <1>0, <2>3, EmitOf DEF Whole
    <2> HIDE DEF r
    <2>5. Fits(list) => Fits(one)
      BY <2>2, <2>3 DEF Fits, SameItems
    <2> QED  BY <2>1, <2>2, <2>3, <2>4, <2>5 DEF SameItems, Clicked
  <1>2. CASE page \in list.selected /\ ~MultipleItemsSelected(list)
    <2> DEFINE r == Emit(list, list.leader)
    <2>1. ClickControl(list, page) = r
      BY <1>2 DEF ClickControl
    <2>2. list.leader # NoPage
      BY <1>0, <1>2 DEF Frame
    <2>3. /\ SameItems(list, r) /\ Shown(r) = Shown(list)
          /\ Tidy(list) => Tidy(r)
          /\ Whole(r)
          /\ Fits(list) => Leads(r)
      BY <1>0, <2>2, EmitOf
    <2> QED  BY <2>1, <2>3 DEF Clicked
  <1>3. CASE page \in list.selected /\ MultipleItemsSelected(list)
    <2> DEFINE off == Unselect(list, {page})
               next1 == NearestSelected(off, page)
               one == [off EXCEPT !.leader = next1, !.leaders = off.leaders \cup {next1}]
               r == Emit(one, next1)
    <2>1. ClickControl(list, page) = IF list.leader # page THEN off ELSE r
      BY <1>3 DEF ClickControl
    <2>2. /\ Frame(off) /\ SameItems(list, off) /\ Shown(off) = Shown(list)
          /\ off.leader = list.leader /\ off.leaders = list.leaders \ {page}
          /\ off.selected = list.selected \ {page} /\ off.current = list.current
          /\ Tidy(list) => Tidy(off)
      BY <1>0, UnselectOf
    <2> HIDE DEF off
    <2>3. CASE list.leader # page
      <3>1. Whole(off)
        BY <2>2, <2>3 DEF Whole
      <3> QED  BY <2>1, <2>2, <2>3, <3>1 DEF Clicked, Leads, SameItems
    <2>4. CASE list.leader = page
      <3>1. off.selected # {}
        <4>1. /\ Len(list.byState) \in Nat /\ Len(list.byState) >= 2
              /\ list.byState[1] \in list.selected /\ list.byState[2] \in list.selected
              /\ DOMAIN list.byState = 1 .. Len(list.byState)
          BY <1>0, <1>3, LenProperties DEF MultipleItemsSelected, Frame, Listed
        <4>2. list.byState[1] # list.byState[2]
          <5>1. 1 \in DOMAIN list.byState /\ 2 \in DOMAIN list.byState
            BY <4>1
          <5> QED  BY <1>0, <5>1 DEF Frame, Listed, Distinct
        <4> QED  BY <2>2, <4>1, <4>2
      <3>2. next1 \in off.selected
        BY <2>2, <3>1, NearestSelectedOf
      <3> HIDE DEF next1
      <3>3. next1 \in Shown(off) /\ next1 # NoPage
        BY <2>2, <3>2, ShownAre DEF Frame
      <3>4. /\ ListShape(one) /\ SameItems(off, one) /\ one.byState = off.byState
            /\ one.selected = off.selected /\ one.leaders = off.leaders \cup {next1}
            /\ one.leader = next1
        <4>1. ListShape(one)
          BY <2>2, MarkFieldsSet DEF Frame
        <4>2. /\ one.items = off.items /\ one.view = off.view /\ one.byState = off.byState
              /\ one.selected = off.selected /\ one.leaders = off.leaders \cup {next1}
              /\ one.leader = next1
          BY <2>2 DEF Frame, ListShape
        <4> HIDE DEF one
        <4> QED  BY <4>1, <4>2 DEF SameItems
      <3> HIDE DEF one
      <3>5. Shown(one) = Shown(off) /\ Whole(one)
        <4>1. Shown(one) = Shown(off)
          BY <3>4 DEF SameItems, Shown
        <4> QED  BY <2>2, <3>2, <3>3, <3>4, <4>1 DEF SameItems, Whole, Frame, Listed
      <3>6. Tidy(list) => Tidy(one)
        <4> SUFFICES ASSUME Tidy(list) PROVE Tidy(one)
          OBVIOUS
        <4>1. off.leaders = {}
          BY <2>2, <2>4 DEF Tidy
        <4> QED  BY <2>2, <3>4, <4>1 DEF Tidy
      <3>7. /\ SameItems(one, r) /\ Shown(r) = Shown(one)
            /\ Tidy(one) => Tidy(r)
            /\ Whole(r)
            /\ Fits(one) => Leads(r)
        BY <3>3, <3>4, <3>5, EmitOf DEF Whole
      <3> HIDE DEF r
      <3>8. Fits(list) => Fits(one)
        BY <2>2, <3>4, <3>5 DEF Fits, SameItems
      <3> QED  BY <2>1, <2>2, <2>4, <3>4, <3>5, <3>6, <3>7, <3>8 DEF Clicked, SameItems
    <2> QED  BY <2>3, <2>4
  <1> QED  BY <1>1, <1>2, <1>3

(* A stretch of a list, and its pages. *)
LEMMA StretchOf ==
    ASSUME NEW items \in Seq(Items), Distinct(Pages(items)),
           NEW a \in 1 .. Len(items), NEW b \in 1 .. Len(items), a <= b
    PROVE  LET q == Pages(SubSeq(items, a, b))
           IN  /\ q \in Seq(PageIds) /\ Distinct(q) /\ ToSet(q) \subseteq PagesOf(items)
               /\ items[a].page \in ToSet(q) /\ items[b].page \in ToSet(q)
  <1> DEFINE s == SubSeq(items, a, b)
             q == Pages(s)
  <1>0. Len(items) \in Nat /\ a \in Int /\ b \in Int /\ DOMAIN items = 1 .. Len(items)
    BY LenProperties
  <1>1. s \in Seq(Items) /\ Len(s) = b - a + 1 /\ \A i \in 1 .. b - a + 1 : s[i] = items[a + i - 1]
    BY <1>0, SubSeqProperties
  <1> HIDE DEF s
  <1>2. /\ q \in Seq(PageIds) /\ Len(q) = b - a + 1 /\ DOMAIN q = 1 .. b - a + 1
        /\ \A i \in 1 .. b - a + 1 : q[i] = items[a + i - 1].page /\ q[i] = Pages(items)[a + i - 1]
    <2>1. q \in Seq(PageIds) /\ Len(q) = Len(s) /\ \A i \in 1 .. Len(s) : q[i] = s[i].page
      BY <1>1, PagesAre
    <2> HIDE DEF q
    <2>2. DOMAIN q = 1 .. Len(q)
      BY <2>1, LenProperties
    <2>3. \A i \in 1 .. b - a + 1 : a + i - 1 \in 1 .. Len(items)
      BY <1>0
    <2>4. \A j \in 1 .. Len(items) : Pages(items)[j] = items[j].page
      BY PagesAre
    <2> QED  BY <1>1, <2>1, <2>2, <2>3, <2>4
  <1> HIDE DEF q
  <1>3. Distinct(q)
    <2>1. ASSUME NEW i \in 1 .. b - a + 1, NEW j \in 1 .. b - a + 1, i # j PROVE q[i] # q[j]
      <3>1. a + i - 1 \in 1 .. Len(items) /\ a + j - 1 \in 1 .. Len(items) /\ a + i - 1 # a + j - 1
        BY <1>0, <2>1
      <3>2. DOMAIN Pages(items) = 1 .. Len(items)
        BY <1>0 DEF Pages
      <3>3. Pages(items)[a + i - 1] # Pages(items)[a + j - 1]
        BY <3>1, <3>2 DEF Distinct
      <3> QED  BY <1>2, <3>3
    <2> QED  BY <1>2, <2>1 DEF Distinct
  <1>4. ToSet(q) \subseteq PagesOf(items)
    <2>1. \A i \in 1 .. b - a + 1 : q[i] \in PagesOf(items)
      <3>1. \A i \in 1 .. b - a + 1 : a + i - 1 \in DOMAIN items
        BY <1>0
      <3> QED  BY <1>2, <3>1 DEF PagesOf
    <2> QED  BY <1>2, <2>1 DEF ToSet
  <1>5. items[a].page \in ToSet(q) /\ items[b].page \in ToSet(q)
    <2>1. 1 \in DOMAIN q /\ b - a + 1 \in DOMAIN q
      BY <1>0, <1>2
    <2>2. q[1] = items[a].page /\ q[b - a + 1] = items[b].page
      BY <1>0, <1>2, <2>1
    <2> QED  BY <2>1, <2>2 DEF ToSet
  <1> QED  BY <1>2, <1>3, <1>4, <1>5 DEF q, s

(* A click with Shift selects the pages from the leader to the page. *)
LEMMA ClickShiftOf ==
    ASSUME NEW list, NEW page, Whole(list), page \in Shown(list)
    PROVE  Clicked(list, ClickShift(list, page))
  <1>0. page # NoPage /\ Frame(list) /\ NoPage \notin Shown(list)
    BY ShownAre DEF Whole, Frame
  <1>1. CASE list.leader = NoPage
    BY <1>1, ClickPlainOf DEF ClickShift
  <1>2. CASE list.leader # NoPage /\ page = list.leader
    BY <1>2 DEF ClickShift, Clicked, SameItems
  <1>3. CASE list.leader # NoPage /\ page # list.leader
    <2> DEFINE items == list.items
               a == IndexOf(items, list.leader)
               b == IndexOf(items, page)
               range == IF a < b THEN SubSeq(items, a, b) ELSE SubSeq(items, b, a)
               hits == Pages(range)
               all == [list EXCEPT !.selected = list.selected \cup ToSet(hits),
                                   !.byState = MoveToSelected(list.byState, hits)]
               off == DropLeaderFlag(all)
               one == [off EXCEPT !.leader = page, !.leaders = off.leaders \cup {page}]
               r == Emit(one, page)
    <2>1. ClickShift(list, page) = r
      BY <1>3 DEF ClickShift, Pages
    <2>2. /\ hits \in Seq(PageIds) /\ Distinct(hits) /\ ToSet(hits) \subseteq Shown(list)
          /\ page \in ToSet(hits)
      <3>1. items \in Seq(Items) /\ Distinct(Pages(items)) /\ list.leader \in PagesOf(items)
            /\ page \in PagesOf(items) /\ PagesOf(items) = Shown(list)
        BY <1>0, <1>3 DEF Frame, Listed, Shown
      <3> HIDE DEF items
      <3>2. /\ a \in 1 .. Len(items) /\ b \in 1 .. Len(items) /\ Len(items) \in Nat
            /\ items[b].page = page
        BY <3>1, IndexOfIs
      <3> HIDE DEF a, b
      <3>3. CASE a < b
        BY <3>1, <3>2, <3>3, StretchOf
      <3>4. CASE ~(a < b)
        <4>1. b <= a
          BY <3>2, <3>4
        <4> QED  BY <3>1, <3>2, <3>4, <4>1, StretchOf
      <3> QED  BY <3>3, <3>4
    <2> HIDE DEF hits
    <2>3. /\ ListShape(all) /\ SameItems(list, all) /\ all.leader = list.leader
          /\ all.leaders = list.leaders /\ all.byState = MoveToSelected(list.byState, hits)
          /\ all.selected = list.selected \cup ToSet(hits)
      <3> DEFINE x == list.selected \cup ToSet(hits)
                 y == MoveToSelected(list.byState, hits)
      <3> HIDE DEF x, y
      <3>1. all = [list EXCEPT !.selected = x, !.byState = y]
        BY DEF x, y
      <3>2. ListShape([list EXCEPT !.selected = x, !.byState = y])
        BY <1>0, MarkFieldsSet DEF Frame
      <3>3. /\ all.items = list.items /\ all.view = list.view /\ all.leader = list.leader
            /\ all.leaders = list.leaders /\ all.byState = y /\ all.selected = x
        BY <1>0, <3>1 DEF Frame, ListShape
      <3> HIDE DEF all
      <3> QED  BY <3>1, <3>2, <3>3 DEF SameItems, x, y
    <2> HIDE DEF all
    <2>4. /\ Frame(all) /\ Shown(all) = Shown(list)
          /\ Leading(list.byState, list.selected) => Leading(all.byState, all.selected)
      BY <1>0, <1>3, <2>2, <2>3, ChosenOf DEF Frame
    <2>5. /\ Frame(off) /\ SameItems(all, off) /\ Shown(off) = Shown(all)
          /\ off.leader = all.leader /\ off.leaders = all.leaders \ {all.leader}
          /\ off.selected = all.selected /\ off.byState = all.byState
      BY <2>4, DropLeaderFlagOf
    <2> HIDE DEF off
    <2>6. /\ ListShape(one) /\ SameItems(off, one) /\ one.byState = off.byState
          /\ one.selected = off.selected /\ one.leaders = off.leaders \cup {page}
          /\ one.leader = page
      <3>1. ListShape(one)
        BY <2>5, MarkFieldsSet DEF Frame
      <3>2. /\ one.items = off.items /\ one.view = off.view /\ one.byState = off.byState
            /\ one.selected = off.selected /\ one.leaders = off.leaders \cup {page}
            /\ one.leader = page
        BY <2>5 DEF Frame, ListShape
      <3> HIDE DEF one
      <3> QED  BY <3>1, <3>2 DEF SameItems
    <2> HIDE DEF one
    <2>7. Shown(one) = Shown(off) /\ Whole(one)
      <3>1. Shown(one) = Shown(off)
        BY <2>6 DEF SameItems, Shown
      <3>2. page \in off.selected
        BY <2>2, <2>3, <2>5
      <3> QED  BY <1>0, <2>3, <2>4, <2>5, <2>6, <3>1, <3>2 DEF SameItems, Whole, Frame, Listed
    <2>8. Tidy(list) => Tidy(one)
      BY <2>3, <2>4, <2>5, <2>6 DEF Tidy
    <2>9. /\ SameItems(one, r) /\ Shown(r) = Shown(one)
          /\ Tidy(one) => Tidy(r)
          /\ Whole(r)
          /\ Fits(one) => Leads(r)
      BY <1>0, <2>6, <2>7, EmitOf DEF Whole
    <2> HIDE DEF r
    <2>10. Fits(list) => Fits(one)
      BY <2>3, <2>4, <2>5, <2>6, <2>7 DEF Fits, SameItems
    <2> QED  BY <2>1, <2>3, <2>4, <2>5, <2>6, <2>7, <2>8, <2>9, <2>10 DEF Clicked, SameItems
  <1> QED  BY <1>1, <1>2, <1>3

-----------------------------------------------------------------------------
(* Orders of thumbnails, and thumbnails made again. *)

(* Of two thumbnails of different pages just one comes before the other. *)
Total(order) ==
    /\ \A x, y \in Items : x.page # y.page => (order.less[<<x, y>>] <=> ~order.less[<<y, x>>])
    /\ \A x, y, z \in Items :
            /\ x.page # y.page /\ y.page # z.page /\ x.page # z.page
            /\ order.less[<<x, y>>] /\ order.less[<<y, z>>]
            => order.less[<<x, z>>]

(* Every order provider is such an order: by the type of the split, by
   PageId, and either of them reversed. *)
LEMMA OrderIsTotal ==
    ASSUME NEW rec, NEW st, NEW split, NEW rev
    PROVE  Total(OrderProvider(rec, st, split, rev))
  <1> DEFINE o == OrderProvider(rec, st, split, rev)
             by == st = 1 /\ split
             P(l, r) == IF by THEN BySplitType(rec, l, r) ELSE PageLess(l.page, r.page)
  <1>1. \A x, y \in Items : o.less[<<x, y>>] = (IF rev THEN ~P(x, y) ELSE P(x, y))
    BY DEF OrderProvider
  <1> HIDE DEF o
  <1>2. \A id : TypeRank(rec, id) \in Int
    <2>1. \A t : (CASE t = "SINGLE_PAGE_UNCUT" -> 1 [] t = "PAGE_PLUS_OFFCUT" -> 2
                    [] t = "TWO_PAGES" -> 3 [] OTHER -> 100) \in Int
      OBVIOUS
    <2> QED  BY <2>1 DEF TypeRank
  <1>3. \A x \in Items : x.page \in PageIds /\ x.incomplete \in BOOLEAN
    BY DEF Items
  <1>4. \A p, q \in PageIds : p # q => (PageLess(p, q) <=> ~PageLess(q, p))
    BY PagesArePairs, PageLessIsOrder
  <1>5. \A p, q, r \in PageIds : PageLess(p, q) /\ PageLess(q, r) => PageLess(p, r)
    BY PagesArePairs, PageLessIsOrder
  <1>6. \A x, y \in Items : x.page # y.page => (BySplitType(rec, x, y) <=> ~BySplitType(rec, y, x))
    <2> SUFFICES ASSUME NEW x \in Items, NEW y \in Items, x.page # y.page
                 PROVE  BySplitType(rec, x, y) <=> ~BySplitType(rec, y, x)
      OBVIOUS
    <2>1. PageLess(x.page, y.page) <=> ~PageLess(y.page, x.page)
      BY <1>3, <1>4
    <2>2. TypeRank(rec, ImageOf(x.page)) \in Int /\ TypeRank(rec, ImageOf(y.page)) \in Int
      BY <1>2
    <2> QED  BY <1>3, <2>1, <2>2 DEF BySplitType
  <1>7. \A x, y, z \in Items : BySplitType(rec, x, y) /\ BySplitType(rec, y, z) => BySplitType(rec, x, z)
    <2> SUFFICES ASSUME NEW x \in Items, NEW y \in Items, NEW z \in Items,
                        BySplitType(rec, x, y), BySplitType(rec, y, z)
                 PROVE  BySplitType(rec, x, z)
      OBVIOUS
    <2>1. PageLess(x.page, y.page) /\ PageLess(y.page, z.page) => PageLess(x.page, z.page)
      BY <1>3, <1>5
    <2> DEFINE rx == TypeRank(rec, ImageOf(x.page))
               ry == TypeRank(rec, ImageOf(y.page))
               rz == TypeRank(rec, ImageOf(z.page))
               pxy == PageLess(x.page, y.page)
               pyz == PageLess(y.page, z.page)
               pxz == PageLess(x.page, z.page)
    <2>2. rx \in Int /\ ry \in Int /\ rz \in Int
      BY <1>2
    <2>3. /\ IF x.incomplete # y.incomplete THEN y.incomplete
             ELSE IF x.incomplete \/ rx = ry THEN pxy ELSE rx < ry
          /\ IF y.incomplete # z.incomplete THEN z.incomplete
             ELSE IF y.incomplete \/ ry = rz THEN pyz ELSE ry < rz
      BY DEF BySplitType
    <2>4. BySplitType(rec, x, z) <=> IF x.incomplete # z.incomplete THEN z.incomplete
                                   ELSE IF x.incomplete \/ rx = rz THEN pxz ELSE rx < rz
      BY DEF BySplitType
    <2>5. x.incomplete \in BOOLEAN /\ y.incomplete \in BOOLEAN /\ z.incomplete \in BOOLEAN
      BY <1>3
    <2>6. pxy \in BOOLEAN /\ pyz \in BOOLEAN /\ pxz \in BOOLEAN /\ (pxy /\ pyz => pxz)
      BY <2>1 DEF PageLess
    <2> HIDE DEF rx, ry, rz, pxy, pyz, pxz
    <2> QED  BY <2>2, <2>3, <2>4, <2>5, <2>6
  <1>8. \A x, y \in Items : x.page # y.page => (P(x, y) <=> ~P(y, x))
    BY <1>3, <1>4, <1>6
  <1>9. \A x, y, z \in Items : P(x, y) /\ P(y, z) => P(x, z)
    BY <1>3, <1>5, <1>7
  <1> HIDE DEF P
  <1>10. \A x, y \in Items : x.page # y.page => (o.less[<<x, y>>] <=> ~o.less[<<y, x>>])
    BY <1>1, <1>8
  <1>11. \A x, y, z \in Items :
            /\ x.page # y.page /\ y.page # z.page /\ x.page # z.page
            /\ o.less[<<x, y>>] /\ o.less[<<y, z>>]
            => o.less[<<x, z>>]
    <2> SUFFICES ASSUME NEW x \in Items, NEW y \in Items, NEW z \in Items,
                        x.page # y.page, y.page # z.page, x.page # z.page,
                        o.less[<<x, y>>], o.less[<<y, z>>]
                 PROVE  o.less[<<x, z>>]
      OBVIOUS
    <2>1. CASE rev
      <3>1. P(y, x) /\ P(z, y)
        BY <1>1, <1>8, <2>1
      <3>2. P(z, x)
        BY <1>9, <3>1
      <3>3. ~P(x, z)
        BY <1>8, <3>2
      <3> QED  BY <1>1, <2>1, <3>3
    <2>2. CASE ~rev
      BY <1>1, <1>9, <2>2
    <2> QED  BY <2>1, <2>2
  <1> QED  BY <1>10, <1>11 DEF Total, o

(* The place between thumbnails that come before one and those that do not. *)
Fitting(items, item, order, f) ==
    /\ \E b \in 1 .. f : /\ b = 1 \/ ~order.less[<<item, items[b - 1]>>]
                         /\ \A k \in b .. (f - 1) : order.less[<<items[k], item>>]
    /\ f = Len(items) + 1 \/ ~order.less[<<items[f], item>>]

(* The place where a page is put is a place of the list: the hint when there is
   no order, else one between those before it and those after it. *)
LEMMA InsertPositionOf ==
    ASSUME NEW items \in Seq(Items), NEW item, NEW hint \in 1 .. Len(items) + 1, NEW order
    PROVE  /\ InsertPosition(items, item, hint, order) \in 1 .. Len(items) + 1
           /\ ~order.given => InsertPosition(items, item, hint, order) = hint
           /\ order.given => Fitting(items, item, order, InsertPosition(items, item, hint, order))
  <1> DEFINE n == Len(items)
             lessLeft(k) == order.less[<<item, items[k]>>]
             lessRight(k) == order.less[<<items[k], item>>]
             back == CHOOSE b \in 1 .. hint :
                        /\ \A k \in b .. (hint - 1) : lessLeft(k)
                        /\ b = 1 \/ ~lessLeft(b - 1)
             place == CHOOSE f \in back .. (n + 1) :
                        /\ \A k \in back .. (f - 1) : lessRight(k)
                        /\ f = n + 1 \/ ~lessRight(f)
  <1>0. n \in Nat
    BY LenProperties
  <1>1. InsertPosition(items, item, hint, order) = IF ~order.given THEN hint ELSE place
    BY DEF InsertPosition
  <1> HIDE DEF n, lessLeft, lessRight
  <1>2. back \in 1 .. hint /\ (back = 1 \/ ~lessLeft(back - 1))
    <2> DEFINE B == {b \in 1 .. hint : \A k \in b .. (hint - 1) : lessLeft(k)}
    <2>1. B \in SUBSET Nat /\ hint \in B
      BY <1>0 DEF n
    <2>2. PICK b \in B : \A c \in B : b <= c
      BY <2>1, LowestOf
    <2>3. b \in 1 .. hint /\ \A k \in b .. (hint - 1) : lessLeft(k)
      BY <2>2
    <2>4. b = 1 \/ ~lessLeft(b - 1)
      <3> SUFFICES ASSUME b # 1, lessLeft(b - 1) PROVE FALSE
        OBVIOUS
      <3>1. b - 1 \in 1 .. hint /\ \A k \in (b - 1) .. (hint - 1) : lessLeft(k)
        BY <1>0, <2>3 DEF n
      <3>2. b - 1 \in B
        BY <3>1
      <3> QED  BY <2>2, <2>3, <3>2
    <2> QED  BY <2>3, <2>4
  <1> HIDE DEF back
  <1>3. /\ place \in back .. (n + 1) /\ \A k \in back .. (place - 1) : lessRight(k)
        /\ place = n + 1 \/ ~lessRight(place)
    <2> DEFINE F == {f \in back .. (n + 1) : f = n + 1 \/ ~lessRight(f)}
    <2>1. F \in SUBSET Nat /\ n + 1 \in F
      BY <1>0, <1>2 DEF n
    <2>2. PICK f \in F : \A g \in F : f <= g
      BY <2>1, LowestOf
    <2>3. \A k \in back .. (f - 1) : lessRight(k)
      <3> SUFFICES ASSUME NEW k \in back .. (f - 1), ~lessRight(k) PROVE FALSE
        OBVIOUS
      <3>1. k \in back .. (n + 1) /\ k < f
        BY <1>0, <1>2, <2>1, <2>2 DEF n
      <3>2. k \in F
        BY <3>1
      <3> QED  BY <1>0, <2>1, <2>2, <3>1, <3>2
    <2> QED  BY <2>2, <2>3
  <1> HIDE DEF place
  <1>4. place \in 1 .. n + 1
    BY <1>0, <1>2, <1>3 DEF n
  <1>5. back \in 1 .. place
    BY <1>0, <1>2, <1>3 DEF n
  <1>6. Fitting(items, item, order, place)
    BY <1>2, <1>3, <1>5 DEF Fitting, n, lessLeft, lessRight
  <1> QED  BY <1>1, <1>4, <1>6 DEF n

(* Thumbnails are made again: the list has the same pages and selection. *)
Remade(list, new) ==
    /\ Frame(new) /\ Shown(new) = Shown(list)
    /\ new.byState = list.byState /\ new.selected = list.selected
    /\ new.leaders = list.leaders /\ new.leader = list.leader /\ new.view = list.view
    /\ Whole(list) => Whole(new)
    /\ Tidy(list) => Tidy(new)
    /\ Fits(list) => Fits(new)
    /\ Fits(list) /\ Leads(list) => Leads(new)

(* Other thumbnails of the same pages leave the selection as it is. *)
LEMMA WithItems ==
    ASSUME NEW list, Frame(list), NEW items \in Seq(Items), Distinct(Pages(items)),
           PagesOf(items) = Shown(list)
    PROVE  LET new == [list EXCEPT !.items = items]
           IN  Remade(list, new) /\ new.items = items /\ new.current = list.current
  <1> DEFINE new == [list EXCEPT !.items = items]
  <1>1. ListShape(new)
    BY FieldSet DEF Frame
  <1>2. /\ new.items = items /\ new.byState = list.byState /\ new.selected = list.selected
        /\ new.leaders = list.leaders /\ new.leader = list.leader /\ new.view = list.view
        /\ new.current = list.current
    BY DEF Frame, ListShape
  <1> HIDE DEF new
  <1>3. Shown(new) = Shown(list)
    BY <1>2 DEF Shown
  <1>4. Frame(new)
    BY <1>1, <1>2, <1>3 DEF Frame, Listed
  <1>5. /\ Whole(list) => Whole(new)
        /\ Tidy(list) => Tidy(new)
        /\ Fits(list) => Fits(new)
        /\ Leads(list) => Leads(new)
    BY <1>2, <1>3, <1>4 DEF Whole, Tidy, Fits, Leads
  <1> QED  BY <1>2, <1>3, <1>4, <1>5 DEF Remade, new

(* Items of different pages in order. *)
LEMMA ItemsSorted ==
    ASSUME NEW S \in SUBSET Items, IsFiniteSet(S), NEW order, Total(order),
           \A x, y \in S : x # y => x.page # y.page
    PROVE  /\ Sorted(S, order.less) \in Seq(Items) /\ ToSet(Sorted(S, order.less)) = S
           /\ Distinct(Pages(Sorted(S, order.less)))
           /\ \A i, j \in DOMAIN Sorted(S, order.less) :
                  i < j => order.less[<<Sorted(S, order.less)[i], Sorted(S, order.less)[j]>>]
  <1> DEFINE q == Sorted(S, order.less)
             n == Cardinality(S)
  <1>1. \A x, y \in S : x # y => (order.less[<<x, y>>] <=> ~order.less[<<y, x>>])
    BY DEF Total
  <1>2. \A x, y, z \in S : x # y /\ y # z /\ order.less[<<x, y>>] /\ order.less[<<y, z>>]
            => order.less[<<x, z>>]
    <2> SUFFICES ASSUME NEW x \in S, NEW y \in S, NEW z \in S, x # y, y # z,
                        order.less[<<x, y>>], order.less[<<y, z>>]
                 PROVE  order.less[<<x, z>>]
      OBVIOUS
    <2>1. x # z
      BY <1>1
    <2>2. x \in Items /\ y \in Items /\ z \in Items
      OBVIOUS
    <2> QED  BY <2>1, <2>2 DEF Total
  <1>3. /\ n \in Nat /\ q \in Surjection(1 .. n, S)
        /\ \A i, j \in 1 .. n : i < j => order.less[<<q[i], q[j]>>]
        /\ \A i, j \in 1 .. n : i # j => q[i] # q[j]
    BY <1>1, <1>2, SortedOf
  <1> HIDE DEF q, n
  <1>4. /\ DOMAIN q = 1 .. n /\ q \in [1 .. n -> S] /\ \A i \in 1 .. n : q[i] \in S
        /\ \A x \in S : \E i \in 1 .. n : q[i] = x
    BY <1>3 DEF Surjection
  <1>5. q \in Seq(Items)
    <2>1. q \in [1 .. n -> Items]
      BY <1>4
    <2> QED  BY <1>3, <2>1
  <1>6. ToSet(q) = S
    BY <1>4 DEF ToSet
  <1>7. Distinct(Pages(q))
    <2>1. DOMAIN Pages(q) = 1 .. n /\ \A k \in 1 .. n : Pages(q)[k] = q[k].page
      BY <1>4 DEF Pages
    <2> QED  BY <1>3, <1>4, <2>1 DEF Distinct
  <1> QED  BY <1>3, <1>4, <1>5, <1>6, <1>7 DEF q

(* invalidateAllThumbnails() *)
LEMMA InvalidateAllOf ==
    ASSUME NEW list, Frame(list), NEW incomplete, NEW order, Total(order)
    PROVE  LET new == InvalidateAll(list, incomplete, order)
           IN  /\ Remade(list, new) /\ new.current = list.current
               /\ ~order.given => Pages(new.items) = Pages(list.items)
               /\ order.given => InOrder(new.items, order)
  <1> DEFINE made == [k \in DOMAIN list.items |->
                        Item(list.items[k].page, list.items[k].page \in incomplete)]
             sorted == Sorted(ToSet(made), order.less)
  <1>1. InvalidateAll(list, incomplete, order) =
            [list EXCEPT !.items = IF order.given THEN sorted ELSE made]
    BY DEF InvalidateAll
  <1>2. /\ list.items \in Seq(Items) /\ DOMAIN list.items = 1 .. Len(list.items)
        /\ Len(list.items) \in Nat /\ Distinct(Pages(list.items))
    BY LenProperties DEF Frame, Listed
  <1>3. /\ made \in Seq(Items) /\ Len(made) = Len(list.items) /\ DOMAIN made = DOMAIN list.items
        /\ \A k \in DOMAIN made : made[k].page = list.items[k].page
    <2>1. \A k \in 1 .. Len(list.items) : list.items[k] \in Items
      BY <1>2, ElementsOf
    <2>2. \A k \in 1 .. Len(list.items) :
            Item(list.items[k].page, list.items[k].page \in incomplete) \in Items
      BY <2>1 DEF Item, Items
    <2>3. \A k \in DOMAIN made : made[k].page = list.items[k].page
      BY DEF Item
    <2>4. made \in [1 .. Len(list.items) -> Items]
      BY <1>2, <2>2
    <2>5. made \in Seq(Items)
      BY <1>2, <2>4
    <2>6. Len(made) = Len(list.items)
      BY <1>2, <2>4, <2>5, LenProperties
    <2> QED  BY <2>3, <2>5, <2>6
  <1> HIDE DEF made
  <1>4. Pages(made) = Pages(list.items) /\ PagesOf(made) = Shown(list)
    BY <1>3 DEF Pages, PagesOf, Shown
  <1>5. CASE ~order.given
    <2>1. InvalidateAll(list, incomplete, order) = [list EXCEPT !.items = made]
      BY <1>1, <1>5
    <2>2. Distinct(Pages(made))
      BY <1>2, <1>4
    <2>3. /\ Remade(list, [list EXCEPT !.items = made]) /\ [list EXCEPT !.items = made].items = made
          /\ [list EXCEPT !.items = made].current = list.current
      BY <1>3, <1>4, <2>2, WithItems
    <2> QED  BY <1>4, <1>5, <2>1, <2>3
  <1>6. CASE order.given
    <2>1. InvalidateAll(list, incomplete, order) = [list EXCEPT !.items = sorted]
      BY <1>1, <1>6
    <2>2. ToSet(made) \in SUBSET Items /\ IsFiniteSet(ToSet(made))
      BY <1>3, ElementsOf
    <2>3. \A x, y \in ToSet(made) : x # y => x.page # y.page
      <3> SUFFICES ASSUME NEW x \in ToSet(made), NEW y \in ToSet(made), x # y PROVE x.page # y.page
        OBVIOUS
      <3>1. PICK i \in DOMAIN made : made[i] = x
        BY DEF ToSet
      <3>2. PICK j \in DOMAIN made : made[j] = y
        BY DEF ToSet
      <3>3. i # j /\ DOMAIN Pages(list.items) = DOMAIN made
        BY <1>3, <3>1, <3>2 DEF Pages
      <3>4. Pages(list.items)[i] # Pages(list.items)[j]
        BY <1>2, <3>3 DEF Distinct
      <3> QED  BY <1>3, <3>1, <3>2, <3>4 DEF Pages
    <2>4. /\ sorted \in Seq(Items) /\ ToSet(sorted) = ToSet(made) /\ Distinct(Pages(sorted))
          /\ \A i, j \in DOMAIN sorted : i < j => order.less[<<sorted[i], sorted[j]>>]
      BY <2>2, <2>3, ItemsSorted
    <2> HIDE DEF sorted
    <2>5. PagesOf(sorted) = PagesOf(made)
      <3>1. PagesOf(sorted) = {x.page : x \in ToSet(sorted)} /\ PagesOf(made) = {x.page : x \in ToSet(made)}
        BY DEF PagesOf, ToSet
      <3> QED  BY <2>4, <3>1
    <2>6. PagesOf(sorted) = Shown(list)
      BY <1>4, <2>5
    <2>7. /\ Remade(list, [list EXCEPT !.items = sorted]) /\ [list EXCEPT !.items = sorted].items = sorted
          /\ [list EXCEPT !.items = sorted].current = list.current
      BY <2>4, <2>6, WithItems
    <2> QED  BY <1>6, <2>1, <2>4, <2>7 DEF InOrder
  <1> QED  BY <1>5, <1>6

(* invalidateThumbnail() *)
LEMMA InvalidateThumbnailOf ==
    ASSUME NEW list, Frame(list), NEW page, NEW incomplete, NEW order
    PROVE  LET new == InvalidateThumbnail(list, page, incomplete, order)
           IN  /\ Remade(list, new)
               /\ ~order.given => Pages(new.items) = Pages(list.items)
  <1>1. CASE page \notin Shown(list)
    BY <1>1 DEF InvalidateThumbnail, Remade
  <1>2. CASE page \in Shown(list)
    <2> DEFINE items == list.items
               at == IndexOf(items, page)
               item == Item(page, page \in incomplete)
               rest == RemoveAt(items, at)
               pos == InsertPosition(rest, item, at, order)
               made == InsertAt(rest, pos, item)
               new == [list EXCEPT !.items = made]
               f == [x \in Items |-> x.page]
    <2>1. InvalidateThumbnail(list, page, incomplete, order) =
              IF list.leader = page THEN Emit(new, page) ELSE new
      BY <1>2 DEF InvalidateThumbnail
    <2>2. /\ items \in Seq(Items) /\ Distinct(Pages(items)) /\ page \in PagesOf(items)
          /\ PagesOf(items) = Shown(list) /\ page \in PageIds /\ page # NoPage
      BY <1>2, ShownAre DEF Frame, Listed, Shown
    <2> HIDE DEF items
    <2>3. /\ at \in 1 .. Len(items) /\ Len(items) \in Nat /\ items[at].page = page
          /\ DOMAIN items = 1 .. Len(items)
      BY <2>2, IndexOfIs, LenProperties
    <2> HIDE DEF at
    <2>4. item \in Items /\ item.page = page
      BY <2>2 DEF Item, Items
    <2> HIDE DEF item
    <2>5. rest \in Seq(Items) /\ Len(rest) = Len(items) - 1
      BY <2>2, <2>3, RemoveAtOf
    <2> HIDE DEF rest
    <2>6. at \in 1 .. Len(rest) + 1
      BY <2>3, <2>5
    <2>7. pos \in 1 .. Len(rest) + 1 /\ (~order.given => pos = at)
      BY <2>5, <2>6, InsertPositionOf
    <2> HIDE DEF pos
    <2>8. made \in Seq(Items)
      BY <2>4, <2>5, <2>7, InsertAtOf
    <2>9. /\ f \in [Items -> PageIds] /\ Pages(made) = Mapped(f, made) /\ Pages(rest) = Mapped(f, rest)
          /\ Pages(items) = Mapped(f, items) /\ f[item] = page
          /\ PagesOf(made) = ToSet(Pages(made))
      <3>1. f \in [Items -> PageIds]
        BY DEF Items
      <3> QED  BY <2>2, <2>4, <2>5, <2>8, <3>1, PagesAre
    <2>10. Pages(rest) = RemoveAt(Pages(items), at)
      <3> DEFINE p == Pages(items)
      <3>1. p \in Seq(PageIds) /\ Len(p) = Len(items) /\ \A k \in 1 .. Len(items) : p[k] = items[k].page
        BY <2>2, PagesAre
      <3>2. /\ Pages(rest) \in Seq(PageIds) /\ Len(Pages(rest)) = Len(rest)
            /\ \A k \in 1 .. Len(rest) : Pages(rest)[k] = rest[k].page
        BY <2>5, PagesAre
      <3> HIDE DEF p
      <3>3. \A j \in 1 .. Len(items) - 1 : rest[j] = IF j < at THEN items[j] ELSE items[j + 1]
        BY <2>2, <2>3, RemoveAtOf DEF rest
      <3>4. /\ RemoveAt(p, at) \in Seq(PageIds) /\ Len(RemoveAt(p, at)) = Len(p) - 1
            /\ \A j \in 1 .. Len(p) - 1 : RemoveAt(p, at)[j] = IF j < at THEN p[j] ELSE p[j + 1]
        BY <2>3, <3>1, RemoveAtOf
      <3>5. \A j \in 1 .. Len(rest) : Pages(rest)[j] = RemoveAt(p, at)[j]
        <4> SUFFICES ASSUME NEW j \in 1 .. Len(rest) PROVE Pages(rest)[j] = RemoveAt(p, at)[j]
          OBVIOUS
        <4>1. j \in 1 .. Len(items) - 1 /\ j \in 1 .. Len(items) /\ j + 1 \in 1 .. Len(items)
          BY <2>3, <2>5
        <4> QED  BY <2>5, <3>1, <3>2, <3>3, <3>4, <4>1
      <3>6. Pages(rest) = RemoveAt(p, at)
        BY <2>5, <3>1, <3>2, <3>4, <3>5, SameList
      <3> QED  BY <3>6 DEF p
    <2>11. Pages(made) = InsertAt(RemoveAt(Pages(items), at), pos, page)
      <3> HIDE DEF f
      <3>1. Mapped(f, made) = InsertAt(Mapped(f, rest), pos, f[item])
        BY <2>4, <2>5, <2>7, <2>9, MappedInsert
      <3> QED  BY <2>9, <2>10, <3>1
    <2>12. Distinct(Pages(made)) /\ PagesOf(made) = Shown(list)
      <3> DEFINE p == Pages(items)
                 r == RemoveAt(p, at)
      <3>1. p \in Seq(PageIds) /\ Len(p) = Len(items) /\ ToSet(p) = PagesOf(items) /\ p[at] = page
            /\ Distinct(p)
        BY <2>2, <2>3, PagesAre
      <3> HIDE DEF p
      <3>a. at \in 1 .. Len(p)
        BY <2>3, <3>1
      <3>2. r \in Seq(PageIds) /\ Len(r) = Len(p) - 1 /\ Distinct(r) /\ ToSet(r) = ToSet(p) \ {page}
        BY <3>a, <3>1, Removed
      <3> HIDE DEF r
      <3>3. pos \in 1 .. Len(r) + 1
        BY <2>5, <2>7, <3>1, <3>2
      <3>4. page \in ToSet(p) /\ page \notin ToSet(r)
        BY <2>2, <3>1, <3>2
      <3>5. Distinct(InsertAt(r, pos, page)) /\ ToSet(InsertAt(r, pos, page)) = ToSet(r) \cup {page}
        <4>1. page \in PageIds
          BY <2>2
        <4> QED  BY <3>2, <3>3, <3>4, <4>1, Inserted
      <3>6. Pages(made) = InsertAt(r, pos, page)
        BY <2>11 DEF r, p
      <3> QED  BY <2>2, <2>9, <3>1, <3>2, <3>4, <3>5, <3>6
    <2>13. ~order.given => Pages(made) = Pages(items)
      <3> SUFFICES ASSUME ~order.given PROVE Pages(made) = Pages(items)
        OBVIOUS
      <3> DEFINE p == Pages(items)
      <3>1. p \in Seq(PageIds) /\ Len(p) = Len(items) /\ p[at] = page
        BY <2>2, <2>3, PagesAre
      <3> HIDE DEF p
      <3>2. InsertAt(RemoveAt(p, at), at, page) = [p EXCEPT ![at] = page]
        BY <2>2, <2>3, <3>1, Replaced
      <3>3. [p EXCEPT ![at] = page] = p
        BY <3>1
      <3> QED  BY <2>7, <2>11, <3>2, <3>3 DEF p
    <2> HIDE DEF made
    <2>14. Remade(list, new) /\ new.items = made
      BY <2>8, <2>12, WithItems
    <2> HIDE DEF new
    <2>15. CASE list.leader = page
      <3> DEFINE e == Emit(new, page)
      <3>1. Frame(new) /\ new.leader = page /\ new.leader # NoPage
        BY <2>2, <2>14, <2>15 DEF Remade
      <3>2. /\ Frame(e) /\ SameItems(new, e)
            /\ Shown(e) = Shown(new)
            /\ e.leader = new.leader /\ e.leaders = new.leaders
            /\ e.byState = new.byState /\ e.selected = new.selected
            /\ Tidy(new) => Tidy(e)
            /\ Whole(new) => Whole(e)
            /\ Fits(new) => Leads(e)
        BY <3>1, EmitOf
      <3> HIDE DEF e
      <3>3. Fits(new) => Fits(e)
        BY <3>2 DEF Fits, SameItems
      <3>4. Remade(list, e)
        BY <2>14, <3>2, <3>3 DEF Remade, SameItems
      <3> QED  BY <2>1, <2>13, <2>14, <2>15, <3>2, <3>4 DEF e, SameItems, items
    <2>16. CASE list.leader # page
      BY <2>1, <2>13, <2>14, <2>16 DEF items
    <2> QED  BY <2>15, <2>16
  <1> QED  BY <1>1, <1>2

-----------------------------------------------------------------------------
(* Thumbnails in order. *)

(* A list is in order, if there is an order. *)
Ordered(items, order) == order.given => InOrder(items, order)

(* Two thumbnails of a list are of different pages. *)
LEMMA PagesDiffer ==
    ASSUME NEW items \in Seq(Items), Distinct(Pages(items))
    PROVE  /\ Len(items) \in Nat /\ DOMAIN items = 1 .. Len(items)
           /\ \A k \in 1 .. Len(items) : items[k] \in Items
           /\ \A j, k \in 1 .. Len(items) : j # k => items[j].page # items[k].page
  <1>1. Len(items) \in Nat /\ DOMAIN items = 1 .. Len(items) /\ \A k \in 1 .. Len(items) : items[k] \in Items
    BY ElementsOf
  <1>2. DOMAIN Pages(items) = DOMAIN items /\ \A k \in DOMAIN items : Pages(items)[k] = items[k].page
    BY DEF Pages
  <1> QED  BY <1>1, <1>2 DEF Distinct

(* An order decides between any two. *)
LEMMA OneOfTwo ==
    ASSUME NEW order, Total(order)
    PROVE  \A x, y \in Items : x.page # y.page => (order.less[<<x, y>>] \/ order.less[<<y, x>>])
  BY DEF Total

(* A thumbnail put between those before it and those after it leaves a list in
   order. *)
LEMMA FittedInOrder ==
    ASSUME NEW items \in Seq(Items), Distinct(Pages(items)), NEW item \in Items,
           item.page \notin PagesOf(items), NEW order, Total(order), InOrder(items, order),
           NEW f \in 1 .. Len(items) + 1, Fitting(items, item, order, f)
    PROVE  InOrder(InsertAt(items, f, item), order)
  <1> DEFINE n == Len(items)
             r == InsertAt(items, f, item)
             L(x, y) == order.less[<<x, y>>]
  <1>1. /\ n \in Nat /\ DOMAIN items = 1 .. n /\ \A k \in 1 .. n : items[k] \in Items
        /\ \A j, k \in 1 .. n : j # k => items[j].page # items[k].page
    BY PagesDiffer
  <1>2. f \in 1 .. n + 1 /\ Fitting(items, item, order, f)
    OBVIOUS
  <1>3. PICK b \in 1 .. f : /\ b = 1 \/ ~L(item, items[b - 1])
                            /\ \A k \in b .. (f - 1) : L(items[k], item)
    BY <1>2 DEF Fitting
  <1>4. f = n + 1 \/ ~L(items[f], item)
    BY <1>2 DEF Fitting
  <1>5. \A k \in 1 .. n : items[k].page # item.page
    BY <1>1 DEF PagesOf
  <1>6. \A j, k \in 1 .. n : j < k => L(items[j], items[k])
    BY <1>1 DEF InOrder
  <1>7. \A x, y \in Items : x.page # y.page => (L(x, y) \/ L(y, x))
    BY OneOfTwo
  <1>8. \A x, y, z \in Items :
            /\ x.page # y.page /\ y.page # z.page /\ x.page # z.page
            /\ L(x, y) /\ L(y, z)
            => L(x, z)
    <2> HIDE DEF L
    <2> SUFFICES ASSUME NEW x \in Items, NEW y \in Items, NEW z \in Items,
                        x.page # y.page, y.page # z.page, x.page # z.page, L(x, y), L(y, z)
                 PROVE  L(x, z)
      OBVIOUS
    <2> QED  BY DEF Total, L
  <1> HIDE DEF L, n
  <1>9. ASSUME NEW k \in 1 .. n, k < f PROVE L(items[k], item)
    <2>1. CASE k >= b
      <3>1. k \in b .. (f - 1)
        BY <1>1, <1>2, <1>3, <1>9, <2>1
      <3> QED  BY <1>3, <3>1
    <2>2. CASE k < b
      <3>1. b - 1 \in 1 .. n /\ b # 1 /\ (k = b - 1 \/ k < b - 1)
        BY <1>1, <1>2, <1>3, <2>2
      <3>2. L(items[b - 1], item)
        BY <1>1, <1>3, <1>5, <1>7, <1>8, <3>1
      <3>3. k # b - 1 => L(items[k], items[b - 1])
        BY <1>6, <3>1
      <3> QED  BY <1>1, <1>5, <1>7, <1>8, <3>1, <3>2, <3>3
    <2> QED  BY <1>1, <1>3, <2>1, <2>2
  <1>10. ASSUME NEW k \in 1 .. n, f <= k PROVE L(item, items[k])
    <2>1. f \in 1 .. n /\ (k = f \/ f < k)
      BY <1>1, <1>2, <1>10
    <2>2. L(item, items[f])
      BY <1>1, <1>4, <1>5, <1>7, <1>8, <2>1
    <2>3. k # f => L(items[f], items[k])
      BY <1>6, <2>1
    <2> QED  BY <1>1, <1>5, <1>7, <1>8, <2>1, <2>2, <2>3
  <1>11. /\ r \in Seq(Items) /\ Len(r) = n + 1
         /\ \A j \in 1 .. n + 1 : r[j] = IF j < f THEN items[j] ELSE IF j = f THEN item ELSE items[j - 1]
    BY <1>2, InsertAtOf DEF n
  <1> HIDE DEF r
  <1>12. DOMAIN r = 1 .. n + 1
    BY <1>11, LenProperties
  <1>13. ASSUME NEW j \in 1 .. n + 1, NEW k \in 1 .. n + 1, j < k PROVE L(r[j], r[k])
    <2>1. CASE k < f
      <3>1. j \in 1 .. n /\ k \in 1 .. n /\ r[j] = items[j] /\ r[k] = items[k]
        BY <1>1, <1>2, <1>11, <1>13, <2>1
      <3> QED  BY <1>6, <1>13, <3>1
    <2>2. CASE k = f
      <3>1. j \in 1 .. n /\ j < f /\ r[j] = items[j] /\ r[k] = item
        BY <1>1, <1>2, <1>11, <1>13, <2>2
      <3> QED  BY <1>9, <3>1
    <2>3. CASE f < k /\ j < f
      <3>1. j \in 1 .. n /\ k - 1 \in 1 .. n /\ j < k - 1 /\ r[j] = items[j] /\ r[k] = items[k - 1]
        BY <1>1, <1>2, <1>11, <1>13, <2>3
      <3> QED  BY <1>6, <3>1
    <2>4. CASE f < k /\ j = f
      <3>1. k - 1 \in 1 .. n /\ f <= k - 1 /\ r[j] = item /\ r[k] = items[k - 1]
        BY <1>1, <1>2, <1>11, <1>13, <2>4
      <3> QED  BY <1>10, <3>1
    <2>5. CASE f < k /\ f < j
      <3>1. j - 1 \in 1 .. n /\ k - 1 \in 1 .. n /\ j - 1 < k - 1 /\ r[j] = items[j - 1] /\ r[k] = items[k - 1]
        BY <1>1, <1>2, <1>11, <1>13, <2>5
      <3> QED  BY <1>6, <3>1
    <2> QED  BY <1>1, <1>2, <1>13, <2>1, <2>2, <2>3, <2>4, <2>5
  <1> HIDE DEF L
  <1>14. InOrder(r, order)
    BY <1>12, <1>13 DEF InOrder, L
  <1> QED  BY <1>14 DEF r

(* itemInsertPosition() keeps a list in order. *)
LEMMA PutInOrder ==
    ASSUME NEW items \in Seq(Items), Distinct(Pages(items)), NEW item \in Items,
           item.page \notin PagesOf(items), NEW order, Total(order), InOrder(items, order),
           NEW hint \in 1 .. Len(items) + 1
    PROVE  order.given => InOrder(InsertAt(items, InsertPosition(items, item, hint, order), item), order)
  BY InsertPositionOf, FittedInOrder

(* A list in order but for one page is in order without it. *)
LEMMA TakenOutInOrder ==
    ASSUME NEW items \in Seq(Items), Distinct(Pages(items)), NEW page \in PagesOf(items),
           NEW order, OthersInOrder(items, page, order)
    PROVE  LET rest == RemoveAt(items, IndexOf(items, page))
           IN  /\ rest \in Seq(Items) /\ Len(rest) = Len(items) - 1 /\ Distinct(Pages(rest))
               /\ page \notin PagesOf(rest) /\ InOrder(rest, order)
  <1> DEFINE at == IndexOf(items, page)
             n == Len(items)
             rest == RemoveAt(items, at)
  <1>1. /\ at \in 1 .. n /\ n \in Nat /\ items[at].page = page
        /\ \A k \in 1 .. n : items[k].page = page => k = at
    BY IndexOfIs
  <1>2. DOMAIN items = 1 .. n /\ \A j, k \in 1 .. n : j # k => items[j].page # items[k].page
    BY PagesDiffer
  <1>3. /\ rest \in Seq(Items) /\ Len(rest) = n - 1
        /\ \A j \in 1 .. n - 1 : rest[j] = IF j < at THEN items[j] ELSE items[j + 1]
    BY <1>1, RemoveAtOf
  <1> HIDE DEF at, n, rest
  <1>4. DOMAIN rest = 1 .. n - 1
    BY <1>3, LenProperties
  <1> DEFINE from == [j \in 1 .. n - 1 |-> IF j < at THEN j ELSE j + 1]
  <1>5. /\ \A j \in 1 .. n - 1 : from[j] \in 1 .. n /\ from[j] # at
        /\ \A j, k \in 1 .. n - 1 : j < k => from[j] < from[k]
        /\ \A j, k \in 1 .. n - 1 : j # k => from[j] # from[k]
    BY <1>1
  <1>6. \A j \in 1 .. n - 1 : rest[j] = items[from[j]]
    BY <1>3
  <1> HIDE DEF from
  <1>7. Distinct(Pages(rest))
    <2>1. DOMAIN Pages(rest) = 1 .. n - 1 /\ \A k \in 1 .. n - 1 : Pages(rest)[k] = rest[k].page
      BY <1>4 DEF Pages
    <2> QED  BY <1>2, <1>5, <1>6, <2>1 DEF Distinct
  <1>8. page \notin PagesOf(rest)
    <2>1. \A k \in 1 .. n - 1 : rest[k].page # page
      BY <1>1, <1>5, <1>6
    <2> QED  BY <1>4, <2>1 DEF PagesOf
  <1>9. ASSUME NEW j \in 1 .. n - 1, NEW k \in 1 .. n - 1, j < k PROVE order.less[<<rest[j], rest[k]>>]
    <2>1. from[j] \in 1 .. n /\ from[k] \in 1 .. n /\ from[j] < from[k] /\ from[j] # at /\ from[k] # at
      BY <1>5, <1>9
    <2>2. items[from[j]].page # page /\ items[from[k]].page # page
      BY <1>1, <2>1
    <2>3. order.less[<<items[from[j]], items[from[k]]>>]
      BY <1>2, <2>1, <2>2 DEF OthersInOrder
    <2> QED  BY <1>6, <2>3
  <1>10. InOrder(rest, order)
    BY <1>4, <1>9 DEF InOrder
  <1> QED  BY <1>3, <1>7, <1>8, <1>10 DEF rest, at, n

(* invalidateThumbnail() puts the page in its place. *)
LEMMA ThumbnailInOrder ==
    ASSUME NEW list, Frame(list), NEW page \in Shown(list), NEW incomplete,
           NEW order, Total(order), OthersInOrder(list.items, page, order)
    PROVE  order.given => InOrder(InvalidateThumbnail(list, page, incomplete, order).items, order)
  <1> DEFINE items == list.items
             at == IndexOf(items, page)
             item == Item(page, page \in incomplete)
             rest == RemoveAt(items, at)
             made == InsertAt(rest, InsertPosition(rest, item, at, order), item)
             new == [list EXCEPT !.items = made]
  <1>1. InvalidateThumbnail(list, page, incomplete, order) = IF list.leader = page THEN Emit(new, page) ELSE new
    BY DEF InvalidateThumbnail
  <1>2. items \in Seq(Items) /\ Distinct(Pages(items)) /\ page \in PagesOf(items)
    BY DEF Frame, Listed, Shown
  <1>3. at \in 1 .. Len(items) /\ Len(items) \in Nat
    BY <1>2, IndexOfIs
  <1>4. /\ rest \in Seq(Items) /\ Len(rest) = Len(items) - 1 /\ Distinct(Pages(rest))
        /\ page \notin PagesOf(rest) /\ InOrder(rest, order)
    BY <1>2, TakenOutInOrder
  <1>5. item \in Items /\ item.page = page
    <2>1. page \in PageIds
      BY <1>2, PagesAre
    <2> QED  BY <2>1 DEF Item, Items
  <1>6. new.items = made
    BY DEF Frame, ListShape
  <1> HIDE DEF rest, item, at
  <1>7. at \in 1 .. Len(rest) + 1
    BY <1>3, <1>4
  <1>8. order.given => InOrder(made, order)
    BY <1>4, <1>5, <1>7, PutInOrder
  <1> HIDE DEF made
  <1>9. Emit(new, page).items = new.items
    BY DEF Emit
  <1> QED  BY <1>1, <1>6, <1>8, <1>9

(* Nor does leaving pages out disturb an order. *)
LEMMA OnlyInOrder ==
    ASSUME NEW items \in Seq(Items), NEW P, P \subseteq DOMAIN items, NEW order, InOrder(items, order)
    PROVE  InOrder(Only(items, P), order)
  <1> DEFINE a == Ascending(P)
             n == Cardinality(P)
             r == Only(items, P)
  <1>1. /\ r \in Seq(Items) /\ Len(r) = n /\ n \in Nat
        /\ \A k \in 1 .. n : a[k] \in P /\ r[k] = items[a[k]]
        /\ \A j, k \in 1 .. n : j < k => a[j] < a[k]
    BY OnlyOf
  <1> HIDE DEF a, n, r
  <1>2. DOMAIN r = 1 .. n
    BY <1>1, LenProperties
  <1>3. ASSUME NEW j \in 1 .. n, NEW k \in 1 .. n, j < k PROVE order.less[<<r[j], r[k]>>]
    <2>1. a[j] \in DOMAIN items /\ a[k] \in DOMAIN items /\ a[j] < a[k]
      BY <1>1, <1>3
    <2>2. order.less[<<items[a[j]], items[a[k]]>>]
      BY <2>1 DEF InOrder
    <2> QED  BY <1>1, <2>2
  <1>4. InOrder(r, order)
    BY <1>2, <1>3 DEF InOrder
  <1> QED  BY <1>4 DEF r

(* invalidateThumbnail() of any page keeps a list in order. *)
LEMMA ThumbnailKeepsOrder ==
    ASSUME NEW list, Frame(list), NEW page, NEW incomplete, NEW order, Total(order), InOrder(list.items, order)
    PROVE  order.given => InOrder(InvalidateThumbnail(list, page, incomplete, order).items, order)
  <1>1. CASE page \in Shown(list)
    <2>1. OthersInOrder(list.items, page, order)
      BY DEF InOrder, OthersInOrder
    <2> QED  BY <1>1, <2>1, ThumbnailInOrder
  <1>2. CASE page \notin Shown(list)
    <2>1. InvalidateThumbnail(list, page, incomplete, order) = list
      BY <1>2 DEF InvalidateThumbnail
    <2> QED  BY <2>1
  <1> QED  BY <1>1, <1>2

-----------------------------------------------------------------------------
(* reset(), removePages() and insert() of the list. *)

(* A function on the numbers up to n is a list. *)
LEMMA ListOf ==
    ASSUME NEW S, NEW n \in Nat, NEW f \in [1 .. n -> S]
    PROVE  f \in Seq(S) /\ Len(f) = n /\ DOMAIN f = 1 .. n
  <1>1. f \in Seq(S)
    OBVIOUS
  <1> QED  BY <1>1, LenProperties

(* The list that reset() builds, before its thumbnails are made. *)
LEMMA FreshOf ==
    ASSUME NEW new, ListShape(new), NEW pages \in Seq(PageIds), Distinct(pages),
           new.items = [k \in DOMAIN pages |-> Item(pages[k], FALSE)],
           NEW hits \in Seq(PageIds), Distinct(hits), ToSet(hits) \subseteq ToSet(pages),
           new.byState = MoveToSelected(pages, hits),
           new.selected \subseteq ToSet(pages), new.leaders \subseteq new.selected,
           new.leader \in ToSet(pages) \cup {NoPage}, new.leader = NoPage => new.selected = {},
           new.leader # NoPage => new.leader \in new.leaders
    PROVE  /\ Whole(new) /\ Shown(new) = ToSet(pages) /\ Pages(new.items) = pages
           /\ new.leaders \subseteq {new.leader} /\ new.selected = ToSet(hits) => Tidy(new)
  <1>1. Len(pages) \in Nat /\ DOMAIN pages = 1 .. Len(pages) /\ \A k \in 1 .. Len(pages) : pages[k] \in PageIds
    BY ElementsOf
  <1>2. /\ new.items \in Seq(Items) /\ Len(new.items) = Len(pages) /\ DOMAIN new.items = DOMAIN pages
        /\ \A k \in DOMAIN pages : new.items[k].page = pages[k]
    <2>1. \A k \in 1 .. Len(pages) : Item(pages[k], FALSE) \in Items /\ Item(pages[k], FALSE).page = pages[k]
      BY <1>1 DEF Item, Items
    <2>2. new.items \in [1 .. Len(pages) -> Items]
      BY <1>1, <2>1
    <2>3. new.items \in Seq(Items) /\ Len(new.items) = Len(pages)
      BY <1>1, <2>2, ListOf
    <2> QED  BY <1>1, <2>1, <2>3
  <1>3. Pages(new.items) = pages
    <2>1. /\ Pages(new.items) \in Seq(PageIds) /\ Len(Pages(new.items)) = Len(new.items)
          /\ \A k \in 1 .. Len(new.items) : Pages(new.items)[k] = new.items[k].page
      BY <1>2, PagesAre
    <2>2. \A k \in 1 .. Len(pages) : Pages(new.items)[k] = pages[k]
      <3> SUFFICES ASSUME NEW k \in 1 .. Len(pages) PROVE Pages(new.items)[k] = pages[k]
        OBVIOUS
      <3>1. k \in DOMAIN new.items /\ new.items[k].page = pages[k]
        BY ONLY <1>1, <1>2
      <3> QED  BY ONLY <3>1 DEF Pages
    <2>3. Len(Pages(new.items)) = Len(pages)
      BY <1>2, <2>1
    <2> DEFINE p == Pages(new.items)
    <2>4. p \in Seq(PageIds) /\ Len(p) = Len(pages) /\ \A k \in 1 .. Len(p) : p[k] = pages[k]
      BY <2>1, <2>2, <2>3
    <2> HIDE DEF p
    <2>5. p = pages
      BY <2>4, SameList
    <2> QED  BY <2>5 DEF p
  <1>4. Shown(new) = ToSet(pages)
    BY <1>2, <1>3, PagesAre DEF Shown
  <1>5. /\ new.byState \in Seq(PageIds) /\ Distinct(new.byState) /\ ToSet(new.byState) = ToSet(pages)
        /\ \A S : Leading(pages, S) => Leading(new.byState, S \cup ToSet(hits))
    <2> DEFINE b == MoveToSelected(pages, hits)
    <2>1. /\ b \in Seq(PageIds) /\ Distinct(b) /\ ToSet(b) = ToSet(pages)
          /\ \A S : Leading(pages, S) => Leading(b, S \cup ToSet(hits))
      BY MoveToSelectedOf
    <2> HIDE DEF b
    <2>2. new.byState = b
      BY DEF b
    <2> QED  BY <2>1, <2>2
  <1>6. Whole(new)
    BY <1>2, <1>3, <1>4, <1>5 DEF Whole, Frame, Listed
  <1>7. new.leaders \subseteq {new.leader} /\ new.selected = ToSet(hits) => Tidy(new)
    <2>1. Leading(pages, {})
      BY DEF Leading
    <2>2. Leading(new.byState, ToSet(hits))
      BY <1>5, <2>1
    <2> QED  BY <2>2 DEF Tidy
  <1> QED  BY <1>3, <1>4, <1>6, <1>7

(* reset() shows the pages it is given: in their own order without an
   order provider, in the order of the provider with one; the selection
   is restored to the pages that are still there. *)
LEMMA ResetOf ==
    ASSUME NEW list, Whole(list), NEW pages \in Seq(PageIds), Distinct(pages),
           NEW action, NEW incomplete, NEW order, Total(order)
    PROVE  LET r == Reset(list, pages, action, incomplete, order)
           IN  /\ Whole(r) /\ Shown(r) = ToSet(pages) /\ r.view = list.view
               /\ Tidy(list) => Tidy(r)
               /\ ~order.given => Pages(r.items) = pages
               /\ order.given => InOrder(r.items, order)
               /\ r.leader # NoPage => r.current # NoPage
               /\ action # "KEEP_SELECTION" \/ list.leader = NoPage => r.leader = NoPage
               /\ action = "KEEP_SELECTION" /\ list.leader \in ToSet(pages)
                    => r.leader = list.leader /\ (Fits(r) => Leads(r))
  <1> DEFINE keep == action = "KEEP_SELECTION"
             kept == IF keep THEN SelectedItems(list) \cap ToSet(pages) ELSE {}
             old == IF keep THEN list.leader ELSE NoPage
             P == {k \in DOMAIN pages : pages[k] \in kept}
             hits == Only(pages, P)
             leader == IF old \in ToSet(pages) THEN old
                       ELSE IF kept # {} THEN Last(hits) ELSE NoPage
             new == [items |-> [k \in DOMAIN pages |-> Item(pages[k], FALSE)],
                     byState |-> MoveToSelected(pages, hits),
                     selected |-> IF leader = NoPage THEN kept ELSE kept \cup {leader},
                     leaders |-> IF leader = NoPage THEN {} ELSE {leader},
                     leader |-> leader, view |-> list.view, current |-> list.current]
             made == InvalidateAll(new, incomplete, order)
             r == Reset(list, pages, action, incomplete, order)
  <1>1. r = IF leader = NoPage THEN made ELSE Emit(made, old)
    BY DEF Reset
  <1>2. /\ SelectedItems(list) \subseteq list.selected
        /\ Tidy(list) => SelectedItems(list) = list.selected
    BY SelectedItemsOf DEF Whole, Frame, Listed, Tidy
  <1>3. /\ kept \subseteq ToSet(pages) /\ ToSet(pages) \subseteq PageIds /\ NoPage \notin ToSet(pages)
        /\ kept # {} => keep /\ list.selected # {}
    <2>1. ToSet(pages) \subseteq PageIds
      BY ElementsOf
    <2> QED  BY <1>2, <2>1, NoPageIsNone
  <1> HIDE DEF r
  <1>4. /\ hits \in Seq(PageIds) /\ Distinct(hits) /\ ToSet(hits) = kept
        /\ kept # {} => Last(hits) \in kept
    <2>1. hits \in Seq(PageIds) /\ Distinct(hits) /\ ToSet(hits) = {pages[i] : i \in P}
      <3>1. P \subseteq DOMAIN pages
        OBVIOUS
      <3> HIDE DEF P
      <3> QED  BY <3>1, OnlyOf
    <2>2. {pages[i] : i \in P} = kept
      <3> HIDE DEF kept
      <3> QED  BY <1>3 DEF ToSet
    <2> HIDE DEF hits
    <2>3. kept # {} => Last(hits) \in ToSet(hits)
      <3> SUFFICES ASSUME kept # {} PROVE Last(hits) \in ToSet(hits)
        OBVIOUS
      <3> HIDE DEF kept
      <3>1. Len(hits) \in Nat /\ DOMAIN hits = 1 .. Len(hits)
        BY <2>1, LenProperties
      <3>2. \E i \in DOMAIN hits : TRUE
        BY <2>1, <2>2 DEF ToSet
      <3>3. Len(hits) \in DOMAIN hits
        BY <3>1, <3>2
      <3> QED  BY <3>3 DEF Last, ToSet
    <2> QED  BY <2>1, <2>2, <2>3
  <1> HIDE DEF hits, P
  <1>5. /\ leader \in ToSet(pages) \cup {NoPage}
        /\ leader = NoPage => kept = {}
        /\ leader # NoPage => old # NoPage /\ old = list.leader /\ keep
        /\ old \in ToSet(pages) => leader = old
        /\ Tidy(list) /\ leader # NoPage => leader \in kept
    <2>1. list.leader = NoPage => list.selected = {}
      BY DEF Whole, Frame
    <2>2. leader \in ToSet(pages) \cup {NoPage} /\ (leader = NoPage => kept = {})
      BY <1>3, <1>4
    <2>3. leader # NoPage => old # NoPage /\ old = list.leader /\ keep
      BY <1>3, <2>1
    <2>4. ASSUME Tidy(list), leader # NoPage PROVE leader \in kept
      <3>1. CASE old \in ToSet(pages)
        <4>1. old = list.leader /\ keep /\ list.leader \in list.selected
          BY <2>3, <2>4, <1>2 DEF Whole, Frame
        <4> QED  BY <1>2, <2>4, <3>1, <4>1
      <3>2. CASE old \notin ToSet(pages)
        BY <1>4, <2>4, <3>2
      <3> QED  BY <3>1, <3>2
    <2> QED  BY <2>2, <2>3, <2>4
  <1>6. /\ ListShape(new) /\ new.items = [k \in DOMAIN pages |-> Item(pages[k], FALSE)]
        /\ new.byState = MoveToSelected(pages, hits)
        /\ new.selected = (IF leader = NoPage THEN kept ELSE kept \cup {leader})
        /\ new.leaders = (IF leader = NoPage THEN {} ELSE {leader})
        /\ new.leader = leader /\ new.view = list.view /\ new.current = list.current
    BY DEF ListShape
  <1> HIDE DEF new
  <1>7. /\ Whole(new) /\ Shown(new) = ToSet(pages) /\ Pages(new.items) = pages
        /\ new.leaders \subseteq {new.leader} /\ new.selected = ToSet(hits) => Tidy(new)
    <2>1. /\ new.selected \subseteq ToSet(pages) /\ new.leaders \subseteq new.selected
          /\ new.leader \in ToSet(pages) \cup {NoPage}
          /\ new.leader = NoPage => new.selected = {}
          /\ new.leader # NoPage => new.leader \in new.leaders
      <3> HIDE DEF leader, kept
      <3> QED  BY <1>3, <1>5, <1>6
    <2>2. ToSet(hits) \subseteq ToSet(pages)
      BY <1>3, <1>4
    <2> HIDE DEF leader, kept
    <2> QED  BY <1>4, <1>6, <2>1, <2>2, FreshOf
  <1>8. Tidy(list) => Tidy(new)
    <2> HIDE DEF leader, kept
    <2> QED  BY <1>4, <1>5, <1>6, <1>7
  <1> HIDE DEF leader, kept
  <1>9. /\ Remade(new, made) /\ made.current = new.current
        /\ ~order.given => Pages(made.items) = Pages(new.items)
        /\ order.given => InOrder(made.items, order)
    BY <1>7, InvalidateAllOf DEF Whole
  <1> HIDE DEF made
  <1>10. /\ Whole(made) /\ Shown(made) = ToSet(pages) /\ made.view = list.view /\ made.leader = leader
         /\ Tidy(list) => Tidy(made)
         /\ ~order.given => Pages(made.items) = pages
    BY <1>6, <1>7, <1>8, <1>9 DEF Remade
  <1>11. CASE leader = NoPage
    <2>1. r = made /\ Leads(made)
      BY <1>1, <1>10, <1>11 DEF Leads
    <2>2. keep /\ list.leader \in ToSet(pages) => FALSE
      BY <1>3, <1>5, <1>11
    <2> QED  BY <1>9, <1>10, <1>11, <2>1, <2>2 DEF r
  <1>12. CASE leader # NoPage
    <2>1. r = Emit(made, old)
      BY <1>1, <1>12
    <2>2. /\ Whole(r) /\ SameItems(made, r) /\ Shown(r) = Shown(made) /\ r.leader = made.leader
          /\ Tidy(made) => Tidy(r)
          /\ Fits(made) /\ old = made.leader => Leads(r)
      BY <1>10, <1>12, <2>1, EmitOf DEF Whole
    <2>3. r.current = SelectedPageSet(made.current, old, made.view)
      BY <1>10, <2>1 DEF Emit, Whole, Frame, ListShape
    <2>4. old \in PageIds /\ ImageOf(old) # NoImage
      <3>1. old \in Shown(list)
        BY <1>5, <1>12 DEF Whole, Frame
      <3>2. old \in PageIds
        BY <3>1, ShownAre DEF Whole, Frame
      <3> QED  BY <3>2, NoPageIsNone DEF ImageOf, NoImage
    <2>5. r.current # NoPage
      <3>1. ImageOf(NoPage) = NoImage
        BY DEF ImageOf, NoPage, PageId
      <3> QED  BY <2>3, <2>4, <3>1 DEF SelectedPageSet
    <2>6. Fits(r) => Fits(made)
      BY <2>2 DEF Fits, SameItems
    <2>7. keep /\ list.leader \in ToSet(pages) => r.leader = list.leader /\ (Fits(r) => Leads(r))
      BY <1>5, <1>10, <1>12, <2>2, <2>6
    <2>8. keep /\ list.leader # NoPage
      BY <1>5, <1>12
    <2> QED  BY <1>9, <1>10, <2>2, <2>5, <2>7, <2>8 DEF r, SameItems
  <1> QED  BY <1>11, <1>12

(* What removing pages leaves of a list. *)
WithoutPages(list, pages, order, r) ==
    /\ Whole(r) /\ Shown(r) = Shown(list) \ pages /\ r.view = list.view
    /\ r.leader = IF list.leader \in pages THEN NoPage ELSE list.leader
    /\ Tidy(list) => Tidy(r)
    /\ Fits(list) => Fits(r)
    /\ Fits(list) /\ Leads(list) => Leads(r)
    /\ LET p == Pages(list.items)
       IN  ~order.given => Pages(r.items) = Only(p, {k \in DOMAIN p : p[k] \notin pages})
    /\ InOrder(list.items, order) => Ordered(r.items, order)

(* removePages() of the list takes the pages out and leaves the others in
   their order; the leader is lost only with its page. *)
LEMMA RemoveFromListOf ==
    ASSUME NEW list, Whole(list), NEW pages, list.leader \in pages => list.selected \subseteq pages,
           NEW incomplete, NEW order, Total(order)
    PROVE  WithoutPages(list, pages, order, RemoveFromList(list, pages, incomplete, order))
  <1> DEFINE r == RemoveFromList(list, pages, incomplete, order)
             items == list.items
             byState == list.byState
             p == Pages(items)
             K == {k \in DOMAIN items : items[k].page \notin pages}
             B == {k \in DOMAIN byState : byState[k] \notin pages}
             kept == Only(items, K)
             left == Only(byState, B)
             leader == IF list.leader \in pages THEN NoPage ELSE list.leader
             new == [list EXCEPT !.items = kept, !.selected = list.selected \ pages,
                                 !.leaders = list.leaders \ pages, !.byState = left, !.leader = leader]
             f == [x \in Items |-> x.page]
  <1>1. \/ r = InvalidateAll(new, incomplete, order)
        \/ \E page : r = InvalidateThumbnail(new, page, incomplete, order)
    BY DEF RemoveFromList
  <1> HIDE DEF r
  <1>2. /\ items \in Seq(Items) /\ Distinct(p) /\ p \in Seq(PageIds) /\ PagesOf(items) = ToSet(p)
        /\ byState \in Seq(PageIds) /\ Distinct(byState) /\ ToSet(byState) = Shown(list)
        /\ Shown(list) = ToSet(p) /\ p = Mapped(f, items) /\ f \in [Items -> PageIds]
        /\ DOMAIN p = DOMAIN items /\ \A k \in DOMAIN items : p[k] = items[k].page
    <2>1. items \in Seq(Items) /\ Distinct(p) /\ byState \in Seq(PageIds) /\ Distinct(byState)
          /\ ToSet(byState) = Shown(list) /\ Shown(list) = PagesOf(items)
      BY DEF Whole, Frame, Listed, Shown
    <2>2. f \in [Items -> PageIds]
      BY DEF Items
    <2>3. p \in Seq(PageIds) /\ p = Mapped(f, items) /\ PagesOf(items) = ToSet(p)
      BY <2>1, PagesAre
    <2>4. DOMAIN p = DOMAIN items /\ \A k \in DOMAIN items : p[k] = items[k].page
      BY DEF Pages
    <2> QED  BY <2>1, <2>2, <2>3, <2>4
  <1>3. /\ ListShape(new) /\ new.items = kept /\ new.selected = list.selected \ pages
        /\ new.leaders = list.leaders \ pages /\ new.byState = left /\ new.leader = leader
        /\ new.view = list.view /\ new.current = list.current
    <2> HIDE DEF kept, left, leader
    <2>1. ListShape(list)
      BY DEF Whole, Frame
    <2>2. ListShape(new)
      <3> DEFINE a == [list EXCEPT !.items = kept]
                 b == [a EXCEPT !.selected = list.selected \ pages]
                 c == [b EXCEPT !.leaders = list.leaders \ pages]
                 d == [c EXCEPT !.byState = left]
                 e == [d EXCEPT !.leader = leader]
      <3>1. ListShape(a)
        BY <2>1, FieldSet
      <3>2. ListShape(b)
        <4> HIDE DEF a
        <4> QED  BY <3>1, FieldSet
      <3>3. ListShape(c)
        <4> HIDE DEF b
        <4> QED  BY <3>2, FieldSet
      <3>4. ListShape(d)
        <4> HIDE DEF c
        <4> QED  BY <3>3, FieldSet
      <3>5. ListShape(e)
        <4> HIDE DEF d
        <4> QED  BY <3>4, FieldSet
      <3>6. new = e
        BY <2>1 DEF ListShape
      <3> QED  BY <3>5, <3>6
    <2>3. /\ new.items = kept /\ new.selected = list.selected \ pages
          /\ new.leaders = list.leaders \ pages /\ new.byState = left /\ new.leader = leader
          /\ new.view = list.view /\ new.current = list.current
      BY <2>1 DEF ListShape
    <2> QED  BY <2>2, <2>3
  <1> HIDE DEF new
  <1>4. /\ kept \in Seq(Items) /\ Pages(kept) = Only(p, K) /\ Distinct(Pages(kept))
        /\ PagesOf(kept) = Shown(list) \ pages
        /\ K = {k \in DOMAIN p : p[k] \notin pages}
    <2> HIDE DEF f, p, items
    <2>1. K = {k \in DOMAIN p : p[k] \notin pages} /\ K \subseteq DOMAIN items /\ K \subseteq DOMAIN p
      BY <1>2
    <2> HIDE DEF K
    <2>2. kept \in Seq(Items)
      BY <1>2, <2>1, OnlyOf
    <2>3. Only(p, K) \in Seq(PageIds) /\ ToSet(Only(p, K)) = {p[i] : i \in K} /\ Distinct(Only(p, K))
      BY <1>2, <2>1, OnlyOf
    <2>4. Mapped(f, kept) = Only(p, K)
      <3>1. f \in [Items -> PageIds] /\ items \in Seq(Items) /\ K \in SUBSET (DOMAIN items)
        BY <1>2, <2>1
      <3>2. Mapped(f, Only(items, K)) = Only(Mapped(f, items), K)
        BY ONLY <3>1, MappedOnly
      <3> QED  BY <1>2, <3>2
    <2> HIDE DEF kept
    <2>5. Pages(kept) = Mapped(f, kept) /\ PagesOf(kept) = ToSet(Pages(kept))
      BY <2>2, PagesAre DEF f
    <2>6. {p[i] : i \in K} = ToSet(p) \ pages
      BY <2>1 DEF ToSet
    <2> QED  BY <1>2, <2>1, <2>2, <2>3, <2>4, <2>5, <2>6
  <1>5. /\ left \in Seq(PageIds) /\ Distinct(left) /\ ToSet(left) = Shown(list) \ pages
        /\ \A x, y : Before(left, x, y) => Before(byState, x, y)
    <2> HIDE DEF byState
    <2>1. B \subseteq DOMAIN byState
      OBVIOUS
    <2>2. {byState[i] : i \in B} = ToSet(byState) \ pages
      BY DEF ToSet
    <2> HIDE DEF B
    <2>3. /\ left \in Seq(PageIds) /\ ToSet(left) = {byState[i] : i \in B}
          /\ Distinct(byState) => Distinct(left)
          /\ \A x, y : Before(left, x, y) => Before(byState, x, y)
      BY <1>2, <2>1, OnlyOf
    <2> HIDE DEF left
    <2> QED  BY <1>2, <2>2, <2>3
  <1>11. InOrder(items, order) => InOrder(kept, order)
    <2>1. K \subseteq DOMAIN items
      OBVIOUS
    <2> HIDE DEF K, items
    <2> QED  BY <1>2, <2>1, OnlyInOrder
  <1> HIDE DEF kept, left, K, B
  <1>6. Shown(new) = Shown(list) \ pages
    BY <1>3, <1>4 DEF Shown
  <1>7. Whole(new)
    <2>1. Listed(new)
      BY <1>3, <1>4, <1>5, <1>6 DEF Listed
    <2>2. new.selected \subseteq Shown(new) /\ new.leaders \subseteq new.selected
      BY <1>3, <1>6 DEF Whole, Frame
    <2>3. /\ new.leader \in Shown(new) \cup {NoPage}
          /\ new.leader = NoPage => new.selected = {}
          /\ new.leader # NoPage => new.leader \in new.leaders
      BY <1>3, <1>6 DEF Whole, Frame
    <2> QED  BY <1>3, <2>1, <2>2, <2>3 DEF Whole, Frame
  <1>8. Tidy(list) => Tidy(new)
    <2> SUFFICES ASSUME Tidy(list) PROVE Tidy(new)
      OBVIOUS
    <2>1. new.leaders \subseteq {new.leader}
      BY <1>3 DEF Tidy
    <2>2. ASSUME NEW x, NEW y, Before(left, x, y), y \in list.selected \ pages
          PROVE  x \in list.selected \ pages
      <3>1. x \in list.selected
        BY <1>5, <2>2 DEF Tidy, Leading
      <3>2. x \in ToSet(left)
        BY <2>2, BeforeIn
      <3> QED  BY <1>5, <3>1, <3>2
    <2> QED  BY <1>3, <2>1, <2>2 DEF Tidy, Leading
  <1>9. /\ Fits(list) => Fits(new)
        /\ Leads(list) => Leads(new)
    BY <1>3, <1>6 DEF Fits, Leads
  <1>10. /\ Remade(new, r)
         /\ ~order.given => Pages(r.items) = Pages(new.items)
    BY <1>1, <1>7, InvalidateAllOf, InvalidateThumbnailOf DEF Whole
  <1>12. InOrder(items, order) => Ordered(r.items, order)
    <2> SUFFICES ASSUME InOrder(items, order) PROVE Ordered(r.items, order)
      OBVIOUS
    <2>1. InOrder(new.items, order)
      BY <1>3, <1>11
    <2> QED  BY <1>1, <1>7, <2>1, InvalidateAllOf, ThumbnailKeepsOrder DEF Whole, Ordered
  <1> QED  BY <1>3, <1>4, <1>6, <1>7, <1>8, <1>9, <1>10, <1>12 DEF Remade, WithoutPages, r

(* Where insert() wants a page in a list of pages: at the end, before the
   page of the image with the lowest id, or after a page of the image. *)
Wanted(p, where, image, h) ==
    /\ h \in 1 .. Len(p) + 1
    /\ image = NoImage => h = Len(p) + 1
    /\ image # NoImage /\ where = "BEFORE" =>
            /\ h \in 1 .. Len(p) /\ ImageOf(p[h]) = image
            /\ \A k \in 1 .. Len(p) : ImageOf(p[k]) = image => p[h] = p[k] \/ PageLess(p[h], p[k])
    /\ image # NoImage /\ where # "BEFORE" =>
            /\ h > 1 /\ ImageOf(p[h - 1]) = image
            /\ h = Len(p) + 1 \/ ImageOf(p[h]) # image

(* The place that insert() starts from, for an image that is shown. *)
LEMMA HintOf ==
    ASSUME NEW items \in Seq(Items), Distinct(Pages(items)), NEW image, NEW where, NEW given \in BOOLEAN,
           \E q \in PagesOf(items) : ImageOf(q) = image
    PROVE  LET ofImage == {q \in PagesOf(items) : ImageOf(q) = image}
               first == CHOOSE q \in ofImage : \A u \in ofImage : q = u \/ PageLess(q, u)
               at    == IndexOf(items, first)
               past  == CHOOSE k \in (at + 1) .. (Len(items) + 1) :
                          /\ \A j \in (at + 1) .. (k - 1) : ImageOf(items[j].page) = image
                          /\ k > Len(items) \/ ImageOf(items[k].page) # image
               hint  == IF where = "BEFORE" THEN at ELSE IF given THEN at + 1 ELSE past
           IN  /\ hint \in 1 .. Len(items) + 1
               /\ ~given => Wanted(Pages(items), where, image, hint)
  <1> DEFINE p == Pages(items)
             ofImage == {q \in PagesOf(items) : ImageOf(q) = image}
             first == CHOOSE q \in ofImage : \A u \in ofImage : q = u \/ PageLess(q, u)
             at == IndexOf(items, first)
             Past(k) == /\ \A j \in (at + 1) .. (k - 1) : ImageOf(items[j].page) = image
                        /\ k > Len(items) \/ ImageOf(items[k].page) # image
             past == CHOOSE k \in (at + 1) .. (Len(items) + 1) : Past(k)
             hint == IF where = "BEFORE" THEN at ELSE IF given THEN at + 1 ELSE past
             n == Len(items)
  <1>1. /\ n \in Nat /\ DOMAIN items = 1 .. n /\ p \in Seq(PageIds) /\ Len(p) = n
        /\ \A k \in 1 .. n : p[k] = items[k].page
        /\ PagesOf(items) = ToSet(p) /\ PagesOf(items) \subseteq PageIds
    BY LenProperties, PagesAre
  <1>2. first \in ofImage /\ \A u \in ofImage : first = u \/ PageLess(first, u)
    <2>1. ofImage \in SUBSET (Int \X Int) /\ IsFiniteSet(ofImage)
      <3>1. IsFiniteSet(PagesOf(items))
        BY <1>1, ElementsOf
      <3>2. ofImage \subseteq PagesOf(items)
        OBVIOUS
      <3> QED  BY <1>1, <3>1, <3>2, PagesArePairs, FS_Subset
    <2>2. ofImage # {}
      OBVIOUS
    <2> HIDE DEF ofImage
    <2> DEFINE r == InOrderOfIds(ofImage)
    <2>3. /\ r \in Seq(ofImage) /\ ToSet(r) = ofImage /\ DOMAIN r = 1 .. Len(r)
          /\ \A i, j \in 1 .. Len(r) : i < j => PageLess(r[i], r[j])
      BY <2>1, InOrderOf
    <2> HIDE DEF r
    <2>4. Len(r) \in Nat /\ Len(r) # 0
      <3>1. Len(r) \in Nat
        BY <2>3, LenProperties
      <3>2. \E i \in 1 .. Len(r) : TRUE
        BY <2>2, <2>3 DEF ToSet
      <3> QED  BY <3>1, <3>2
    <2>5. r[1] \in ofImage
      BY <2>3, <2>4 DEF ToSet
    <2>6. \A u \in ofImage : r[1] = u \/ PageLess(r[1], u)
      <3> SUFFICES ASSUME NEW u \in ofImage PROVE r[1] = u \/ PageLess(r[1], u)
        OBVIOUS
      <3>1. PICK i \in 1 .. Len(r) : r[i] = u
        BY <2>3 DEF ToSet
      <3>2. i = 1 \/ 1 < i
        BY <2>4
      <3> QED  BY <2>3, <2>4, <3>1, <3>2
    <2> QED  BY <2>5, <2>6
  <1> HIDE DEF first
  <1>3. at \in 1 .. n /\ items[at].page = first /\ p[at] = first /\ ImageOf(first) = image
    BY <1>1, <1>2, IndexOfIs
  <1>4. \A k \in 1 .. n : ImageOf(p[k]) = image => p[k] \in ofImage
    BY <1>1 DEF ToSet
  <1>5. image # NoImage
    <2>1. first \in PageIds
      BY <1>1, <1>2
    <2> QED  BY <1>3, <2>1, NoPageIsNone DEF ImageOf, NoImage
  <1> HIDE DEF at, ofImage
  <1>6. past \in (at + 1) .. (n + 1) /\ Past(past)
    <2> DEFINE F == {k \in (at + 1) .. (n + 1) : k > n \/ ImageOf(items[k].page) # image}
    <2>1. F \in SUBSET Nat /\ n + 1 \in F
      BY <1>1, <1>3
    <2>2. PICK k \in F : \A j \in F : k <= j
      BY <2>1, LowestOf
    <2>3. k \in (at + 1) .. (n + 1) /\ (k > n \/ ImageOf(items[k].page) # image)
      BY <2>2
    <2>4. ASSUME NEW j \in (at + 1) .. (k - 1), ImageOf(items[j].page) # image PROVE FALSE
      <3>1. j \in (at + 1) .. (n + 1) /\ j < k
        BY <1>1, <1>3, <2>3
      <3>2. j \in F
        BY <2>4, <3>1
      <3> QED  BY <1>1, <1>3, <2>2, <2>3, <3>1, <3>2
    <2>5. Past(k)
      BY <2>3, <2>4
    <2> HIDE DEF Past
    <2> QED  BY <2>3, <2>5
  <1>7. \A j \in (at + 1) .. (past - 1) : ImageOf(items[j].page) = image
    BY <1>6
  <1>8. past > n \/ ImageOf(items[past].page) # image
    BY <1>6
  <1> HIDE DEF past, Past, n
  <1>9. past \in Int /\ past > 1 /\ past <= n + 1 /\ ImageOf(p[past - 1]) = image
        /\ (past = n + 1 \/ ImageOf(p[past]) # image)
    <2>1. past \in Int /\ past > 1 /\ past <= n + 1 /\ past > at
      BY <1>1, <1>3, <1>6
    <2>2. ImageOf(p[past - 1]) = image
      <3>1. CASE past - 1 = at
        BY <1>3, <3>1
      <3>2. CASE past - 1 # at
        <4>1. past - 1 \in (at + 1) .. (past - 1) /\ past - 1 \in 1 .. n
          BY <1>1, <1>3, <2>1, <3>2
        <4> QED  BY <1>1, <1>7, <4>1
      <3> QED  BY <3>1, <3>2
    <2>3. past = n + 1 \/ ImageOf(p[past]) # image
      <3> SUFFICES ASSUME past # n + 1 PROVE ImageOf(p[past]) # image
        OBVIOUS
      <3>1. past \in 1 .. n /\ ~(past > n)
        BY <1>1, <2>1
      <3> QED  BY <1>1, <1>8, <3>1
    <2> QED  BY <2>1, <2>2, <2>3
  <1>10. hint \in 1 .. n + 1
    BY <1>1, <1>3, <1>9
  <1>11. ~given => Wanted(p, where, image, hint)
    <2> SUFFICES ASSUME ~given PROVE Wanted(p, where, image, hint)
      OBVIOUS
    <2>1. CASE where = "BEFORE"
      <3>1. hint = at
        BY <2>1
      <3>2. \A k \in 1 .. n : ImageOf(p[k]) = image => p[at] = p[k] \/ PageLess(p[at], p[k])
        BY <1>2, <1>3, <1>4
      <3> HIDE DEF hint, p
      <3> QED  BY <1>1, <1>3, <1>5, <1>10, <2>1, <3>1, <3>2 DEF Wanted
    <2>2. CASE where # "BEFORE"
      <3>1. hint = past
        BY <2>2
      <3> HIDE DEF hint, p
      <3> QED  BY <1>1, <1>5, <1>9, <1>10, <2>2, <3>1 DEF Wanted
    <2> QED  BY <2>1, <2>2
  <1> QED  BY <1>10, <1>11 DEF hint, past, Past, at, first, ofImage, n

(* A page is put into a list: its selection stays. *)
LEMMA PutInOf ==
    ASSUME NEW list, Whole(list), NEW page \in PageIds, page \notin Shown(list),
           NEW pos \in 1 .. Len(list.items) + 1
    PROVE  LET new == [list EXCEPT !.items = InsertAt(list.items, pos, Item(page, TRUE)),
                                   !.byState = Append(list.byState, page)]
           IN  /\ Whole(new) /\ Shown(new) = Shown(list) \cup {page}
               /\ new.leader = list.leader /\ new.view = list.view /\ new.current = list.current
               /\ Tidy(list) => Tidy(new)
               /\ Pages(new.items) = InsertAt(Pages(list.items), pos, page)
  <1> DEFINE items == list.items
             made == InsertAt(items, pos, Item(page, TRUE))
             b == Append(list.byState, page)
             new == [list EXCEPT !.items = made, !.byState = b]
             p == Pages(items)
             f == [x \in Items |-> x.page]
  <1>1. /\ items \in Seq(Items) /\ Distinct(p) /\ PagesOf(items) = Shown(list)
        /\ list.byState \in Seq(PageIds) /\ Distinct(list.byState) /\ ToSet(list.byState) = Shown(list)
    BY DEF Whole, Frame, Listed, Shown
  <1>2. Item(page, TRUE) \in Items /\ Item(page, TRUE).page = page
    BY DEF Item, Items
  <1>3. /\ ListShape(new) /\ new.items = made /\ new.byState = b /\ new.selected = list.selected
        /\ new.leaders = list.leaders /\ new.leader = list.leader /\ new.view = list.view
        /\ new.current = list.current
    <2> HIDE DEF made, b
    <2>1. ListShape([list EXCEPT !.items = made])
      BY FieldSet DEF Whole, Frame
    <2> DEFINE a == [list EXCEPT !.items = made]
    <2>2. ListShape([a EXCEPT !.byState = b])
      <3> HIDE DEF a
      <3> QED  BY <2>1, FieldSet DEF a
    <2>3. new = [a EXCEPT !.byState = b]
      BY DEF Whole, Frame, ListShape
    <2>4. /\ new.items = made /\ new.byState = b /\ new.selected = list.selected
          /\ new.leaders = list.leaders /\ new.leader = list.leader /\ new.view = list.view
          /\ new.current = list.current
      BY DEF Whole, Frame, ListShape
    <2> QED  BY <2>2, <2>3, <2>4
  <1> HIDE DEF new
  <1>4. /\ p \in Seq(PageIds) /\ Len(p) = Len(items) /\ p = Mapped(f, items) /\ ToSet(p) = Shown(list)
        /\ f \in [Items -> PageIds] /\ f[Item(page, TRUE)] = page
    <2>1. f \in [Items -> PageIds]
      BY DEF Items
    <2> QED  BY <1>1, <1>2, <2>1, PagesAre
  <1>5. made \in Seq(Items)
    BY <1>1, <1>2, InsertAtOf
  <1>6. Pages(made) = InsertAt(p, pos, page)
    <2>1. Mapped(f, made) = InsertAt(Mapped(f, items), pos, f[Item(page, TRUE)])
      <3> DEFINE item == Item(page, TRUE)
      <3>1. item \in Items /\ pos \in 1 .. Len(items) + 1
        BY <1>2
      <3> HIDE DEF f, items, item
      <3>2. Mapped(f, InsertAt(items, pos, item)) = InsertAt(Mapped(f, items), pos, f[item])
        BY <1>1, <3>1, MappedInsert
      <3> QED  BY <3>2 DEF item
    <2>2. Pages(made) = Mapped(f, made)
      BY <1>5, PagesAre
    <2> QED  BY <1>4, <2>1, <2>2
  <1>7. Distinct(InsertAt(p, pos, page)) /\ ToSet(InsertAt(p, pos, page)) = Shown(list) \cup {page}
    <2> HIDE DEF p, items
    <2>1. pos \in 1 .. Len(p) + 1 /\ page \notin ToSet(p)
      BY <1>4 DEF items
    <2>2. p \in Seq(PageIds) /\ Distinct(p)
      BY <1>1, <1>4
    <2>3. Distinct(InsertAt(p, pos, page)) /\ ToSet(InsertAt(p, pos, page)) = ToSet(p) \cup {page}
      BY ONLY <2>1, <2>2, page \in PageIds, Inserted
    <2> QED  BY <1>4, <2>3
  <1>8. PagesOf(made) = Shown(list) \cup {page}
    BY <1>5, <1>6, <1>7, PagesAre
  <1>9. /\ b \in Seq(PageIds) /\ Distinct(b) /\ ToSet(b) = Shown(list) \cup {page}
        /\ \A x, y : Before(b, x, y) => Before(list.byState, x, y) \/ y = page
    <2> DEFINE one == <<page>>
    <2>1. one \in Seq(PageIds) /\ Distinct(one) /\ ToSet(one) = {page}
      BY DEF Distinct, ToSet
    <2>2. b = list.byState \o one
      <3> DEFINE q == list.byState
      <3>1. q \in Seq(PageIds)
        BY <1>1
      <3> HIDE DEF q
      <3>2. Append(q, page) = q \o <<page>>
        BY <3>1
      <3> QED  BY <3>2 DEF q
    <2> HIDE DEF one, b
    <2>3. /\ b \in Seq(PageIds) /\ ToSet(b) = ToSet(list.byState) \cup ToSet(one) /\ Distinct(b)
          /\ \A x, y : Before(b, x, y) =>
                  Before(list.byState, x, y) \/ Before(one, x, y) \/ (x \in ToSet(list.byState) /\ y \in ToSet(one))
      <3>1. ToSet(list.byState) \cap ToSet(one) = {}
        BY <1>1, <2>1
      <3> QED  BY <1>1, <2>1, <2>2, <3>1, ConcatOf
    <2>4. \A x, y : Before(one, x, y) => y \in ToSet(one)
      BY BeforeIn
    <2> QED  BY <1>1, <2>1, <2>3, <2>4
  <1> HIDE DEF made, b
  <1>10. Shown(new) = Shown(list) \cup {page}
    BY <1>3, <1>8 DEF Shown
  <1>11. Whole(new)
    <2>1. Listed(new)
      BY <1>3, <1>5, <1>6, <1>7, <1>9, <1>10 DEF Listed
    <2> QED  BY <1>3, <1>10, <2>1 DEF Whole, Frame
  <1>12. Tidy(list) => Tidy(new)
    <2>1. page \notin list.selected
      BY DEF Whole, Frame
    <2> QED  BY <1>3, <1>9, <2>1 DEF Tidy, Leading
  <1> QED  BY <1>3, <1>6, <1>10, <1>11, <1>12 DEF new, made, b

(* insert() finds a place: the end, or an image that is shown. *)
Accepts(list, where, image) ==
    (where = "BEFORE" /\ image = NoImage) \/ \E q \in Shown(list) : ImageOf(q) = image

(* What inserting a page leaves of a list. *)
WithPage(list, page, where, image, order, r) ==
    /\ Whole(r) /\ r.view = list.view /\ r.leader = list.leader
    /\ ~Accepts(list, where, image) => r = list
    /\ Accepts(list, where, image) => Shown(r) = Shown(list) \cup {page}
    /\ Tidy(list) => Tidy(r)
    /\ Fits(list) /\ (list.view = "IMAGE_VIEW" => SubOf(page) = SINGLE_PAGE)
         => Fits(r) /\ (Leads(list) => Leads(r))
    /\ Accepts(list, where, image) /\ ~order.given =>
         \E h : /\ Wanted(Pages(list.items), where, image, h)
                /\ Pages(r.items) = InsertAt(Pages(list.items), h, page)
    /\ InOrder(list.items, order) => Ordered(r.items, order)

(* insert() of the list puts the page at the place it wants, or in the
   place of the order, and leaves the selection as it is. *)
LEMMA InsertOf ==
    ASSUME NEW list, Whole(list), NEW page \in PageIds, page \notin Shown(list),
           NEW where, NEW image, NEW incomplete, NEW order, Total(order), order.given \in BOOLEAN
    PROVE  WithPage(list, page, where, image, order, Insert(list, page, where, image, incomplete, order))
  <1> DEFINE items == list.items
             r == Insert(list, page, where, image, incomplete, order)
             ofImage == {p \in PagesOf(items) : ImageOf(p) = image}
             here == (where = "BEFORE" /\ image = NoImage) \/ \E q \in Shown(list) : ImageOf(q) = image
             first == CHOOSE p \in ofImage : \A q \in ofImage : p = q \/ PageLess(p, q)
             at    == IndexOf(items, first)
             past  == CHOOSE k \in (at + 1)..(Len(items) + 1) :
                         /\ \A j \in (at + 1)..(k - 1) : ImageOf(items[j].page) = image
                         /\ k > Len(items) \/ ImageOf(items[k].page) # image
             hint  == IF image = NoImage THEN Len(items) + 1
                      ELSE IF where = "BEFORE" THEN at
                      ELSE IF order.given THEN at + 1 ELSE past
             item  == Item(page, TRUE)
             pos   == InsertPosition(items, item, hint, order)
             new   == [list EXCEPT !.items = InsertAt(items, pos, item),
                                   !.byState = Append(list.byState, page)]
  <1>1. CASE ~here
    <2>1. r = list
      BY <1>1 DEF Insert, Shown
    <2> QED  BY <1>1, <2>1 DEF WithPage, Accepts, Ordered
  <1>2. CASE here
    <2>1. \/ r = InvalidateAll(new, incomplete, order)
          \/ r = InvalidateThumbnail(new, page, incomplete, order)
      <3>1. ~(ofImage = {} /\ ~(where = "BEFORE" /\ image = NoImage))
        BY <1>2 DEF Shown
      <3> QED  BY <3>1 DEF Insert, Shown
    <2>2. items \in Seq(Items) /\ Distinct(Pages(items)) /\ Len(items) \in Nat /\ Len(Pages(items)) = Len(items)
          /\ PagesOf(items) = Shown(list)
      <3>1. items \in Seq(Items) /\ Distinct(Pages(items)) /\ PagesOf(items) = Shown(list)
        BY DEF Whole, Frame, Listed, Shown
      <3> HIDE DEF items
      <3> QED  BY <3>1, PagesAre, LenProperties
    <2>3. hint \in 1 .. Len(items) + 1 /\ (~order.given => Wanted(Pages(items), where, image, hint))
      <3>1. CASE image = NoImage
        <4>1. hint = Len(items) + 1
          BY <3>1
        <4> HIDE DEF hint, items
        <4> QED  BY <2>2, <3>1, <4>1 DEF Wanted
      <3>2. CASE image # NoImage
        <4>1. \E q \in PagesOf(items) : ImageOf(q) = image
          BY <1>2, <2>2, <3>2
        <4>3. hint = IF where = "BEFORE" THEN at ELSE IF order.given THEN at + 1 ELSE past
          BY <3>2
        <4> DEFINE given == order.given
        <4>4. given \in BOOLEAN
          OBVIOUS
        <4> HIDE DEF items, given
        <4>5. hint = IF where = "BEFORE" THEN at ELSE IF given THEN at + 1 ELSE past
          BY <4>3 DEF given
        <4> HIDE DEF hint
        <4>6. /\ hint \in 1 .. Len(items) + 1
              /\ ~given => Wanted(Pages(items), where, image, hint)
          BY <2>2, <4>1, <4>4, <4>5, HintOf
        <4> QED  BY <4>6 DEF given
      <3> QED  BY <3>1, <3>2
    <2> HIDE DEF hint
    <2>4. pos \in 1 .. Len(items) + 1 /\ (~order.given => pos = hint)
      <3> HIDE DEF items, item
      <3> QED  BY <2>2, <2>3, InsertPositionOf
    <2>13. new.items = InsertAt(items, pos, item)
      BY DEF Whole, Frame, ListShape
    <2>14. InOrder(items, order) => (order.given => InOrder(new.items, order))
      <3>1. item \in Items /\ item.page = page /\ page \notin PagesOf(items)
        BY <2>2 DEF Item, Items
      <3> HIDE DEF items, item
      <3> QED  BY <2>2, <2>3, <2>13, <3>1, PutInOrder
    <2> HIDE DEF pos
    <2>5. /\ Whole(new) /\ Shown(new) = Shown(list) \cup {page}
          /\ new.leader = list.leader /\ new.view = list.view /\ new.current = list.current
          /\ Tidy(list) => Tidy(new)
          /\ Pages(new.items) = InsertAt(Pages(list.items), pos, page)
      BY <2>4, PutInOf
    <2> HIDE DEF new, r
    <2>6. /\ Remade(new, r)
          /\ ~order.given => Pages(r.items) = Pages(new.items)
      BY <2>1, <2>5, InvalidateAllOf, InvalidateThumbnailOf DEF Whole
    <2>7. Fits(list) /\ (list.view = "IMAGE_VIEW" => SubOf(page) = SINGLE_PAGE) => Fits(new)
      BY <2>5 DEF Fits
    <2>8. Leads(list) => Leads(new)
      BY <2>5 DEF Leads
    <2>9. ~order.given => \E h : /\ Wanted(Pages(list.items), where, image, h)
                                 /\ Pages(r.items) = InsertAt(Pages(list.items), h, page)
      BY <2>3, <2>4, <2>5, <2>6
    <2>10. Whole(r) /\ r.view = list.view /\ r.leader = list.leader /\ Shown(r) = Shown(list) \cup {page}
      BY <2>5, <2>6 DEF Remade
    <2>11. Tidy(list) => Tidy(r)
      BY <2>5, <2>6 DEF Remade
    <2>12. Fits(list) /\ (list.view = "IMAGE_VIEW" => SubOf(page) = SINGLE_PAGE)
             => Fits(r) /\ (Leads(list) => Leads(r))
      BY <2>6, <2>7, <2>8 DEF Remade
    <2>15. InOrder(items, order) => Ordered(r.items, order)
      <3> SUFFICES ASSUME InOrder(items, order) PROVE Ordered(r.items, order)
        OBVIOUS
      <3>1. order.given => InOrder(new.items, order)
        BY <2>14
      <3>2. Frame(new)
        BY <2>5 DEF Whole
      <3> QED  BY <2>1, <3>1, <3>2, InvalidateAllOf, ThumbnailKeepsOrder DEF Ordered
    <2> QED  BY <1>2, <2>9, <2>10, <2>11, <2>12, <2>15 DEF WithPage, Accepts, r
  <1> QED  BY <1>1, <1>2

-----------------------------------------------------------------------------
(* The images of the project. *)

Ids(imgs) == [k \in DOMAIN imgs |-> imgs[k].id]
ImagesOK(imgs) ==
    /\ imgs \in Seq(ImageDescs) /\ Distinct(Ids(imgs))
    /\ \A k \in DOMAIN imgs : DescOK(imgs[k])

(* Descriptions are changed in place. *)
LEMMA ChangedDescs ==
    ASSUME NEW imgs, ImagesOK(imgs), NEW new, DOMAIN new = DOMAIN imgs,
           new = [k \in DOMAIN imgs |-> new[k]],
           \A k \in DOMAIN imgs : new[k] \in ImageDescs /\ new[k].id = imgs[k].id /\ DescOK(new[k])
    PROVE  ImagesOK(new) /\ Ids(new) = Ids(imgs)
  <1>1. Len(imgs) \in Nat /\ DOMAIN imgs = 1 .. Len(imgs)
    BY LenProperties DEF ImagesOK
  <1>2. new \in [1 .. Len(imgs) -> ImageDescs]
    BY <1>1
  <1>3. new \in Seq(ImageDescs)
    BY <1>1, <1>2, ListOf
  <1>4. Ids(new) = Ids(imgs)
    BY DEF Ids
  <1> QED  BY <1>3, <1>4 DEF ImagesOK

(* The images of a project: no two with the same id, each of one or two
   logical pages. *)
LEMMA ImagesAre ==
    ASSUME NEW imgs, ImagesOK(imgs)
    PROVE  /\ Len(imgs) \in Nat /\ DOMAIN imgs = 1 .. Len(imgs)
           /\ \A k \in 1 .. Len(imgs) : imgs[k] \in ImageDescs /\ DescOK(imgs[k]) /\ imgs[k].id \in Images
           /\ \A j, k \in 1 .. Len(imgs) : imgs[j].id = imgs[k].id => j = k
           /\ \A id : id \in ImageIds(imgs) <=> \E k \in 1 .. Len(imgs) : imgs[k].id = id
           /\ ImageIds(imgs) \subseteq Images
  <1>1. Len(imgs) \in Nat /\ DOMAIN imgs = 1 .. Len(imgs) /\ \A k \in 1 .. Len(imgs) : imgs[k] \in ImageDescs
    BY ElementsOf DEF ImagesOK
  <1>2. \A k \in 1 .. Len(imgs) : imgs[k].id \in Images
    BY <1>1 DEF ImageDescs
  <1>3. \A j, k \in 1 .. Len(imgs) : imgs[j].id = imgs[k].id => j = k
    <2>1. DOMAIN Ids(imgs) = 1 .. Len(imgs) /\ \A k \in 1 .. Len(imgs) : Ids(imgs)[k] = imgs[k].id
      BY <1>1 DEF Ids
    <2>2. Distinct(Ids(imgs))
      BY DEF ImagesOK
    <2> QED  BY <2>1, <2>2 DEF Distinct
  <1>4. \A id : id \in ImageIds(imgs) <=> \E k \in 1 .. Len(imgs) : imgs[k].id = id
    BY <1>1 DEF ImageIds
  <1> QED  BY <1>1, <1>2, <1>3, <1>4 DEF ImagesOK

(* setLayoutTypeFor(), setLayoutTypeForAllPages(), autoSetLayoutTypeFor() *)
LEMMA SetNumPagesOf ==
    ASSUME NEW imgs, ImagesOK(imgs), NEW ids, NEW two
    PROVE  ImagesOK(SetNumPages(imgs, ids, two)) /\ Ids(SetNumPages(imgs, ids, two)) = Ids(imgs)
  <1> DEFINE new == SetNumPages(imgs, ids, two)
  <1>1. DOMAIN new = DOMAIN imgs /\ new = [k \in DOMAIN imgs |-> new[k]]
    BY DEF SetNumPages
  <1>2. ASSUME NEW k \in DOMAIN imgs
        PROVE  new[k] \in ImageDescs /\ new[k].id = imgs[k].id /\ DescOK(new[k])
    <2> DEFINE d == imgs[k]
               num == AdjustedNumPages(d, IF d.id \in two THEN 2 ELSE 1)
    <2>1. d \in ImageDescs /\ DescOK(d)
      BY ImagesAre
    <2>2. new[k] = IF d.id \in ids THEN [d EXCEPT !.numLogicalPages = num] ELSE d
      BY DEF SetNumPages
    <2> HIDE DEF d
    <2>3. num \in {1, 2} /\ (d.leftHalfRemoved \/ d.rightHalfRemoved => num = 1)
      BY <2>1 DEF AdjustedNumPages, DescOK, ImageDescs
    <2> HIDE DEF num
    <2>4. [d EXCEPT !.numLogicalPages = num] \in ImageDescs
      BY <2>1, <2>3 DEF ImageDescs
    <2>5. [d EXCEPT !.numLogicalPages = num].id = d.id /\ DescOK([d EXCEPT !.numLogicalPages = num])
      BY <2>1, <2>3 DEF ImageDescs, DescOK
    <2> QED  BY <2>1, <2>2, <2>4, <2>5 DEF d
  <1> HIDE DEF new
  <1>3. ImagesOK(new) /\ Ids(new) = Ids(imgs)
    BY <1>1, <1>2, ChangedDescs
  <1> QED  BY <1>3 DEF new

(* The repair of the number of pages by CacheDrivenTask keeps the ids. *)
LEMMA ThumbImagesOf ==
    ASSUME NEW imgs, ImagesOK(imgs), NEW rec, NEW ids, NEW st
    PROVE  ImagesOK(ThumbImages(imgs, rec, ids, st)) /\ Ids(ThumbImages(imgs, rec, ids, st)) = Ids(imgs)
  BY SetNumPagesOf DEF ThumbImages

(* unremovePage() brings back a half of an image that has the other; the
   ids stay. *)
LEMMA UnremovePageOf ==
    ASSUME NEW imgs, ImagesOK(imgs), NEW page
    PROVE  ImagesOK(UnremovePage(imgs, page)) /\ Ids(UnremovePage(imgs, page)) = Ids(imgs)
  <1> DEFINE new == UnremovePage(imgs, page)
  <1>1. CASE ~CanUnremove(imgs, page)
    BY <1>1 DEF UnremovePage
  <1>2. CASE CanUnremove(imgs, page)
    <2>1. new = [k \in DOMAIN imgs |->
            IF imgs[k].id # ImageOf(page) THEN imgs[k]
            ELSE [imgs[k] EXCEPT
                    !.leftHalfRemoved = imgs[k].leftHalfRemoved /\ SubOf(page) # LEFT_PAGE,
                    !.rightHalfRemoved = imgs[k].rightHalfRemoved /\ SubOf(page) # RIGHT_PAGE,
                    !.numLogicalPages = 2]]
      BY <1>2 DEF UnremovePage
    <2> HIDE DEF new
    <2>2. DOMAIN new = DOMAIN imgs /\ new = [k \in DOMAIN imgs |-> new[k]]
      BY <2>1
    <2>3. ASSUME NEW k \in DOMAIN imgs
          PROVE  new[k] \in ImageDescs /\ new[k].id = imgs[k].id /\ DescOK(new[k])
      <3> DEFINE d == imgs[k]
                 e == [d EXCEPT !.leftHalfRemoved = d.leftHalfRemoved /\ SubOf(page) # LEFT_PAGE,
                                !.rightHalfRemoved = d.rightHalfRemoved /\ SubOf(page) # RIGHT_PAGE,
                                !.numLogicalPages = 2]
      <3>1. d \in ImageDescs /\ DescOK(d)
        BY ImagesAre
      <3>2. CASE imgs[k].id # ImageOf(page)
        BY <2>1, <3>1, <3>2
      <3>3. CASE imgs[k].id = ImageOf(page)
        <4>1. new[k] = e
          BY <2>1, <3>3
        <4>2. DescOf(imgs, ImageOf(page)) = d
          <5>1. \E j \in DOMAIN imgs : imgs[j].id = ImageOf(page)
            BY <3>3
          <5>2. \A j \in DOMAIN imgs : imgs[j].id = ImageOf(page) => j = k
            BY <3>3, ImagesAre
          <5> QED  BY <5>1, <5>2 DEF DescOf
        <4> HIDE DEF d
        <4>3. \/ SubOf(page) = LEFT_PAGE /\ d.leftHalfRemoved
              \/ SubOf(page) = RIGHT_PAGE /\ d.rightHalfRemoved
          BY <1>2, <4>2 DEF CanUnremove
        <4>4. /\ ~(d.leftHalfRemoved /\ SubOf(page) # LEFT_PAGE)
              /\ ~(d.rightHalfRemoved /\ SubOf(page) # RIGHT_PAGE)
          BY <3>1, <4>3 DEF DescOK, LEFT_PAGE, RIGHT_PAGE
        <4>5. /\ e = [d EXCEPT !.leftHalfRemoved = FALSE, !.rightHalfRemoved = FALSE, !.numLogicalPages = 2]
          BY <4>4
        <4>6. e \in ImageDescs /\ e.id = d.id /\ DescOK(e)
          <5> HIDE DEF e
          <5> QED  BY <3>1, <4>5 DEF ImageDescs, DescOK
        <4> QED  BY <4>1, <4>6 DEF d
      <3> QED  BY <3>2, <3>3
    <2>4. ImagesOK(new) /\ Ids(new) = Ids(imgs)
      BY <2>2, <2>3, ChangedDescs
    <2> QED  BY <2>4 DEF new
  <1> QED  BY <1>1, <1>2

(* insertImage(), of an image that is not there *)
LEMMA InsertImageOf ==
    ASSUME NEW imgs, ImagesOK(imgs), NEW desc \in ImageDescs, DescOK(desc), desc.id \notin ImageIds(imgs),
           NEW where \in {"BEFORE", "AFTER"}, NEW existing, CanInsert(imgs, where, existing)
    PROVE  LET new == InsertImage(imgs, desc, where, existing)
           IN  /\ ImagesOK(new)
               /\ \E h \in 1 .. Len(imgs) + 1 :
                    /\ Ids(new) = InsertAt(Ids(imgs), h, desc.id)
                    /\ existing = NoImage => h = Len(imgs) + 1
                    /\ existing # NoImage /\ where = "BEFORE" => h <= Len(imgs) /\ imgs[h].id = existing
                    /\ existing # NoImage /\ where # "BEFORE" => h > 1 /\ imgs[h - 1].id = existing
  <1> DEFINE at == CHOOSE k \in DOMAIN imgs : imgs[k].id = existing
             h == IF existing = NoImage THEN Len(imgs) + 1 ELSE IF where = "AFTER" THEN at + 1 ELSE at
             new == InsertAt(imgs, h, desc)
             f == [d \in ImageDescs |-> d.id]
  <1>0. /\ Len(imgs) \in Nat /\ DOMAIN imgs = 1 .. Len(imgs) /\ ImageIds(imgs) \subseteq Images
        /\ imgs \in Seq(ImageDescs)
    BY ImagesAre DEF ImagesOK
  <1>1. existing # NoImage => at \in 1 .. Len(imgs) /\ imgs[at].id = existing
    <2> SUFFICES ASSUME existing # NoImage PROVE at \in DOMAIN imgs /\ imgs[at].id = existing
      BY <1>0
    <2>1. \E k \in DOMAIN imgs : imgs[k].id = existing
      BY DEF CanInsert, ImageIds
    <2> QED  BY <2>1
  <1>2. existing = NoImage => where = "BEFORE"
    <2>1. NoImage \notin Images
      BY ImageAssumption DEF NoImage
    <2> QED  BY <1>0, <2>1 DEF CanInsert
  <1>3. InsertImage(imgs, desc, where, existing) = new
    <2> DEFINE from == IF existing = NoImage THEN Len(imgs) + 1 ELSE at
    <2>1. InsertImage(imgs, desc, where, existing) =
              InsertAt(imgs, IF where = "AFTER" THEN from + 1 ELSE from, desc)
      BY DEF InsertImage
    <2>2. h = IF where = "AFTER" THEN from + 1 ELSE from
      BY <1>2
    <2> HIDE DEF from, h
    <2> QED  BY <2>1, <2>2
  <1> HIDE DEF at
  <1>4. /\ h \in 1 .. Len(imgs) + 1
        /\ existing = NoImage => h = Len(imgs) + 1
        /\ existing # NoImage /\ where = "BEFORE" => h <= Len(imgs) /\ imgs[h].id = existing
        /\ existing # NoImage /\ where # "BEFORE" => h > 1 /\ imgs[h - 1].id = existing
    BY <1>0, <1>1
  <1> HIDE DEF h
  <1>a. h \in 1 .. Len(imgs) + 1
    BY <1>4
  <1>5. /\ new \in Seq(ImageDescs) /\ Len(new) = Len(imgs) + 1
        /\ \A j \in 1 .. Len(imgs) + 1 :
                new[j] = IF j < h THEN imgs[j] ELSE IF j = h THEN desc ELSE imgs[j - 1]
    <2> DEFINE q == InsertAt(imgs, h, desc)
    <2>1. imgs \in Seq(ImageDescs) /\ h \in 1 .. Len(imgs) + 1 /\ desc \in ImageDescs
      BY <1>0, <1>a
    <2> HIDE DEF f
    <2>2. q \in Seq(ImageDescs) /\ Len(q) = Len(imgs) + 1
      BY <2>1, InsertAtOf
    <2>3. \A j \in 1 .. Len(imgs) + 1 :
              q[j] = IF j < h THEN imgs[j] ELSE IF j = h THEN desc ELSE imgs[j - 1]
      BY <2>1, InsertAtOf
    <2> HIDE DEF q
    <2>4. new = q
      BY DEF q
    <2> QED  BY <2>2, <2>3, <2>4
  <1>6. Ids(new) = InsertAt(Ids(imgs), h, desc.id)
    <2>1. Mapped(f, new) = InsertAt(Mapped(f, imgs), h, f[desc])
      <3> HIDE DEF f
      <3> QED  BY <1>0, <1>a, MappedInsert
    <2>2. Ids(imgs) = Mapped(f, imgs)
      BY <1>0, ElementsOf DEF Ids, Mapped
    <2> HIDE DEF new
    <2>3. Ids(new) = Mapped(f, new)
      BY <1>5, ElementsOf DEF Ids, Mapped
    <2> QED  BY <2>1, <2>2, <2>3
  <1>7. Distinct(Ids(new))
    <2> DEFINE q == Ids(imgs)
    <2>1. q \in Seq(Images) /\ Len(q) = Len(imgs) /\ Distinct(q) /\ desc.id \notin ToSet(q) /\ desc.id \in Images
      <3>1. DOMAIN q = 1 .. Len(imgs) /\ \A k \in 1 .. Len(imgs) : q[k] = imgs[k].id /\ imgs[k].id \in Images
        BY <1>0, ImagesAre DEF Ids
      <3>2. q \in [1 .. Len(imgs) -> Images]
        BY <3>1 DEF Ids
      <3>3. q \in Seq(Images) /\ Len(q) = Len(imgs)
        BY <1>0, <3>2, ListOf
      <3>4. desc.id \notin ToSet(q)
        BY <1>0, <3>1 DEF ToSet, ImageIds
      <3> QED  BY <3>3, <3>4 DEF ImagesOK, ImageDescs
    <2> HIDE DEF q
    <2>2. Distinct(InsertAt(q, h, desc.id))
      BY <1>4, <2>1, Inserted
    <2> QED  BY <1>6, <2>2 DEF q
  <1> HIDE DEF new
  <1>8. \A j \in DOMAIN new : DescOK(new[j])
    <2>1. DOMAIN new = 1 .. Len(imgs) + 1
      BY <1>0, <1>5, LenProperties
    <2>2. ASSUME NEW j \in 1 .. Len(imgs) + 1 PROVE DescOK(new[j])
      <3>1. CASE j < h
        <4>1. j \in 1 .. Len(imgs)
          BY <1>0, <1>4, <3>1
        <4> QED  BY <1>5, <3>1, <4>1, ImagesAre
      <3>2. CASE j = h
        BY <1>5, <3>2
      <3>3. CASE j > h
        <4>1. j - 1 \in 1 .. Len(imgs) /\ ~(j < h) /\ j # h
          BY <1>0, <1>4, <3>3
        <4> QED  BY <1>5, <4>1, ImagesAre
      <3> QED  BY <1>0, <1>4, <3>1, <3>2, <3>3
    <2> QED  BY <2>1, <2>2
  <1> QED  BY <1>3, <1>4, <1>5, <1>6, <1>7, <1>8 DEF ImagesOK

(* The ids of the images are a list without repetitions. *)
LEMMA IdsAre ==
    ASSUME NEW imgs, ImagesOK(imgs)
    PROVE  /\ Ids(imgs) \in Seq(Images) /\ Distinct(Ids(imgs)) /\ Len(Ids(imgs)) = Len(imgs)
           /\ DOMAIN Ids(imgs) = 1 .. Len(imgs) /\ Len(imgs) \in Nat
           /\ \A k \in 1 .. Len(imgs) : Ids(imgs)[k] = imgs[k].id /\ imgs[k].id \in Images
           /\ ToSet(Ids(imgs)) = ImageIds(imgs)
  <1> DEFINE q == Ids(imgs)
  <1>0. Len(imgs) \in Nat /\ DOMAIN imgs = 1 .. Len(imgs)
    BY ImagesAre
  <1>1. DOMAIN q = 1 .. Len(imgs) /\ \A k \in 1 .. Len(imgs) : q[k] = imgs[k].id /\ imgs[k].id \in Images
    BY <1>0, ImagesAre DEF Ids
  <1>2. q \in [1 .. Len(imgs) -> Images]
    BY <1>1 DEF Ids
  <1>3. q \in Seq(Images) /\ Len(q) = Len(imgs)
    BY <1>0, <1>2, ListOf
  <1>4. ToSet(q) = ImageIds(imgs)
    BY <1>0, <1>1 DEF ToSet, ImageIds
  <1> QED  BY <1>0, <1>1, <1>3, <1>4 DEF ImagesOK

(* removePages() of the project keeps the ids of the images that have a
   page left, in their order. *)
LEMMA RemovePagesOf ==
    ASSUME NEW imgs, ImagesOK(imgs), NEW pages
    PROVE  LET new == RemovePages(imgs, pages)
           IN  /\ ImagesOK(new) /\ ImageIds(new) \subseteq ImageIds(imgs)
               /\ (\A p \in pages : SubOf(p) = SINGLE_PAGE) =>
                    Ids(new) = Only(Ids(imgs), {k \in DOMAIN imgs : PageId(imgs[k].id, SINGLE_PAGE) \notin pages})
  <1> DEFINE descs == [k \in DOMAIN imgs |-> RemoveHalves(imgs[k], pages)]
             S == {descs[k] : k \in DOMAIN imgs}
             P == {k \in DOMAIN descs : descs[k].numLogicalPages > 0}
             new == Only(descs, P)
             n == Cardinality(P)
             f == [d \in S |-> d.id]
  <1>0. /\ Len(imgs) \in Nat /\ DOMAIN imgs = 1 .. Len(imgs) /\ DOMAIN descs = DOMAIN imgs
        /\ \A k \in DOMAIN imgs : descs[k] = RemoveHalves(imgs[k], pages)
    BY ImagesAre
  <1>1. RemovePages(imgs, pages) = new
    BY DEF RemovePages
  <1> HIDE DEF descs
  <1>2. ASSUME NEW k \in DOMAIN imgs
        PROVE  /\ descs[k].id = imgs[k].id
               /\ k \in P => descs[k] \in ImageDescs /\ DescOK(descs[k])
               /\ (\A p \in pages : SubOf(p) = SINGLE_PAGE) =>
                    (k \in P <=> PageId(imgs[k].id, SINGLE_PAGE) \notin pages)
    <2> DEFINE d == imgs[k]
               left == PageId(d.id, LEFT_PAGE) \in pages
               right == PageId(d.id, RIGHT_PAGE) \in pages
               gone == (IF left THEN 1 ELSE 0) + (IF right THEN 1 ELSE 0)
               single == PageId(d.id, SINGLE_PAGE) \in pages
               none == [d EXCEPT !.numLogicalPages = 0]
               some == [d EXCEPT !.leftHalfRemoved = d.leftHalfRemoved \/ left,
                                 !.rightHalfRemoved = d.rightHalfRemoved \/ right,
                                 !.numLogicalPages = d.numLogicalPages - gone]
    <2>1. d \in ImageDescs /\ DescOK(d)
      BY <1>0, ImagesAre
    <2>2. descs[k] = IF single \/ gone >= d.numLogicalPages THEN none ELSE some
      BY <1>0 DEF RemoveHalves
    <2>3. (\A p \in pages : SubOf(p) = SINGLE_PAGE) => ~left /\ ~right
      BY DEF PageId, SubOf, LEFT_PAGE, RIGHT_PAGE, SINGLE_PAGE
    <2> HIDE DEF d
    <2>4. k \in P <=> descs[k].numLogicalPages > 0
      BY <1>0
    <2>5. gone \in 0 .. 2 /\ (~left /\ ~right => gone = 0)
      OBVIOUS
    <2>6. none.id = d.id /\ none.numLogicalPages = 0
      BY <2>1 DEF ImageDescs
    <2>7. some.id = d.id /\ some.numLogicalPages = d.numLogicalPages - gone
      BY <2>1 DEF ImageDescs
    <2>8. d.numLogicalPages \in {1, 2}
      BY <2>1 DEF ImageDescs
    <2>9. ~(gone >= d.numLogicalPages) => some \in ImageDescs /\ DescOK(some)
      <3> SUFFICES ASSUME ~(gone >= d.numLogicalPages) PROVE some \in ImageDescs /\ DescOK(some)
        OBVIOUS
      <3> DEFINE num == d.numLogicalPages - gone
                 l == d.leftHalfRemoved \/ left
                 r == d.rightHalfRemoved \/ right
      <3>1. num \in {1, 2} /\ l \in BOOLEAN /\ r \in BOOLEAN
        BY <2>5, <2>8
      <3>2. some = [d EXCEPT !.leftHalfRemoved = l, !.rightHalfRemoved = r, !.numLogicalPages = num]
        OBVIOUS
      <3>3. ~(l /\ r) /\ (l \/ r => num = 1)
        <4>1. CASE ~left /\ ~right
          BY <2>1, <2>5, <4>1 DEF DescOK, ImageDescs
        <4>2. CASE left \/ right
          <5>1. gone = 1 /\ d.numLogicalPages = 2 /\ ~(left /\ right)
            BY <2>5, <2>8, <4>2
          <5>2. ~d.leftHalfRemoved /\ ~d.rightHalfRemoved
            BY <2>1, <5>1 DEF DescOK
          <5> QED  BY <5>1, <5>2
        <4> QED  BY <4>1, <4>2
      <3> HIDE DEF num, l, r, some
      <3> QED  BY <2>1, <3>1, <3>2, <3>3 DEF ImageDescs, DescOK
    <2> HIDE DEF left, right, gone, single, none, some, P
    <2>10. descs[k].id = d.id
      BY <2>2, <2>6, <2>7
    <2>11. k \in P <=> ~(single \/ gone >= d.numLogicalPages)
      BY <2>2, <2>4, <2>5, <2>6, <2>7, <2>8
    <2>12. k \in P => descs[k] \in ImageDescs /\ DescOK(descs[k])
      BY <2>2, <2>9, <2>11
    <2>13. (\A p \in pages : SubOf(p) = SINGLE_PAGE) => (k \in P <=> ~single)
      BY <2>3, <2>5, <2>8, <2>11
    <2> QED  BY <2>10, <2>12, <2>13 DEF d, single
  <1>3. descs \in Seq(S) /\ P \in SUBSET (DOMAIN descs)
    <2>1. descs \in [1 .. Len(imgs) -> S]
      BY <1>0 DEF descs
    <2> HIDE DEF S
    <2> QED  BY <1>0, <2>1, ListOf
  <1> HIDE DEF P, S
  <1>4. /\ new \in Seq(S) /\ Len(new) = n /\ n \in Nat
        /\ \A k \in 1 .. n : Ascending(P)[k] \in P /\ new[k] = descs[Ascending(P)[k]]
        /\ ToSet(new) = {descs[i] : i \in P}
    BY <1>3, OnlyOf
  <1>5. Ids(new) = Only(Ids(imgs), P)
    <2>1. Mapped(f, Only(descs, P)) = Only(Mapped(f, descs), P)
      <3> HIDE DEF f
      <3> QED  BY <1>3, MappedOnly
    <2>2. Mapped(f, descs) = Ids(imgs)
      <3>1. \A k \in DOMAIN imgs : f[descs[k]] = imgs[k].id
        BY <1>2 DEF S
      <3> HIDE DEF f
      <3> QED  BY <1>0, <3>1 DEF Mapped, Ids
    <2> HIDE DEF new
    <2>3. Mapped(f, new) = Ids(new)
      <3>1. \A k \in DOMAIN new : f[new[k]] = new[k].id
        <4>1. \A k \in DOMAIN new : new[k] \in S
          BY <1>4, ElementsOf
        <4> QED  BY <4>1
      <3> HIDE DEF f
      <3> QED  BY <3>1 DEF Mapped, Ids
    <2> QED  BY <2>1, <2>2, <2>3 DEF new
  <1> HIDE DEF new
  <1>6. /\ DOMAIN new = 1 .. n
        /\ \A k \in 1 .. n : new[k] \in ImageDescs /\ DescOK(new[k])
    <2>1. DOMAIN new = 1 .. n
      BY <1>4, LenProperties
    <2>2. \A k \in 1 .. n : Ascending(P)[k] \in DOMAIN imgs
      BY <1>0, <1>3, <1>4
    <2> HIDE DEF n
    <2> QED  BY <1>2, <1>4, <2>1, <2>2
  <1>7. new \in Seq(ImageDescs)
    <2>1. new \in [1 .. n -> ImageDescs]
      <3>1. new = [k \in 1 .. n |-> new[k]]
        BY <1>4, <1>6, LenProperties
      <3> QED  BY <1>6, <3>1
    <2> HIDE DEF n
    <2> QED  BY <1>4, <2>1, ListOf
  <1>8. Distinct(Ids(new))
    <2>1. Ids(imgs) \in Seq(Images) /\ Distinct(Ids(imgs)) /\ P \in SUBSET (DOMAIN Ids(imgs))
      BY <1>0, <1>3, IdsAre
    <2> QED  BY <1>5, <2>1, OnlyOf
  <1>9. ImageIds(new) \subseteq ImageIds(imgs)
    <2> SUFFICES ASSUME NEW k \in DOMAIN new PROVE new[k].id \in ImageIds(imgs)
      BY DEF ImageIds
    <2>1. Ascending(P)[k] \in DOMAIN imgs /\ new[k] = descs[Ascending(P)[k]]
      BY <1>0, <1>3, <1>4, <1>6
    <2> QED  BY <1>2, <2>1 DEF ImageIds
  <1>10. (\A p \in pages : SubOf(p) = SINGLE_PAGE) =>
            P = {k \in DOMAIN imgs : PageId(imgs[k].id, SINGLE_PAGE) \notin pages}
    BY <1>0, <1>2, <1>3
  <1> QED  BY <1>1, <1>5, <1>6, <1>7, <1>8, <1>9, <1>10 DEF ImagesOK

-----------------------------------------------------------------------------
(* The pages that the project asks the list to show. *)

(* The pages of whole images. *)
Single(id) == PageId(id, SINGLE_PAGE)
Singles == [id \in Images |-> Single(id)]

(* toPageSequence(IMAGE_VIEW) is one page of each image, in the order of
   the images. *)
LEMMA ImageSequenceOf ==
    ASSUME NEW imgs, ImagesOK(imgs)
    PROVE  LET p == ImageSequence(imgs)
           IN  /\ p \in Seq(PageIds) /\ Distinct(p) /\ Len(p) = Len(imgs) /\ DOMAIN p = 1 .. Len(imgs)
               /\ \A k \in 1 .. Len(imgs) : p[k] = Single(imgs[k].id)
               /\ p = Mapped(Singles, Ids(imgs))
               /\ ToSet(p) = {Single(id) : id \in ImageIds(imgs)}
  <1> DEFINE p == ImageSequence(imgs)
  <1>1. /\ Len(imgs) \in Nat /\ DOMAIN imgs = 1 .. Len(imgs) /\ DOMAIN Ids(imgs) = 1 .. Len(imgs)
        /\ \A k \in 1 .. Len(imgs) : Ids(imgs)[k] = imgs[k].id /\ imgs[k].id \in Images
        /\ \A j, k \in 1 .. Len(imgs) : imgs[j].id = imgs[k].id => j = k
    BY ImagesAre, IdsAre
  <1>2. p = [k \in 1 .. Len(imgs) |-> Single(imgs[k].id)]
    BY <1>1 DEF ImageSequence, Single
  <1>3. \A id \in Images : Single(id) \in PageIds
    BY DEF Single, PageId, PageIds, SINGLE_PAGE
  <1>4. \A a, b : Single(a) = Single(b) => a = b
    BY DEF Single, PageId
  <1> HIDE DEF p
  <1>5. p \in [1 .. Len(imgs) -> PageIds]
    BY <1>1, <1>2, <1>3
  <1>6. p \in Seq(PageIds) /\ Len(p) = Len(imgs) /\ DOMAIN p = 1 .. Len(imgs)
    BY <1>1, <1>5, ListOf
  <1>7. Distinct(p)
    BY <1>1, <1>2, <1>4 DEF Distinct
  <1>8. p = Mapped(Singles, Ids(imgs))
    <2>1. \A k \in 1 .. Len(imgs) : Singles[Ids(imgs)[k]] = Single(imgs[k].id)
      BY <1>1 DEF Singles
    <2> QED  BY <1>1, <1>2, <2>1 DEF Mapped
  <1>9. ToSet(p) = {Single(id) : id \in ImageIds(imgs)}
    <2>1. ImageIds(imgs) = {imgs[k].id : k \in 1 .. Len(imgs)}
      BY <1>1 DEF ImageIds
    <2> QED  BY <1>2, <1>6, <2>1 DEF ToSet
  <1> QED  BY <1>2, <1>6, <1>7, <1>8, <1>9 DEF p

(* The pages of an image follow each other, the left one first. *)
Grouped(p) == \A i, j \in DOMAIN p : i < j /\ ImageOf(p[i]) = ImageOf(p[j]) =>
                  /\ SubOf(p[i]) < SubOf(p[j])
                  /\ \A k \in i .. j : ImageOf(p[k]) = ImageOf(p[i])

(* The logical pages of an image: one, or its halves in the layout
   direction. *)
LEMMA LogicalPagesOf ==
    ASSUME NEW desc, NEW direction
    PROVE  LET p == LogicalPages(desc, direction)
           IN  /\ Len(p) \in {1, 2}
               /\ \A n \in 1 .. Len(p) : p[n] \in {SINGLE_PAGE, LEFT_PAGE, RIGHT_PAGE}
               /\ Len(p) = 2 => p[1] # p[2] /\ (direction = "LeftToRight" => p[1] < p[2])
  <1>1. LogicalPages(desc, direction) \in
            {<<LEFT_PAGE, RIGHT_PAGE>>, <<RIGHT_PAGE, LEFT_PAGE>>, <<LEFT_PAGE>>, <<RIGHT_PAGE>>, <<SINGLE_PAGE>>}
    BY DEF LogicalPages, SubPagesInOrder
  <1>2. direction = "LeftToRight" => LogicalPages(desc, direction) # <<RIGHT_PAGE, LEFT_PAGE>>
    BY DEF LogicalPages, SubPagesInOrder, LEFT_PAGE, RIGHT_PAGE
  <1> QED  BY <1>1, <1>2 DEF LEFT_PAGE, RIGHT_PAGE, SINGLE_PAGE

(* toPageSequence(PAGE_VIEW) lists pages once each, and from left to
   right it has the left half before the right one. *)
LEMMA LogicalPageSequenceOf ==
    ASSUME NEW imgs, ImagesOK(imgs), NEW direction
    PROVE  LET p == LogicalPageSequence(imgs, direction)
           IN  /\ p \in Seq(PageIds) /\ Distinct(p)
               /\ direction = "LeftToRight" => Grouped(p)
  <1> DEFINE sub(k) == LogicalPages(imgs[k], direction)
             S == {place \in (DOMAIN imgs) \X {1, 2} : place[2] <= Len(sub(place[1]))}
             places == InOrderOfIds(S)
             p == LogicalPageSequence(imgs, direction)
  <1>1. /\ Len(imgs) \in Nat /\ DOMAIN imgs = 1 .. Len(imgs)
        /\ \A k \in 1 .. Len(imgs) : imgs[k].id \in Images
        /\ \A j, k \in 1 .. Len(imgs) : imgs[j].id = imgs[k].id => j = k
    BY ImagesAre
  <1>2. p = [n \in DOMAIN places |-> PageId(imgs[places[n][1]].id, sub(places[n][1])[places[n][2]])]
    BY DEF LogicalPageSequence
  <1> HIDE DEF p
  <1>3. S \in SUBSET (Int \X Int) /\ IsFiniteSet(S)
    <2>1. IsFiniteSet(DOMAIN imgs) /\ IsFiniteSet({1, 2})
      <3>1. IsFiniteSet(1 .. 2) /\ IsFiniteSet(1 .. Len(imgs))
        <4>1. 1 \in Int /\ 2 \in Int /\ Len(imgs) \in Int
          BY <1>1
        <4> QED  BY <4>1, FS_Interval
      <3>2. 1 .. 2 = {1, 2}
        OBVIOUS
      <3> QED  BY <1>1, <3>1, <3>2
    <2>2. IsFiniteSet((DOMAIN imgs) \X {1, 2})
      BY <2>1, FS_Product
    <2>3. S \in SUBSET ((DOMAIN imgs) \X {1, 2})
      OBVIOUS
    <2>4. (DOMAIN imgs) \X {1, 2} \subseteq Int \X Int
      BY <1>1
    <2> HIDE DEF S
    <2> QED  BY <2>2, <2>3, <2>4, FS_Subset
  <1>4. /\ places \in Seq(S) /\ Distinct(places) /\ DOMAIN places = 1 .. Len(places)
        /\ \A i, j \in 1 .. Len(places) : i < j => PageLess(places[i], places[j])
    <2> HIDE DEF S
    <2> QED  BY <1>3, InOrderOf
  <1>5. Len(places) \in Nat
    BY <1>4, LenProperties
  <1> DEFINE at(n) == places[n][1]
             of(n) == places[n][2]
  <1>6. ASSUME NEW n \in 1 .. Len(places)
        PROVE  /\ at(n) \in 1 .. Len(imgs) /\ of(n) \in {1, 2} /\ of(n) <= Len(sub(at(n)))
               /\ places[n] = <<at(n), of(n)>>
               /\ sub(at(n))[of(n)] \in {SINGLE_PAGE, LEFT_PAGE, RIGHT_PAGE}
               /\ p[n] = <<imgs[at(n)].id, sub(at(n))[of(n)]>>
               /\ of(n) = 2 => Len(sub(at(n))) = 2
    <2>1. places[n] \in S
      <3> HIDE DEF S, places
      <3> QED  BY <1>4, ElementsOf
    <2>2. at(n) \in 1 .. Len(imgs) /\ of(n) \in {1, 2} /\ of(n) <= Len(sub(at(n))) /\ places[n] = <<at(n), of(n)>>
      <3>1. \A s \in S : s[1] \in 1 .. Len(imgs) /\ s[2] \in {1, 2} /\ s[2] <= Len(sub(s[1])) /\ s = <<s[1], s[2]>>
        <4> HIDE DEF sub
        <4> QED  BY <1>1
      <3> HIDE DEF S, places, sub
      <3> QED  BY <2>1, <3>1
    <2> HIDE DEF at, of, sub
    <2>3. Len(sub(at(n))) \in {1, 2} /\ \A i \in 1 .. Len(sub(at(n))) : sub(at(n))[i] \in {SINGLE_PAGE, LEFT_PAGE, RIGHT_PAGE}
      BY LogicalPagesOf DEF sub
    <2>4. of(n) \in 1 .. Len(sub(at(n)))
      BY <2>2, <2>3
    <2>5. p[n] = <<imgs[at(n)].id, sub(at(n))[of(n)]>>
      BY <1>2, <1>4 DEF PageId, at, of
    <2> QED  BY <2>2, <2>3, <2>4, <2>5
  <1>7. p \in Seq(PageIds) /\ Len(p) = Len(places) /\ DOMAIN p = 1 .. Len(places)
    <2>1. \A n \in 1 .. Len(places) : p[n] \in PageIds
      <3> SUFFICES ASSUME NEW n \in 1 .. Len(places) PROVE p[n] \in PageIds
        OBVIOUS
      <3> HIDE DEF at, of, sub, places
      <3>1. \A a \in Images, b \in {SINGLE_PAGE, LEFT_PAGE, RIGHT_PAGE} : <<a, b>> \in PageIds
        BY DEF PageIds
      <3>2. imgs[at(n)].id \in Images /\ sub(at(n))[of(n)] \in {SINGLE_PAGE, LEFT_PAGE, RIGHT_PAGE}
            /\ p[n] = <<imgs[at(n)].id, sub(at(n))[of(n)]>>
        BY <1>1, <1>6
      <3> QED  BY <3>1, <3>2
    <2>2. p = [n \in 1 .. Len(places) |-> p[n]]
      BY <1>2, <1>4
    <2>3. p \in [1 .. Len(places) -> PageIds]
      BY <2>1, <2>2
    <2> HIDE DEF places
    <2> QED  BY <1>5, <2>3, ListOf
  <1>8. \A n \in 1 .. Len(places) : ImageOf(p[n]) = imgs[at(n)].id /\ SubOf(p[n]) = sub(at(n))[of(n)]
    <2> HIDE DEF at, of, sub, places
    <2> QED  BY <1>6 DEF ImageOf, SubOf
  <1>9. ASSUME NEW i \in 1 .. Len(places), NEW j \in 1 .. Len(places), i < j
        PROVE  at(i) < at(j) \/ (at(i) = at(j) /\ of(i) = 1 /\ of(j) = 2)
    <2>1. PageLess(places[i], places[j])
      BY <1>4, <1>9
    <2>2. at(i) < at(j) \/ (at(i) = at(j) /\ of(i) < of(j))
      BY <2>1 DEF PageLess
    <2>3. of(i) \in {1, 2} /\ of(j) \in {1, 2}
      BY <1>6
    <2> HIDE DEF at, of
    <2> QED  BY <2>2, <2>3
  <1> HIDE DEF places, S
  <1>10. ASSUME NEW i \in 1 .. Len(places), NEW j \in 1 .. Len(places), i < j, ImageOf(p[i]) = ImageOf(p[j])
         PROVE  at(i) = at(j) /\ of(i) = 1 /\ of(j) = 2 /\ SubOf(p[i]) # SubOf(p[j])
                /\ (direction = "LeftToRight" => SubOf(p[i]) < SubOf(p[j]))
    <2> HIDE DEF at, of
    <2>1. at(i) \in 1 .. Len(imgs) /\ at(j) \in 1 .. Len(imgs) /\ imgs[at(i)].id = imgs[at(j)].id
      BY <1>6, <1>8, <1>10
    <2>2. at(i) = at(j)
      BY <1>1, <2>1
    <2>3. of(i) = 1 /\ of(j) = 2
      BY <1>1, <1>9, <1>10, <2>1, <2>2
    <2>4. Len(sub(at(j))) = 2
      BY <1>6, <2>3
    <2>5. sub(at(j))[1] # sub(at(j))[2] /\ (direction = "LeftToRight" => sub(at(j))[1] < sub(at(j))[2])
      BY <2>4, LogicalPagesOf
    <2> HIDE DEF sub
    <2>6. SubOf(p[i]) = sub(at(j))[1] /\ SubOf(p[j]) = sub(at(j))[2]
      BY <1>8, <2>2, <2>3
    <2> QED  BY <2>2, <2>3, <2>5, <2>6
  <1>11. Distinct(p)
    <2> SUFFICES ASSUME NEW i \in 1 .. Len(places), NEW j \in 1 .. Len(places), i # j, p[i] = p[j] PROVE FALSE
      BY <1>7 DEF Distinct
    <2>1. i < j \/ j < i
      BY <1>5
    <2> QED  BY <1>10, <2>1
  <1>12. direction = "LeftToRight" => Grouped(p)
    <2> SUFFICES ASSUME direction = "LeftToRight", NEW i \in 1 .. Len(places), NEW j \in 1 .. Len(places),
                        i < j, ImageOf(p[i]) = ImageOf(p[j])
                 PROVE  SubOf(p[i]) < SubOf(p[j]) /\ \A k \in i .. j : ImageOf(p[k]) = ImageOf(p[i])
      BY <1>7 DEF Grouped
    <2>1. SubOf(p[i]) < SubOf(p[j]) /\ at(i) = at(j) /\ of(i) = 1 /\ of(j) = 2
      BY <1>10
    <2> HIDE DEF at, of, sub
    <2>2. ASSUME NEW k \in i .. j PROVE ImageOf(p[k]) = ImageOf(p[i])
      <3>1. k \in 1 .. Len(places) /\ (k = i \/ k = j \/ (i < k /\ k < j))
        BY <1>5, <2>2
      <3>2. CASE i < k /\ k < j
        <4>1. at(i) < at(k) \/ (at(i) = at(k) /\ of(i) = 1 /\ of(k) = 2)
          BY <1>9, <3>1, <3>2
        <4>2. at(k) < at(j) \/ (at(k) = at(j) /\ of(k) = 1 /\ of(j) = 2)
          BY <1>9, <3>1, <3>2
        <4>3. at(i) \in Int /\ at(j) \in Int /\ at(k) \in Int
          BY <1>6, <3>1
        <4> QED  BY <2>1, <4>1, <4>2, <4>3
      <3> QED  BY <3>1, <3>2
    <2> QED  BY <2>1, <2>2
  <1> QED  BY <1>7, <1>11, <1>12 DEF p

(* Whole images are grouped. *)
LEMMA SinglesGrouped ==
    ASSUME NEW p \in Seq(PageIds), Distinct(p), \A k \in 1 .. Len(p) : SubOf(p[k]) = SINGLE_PAGE
    PROVE  Grouped(p)
  <1>1. DOMAIN p = 1 .. Len(p) /\ \A k \in 1 .. Len(p) : p[k] \in PageIds
    BY ElementsOf
  <1> SUFFICES ASSUME NEW i \in 1 .. Len(p), NEW j \in 1 .. Len(p), i < j, ImageOf(p[i]) = ImageOf(p[j]) PROVE FALSE
    BY <1>1 DEF Grouped
  <1>2. p[i] = <<p[i][1], p[i][2]>> /\ p[j] = <<p[j][1], p[j][2]>>
    BY <1>1, NoPageIsNone
  <1>3. p[i][1] = p[j][1] /\ p[i][2] = p[j][2]
    BY DEF ImageOf, SubOf
  <1>4. p[i] = p[j]
    BY <1>2, <1>3
  <1>5. i # j
    BY <1>1
  <1> QED  BY <1>1, <1>4, <1>5 DEF Distinct

(* Pages that are left stay together. *)
LEMMA GroupedOnly ==
    ASSUME NEW p \in Seq(PageIds), Grouped(p), NEW P, P \subseteq DOMAIN p
    PROVE  Grouped(Only(p, P))
  <1> DEFINE r == Only(p, P)
             at(k) == Ascending(P)[k]
             n == Cardinality(P)
  <1>1. /\ r \in Seq(PageIds) /\ Len(r) = n /\ n \in Nat
        /\ \A k \in 1 .. n : at(k) \in P /\ r[k] = p[at(k)]
        /\ \A j, k \in 1 .. n : j < k => at(j) < at(k)
    BY OnlyOf
  <1>2. DOMAIN p = 1 .. Len(p) /\ Len(p) \in Nat
    BY ElementsOf
  <1> HIDE DEF r, at, n
  <1>3. DOMAIN r = 1 .. n
    BY <1>1, LenProperties
  <1>4. ASSUME NEW i \in 1 .. n, NEW j \in 1 .. n, i < j, ImageOf(r[i]) = ImageOf(r[j])
        PROVE  SubOf(r[i]) < SubOf(r[j]) /\ \A k \in i .. j : ImageOf(r[k]) = ImageOf(r[i])
    <2>1. at(i) \in DOMAIN p /\ at(j) \in DOMAIN p /\ at(i) < at(j) /\ r[i] = p[at(i)] /\ r[j] = p[at(j)]
      BY <1>1, <1>4
    <2>2. /\ SubOf(p[at(i)]) < SubOf(p[at(j)])
          /\ \A k \in at(i) .. at(j) : ImageOf(p[k]) = ImageOf(p[at(i)])
      BY <1>4, <2>1 DEF Grouped
    <2>3. ASSUME NEW k \in i .. j PROVE ImageOf(r[k]) = ImageOf(r[i])
      <3>1. k \in 1 .. n /\ (k = i \/ i < k) /\ (k = j \/ k < j)
        BY <1>1, <2>3
      <3>2. at(k) \in at(i) .. at(j) /\ r[k] = p[at(k)]
        <4>1. at(k) \in DOMAIN p /\ r[k] = p[at(k)]
          BY <1>1, <3>1
        <4>2. at(k) \in Int /\ at(i) \in Int /\ at(j) \in Int
          BY <1>2, <2>1, <4>1
        <4>3. (at(k) = at(i) \/ at(i) < at(k)) /\ (at(k) = at(j) \/ at(k) < at(j))
          BY <1>1, <3>1
        <4> QED  BY <4>1, <4>2, <4>3
      <3> QED  BY <2>1, <2>2, <3>2
    <2> QED  BY <2>1, <2>2, <2>3
  <1> QED  BY <1>3, <1>4 DEF Grouped, r

(* insert() never puts a page between two pages of an image when the pages
   of each image are in the order of their ids. *)
LEMMA NotInside ==
    ASSUME NEW p \in Seq(PageIds), Grouped(p), NEW where, NEW image, NEW h, Wanted(p, where, image, h),
           NEW i \in 1 .. Len(p), NEW j \in 1 .. Len(p), i < h, h <= j
    PROVE  ImageOf(p[i]) # ImageOf(p[j])
  <1>1. DOMAIN p = 1 .. Len(p) /\ Len(p) \in Nat /\ \A k \in 1 .. Len(p) : p[k] \in PageIds
    BY ElementsOf
  <1>2. h \in 1 .. Len(p) /\ i < j /\ h \in i .. j /\ h - 1 \in i .. j /\ h # Len(p) + 1
    BY <1>1 DEF Wanted
  <1> SUFFICES ASSUME ImageOf(p[i]) = ImageOf(p[j]) PROVE FALSE
    OBVIOUS
  <1>3. ImageOf(p[h]) = ImageOf(p[i]) /\ ImageOf(p[h - 1]) = ImageOf(p[i])
    BY <1>1, <1>2 DEF Grouped
  <1>4. CASE image = NoImage
    BY <1>2, <1>4 DEF Wanted
  <1>5. CASE image # NoImage /\ where = "BEFORE"
    <2>1. ImageOf(p[h]) = image /\ (ImageOf(p[i]) = image => p[h] = p[i] \/ PageLess(p[h], p[i]))
      BY <1>5 DEF Wanted
    <2>2. SubOf(p[i]) < SubOf(p[h])
      BY <1>1, <1>2, <1>3 DEF Grouped
    <2>3. p[i][2] < p[h][2] /\ p[i][1] = p[h][1] /\ (p[h] = p[i] \/ PageLess(p[h], p[i]))
      BY <1>3, <2>1, <2>2 DEF ImageOf, SubOf
    <2>4. p[i][2] \in Int /\ p[h][2] \in Int /\ p[i][1] \in Int /\ p[h][1] \in Int
      <3>1. p[i] \in PageIds /\ p[h] \in PageIds
        BY <1>1, <1>2
      <3> QED  BY <3>1, NoPageIsNone
    <2> QED  BY <2>3, <2>4 DEF PageLess
  <1>6. CASE image # NoImage /\ where # "BEFORE"
    <2>1. ImageOf(p[h - 1]) = image /\ ImageOf(p[h]) # image
      BY <1>2, <1>6 DEF Wanted
    <2> QED  BY <1>3, <2>1
  <1> QED  BY <1>4, <1>5, <1>6

(* A page of another image, or the second half of an image next to its first
   one, is put where it keeps the pages of each image together. *)
LEMMA GroupedInsert ==
    ASSUME NEW p \in Seq(PageIds), Grouped(p), NEW where, NEW image, NEW h, Wanted(p, where, image, h),
           NEW q \in PageIds,
           \/ \A k \in 1 .. Len(p) : ImageOf(p[k]) # ImageOf(q)
           \/ /\ image = ImageOf(q) /\ image # NoImage
              /\ \E m \in 1 .. Len(p) :
                    /\ \A k \in 1 .. Len(p) : ImageOf(p[k]) = image <=> k = m
                    /\ where = "BEFORE" => SubOf(q) < SubOf(p[m])
                    /\ where # "BEFORE" => SubOf(p[m]) < SubOf(q)
    PROVE  Grouped(InsertAt(p, h, q))
  <1> DEFINE r == InsertAt(p, h, q)
  <1>1. Len(p) \in Nat /\ h \in 1 .. Len(p) + 1
    BY ElementsOf DEF Wanted
  <1>2. /\ r \in Seq(PageIds) /\ Len(r) = Len(p) + 1
        /\ \A j \in 1 .. Len(p) + 1 : r[j] = IF j < h THEN p[j] ELSE IF j = h THEN q ELSE p[j - 1]
    BY <1>1, InsertAtOf
  <1> HIDE DEF r
  <1>3. DOMAIN r = 1 .. Len(p) + 1 /\ DOMAIN p = 1 .. Len(p)
    BY <1>1, <1>2, LenProperties
  <1>4. r[h] = q
    BY <1>1, <1>2
  <1>5. ASSUME NEW j \in 1 .. Len(p), ImageOf(p[j]) = ImageOf(q)
        PROVE  /\ j >= h => j = h /\ SubOf(q) < SubOf(p[j])
               /\ j < h => j = h - 1 /\ SubOf(p[j]) < SubOf(q)
    <2>1. PICK m \in 1 .. Len(p) :
                /\ \A k \in 1 .. Len(p) : ImageOf(p[k]) = image <=> k = m
                /\ where = "BEFORE" => SubOf(q) < SubOf(p[m])
                /\ where # "BEFORE" => SubOf(p[m]) < SubOf(q)
      BY <1>5
    <2>2. image = ImageOf(q) /\ image # NoImage
      BY <1>5
    <2>3. j = m
      BY <1>5, <2>1, <2>2
    <2>4. CASE where = "BEFORE"
      <3>1. h \in 1 .. Len(p) /\ ImageOf(p[h]) = image
        BY <2>2, <2>4 DEF Wanted
      <3>2. h = j
        BY <2>1, <2>3, <3>1
      <3> QED  BY <1>1, <2>1, <2>3, <2>4, <3>2
    <2>5. CASE where # "BEFORE"
      <3>1. h - 1 \in 1 .. Len(p) /\ ImageOf(p[h - 1]) = image
        BY <1>1, <2>2, <2>5 DEF Wanted
      <3>2. h - 1 = j
        BY <2>1, <2>3, <3>1
      <3> QED  BY <1>1, <2>1, <2>3, <2>5, <3>2
    <2> QED  BY <2>4, <2>5
  <1>6. ASSUME NEW i \in 1 .. Len(p) + 1, NEW j \in 1 .. Len(p) + 1, i < j, ImageOf(r[i]) = ImageOf(r[j])
        PROVE  SubOf(r[i]) < SubOf(r[j]) /\ \A k \in i .. j : ImageOf(r[k]) = ImageOf(r[i])
    <2>1. CASE j < h
      <3>1. i \in DOMAIN p /\ j \in DOMAIN p /\ r[i] = p[i] /\ r[j] = p[j] /\ \A k \in i .. j : r[k] = p[k]
        BY <1>1, <1>2, <1>3, <1>6, <2>1
      <3> QED  BY <1>6, <3>1 DEF Grouped
    <2>2. CASE h < i
      <3>1. /\ i - 1 \in DOMAIN p /\ j - 1 \in DOMAIN p /\ r[i] = p[i - 1] /\ r[j] = p[j - 1]
            /\ \A k \in i .. j : r[k] = p[k - 1] /\ k - 1 \in (i - 1) .. (j - 1)
            /\ i - 1 < j - 1
        BY <1>1, <1>2, <1>3, <1>6, <2>2
      <3>2. /\ SubOf(p[i - 1]) < SubOf(p[j - 1])
            /\ \A k \in (i - 1) .. (j - 1) : ImageOf(p[k]) = ImageOf(p[i - 1])
        BY <1>6, <3>1 DEF Grouped
      <3> QED  BY <3>1, <3>2
    <2>3. CASE i < h /\ h < j
      <3>1. i \in 1 .. Len(p) /\ j - 1 \in 1 .. Len(p) /\ r[i] = p[i] /\ r[j] = p[j - 1] /\ h <= j - 1
        BY <1>1, <1>2, <1>6, <2>3
      <3>2. ImageOf(p[i]) # ImageOf(p[j - 1])
        BY <2>3, <3>1, NotInside
      <3> QED  BY <1>6, <3>1, <3>2
    <2>4. CASE i = h
      <3>1. j - 1 \in 1 .. Len(p) /\ r[j] = p[j - 1] /\ j - 1 >= h
        BY <1>1, <1>2, <1>6, <2>4
      <3>2. j - 1 = h /\ SubOf(q) < SubOf(p[j - 1])
        BY <1>4, <1>5, <1>6, <2>4, <3>1
      <3>3. \A k \in i .. j : k = i \/ k = j
        BY <1>1, <2>4, <3>2
      <3> QED  BY <1>4, <1>6, <2>4, <3>1, <3>2, <3>3
    <2>5. CASE j = h
      <3>1. i \in 1 .. Len(p) /\ r[i] = p[i] /\ i < h
        BY <1>1, <1>2, <1>6, <2>5
      <3>2. i = h - 1 /\ SubOf(p[i]) < SubOf(q)
        BY <1>4, <1>5, <1>6, <2>5, <3>1
      <3>3. \A k \in i .. j : k = i \/ k = j
        BY <1>1, <2>5, <3>2
      <3> QED  BY <1>4, <1>6, <2>5, <3>1, <3>2, <3>3
    <2> QED  BY <1>1, <2>1, <2>2, <2>3, <2>4, <2>5
  <1> QED  BY <1>3, <1>6 DEF Grouped, r

-----------------------------------------------------------------------------
(* The invariant: the list, the project and the widget agree. *)

(* The list fits the project and the stage: while images are shown, they are
   those of the project, in its order unless there is an order of thumbnails. *)
Good(list, imgs, st, given) ==
    /\ Whole(list) /\ Fits(list) /\ list.view = ViewOf(st)
    /\ st < 2 => Shown(list) = ToSet(PagesNow(imgs, st))
    /\ Direction = "LeftToRight" /\ ~given => Grouped(Pages(list.items))
    /\ st < 2 /\ ~given => Pages(list.items) = PagesNow(imgs, st)

(* The same for the sequence that the stage asks for. *)
LEMMA PagesNowAre ==
    ASSUME NEW imgs, ImagesOK(imgs), NEW st \in 0 .. 2
    PROVE  /\ PagesNow(imgs, st) \in Seq(PageIds) /\ Distinct(PagesNow(imgs, st))
           /\ Direction = "LeftToRight" => Grouped(PagesNow(imgs, st))
           /\ st < 2 => PagesNow(imgs, st) = ImageSequence(imgs)
           /\ ViewOf(st) = "IMAGE_VIEW" => st < 2
           /\ ViewOf(st) = "IMAGE_VIEW" => \A p \in ToSet(PagesNow(imgs, st)) : SubOf(p) = SINGLE_PAGE
           /\ ViewOf(st) \in Views
  <1>1. st < 2 => PagesNow(imgs, st) = ImageSequence(imgs)
    BY DEF PagesNow, ToPageSequence, ViewOf
  <1>2. ~(st < 2) => PagesNow(imgs, st) = LogicalPageSequence(imgs, Direction)
    BY DEF PagesNow, ToPageSequence, ViewOf
  <1>3. (ViewOf(st) = "IMAGE_VIEW" => st < 2) /\ ViewOf(st) \in Views
    BY DEF ViewOf, Views
  <1>4. /\ ImageSequence(imgs) \in Seq(PageIds) /\ Distinct(ImageSequence(imgs))
        /\ ToSet(ImageSequence(imgs)) = {Single(id) : id \in ImageIds(imgs)}
    BY ImageSequenceOf
  <1>5. \A p \in ToSet(ImageSequence(imgs)) : SubOf(p) = SINGLE_PAGE
    BY <1>4 DEF Single, PageId, SubOf
  <1>6. \A k \in 1 .. Len(ImageSequence(imgs)) : SubOf(ImageSequence(imgs)[k]) = SINGLE_PAGE
    BY <1>4, <1>5, ElementsOf
  <1>7. Grouped(ImageSequence(imgs))
    BY <1>4, <1>6, SinglesGrouped
  <1>8. /\ LogicalPageSequence(imgs, Direction) \in Seq(PageIds) /\ Distinct(LogicalPageSequence(imgs, Direction))
        /\ Direction = "LeftToRight" => Grouped(LogicalPageSequence(imgs, Direction))
    BY LogicalPageSequenceOf
  <1> QED  BY <1>1, <1>2, <1>3, <1>4, <1>5, <1>7, <1>8

(* Of the images only their ids, in order, matter while images are shown. *)
LEMMA SameIds ==
    ASSUME NEW imgs, ImagesOK(imgs), NEW new, ImagesOK(new), Ids(new) = Ids(imgs), NEW st \in 0 .. 2
    PROVE  st < 2 => PagesNow(new, st) = PagesNow(imgs, st)
  BY PagesNowAre, ImageSequenceOf

(* Good does not depend on how many pages an image has. *)
LEMMA GoodImages ==
    ASSUME NEW imgs, ImagesOK(imgs), NEW new, ImagesOK(new), Ids(new) = Ids(imgs), NEW st \in 0 .. 2,
           NEW list, NEW given, Good(list, imgs, st, given)
    PROVE  Good(list, new, st, given)
  BY SameIds DEF Good

(* A change of the selection alone keeps it. *)
LEMMA GoodSame ==
    ASSUME NEW list, NEW imgs, NEW st, NEW given, Good(list, imgs, st, given),
           NEW r, Whole(r), SameItems(list, r)
    PROVE  Good(r, imgs, st, given)
  <1>1. Shown(r) = Shown(list) /\ r.items = list.items /\ r.view = list.view
    BY DEF SameItems, Shown
  <1>2. Fits(r)
    BY <1>1 DEF Fits, Good
  <1> QED  BY <1>1, <1>2 DEF Good

(* So does making thumbnails again, in any order that is provided. *)
LEMMA GoodRemade ==
    ASSUME NEW list, NEW imgs, NEW st, NEW order, Good(list, imgs, st, order.given),
           NEW r, Remade(list, r),
           NEW after, ~after.given => ~order.given /\ Pages(r.items) = Pages(list.items)
    PROVE  Good(r, imgs, st, after.given)
  BY DEF Good, Remade

(* reset() with the pages of the stage establishes it, whatever was
   shown. *)
LEMMA GoodReset ==
    ASSUME NEW list, Whole(list), NEW imgs, ImagesOK(imgs), NEW st \in 0 .. 2, list.view = ViewOf(st),
           NEW action, NEW incomplete, NEW order, Total(order)
    PROVE  Good(Reset(list, PagesNow(imgs, st), action, incomplete, order), imgs, st, order.given)
  <1> DEFINE pages == PagesNow(imgs, st)
             r == Reset(list, pages, action, incomplete, order)
  <1>1. /\ pages \in Seq(PageIds) /\ Distinct(pages)
        /\ Direction = "LeftToRight" => Grouped(pages)
        /\ ViewOf(st) = "IMAGE_VIEW" => \A p \in ToSet(pages) : SubOf(p) = SINGLE_PAGE
        /\ ViewOf(st) \in Views
    BY PagesNowAre
  <1> HIDE DEF pages
  <1>2. /\ Whole(r) /\ Shown(r) = ToSet(pages) /\ r.view = list.view
        /\ ~order.given => Pages(r.items) = pages
    BY <1>1, ResetOf
  <1> HIDE DEF r
  <1>3. Fits(r)
    BY <1>1, <1>2 DEF Fits
  <1> QED  BY <1>1, <1>2, <1>3 DEF Good, r, pages

(* The stage gives the list another view. *)
LEMMA ViewSet ==
    ASSUME NEW list, Whole(list), NEW view
    PROVE  LET new == [list EXCEPT !.view = view]
           IN  /\ Whole(new) /\ new.view = view /\ new.leader = list.leader
               /\ Tidy(list) => Tidy(new)
  <1> DEFINE new == [list EXCEPT !.view = view]
  <1>1. ListShape(list)
    BY DEF Whole, Frame
  <1>2. ListShape(new)
    BY <1>1, FieldSet
  <1>3. /\ new.items = list.items /\ new.byState = list.byState /\ new.selected = list.selected
        /\ new.leaders = list.leaders /\ new.leader = list.leader /\ new.view = view
    BY <1>1 DEF ListShape
  <1> HIDE DEF new
  <1>4. Shown(new) = Shown(list)
    BY <1>3 DEF Shown
  <1>5. Whole(new)
    BY <1>2, <1>3, <1>4 DEF Whole, Frame, Listed
  <1>6. Tidy(list) => Tidy(new)
    BY <1>3 DEF Tidy
  <1> QED  BY <1>3, <1>5, <1>6 DEF new

(* There is an order provider when pages are ordered by their split or
   reversed. *)
LEMMA OrderGiven ==
    \A rec, st, split, rev :
        /\ OrderProvider(rec, st, split, rev).given = ((st = 1 /\ split) \/ rev)
        /\ OrderProvider(rec, st, split, rev).given \in BOOLEAN
  BY DEF OrderProvider

-----------------------------------------------------------------------------
(* Every step keeps the invariant. *)

(* The list, the project and the stage's widget agree. *)
Agree(list, imgs, st, given, load, blind) ==
    /\ ImagesOK(imgs)
    /\ Good(list, imgs, st, given) /\ Leads(list)
    /\ ~blind => Tidy(list)
    /\ load \in PageIds \cup {NoPage}
    /\ st < 2 /\ load # NoPage => load = list.leader

Settings ==
    /\ rotation \in [Images -> Rotations]
    /\ stage \in 0 .. 2 /\ splitOrder \in BOOLEAN /\ reverse \in BOOLEAN
    /\ steps \in 0 .. MaxSteps
ListInv == Settings /\ Agree(disp, images, stage, Order.given, loaded, unseen)

(* The leader is a page or there is none. *)
LEMMA LeaderIsPage ==
    ASSUME NEW list, Whole(list)
    PROVE  list.leader \in PageIds \cup {NoPage}
  BY ShownAre DEF Whole, Frame

(* updateMainArea() loads the leader. *)
LEMMA MainAreaLoads ==
    ASSUME NEW list, NEW st, NEW widget, Reload(list, st, widget)
    PROVE  loaded' = list.leader
  BY DEF Reload

(* The thumbnails of a list are made again, or nothing happens to it; the
   images stay, whatever becomes of their pages. *)
LEMMA AgreeRemade ==
    ASSUME NEW list, NEW imgs, NEW st \in 0 .. 2, NEW order, NEW load, NEW blind,
           Agree(list, imgs, st, order.given, load, blind),
           NEW r, Remade(list, r), NEW after, ~after.given => ~order.given /\ Pages(r.items) = Pages(list.items),
           NEW new, ImagesOK(new), Ids(new) = Ids(imgs),
           NEW loadAfter \in {load, r.leader}
    PROVE  Agree(r, new, st, after.given, loadAfter, blind)
  <1>1. Good(r, imgs, st, after.given)
    BY GoodRemade DEF Agree
  <1>2. Good(r, new, st, after.given)
    BY <1>1, GoodImages DEF Agree
  <1>3. Fits(list) /\ Leads(list) /\ r.leader = list.leader /\ Whole(r)
    BY <1>2 DEF Agree, Good, Remade
  <1>4. Leads(r) /\ (~blind => Tidy(r))
    BY <1>3 DEF Agree, Remade
  <1>5. r.leader \in PageIds \cup {NoPage}
    BY <1>3, LeaderIsPage
  <1> QED  BY <1>2, <1>3, <1>4, <1>5 DEF Agree

(* A list is itself made again. *)
LEMMA RemadeItself ==
    ASSUME NEW list, Whole(list) PROVE Remade(list, list)
  BY DEF Remade, Whole

(* Another selection in the same list. *)
LEMMA AgreeChosen ==
    ASSUME NEW list, NEW imgs, NEW st, NEW given, NEW load, NEW blind,
           Agree(list, imgs, st, given, load, blind),
           NEW r, Whole(r), SameItems(list, r), Leads(r), NEW blindAfter, ~blindAfter => Tidy(r),
           NEW loadAfter, loadAfter = r.leader \/ (loadAfter = load /\ r.leader = list.leader)
    PROVE  Agree(r, imgs, st, given, loadAfter, blindAfter)
  <1>1. Good(r, imgs, st, given)
    BY GoodSame DEF Agree
  <1>2. r.leader \in PageIds \cup {NoPage}
    BY LeaderIsPage
  <1> QED  BY <1>1, <1>2 DEF Agree

(* A step of the user is counted. *)
LEMMA StepsCounted ==
    ASSUME Ask, steps \in 0 .. MaxSteps PROVE steps' \in 0 .. MaxSteps
  BY PageListAssumption DEF Ask

(* There is an order provider as before when neither the stage nor the
   order is changed. *)
LEMMA GivenAgain ==
    ASSUME UNCHANGED <<stage, splitOrder, reverse>>
    PROVE  Order'.given = Order.given
  <1>1. Order'.given = ((stage' = 1 /\ splitOrder') \/ reverse') /\ Order.given = ((stage = 1 /\ splitOrder) \/ reverse)
    BY OrderGiven DEF Order
  <1> QED  BY <1>1

(* MainWindow::currentPageChanged after a click on a thumbnail. *)
LEMMA ClickKeeps ==
    ASSUME ListInv, NEW list, Clicked(disp, list), Click(list)
    PROVE  ListInv'
  <1>1. Settings'
    BY StepsCounted DEF ListInv, Settings, Click, Step, project
  <1>2. /\ disp' = list /\ images' = images /\ stage' = stage /\ unseen' = unseen
        /\ Order'.given = Order.given
    BY GivenAgain DEF Click, Step, project
  <1>3. loaded' = list.leader \/ (loaded' = loaded /\ list.leader = disp.leader)
    BY MainAreaLoads DEF Click, UpdateMainArea, MainAreaSame
  <1>4. /\ Agree(disp, images, stage, Order.given, loaded, unseen)
        /\ Fits(disp) /\ Leads(disp) /\ (~unseen => Tidy(disp))
    BY DEF ListInv, Agree, Good
  <1>5. Whole(list) /\ SameItems(disp, list) /\ Leads(list) /\ (~unseen => Tidy(list))
    BY <1>4 DEF Clicked
  <1>6. Agree(list, images, stage, Order.given, loaded', unseen)
    BY <1>3, <1>4, <1>5, AgreeChosen
  <1> QED  BY <1>1, <1>2, <1>6 DEF ListInv

(* The three kinds of clicks. *)
LEMMA ClicksKeep ==
    ASSUME ListInv, NEW page \in Shown(disp),
           SelectByClick(page) \/ SelectWithControl(page) \/ SelectWithShift(page)
    PROVE  ListInv'
  <1>1. Whole(disp)
    BY DEF ListInv, Agree, Good
  <1> QED  BY <1>1, ClickKeeps, ClickPlainOf, ClickControlOf, ClickShiftOf
           DEF SelectByClick, SelectWithControl, SelectWithShift

(* MainWindow::goToPage. *)
LEMMA GoToPageKeeps ==
    ASSUME ListInv, NEW page, GoToPage(page) PROVE ListInv'
  <1> DEFINE list == SetSelection(disp, page, "RESET_SELECTION")
  <1>1. Settings'
    BY StepsCounted DEF ListInv, Settings, GoToPage, Step, project
  <1>2. /\ disp' = list /\ images' = images /\ stage' = stage /\ unseen' = unseen
        /\ Order'.given = Order.given /\ UpdateMainArea(list, stage)
    BY GivenAgain DEF GoToPage, Step, project
  <1>3. loaded' = list.leader
    BY <1>2, MainAreaLoads DEF UpdateMainArea
  <1>4. /\ Agree(disp, images, stage, Order.given, loaded, unseen) /\ Frame(disp)
        /\ Whole(disp) /\ Fits(disp) /\ Leads(disp) /\ (~unseen => Tidy(disp))
    BY DEF ListInv, Agree, Good, Whole
  <1>5. Whole(list) /\ SameItems(disp, list) /\ Leads(list) /\ (~unseen => Tidy(list))
    BY <1>4, SetSelectionOf
  <1> HIDE DEF list
  <1>6. Agree(list, images, stage, Order.given, loaded', unseen)
    BY <1>3, <1>4, <1>5, AgreeChosen
  <1> QED  BY <1>1, <1>2, <1>6 DEF ListInv

(* MainWindow::selectPages (by number). *)
LEMMA SelectPagesKeeps ==
    ASSUME ListInv, NEW pages, SelectPages(pages) PROVE ListInv'
  <1> DEFINE list == SetSelectionToSet(disp, pages, "RESET_SELECTION")
  <1>1. Settings'
    BY StepsCounted DEF ListInv, Settings, SelectPages, project
  <1>2. /\ disp' = list /\ images' = images /\ stage' = stage
        /\ ~unseen' => ~unseen /\ pages \cap Shown(disp) # {}
        /\ Order'.given = Order.given /\ UpdateMainArea(list, stage)
    BY GivenAgain DEF SelectPages, project
  <1>3. loaded' = list.leader
    BY <1>2, MainAreaLoads DEF UpdateMainArea
  <1>4. /\ Agree(disp, images, stage, Order.given, loaded, unseen)
        /\ Whole(disp) /\ Fits(disp) /\ (~unseen => Tidy(disp))
    BY DEF ListInv, Agree, Good
  <1>5. Whole(list) /\ SameItems(disp, list) /\ Leads(list) /\ (~unseen' => Tidy(list))
    BY <1>2, <1>4, SetSelectionToSetOf
  <1> HIDE DEF list
  <1>6. Agree(list, images, stage, Order.given, loaded', unseen')
    BY <1>3, <1>4, <1>5, AgreeChosen
  <1> QED  BY <1>1, <1>2, <1>6 DEF ListInv

(* A thumbnail is made again, while the project's images stay in their places. *)
LEMMA ThumbnailKeeps ==
    ASSUME ListInv, Settings', UNCHANGED <<stage, splitOrder, reverse, unseen>>,
           NEW page, NEW rec, disp' = InvalidatedThumbnail(disp, page, rec) \/ disp' = disp,
           ImagesOK(images'), Ids(images') = Ids(images), loaded' \in {loaded, disp'.leader}
    PROVE  ListInv'
  <1>1. Order'.given = Order.given
    BY GivenAgain
  <1>2. OrderProvider(rec, stage, splitOrder, reverse).given = Order.given
    BY OrderGiven DEF Order
  <1>3. Agree(disp, images, stage, Order.given, loaded, unseen) /\ Frame(disp) /\ Whole(disp) /\ stage \in 0 .. 2
    BY DEF ListInv, Agree, Good, Whole, Settings
  <1>4. Remade(disp, disp') /\ (~Order.given => Pages(disp'.items) = Pages(disp.items))
    <2>1. CASE disp' = disp
      BY <1>3, <2>1, RemadeItself
    <2>2. CASE disp' = InvalidatedThumbnail(disp, page, rec)
      BY <1>2, <1>3, <2>2, InvalidateThumbnailOf DEF InvalidatedThumbnail
    <2> QED  BY <2>1, <2>2
  <1>5. Agree(disp', images', stage, Order.given, loaded', unseen)
    BY <1>3, <1>4, AgreeRemade
  <1>6. stage' = stage /\ unseen' = unseen
    OBVIOUS
  <1> QED  BY <1>1, <1>5, <1>6 DEF ListInv

(* The rotation of an image is set in Fix orientation. *)
LEMMA SetRotationKeeps == ListInv /\ SetRotation => ListInv'
  <1> SUFFICES ASSUME ListInv, SetRotation PROVE ListInv'
    OBVIOUS
  <1>1. rotation' \in [Images -> Rotations]
    <2>1. \A n \in Rotations : 90 - n \in Rotations
      BY DEF Rotations
    <2> QED  BY <2>1 DEF SetRotation, ListInv, Settings
  <1>2. Settings'
    BY <1>1, StepsCounted DEF ListInv, Settings, SetRotation, Step
  <1>3. ImagesOK(images) /\ images' = images /\ loaded' = loaded
    BY DEF SetRotation, MainAreaSame, ListInv, Agree
  <1> QED  BY <1>2, <1>3, ThumbnailKeeps DEF SetRotation, Step

(* The layout type button of page_split::OptionsWidget. *)
LEMMA LayoutButtonKeeps ==
    ASSUME ListInv, NEW type, LayoutTypeButtonToggled(type) PROVE ListInv'
  <1> DEFINE id == ImageOf(loaded)
             layout == IF type = "TWO_PAGES" THEN "TWO_PAGE_LAYOUT" ELSE "ONE_PAGE_LAYOUT"
             imgs == SetLayoutTypeFor(images, id, layout)
             reload == \/ type = "PAGE_PLUS_OFFCUT"
                       \/ type # "SINGLE_PAGE_UNCUT" /\ ui.mode = "MODE_AUTO"
             asked == SetLayout(record[id], type)
             rec == [record EXCEPT ![id] = UpdatePage(IF reload THEN asked
                                                      ELSE SetParams(asked, Params(type, ui.deps, ui.mode)))]
  <1>1. Settings'
    BY StepsCounted DEF ListInv, Settings, LayoutTypeButtonToggled, Step
  <1>2. ImagesOK(imgs) /\ Ids(imgs) = Ids(images)
    BY SetNumPagesOf DEF SetLayoutTypeFor, ListInv, Agree
  <1>3. IF reload THEN images' = imgs /\ UpdateMainArea(disp, stage) /\ disp' = disp
        ELSE /\ disp' = InvalidatedThumbnail(disp, loaded, rec)
             /\ Thumbnails(imgs, rec, MadeFor(loaded) \cap ImageIds(imgs), stage)
             /\ loaded' = loaded
    BY DEF LayoutTypeButtonToggled
  <1>4. UNCHANGED <<stage, splitOrder, reverse, unseen>>
    BY DEF LayoutTypeButtonToggled, Step
  <1> HIDE DEF imgs, rec
  <1>5. ImagesOK(images') /\ Ids(images') = Ids(images) /\ loaded' \in {loaded, disp'.leader}
    <2>1. CASE reload
      BY <1>2, <1>3, <2>1, MainAreaLoads DEF UpdateMainArea
    <2>2. CASE ~reload
      BY <1>2, <1>3, <2>2, ThumbImagesOf DEF Thumbnails
    <2> QED  BY <2>1, <2>2
  <1>6. disp' = InvalidatedThumbnail(disp, loaded, rec) \/ disp' = disp
    BY <1>3
  <1> QED  BY <1>1, <1>4, <1>5, <1>6, ThumbnailKeeps

(* The layout type is set for many pages by the dialog. *)
LEMMA LayoutDialogKeeps ==
    ASSUME ListInv, NEW ids, NEW type, NEW applyCut, LayoutTypeSet(ids, type, applyCut)
    PROVE  ListInv'
  <1>1. Settings'
    BY StepsCounted DEF ListInv, Settings, LayoutTypeSet, Step
  <1>2. UNCHANGED <<stage, splitOrder, reverse, unseen>> /\ Order'.given = Order.given
    BY GivenAgain DEF LayoutTypeSet, Step
  <1>3. CASE stage # 1
    <2>1. disp' = disp /\ images' = images /\ loaded' = loaded
      BY <1>3 DEF LayoutTypeSet
    <2>2. stage' = stage /\ unseen' = unseen
      BY <1>2
    <2> QED  BY <1>1, <1>2, <2>1, <2>2 DEF ListInv
  <1>4. CASE stage = 1
    <2>2. PICK rec : /\ disp' = InvalidateAll(disp, IncompletePages(rec, stage),
                                             OrderProvider(rec, stage, splitOrder, reverse))
                     /\ Thumbnails(images, rec, ImagesShown(disp) \cap ImageIds(images), stage)
      BY <1>4 DEF LayoutTypeSet
    <2>4. Agree(disp, images, stage, Order.given, loaded, unseen) /\ Frame(disp) /\ ImagesOK(images) /\ stage \in 0 .. 2
      BY DEF ListInv, Agree, Good, Whole, Settings
    <2>5. ImagesOK(images') /\ Ids(images') = Ids(images)
      BY <2>2, <2>4, ThumbImagesOf DEF Thumbnails
    <2> DEFINE order == OrderProvider(rec, stage, splitOrder, reverse)
    <2>6. Total(order) /\ order.given = Order.given
      BY OrderIsTotal, OrderGiven DEF Order
    <2> HIDE DEF order
    <2>7. Remade(disp, disp') /\ (~Order.given => Pages(disp'.items) = Pages(disp.items))
      BY <2>2, <2>4, <2>6, InvalidateAllOf DEF order
    <2>8. loaded' \in {loaded, disp'.leader}
      <3>1. loaded' = loaded \/ loaded' = disp.leader
        BY <1>4, MainAreaLoads DEF LayoutTypeSet, MainAreaSame
      <3>2. disp'.leader = disp.leader
        BY <2>7 DEF Remade
      <3> QED  BY <3>1, <3>2
    <2>9. Agree(disp', images', stage, Order.given, loaded', unseen)
      BY <2>4, <2>5, <2>7, <2>8, AgreeRemade
    <2>10. stage' = stage /\ unseen' = unseen
      BY <1>2
    <2> QED  BY <1>1, <1>2, <2>9, <2>10 DEF ListInv
  <1> QED  BY <1>3, <1>4

(* The split line is moved by hand. *)
LEMMA SplitLineKeeps ==
    ASSUME ListInv, NEW moved, SplitLineSet(moved) PROVE ListInv'
  <1>1. Settings'
    BY StepsCounted DEF ListInv, Settings, SplitLineSet, Step
  <1>2. UNCHANGED <<stage, splitOrder, reverse, unseen, loaded>>
    BY DEF SplitLineSet, Step
  <1>3. PICK rec : \/ disp' = InvalidatedThumbnail(disp, loaded, rec) /\ \E ids : images' = ThumbImages(images, rec, ids, stage)
                   \/ disp' = disp /\ images' = images
    BY DEF SplitLineSet, Thumbnails
  <1>4. ImagesOK(images') /\ Ids(images') = Ids(images)
    BY <1>3, ThumbImagesOf DEF ListInv, Agree
  <1> QED  BY <1>1, <1>2, <1>3, <1>4, ThumbnailKeeps

(* The split line is set back to automatic. *)
LEMMA SplitLineAutomaticKeeps == ListInv /\ SplitLineAutomatic => ListInv'
  <1> SUFFICES ASSUME ListInv, SplitLineAutomatic PROVE ListInv'
    OBVIOUS
  <1>1. Settings'
    BY StepsCounted DEF ListInv, Settings, SplitLineAutomatic, Step
  <1>2. UNCHANGED <<stage, splitOrder, reverse, unseen, images, disp>> /\ loaded' = disp.leader
    BY MainAreaLoads DEF SplitLineAutomatic, Step
  <1>3. ImagesOK(images)
    BY DEF ListInv, Agree
  <1> QED  BY <1>1, <1>2, <1>3, ThumbnailKeeps

(* A removed half is brought back. *)
LEMMA UnremoveKeeps ==
    ASSUME ListInv, NEW sub, Unremove(sub) PROVE ListInv'
  <1> DEFINE imgs == UnremovePage(images, PageId(ImageOf(loaded), sub))
  <1>1. Settings'
    BY StepsCounted DEF ListInv, Settings, Unremove, Step
  <1>2. /\ UNCHANGED <<stage, splitOrder, reverse, unseen, loaded>>
        /\ disp' = InvalidatedThumbnail(disp, loaded, record)
        /\ images' = ThumbImages(imgs, record, MadeFor(loaded), stage)
    BY DEF Unremove, Step, Thumbnails
  <1>3. ImagesOK(imgs) /\ Ids(imgs) = Ids(images)
    BY UnremovePageOf DEF ListInv, Agree
  <1> HIDE DEF imgs
  <1>4. ImagesOK(images') /\ Ids(images') = Ids(images)
    BY <1>2, <1>3, ThumbImagesOf
  <1> QED  BY <1>1, <1>2, <1>4, ThumbnailKeeps

(* The steps of a task and of the result it hands over, which never
   change what is shown except for one thumbnail. *)
LEMMA ProgramKeeps == ListInv /\ Program => ListInv'
  <1> SUFFICES ASSUME ListInv, Program PROVE ListInv'
    OBVIOUS
  <1> DEFINE Kept == Settings' /\ UNCHANGED <<stage, splitOrder, reverse, unseen, loaded>>
  <1>1. ImagesOK(images) /\ Settings
    BY DEF ListInv, Agree
  <1>2. ASSUME UNCHANGED <<rotation, stage, splitOrder, reverse, steps, unseen, loaded>> PROVE Kept
    BY <1>1, <1>2 DEF Settings
  <1>3. ASSUME TaskTaken \/ RecordRead \/ (\E type \in PageLayoutTypes : LayoutEstimated(type)) \/ LayoutStored \/ TaskFinished
        PROVE  Kept /\ disp' = disp /\ images' = images
    BY <1>2, <1>3 DEF TaskTaken, RecordRead, LayoutEstimated, LayoutStored, TaskFinished, project
  <1>4. ASSUME PagesSet PROVE Kept /\ disp' = disp /\ ImagesOK(images') /\ Ids(images') = Ids(images)
    <2>1. Kept /\ disp' = disp
      BY <1>2, <1>4 DEF PagesSet
    <2>2. \E ids, two : images' = SetNumPages(images, ids, two)
      BY <1>4 DEF PagesSet, SetLayoutTypeFor
    <2> QED  BY <1>1, <2>1, <2>2, SetNumPagesOf
  <1>5. ASSUME ResultShown
        PROVE  /\ Kept /\ disp' = InvalidatedThumbnail(disp, result.page, record)
               /\ ImagesOK(images') /\ Ids(images') = Ids(images)
    <2>1. Kept /\ disp' = InvalidatedThumbnail(disp, result.page, record)
      BY <1>2, <1>5 DEF ResultShown
    <2>2. \E ids : images' = ThumbImages(images, record, ids, stage)
      BY <1>5 DEF ResultShown, Thumbnails
    <2> QED  BY <1>1, <2>1, <2>2, ThumbImagesOf
  <1>6. /\ Kept /\ (disp' = InvalidatedThumbnail(disp, result.page, record) \/ disp' = disp)
        /\ ImagesOK(images') /\ Ids(images') = Ids(images)
    <2> HIDE DEF Kept
    <2> QED  BY <1>1, <1>3, <1>4, <1>5 DEF Program
  <1> QED  BY <1>6, ThumbnailKeeps

(* A list that was reset or made again is the list of the project, whatever is
   selected in it then. *)
LEMMA AgreeAnew ==
    ASSUME NEW list, NEW imgs, ImagesOK(imgs), NEW st \in 0 .. 2, NEW order, Good(list, imgs, st, order.given),
           NEW r, Whole(r), SameItems(list, r), Leads(r), NEW blind, ~blind => Tidy(r),
           NEW new, ImagesOK(new), Ids(new) = Ids(imgs),
           NEW load \in PageIds \cup {NoPage}, st < 2 /\ load # NoPage => load = r.leader
    PROVE  Agree(r, new, st, order.given, load, blind)
  <1>1. Good(r, imgs, st, order.given)
    BY GoodSame
  <1>2. Good(r, new, st, order.given)
    BY <1>1, GoodImages
  <1> QED  BY <1>2 DEF Agree

(* MainWindow::filterSelectionChanged: another view or the same, always
   with reset(). *)
LEMMA StageKeeps ==
    ASSUME ListInv, NEW st \in 0 .. 2, FilterSelectionChanged(st)
    PROVE  ListInv' /\ Ordered(disp'.items, OrderProvider(record, st, splitOrder, reverse))
  <1> DEFINE imgs == IF stage = 0 THEN PageOrientationUpdate(images) ELSE images
             old == [disp EXCEPT !.view = ViewOf(st)]
             order == OrderProvider(record, st, splitOrder, reverse)
             list == Reset(old, PagesNow(imgs, st), "KEEP_SELECTION", IncompletePages(record, st), order)
             seen == EnsurePageVisible(list, SelectedItems(disp), disp.leader, "KEEP_SELECTION")
  <1>1. Settings'
    BY StepsCounted DEF ListInv, Settings, FilterSelectionChanged, Step
  <1>2. /\ stage' = st /\ disp' = seen /\ unseen' = unseen /\ splitOrder' = splitOrder /\ reverse' = reverse
        /\ images' = ThumbImages(imgs, record, ImagesShown(list), st)
        /\ loaded' = seen.leader
    <2>1. loaded' = seen.leader
      <3> HIDE DEF seen
      <3>1. \/ seen.leader = NoPage /\ loaded' = NoPage
            \/ UpdateMainArea(seen, st)
        BY DEF FilterSelectionChanged, seen
      <3> QED  BY <3>1, MainAreaLoads DEF UpdateMainArea
    <2> QED  BY <2>1 DEF FilterSelectionChanged, Step, Thumbnails
  <1>3. ImagesOK(imgs) /\ Ids(imgs) = Ids(images)
    BY SetNumPagesOf DEF ListInv, Agree, PageOrientationUpdate, AutoSetLayoutTypeFor
  <1>4. Whole(old) /\ old.view = ViewOf(st) /\ (~unseen => Tidy(old))
    BY ViewSet DEF ListInv, Agree, Good
  <1>5. Total(order) /\ Order'.given = order.given
    BY <1>2, OrderIsTotal, OrderGiven DEF Order
  <1>6. PagesNow(imgs, st) \in Seq(PageIds) /\ Distinct(PagesNow(imgs, st))
    BY <1>3, PagesNowAre
  <1> HIDE DEF imgs, old, order
  <1>7. /\ Good(list, imgs, st, order.given) /\ Whole(list) /\ (~unseen => Tidy(list)) /\ Fits(list)
        /\ Ordered(list.items, order)
    <2>1. Good(list, imgs, st, order.given)
      BY <1>3, <1>4, <1>5, GoodReset
    <2>2. (~unseen => Tidy(list)) /\ Ordered(list.items, order)
      BY <1>4, <1>5, <1>6, ResetOf DEF Ordered
    <2> QED  BY <2>1, <2>2 DEF Good
  <1> HIDE DEF list
  <1>8. Whole(seen) /\ SameItems(list, seen) /\ Leads(seen) /\ (~unseen => Tidy(seen))
    BY <1>7, EnsurePageVisibleOf
  <1> HIDE DEF seen
  <1>9. ImagesOK(images') /\ Ids(images') = Ids(imgs)
    BY <1>2, <1>3, ThumbImagesOf
  <1>10. seen.leader \in PageIds \cup {NoPage}
    BY <1>8, LeaderIsPage
  <1>11. Agree(seen, images', st, order.given, loaded', unseen)
    BY <1>2, <1>3, <1>7, <1>8, <1>9, <1>10, AgreeAnew
  <1>12. Ordered(disp'.items, order)
    BY <1>2, <1>7, <1>8 DEF SameItems
  <1> QED  BY <1>1, <1>2, <1>5, <1>11, <1>12 DEF ListInv, order

(* A leader that is shown in the list anew goes on leading. *)
LEMMA LeaderStays ==
    ASSUME ListInv, stage < 2, disp.leader # NoPage
    PROVE  disp.leader \in ToSet(PagesNow(images, stage)) /\ ViewOf(stage) = "IMAGE_VIEW"
  <1>1. Whole(disp) /\ Shown(disp) = ToSet(PagesNow(images, stage))
    BY DEF ListInv, Agree, Good
  <1>2. disp.leader \in Shown(disp)
    BY <1>1 DEF Whole, Frame
  <1>3. ViewOf(stage) = "IMAGE_VIEW"
    BY DEF ViewOf
  <1> QED  BY <1>1, <1>2, <1>3

(* The order of the thumbnails is chosen for the stage. *)
LEMMA OrderingKeeps ==
    ASSUME ListInv, PageOrderingChanged
    PROVE  ListInv' /\ Ordered(disp'.items, OrderProvider(record, stage, ~splitOrder, reverse))
  <1> DEFINE order == OrderProvider(record, stage, ~splitOrder, reverse)
             pages == PagesNow(images, stage)
             list == Reset(disp, pages, "KEEP_SELECTION", IncompleteNow, order)
             seen == EnsurePageVisible(list, SelectedItems(disp), disp.leader, "KEEP_SELECTION")
  <1>1. Settings'
    BY StepsCounted DEF ListInv, Settings, PageOrderingChanged, Step, MainAreaSame
  <1>2. /\ stage = 1 /\ stage' = stage /\ disp' = seen /\ unseen' = unseen
        /\ splitOrder' = ~splitOrder /\ reverse' = reverse /\ loaded' = loaded
        /\ images' = ThumbImages(images, record, ImagesShown(list), stage)
    BY DEF PageOrderingChanged, Step, Thumbnails, MainAreaSame
  <1>3. /\ ImagesOK(images) /\ Whole(disp) /\ (~unseen => Tidy(disp)) /\ disp.view = ViewOf(stage) /\ stage \in 0 .. 2
        /\ loaded \in PageIds \cup {NoPage} /\ (loaded # NoPage => loaded = disp.leader)
        /\ Shown(disp) = ToSet(pages)
    BY <1>2 DEF ListInv, Agree, Good, Settings
  <1>4. Total(order) /\ Order'.given = order.given
    BY <1>2, OrderIsTotal, OrderGiven DEF Order
  <1>5. pages \in Seq(PageIds) /\ Distinct(pages)
    BY <1>3, PagesNowAre
  <1> HIDE DEF order
  <1>6. Good(list, images, stage, order.given) /\ Whole(list) /\ Fits(list) /\ list.view = ViewOf(stage)
    BY <1>3, <1>4, GoodReset DEF Good
  <1> HIDE DEF pages
  <1>7. /\ Shown(list) = ToSet(pages) /\ (~unseen => Tidy(list))
        /\ disp.leader \in ToSet(pages) => list.leader = disp.leader
        /\ Ordered(list.items, order)
    BY <1>3, <1>4, <1>5, ResetOf DEF Ordered
  <1> HIDE DEF list
  <1>8. Whole(seen) /\ SameItems(list, seen) /\ Leads(seen) /\ (~unseen => Tidy(seen))
    BY <1>6, <1>7, EnsurePageVisibleOf
  <1>9. loaded # NoPage => loaded = seen.leader
    <2> SUFFICES ASSUME loaded # NoPage PROVE loaded = seen.leader
      OBVIOUS
    <2>1. loaded = disp.leader /\ disp.leader # NoPage
      BY <1>3
    <2>2. disp.leader \in ToSet(pages) /\ ViewOf(stage) = "IMAGE_VIEW"
      BY <1>2, <2>1, LeaderStays DEF pages
    <2>3. list.leader = disp.leader
      BY <1>7, <2>2
    <2>4. SelectedItems(disp) \subseteq Shown(list)
      <3>1. disp.byState \in Seq(PageIds) /\ ToSet(disp.byState) = Shown(disp)
        BY <1>3 DEF Whole, Frame, Listed
      <3> QED  BY <1>3, <1>7, <3>1, SelectedItemsOf
    <2> QED  BY <1>6, <2>1, <2>2, <2>3, <2>4, EnsurePageVisibleOf
  <1> HIDE DEF seen
  <1>10. ImagesOK(images') /\ Ids(images') = Ids(images)
    BY <1>2, <1>3, ThumbImagesOf
  <1>11. Agree(seen, images', stage, order.given, loaded', unseen)
    BY <1>2, <1>3, <1>6, <1>8, <1>9, <1>10, AgreeAnew
  <1>12. Ordered(disp'.items, order)
    BY <1>2, <1>7, <1>8 DEF SameItems
  <1> QED  BY <1>1, <1>2, <1>4, <1>11, <1>12 DEF ListInv, order

(* The order is inverted: reset() when the natural order comes back,
   invalidateAllThumbnails() otherwise. *)
LEMMA InverseOrderKeeps ==
    ASSUME ListInv, InverseOrderToggled
    PROVE  ListInv' /\ Ordered(disp'.items, OrderProvider(record, stage, splitOrder, ~reverse))
  <1> DEFINE order == OrderProvider(record, stage, splitOrder, ~reverse)
             pages == PagesNow(images, stage)
             anew == Reset(disp, pages, "KEEP_SELECTION", IncompleteNow, order)
             again == InvalidateAll(disp, IncompleteNow, order)
             list == IF ~order.given THEN anew ELSE again
             page == SelectedPageGet(list.current, ViewOf(stage))
             seen == EnsurePageVisible(list, {page}, list.leader, "KEEP_SELECTION")
  <1>1. Settings'
    BY StepsCounted DEF ListInv, Settings, InverseOrderToggled, Step
  <1>2. /\ stage' = stage /\ unseen' = unseen /\ splitOrder' = splitOrder /\ reverse' = ~reverse /\ loaded' = loaded
        /\ disp' = IF list.current = NoPage THEN list ELSE seen
        /\ images' = ThumbImages(images, record, ImagesShown(list), stage)
    BY DEF InverseOrderToggled, Step, Thumbnails, MainAreaSame
  <1>3. /\ ImagesOK(images) /\ Whole(disp) /\ Frame(disp) /\ (~unseen => Tidy(disp)) /\ disp.view = ViewOf(stage)
        /\ stage \in 0 .. 2 /\ Fits(disp) /\ Leads(disp) /\ Good(disp, images, stage, Order.given)
        /\ loaded \in PageIds \cup {NoPage} /\ (stage < 2 /\ loaded # NoPage => loaded = disp.leader)
    BY DEF ListInv, Agree, Good, Settings, Whole
  <1>4. Total(order) /\ Order'.given = order.given
    BY <1>2, OrderIsTotal, OrderGiven DEF Order
  <1>5. pages \in Seq(PageIds) /\ Distinct(pages)
    BY <1>3, PagesNowAre
  <1>6. stage < 2 /\ disp.leader # NoPage => disp.leader \in ToSet(pages) /\ ViewOf(stage) = "IMAGE_VIEW"
    BY LeaderStays
  <1> HIDE DEF order
  <1> DEFINE Made(made) == /\ Good(made, images, stage, order.given) /\ Whole(made) /\ Fits(made) /\ made.view = ViewOf(stage)
                           /\ ~unseen => Tidy(made)
                           /\ stage < 2 /\ disp.leader # NoPage => made.leader = disp.leader /\ Leads(made)
                           /\ made.current = NoPage => made.leader = NoPage
                           /\ Ordered(made.items, order)
  <1>7. Made(anew)
    <2>1. Good(anew, images, stage, order.given) /\ Whole(anew) /\ Fits(anew) /\ anew.view = ViewOf(stage)
      BY <1>3, <1>4, GoodReset DEF Good
    <2> HIDE DEF pages
    <2>2. /\ ~unseen => Tidy(anew)
          /\ anew.leader # NoPage => anew.current # NoPage
          /\ disp.leader \in ToSet(pages) => anew.leader = disp.leader /\ (Fits(anew) => Leads(anew))
          /\ Ordered(anew.items, order)
      BY <1>3, <1>4, <1>5, ResetOf DEF Ordered
    <2> HIDE DEF anew
    <2> QED  BY <1>6, <2>1, <2>2
  <1>8. order.given => Made(again)
    <2> SUFFICES ASSUME order.given PROVE Made(again)
      OBVIOUS
    <2>1. Remade(disp, again) /\ again.current = disp.current /\ Ordered(again.items, order)
      BY <1>3, <1>4, InvalidateAllOf DEF Ordered
    <2> HIDE DEF again
    <2>2. Good(again, images, stage, order.given)
      BY <1>3, <2>1, GoodRemade
    <2>3. /\ again.leader = disp.leader /\ Leads(again) /\ (~unseen => Tidy(again)) /\ Whole(again)
          /\ Fits(again) /\ again.view = ViewOf(stage)
      BY <1>3, <2>1 DEF Remade
    <2>4. again.current = NoPage => again.leader = NoPage
      <3>1. SelectedPageGet(NoPage, disp.view) = NoPage
        BY DEF SelectedPageGet, NoPage, PageId, ImageOf
      <3> QED  BY <1>3, <2>1, <2>3, <3>1 DEF Leads
    <2> QED  BY <2>1, <2>2, <2>3, <2>4
  <1> HIDE DEF anew, again, pages
  <1>9. Made(list)
    <2> HIDE DEF Made
    <2> QED  BY <1>7, <1>8
  <1> HIDE DEF list
  <1>10. Whole(seen) /\ SameItems(list, seen) /\ Leads(seen) /\ (~unseen => Tidy(seen))
    BY <1>9, EnsurePageVisibleOf
  <1>11. stage < 2 /\ loaded # NoPage /\ list.current # NoPage => loaded = seen.leader
    <2> SUFFICES ASSUME stage < 2, loaded # NoPage PROVE loaded = seen.leader
      OBVIOUS
    <2>1. loaded = list.leader /\ list.leader # NoPage /\ Leads(list) /\ list.view = "IMAGE_VIEW"
      BY <1>3, <1>6, <1>9
    <2>2. page = list.leader
      BY <1>9, <2>1 DEF Leads
    <2>3. list.leader \in Shown(list)
      BY <1>9, <2>1 DEF Whole, Frame
    <2>4. {page} \subseteq Shown(list)
      BY <2>2, <2>3
    <2>5. Whole(list) /\ Fits(list)
      BY <1>9
    <2> HIDE DEF page
    <2> QED  BY <2>1, <2>4, <2>5, EnsurePageVisibleOf
  <1> HIDE DEF seen
  <1>12. ImagesOK(images') /\ Ids(images') = Ids(images)
    BY <1>2, <1>3, ThumbImagesOf
  <1>13. Agree(disp', images', stage, order.given, loaded', unseen)
    <2>1. CASE list.current = NoPage
      <3>1. SameItems(list, list) /\ list.leader = NoPage /\ Leads(list) /\ disp' = list
        BY <1>2, <1>9, <2>1 DEF SameItems, Leads
      <3>2. ~(stage < 2 /\ loaded # NoPage)
        BY <1>3, <1>9, <3>1
      <3> QED  BY <1>2, <1>3, <1>9, <1>12, <3>1, <3>2, AgreeAnew
    <2>2. CASE list.current # NoPage
      <3>1. disp' = seen
        BY <1>2, <2>2
      <3> QED  BY <1>2, <1>3, <1>9, <1>10, <1>11, <1>12, <2>2, <3>1, AgreeAnew
    <2> QED  BY <2>1, <2>2
  <1>14. Ordered(disp'.items, order)
    BY <1>2, <1>9, <1>10 DEF SameItems
  <1> QED  BY <1>1, <1>2, <1>4, <1>13, <1>14 DEF ListInv, order

(* A project that is opened is shown as it is. *)
LEMMA InitKeeps == Init => ListInv
  <1> SUFFICES ASSUME Init PROVE ListInv
    OBVIOUS
  <1> DEFINE old == EmptyList(ViewOf(stage), NoPage)
             list == Reset(old, PagesNow(images, stage), "RESET_SELECTION", IncompleteNow, Order)
             seen == EnsurePageVisible(list, {list.items[1].page}, NoPage, "KEEP_SELECTION")
  <1>1. Settings
    <2>1. 0 \in Rotations /\ 0 \in 0 .. MaxSteps
      BY PageListAssumption DEF Rotations
    <2>2. rotation = [id \in Images |-> 0] /\ stage = 0 /\ splitOrder = FALSE /\ reverse = FALSE /\ steps = 0
      BY Zenon DEF Init
    <2>3. rotation \in [Images -> Rotations]
      BY <2>1, <2>2
    <2>4. stage \in 0 .. 2
      BY <2>2
    <2>5. splitOrder \in BOOLEAN /\ reverse \in BOOLEAN
      BY <2>2, Zenon
    <2>6. steps \in 0 .. MaxSteps
      BY <2>2, PageListAssumption
    <2> QED  BY <2>3, <2>4, <2>5, <2>6 DEF Settings
  <1>2. ImagesOK(images)
    <2> DEFINE ids == Ascending(Loaded)
    <2>1. PICK types : images \in {descs \in [DOMAIN ids -> ImageDescs] :
                                     \A k \in DOMAIN ids : descs[k] \in FileDescs(ids[k], types[ids[k]])}
      BY Zenon DEF Init
    <2>2. /\ Cardinality(Loaded) \in Nat
          /\ ids \in [1 .. Cardinality(Loaded) -> Loaded]
          /\ \A i, j \in 1 .. Cardinality(Loaded) : i < j => ids[i] < ids[j]
      <3>1. Loaded \in SUBSET Int /\ IsFiniteSet(Loaded)
        BY PageListAssumption, ImageAssumption
      <3>2. /\ Cardinality(Loaded) \in Nat
            /\ Ascending(Loaded) \in [1 .. Cardinality(Loaded) -> Loaded]
            /\ \A i, j \in 1 .. Cardinality(Loaded) : i < j => Ascending(Loaded)[i] < Ascending(Loaded)[j]
        BY <3>1, AscendingOf
      <3> QED  BY <3>2
    <2> DEFINE n == Cardinality(Loaded)
    <2> HIDE DEF ids, n
    <2>3. /\ images \in [1 .. n -> ImageDescs] /\ n \in Nat
          /\ \A k \in 1 .. n : images[k] \in FileDescs(ids[k], types[ids[k]])
      BY <2>1, <2>2 DEF n
    <2>4. images \in Seq(ImageDescs) /\ Len(images) = n /\ DOMAIN images = 1 .. n
      BY <2>3, ListOf
    <2>5. \A id, type : \A desc \in FileDescs(id, type) : desc.id = id /\ DescOK(desc)
      <3>1. \A id, num : /\ ImageDesc(id, num).id = id /\ DescOK(ImageDesc(id, num))
                         /\ [ImageDesc(id, 1) EXCEPT !.leftHalfRemoved = TRUE].id = id
                         /\ DescOK([ImageDesc(id, 1) EXCEPT !.leftHalfRemoved = TRUE])
        BY DEF ImageDesc, DescOK
      <3> SUFFICES ASSUME NEW id, NEW type, NEW desc \in FileDescs(id, type) PROVE desc.id = id /\ DescOK(desc)
        OBVIOUS
      <3>2. \/ \E num : desc = ImageDesc(id, num)
            \/ desc = [ImageDesc(id, 1) EXCEPT !.leftHalfRemoved = TRUE]
        <4>1. \/ desc \in {ImageDesc(id, AdviseNumberOfLogicalPages(id, 0))}
              \/ desc \in {ImageDesc(id, 2), [ImageDesc(id, 1) EXCEPT !.leftHalfRemoved = TRUE]}
              \/ desc \in {ImageDesc(id, 1)}
          BY DEF FileDescs
        <4> QED  BY <4>1
      <3>3. ASSUME NEW num, desc = ImageDesc(id, num) PROVE desc.id = id /\ DescOK(desc)
        BY <3>1, <3>3
      <3>4. ASSUME desc = [ImageDesc(id, 1) EXCEPT !.leftHalfRemoved = TRUE] PROVE desc.id = id /\ DescOK(desc)
        BY <3>4 DEF ImageDesc, DescOK
      <3> QED  BY <3>2, <3>3, <3>4
    <2>6. \A k \in 1 .. n : images[k].id = ids[k] /\ DescOK(images[k])
      BY <2>3, <2>5
    <2>7. \A i, j \in 1 .. n : i # j => images[i].id # images[j].id
      <3> SUFFICES ASSUME NEW i \in 1 .. n, NEW j \in 1 .. n, i # j PROVE images[i].id # images[j].id
        OBVIOUS
      <3>1. i < j \/ j < i
        BY <2>3
      <3>2. ids[i] < ids[j] \/ ids[j] < ids[i]
        BY <2>2, <3>1 DEF n
      <3>3. ids[i] \in Int /\ ids[j] \in Int
        <4>1. ids[i] \in Loaded /\ ids[j] \in Loaded
          BY <2>2 DEF n
        <4>2. Loaded \in SUBSET Int
          BY PageListAssumption, ImageAssumption
        <4> QED  BY <4>1, <4>2
      <3> QED  BY <2>6, <3>2, <3>3
    <2> QED  BY <2>4, <2>6, <2>7 DEF ImagesOK, Ids, Distinct
  <1>3. stage = 0 /\ disp = seen /\ loaded = disp.leader /\ unseen = FALSE /\ stage \in 0 .. 2
    BY DEF Init
  <1>4. Whole(old) /\ Tidy(old) /\ old.view = ViewOf(stage)
    <2>1. old = [items |-> << >>, byState |-> << >>, selected |-> {}, leaders |-> {},
                 leader |-> NoPage, view |-> ViewOf(stage), current |-> NoPage]
      BY DEF EmptyList
    <2> HIDE DEF old
    <2>2. << >> \in Seq(Items) /\ << >> \in Seq(PageIds) /\ DOMAIN << >> = {} /\ ToSet(<< >>) = {}
      BY DEF ToSet
    <2>3. Listed(old)
      <3>1. old.items = << >> /\ old.byState = << >>
        BY <2>1
      <3>2. Pages(old.items) = [k \in {} |-> old.items[k].page] /\ Shown(old) = {}
        BY <2>2, <3>1 DEF Pages, Shown, PagesOf
      <3>3. Distinct(Pages(old.items)) /\ Distinct(old.byState)
        BY <2>2, <3>1, <3>2 DEF Distinct
      <3> QED  BY <2>2, <3>1, <3>2, <3>3 DEF Listed
    <2>4. ListShape(old)
      BY <2>1 DEF ListShape
    <2>5. Whole(old)
      BY <2>1, <2>3, <2>4 DEF Whole, Frame
    <2>6. Tidy(old)
      BY <2>1, <2>2 DEF Tidy, Leading, Before
    <2> QED  BY <2>1, <2>5, <2>6
  <1>5. Total(Order)
    BY OrderIsTotal DEF Order
  <1>6. PagesNow(images, stage) \in Seq(PageIds) /\ Distinct(PagesNow(images, stage))
    BY <1>2, <1>3, PagesNowAre
  <1> HIDE DEF old
  <1>7. Good(list, images, stage, Order.given) /\ Whole(list) /\ Fits(list) /\ Tidy(list)
    <2>1. Good(list, images, stage, Order.given)
      BY <1>2, <1>3, <1>4, <1>5, GoodReset
    <2>2. Tidy(list)
      BY <1>4, <1>5, <1>6, ResetOf
    <2> QED  BY <2>1, <2>2 DEF Good
  <1> HIDE DEF list
  <1>8. Whole(seen) /\ SameItems(list, seen) /\ Leads(seen) /\ Tidy(seen)
    BY <1>7, EnsurePageVisibleOf
  <1> HIDE DEF seen
  <1>9. loaded \in PageIds \cup {NoPage} /\ loaded = seen.leader
    BY <1>3, <1>8, LeaderIsPage
  <1>10. Agree(seen, images, stage, Order.given, loaded, unseen)
    BY <1>2, <1>3, <1>7, <1>8, <1>9, AgreeAnew
  <1> QED  BY <1>1, <1>3, <1>10 DEF ListInv

(* Whole images that are removed leave the pages of the project as they leave
   the list. *)
LEMMA ProjectShrinks ==
    ASSUME NEW imgs, ImagesOK(imgs), NEW st \in 0 .. 2, st < 2, NEW pages, \A p \in pages : SubOf(p) = SINGLE_PAGE
    PROVE  LET q == PagesNow(imgs, st)
           IN  /\ PagesNow(RemovePages(imgs, pages), st) = Only(q, {k \in DOMAIN q : q[k] \notin pages})
               /\ ToSet(PagesNow(RemovePages(imgs, pages), st)) = ToSet(q) \ pages
  <1> DEFINE q == ImageSequence(imgs)
             new == RemovePages(imgs, pages)
             ids == Ids(imgs)
             P == {k \in DOMAIN imgs : PageId(imgs[k].id, SINGLE_PAGE) \notin pages}
             Q == {k \in DOMAIN q : q[k] \notin pages}
  <1>1. ImagesOK(new) /\ Ids(new) = Only(ids, P)
    BY RemovePagesOf
  <1>2. /\ q \in Seq(PageIds) /\ DOMAIN q = 1 .. Len(imgs) /\ q = Mapped(Singles, ids)
        /\ \A k \in 1 .. Len(imgs) : q[k] = Single(imgs[k].id)
    BY ImageSequenceOf
  <1>3. ids \in Seq(Images) /\ DOMAIN ids = 1 .. Len(imgs) /\ DOMAIN imgs = 1 .. Len(imgs)
    BY IdsAre, ImagesAre
  <1>4. P = Q /\ P \in SUBSET (DOMAIN ids)
    BY <1>2, <1>3 DEF Single
  <1>5. PagesNow(new, st) = ImageSequence(new) /\ ImageSequence(new) = Mapped(Singles, Ids(new)) /\ PagesNow(imgs, st) = q
    BY <1>1, PagesNowAre, ImageSequenceOf
  <1> HIDE DEF q, new, ids, P, Q
  <1>6. Mapped(Singles, Only(ids, P)) = Only(Mapped(Singles, ids), P)
    BY <1>3, <1>4, MappedOnly
  <1>7. PagesNow(new, st) = Only(q, Q)
    BY <1>1, <1>2, <1>4, <1>5, <1>6
  <1>8. ToSet(Only(q, Q)) = {q[i] : i \in Q}
    <2>1. Q \subseteq DOMAIN q
      BY DEF Q
    <2> QED  BY <1>2, <2>1, OnlyOf
  <1>9. {q[i] : i \in Q} = ToSet(q) \ pages
    BY DEF Q, ToSet
  <1> QED  BY <1>5, <1>7, <1>8, <1>9 DEF q, new, Q

(* The heir of pages that are removed is a page that stays, if one does. *)
LEMMA NextSelectionOf ==
    ASSUME NEW list, Listed(list), NEW pages, pages # {}, pages \subseteq Shown(list)
    PROVE  /\ NextSelection(list, pages) \subseteq Shown(list) \ pages
           /\ NextSelection(list, pages) = {} => Shown(list) \subseteq pages
  <1> DEFINE items == list.items
             Gone(k) == items[k].page \in pages
             kept == {k \in DOMAIN items : ~Gone(k)}
             before == {k \in kept : \A j \in 1 .. k : ~Gone(j)}
             lowest == {k \in kept : \A j \in kept : k <= j}
             highest == {k \in before : \A j \in before : j <= k}
             heir == NextSelection(list, pages)
             N == Len(items)
  <1>1. /\ items \in Seq(Items) /\ N \in Nat /\ DOMAIN items = 1 .. N
        /\ Shown(list) = {items[k].page : k \in 1 .. N}
    BY ElementsOf DEF Listed, Shown, PagesOf
  <1>2. heir = IF Gone(1) THEN {items[k].page : k \in lowest}
               ELSE IF kept = DOMAIN items THEN {}
               ELSE {items[k].page : k \in highest}
    BY DEF NextSelection
  <1> HIDE DEF items, N
  <1>3. kept \subseteq 1 .. N /\ before \subseteq kept /\ lowest \subseteq kept /\ highest \subseteq kept
    BY <1>1
  <1>4. \A k \in kept : items[k].page \in Shown(list) \ pages
    BY <1>1, <1>3
  <1>5. N >= 1 /\ kept # DOMAIN items
    <2>1. PICK k \in 1 .. N : Gone(k)
      BY <1>1
    <2> QED  BY <1>1, <2>1
  <1>6. heir \subseteq Shown(list) \ pages
    <2> HIDE DEF kept, before, lowest, highest, heir, Gone
    <2> QED  BY <1>2, <1>3, <1>4
  <1>7. Gone(1) /\ kept # {} => lowest # {}
    <2> SUFFICES ASSUME kept # {} PROVE lowest # {}
      OBVIOUS
    <2>1. kept \in SUBSET Nat
      BY <1>1, <1>3
    <2> HIDE DEF kept
    <2>2. \E m \in kept : \A n \in kept : m <= n
      BY <2>1, LowestOf
    <2> QED  BY <2>2
  <1>8. ~Gone(1) => highest # {}
    <2> SUFFICES ASSUME ~Gone(1) PROVE highest # {}
      OBVIOUS
    <2>1. 1 \in kept
      BY <1>1, <1>5
    <2>2. 1 \in before
      <3>1. \A j \in 1 .. 1 : j = 1
        OBVIOUS
      <3> HIDE DEF Gone, kept
      <3> QED  BY <2>1, <3>1
    <2>3. before \in SUBSET (1 .. N) /\ before # {}
      BY <1>3, <2>2
    <2> HIDE DEF before
    <2>4. \E m \in before : \A n \in before : n <= m
      BY <1>1, <2>3, HighestOf
    <2> QED  BY <2>4
  <1>9. heir = {} => Shown(list) \subseteq pages
    <2> SUFFICES ASSUME heir = {} PROVE Shown(list) \subseteq pages
      OBVIOUS
    <2>1. kept = {}
      <3> HIDE DEF kept, lowest, highest, heir, Gone
      <3> QED  BY <1>2, <1>5, <1>7, <1>8
    <2> QED  BY <1>1, <2>1
  <1> QED  BY <1>6, <1>9

(* MainWindow::removeFromProject: the next page is selected first, then
   the pages leave the project, then the list. *)
LEMMA RemoveKeeps ==
    ASSUME ListInv, RemoveFromProject
    PROVE  ListInv' /\ (InOrder(disp.items, Order) => Ordered(disp'.items, Order))
  <1> DEFINE pages == SelectedItems(disp)
             imgs  == RemovePages(images, pages)
             heir  == NextSelection(disp, pages)
             h == CHOOSE page \in heir : TRUE
             chosen == IF heir = {} THEN disp ELSE SetSelection(disp, h, "RESET_SELECTION")
             list  == RemoveFromList(chosen, pages, IncompleteNow, Order)
             first == IF list.items = << >> THEN NoPage ELSE list.items[1].page
             seen  == IF heir # {} THEN EnsurePageVisible(list, heir, list.leader, "KEEP_SELECTION")
                      ELSE IF list.leader = NoPage THEN SetSelection(list, first, "RESET_SELECTION")
                      ELSE list
  <1>1. Settings'
    BY StepsCounted DEF ListInv, Settings, RemoveFromProject, Step
  <1>2. /\ pages # {} /\ disp' = seen /\ unseen' = unseen /\ stage' = stage
        /\ \E ids : images' = ThumbImages(imgs, record, ids, stage)
        /\ loaded' = seen.leader
        /\ Order'.given = Order.given
    <2>1. loaded' = seen.leader
      <3> HIDE DEF seen
      <3>1. IF seen.leader # NoPage THEN UpdateMainArea(seen, stage) ELSE loaded' = NoPage
        BY DEF RemoveFromProject, seen
      <3> QED  BY <3>1, MainAreaLoads DEF UpdateMainArea
    <2>2. UNCHANGED <<stage, splitOrder, reverse>>
      BY DEF RemoveFromProject
    <2> QED  BY <2>1, <2>2, GivenAgain DEF RemoveFromProject, Step, Thumbnails
  <1>3. /\ ImagesOK(images) /\ Whole(disp) /\ Frame(disp) /\ Listed(disp) /\ (~unseen => Tidy(disp))
        /\ stage \in 0 .. 2 /\ Fits(disp) /\ Leads(disp) /\ Good(disp, images, stage, Order.given)
    BY DEF ListInv, Agree, Good, Settings, Whole, Frame
  <1>4. /\ pages \subseteq Shown(disp) /\ pages \subseteq disp.selected /\ disp.leader # NoPage
    <2>1. disp.byState \in Seq(PageIds)
      BY <1>3 DEF Listed
    <2> QED  BY <1>2, <1>3, <2>1, SelectedItemsOf DEF Frame
  <1>5. heir \subseteq Shown(disp) \ pages /\ (heir = {} => Shown(disp) \subseteq pages)
    <2> HIDE DEF pages
    <2> QED  BY <1>2, <1>3, <1>4, NextSelectionOf
  <1>6. Total(Order)
    BY OrderIsTotal DEF Order
  <1> HIDE DEF heir
  <1>7. /\ Whole(chosen) /\ chosen.items = disp.items /\ chosen.view = disp.view /\ Shown(chosen) = Shown(disp)
        /\ ~unseen => Tidy(chosen)
        /\ chosen.leader \in pages => chosen.selected \subseteq pages
        /\ heir = {} => chosen = disp
    <2>1. CASE heir = {}
      BY <1>3, <1>5, <2>1 DEF Frame
    <2>2. CASE heir # {}
      <3>1. h \in heir
        BY <2>2
      <3>2. h \in Shown(disp) /\ h \notin pages
        BY <1>5, <3>1
      <3> HIDE DEF h
      <3> DEFINE r == SetSelection(disp, h, "RESET_SELECTION")
      <3>3. /\ Whole(r) /\ SameItems(disp, r) /\ Shown(r) = Shown(disp) /\ (Tidy(disp) => Tidy(r))
            /\ r.leader \notin pages \ {h}
        BY <1>3, <1>4, <3>2, SetSelectionOf
      <3>4. chosen = r
        BY <2>2
      <3> HIDE DEF r, chosen
      <3> QED  BY <1>3, <2>2, <3>2, <3>3, <3>4 DEF SameItems
    <2> QED  BY <2>1, <2>2
  <1> HIDE DEF chosen, pages
  <1>8. /\ Whole(list) /\ Shown(list) = Shown(chosen) \ pages /\ list.view = chosen.view
        /\ Tidy(chosen) => Tidy(list)
        /\ Fits(chosen) => Fits(list)
        /\ Fits(chosen) /\ Leads(chosen) => Leads(list)
        /\ ~Order.given => LET p == Pages(chosen.items) IN Pages(list.items) = Only(p, {k \in DOMAIN p : p[k] \notin pages})
        /\ InOrder(chosen.items, Order) => Ordered(list.items, Order)
    <2>1. Whole(chosen) /\ (chosen.leader \in pages => chosen.selected \subseteq pages)
      BY <1>7
    <2>2. WithoutPages(chosen, pages, Order, list)
      BY <1>6, <2>1, RemoveFromListOf
    <2> HIDE DEF list
    <2> QED  BY <2>2 DEF WithoutPages
  <1> HIDE DEF list
  <1>9. Fits(chosen) /\ Fits(list)
    BY <1>3, <1>7, <1>8 DEF Fits
  <1>10. Whole(seen) /\ SameItems(list, seen) /\ Leads(seen) /\ (~unseen => Tidy(seen))
    <2>1. ~unseen => Tidy(list)
      BY <1>7, <1>8
    <2>2. CASE heir # {}
      BY <1>8, <1>9, <2>1, <2>2, EnsurePageVisibleOf
    <2>3. CASE heir = {} /\ list.leader = NoPage
      <3>1. Frame(list) /\ Leads(list)
        BY <1>8, <2>3 DEF Whole, Leads
      <3> HIDE DEF first
      <3> QED  BY <1>8, <1>9, <2>1, <2>3, <3>1, SetSelectionOf
    <2>4. CASE heir = {} /\ list.leader # NoPage
      <3>1. seen = list /\ Leads(chosen)
        BY <1>3, <1>7, <2>4
      <3> QED  BY <1>8, <1>9, <2>1, <3>1 DEF SameItems
    <2> QED  BY <2>2, <2>3, <2>4
  <1> HIDE DEF seen
  <1>11. ImagesOK(imgs)
    BY <1>3, RemovePagesOf
  <1> DEFINE p == Pages(disp.items)
  <1>12. ~Order.given => Pages(list.items) = Only(p, {k \in DOMAIN p : p[k] \notin pages})
    BY <1>7, <1>8
  <1>13. stage < 2 => /\ PagesNow(imgs, stage) = LET q == PagesNow(images, stage) IN Only(q, {k \in DOMAIN q : q[k] \notin pages})
                      /\ ToSet(PagesNow(imgs, stage)) = ToSet(PagesNow(images, stage)) \ pages
    <2> SUFFICES ASSUME stage < 2
                 PROVE  /\ PagesNow(imgs, stage) = LET q == PagesNow(images, stage) IN Only(q, {k \in DOMAIN q : q[k] \notin pages})
                        /\ ToSet(PagesNow(imgs, stage)) = ToSet(PagesNow(images, stage)) \ pages
      OBVIOUS
    <2>1. disp.view = "IMAGE_VIEW"
      BY <1>3 DEF Good, ViewOf
    <2>2. \A page \in pages : SubOf(page) = SINGLE_PAGE
      BY <1>3, <1>4, <2>1 DEF Fits
    <2> QED  BY <1>3, <2>2, ProjectShrinks
  <1>14. Good(list, imgs, stage, Order.given)
    <2>1. /\ list.view = ViewOf(stage)
          /\ stage < 2 => Shown(list) = ToSet(PagesNow(imgs, stage))
          /\ stage < 2 /\ ~Order.given => Pages(list.items) = PagesNow(imgs, stage)
      BY <1>3, <1>7, <1>8, <1>12, <1>13 DEF Good
    <2>2. Direction = "LeftToRight" /\ ~Order.given => Grouped(Pages(list.items))
      <3> SUFFICES ASSUME Direction = "LeftToRight", ~Order.given PROVE Grouped(Pages(list.items))
        OBVIOUS
      <3>1. Grouped(p) /\ p \in Seq(PageIds)
        BY <1>3, PagesAre DEF Good, Listed
      <3> DEFINE P == {k \in DOMAIN p : p[k] \notin pages}
      <3>2. P \subseteq DOMAIN p
        OBVIOUS
      <3> HIDE DEF p
      <3>3. Pages(list.items) = Only(p, P)
        BY <1>12
      <3> HIDE DEF P
      <3> QED  BY <3>1, <3>2, <3>3, GroupedOnly
    <2> QED  BY <1>8, <1>9, <2>1, <2>2 DEF Good
  <1> HIDE DEF imgs, p
  <1>15. ImagesOK(images') /\ Ids(images') = Ids(imgs)
    BY <1>2, <1>11, ThumbImagesOf
  <1>16. seen.leader \in PageIds \cup {NoPage}
    BY <1>10, LeaderIsPage
  <1>17. Agree(seen, images', stage, Order.given, loaded', unseen)
    BY <1>2, <1>3, <1>10, <1>11, <1>14, <1>15, <1>16, AgreeAnew
  <1>18. InOrder(disp.items, Order) => Ordered(disp'.items, Order)
    BY <1>2, <1>7, <1>8, <1>10 DEF SameItems
  <1> QED  BY <1>1, <1>2, <1>17, <1>18 DEF ListInv

(* The pages of a new image, in the order in which they are inserted. *)
LEMMA InsertedPagesOf ==
    ASSUME NEW imgs, NEW id \in Images, NEW num \in {1, 2}, NEW where \in {"BEFORE", "AFTER"}, NEW existing,
           CanInsert(imgs, where, existing), NEW view
    PROVE  LET pages == InsertedPages(imgs, ImageDesc(id, num), where, existing, view, Direction)
               order == IF where = "BEFORE" THEN Reverse(pages) ELSE pages
           IN  \/ Len(order) = 1 /\ order[1] = Single(id)
               \/ /\ view # "IMAGE_VIEW" /\ Len(order) = 2
                  /\ \E a, b \in {LEFT_PAGE, RIGHT_PAGE} :
                        /\ a # b /\ order[1] = PageId(id, a) /\ order[2] = PageId(id, b)
                        /\ Direction = "LeftToRight" => (where = "BEFORE" => b < a) /\ (where # "BEFORE" => a < b)
  <1> DEFINE pages == InsertedPages(imgs, ImageDesc(id, num), where, existing, view, Direction)
             order == IF where = "BEFORE" THEN Reverse(pages) ELSE pages
             sub == SubPagesInOrder(Direction)
             two == /\ view # "IMAGE_VIEW" /\ Len(order) = 2
                    /\ \E a, b \in {LEFT_PAGE, RIGHT_PAGE} :
                          /\ a # b /\ order[1] = PageId(id, a) /\ order[2] = PageId(id, b)
                          /\ Direction = "LeftToRight" => (where = "BEFORE" => b < a) /\ (where # "BEFORE" => a < b)
  <1>1. pages = IF view = "IMAGE_VIEW" \/ num = 1 THEN <<Single(id)>>
                ELSE [j \in 1 .. 2 |-> PageId(id, sub[j])]
    BY DEF InsertedPages, ImageDesc, Single
  <1>2. sub = <<LEFT_PAGE, RIGHT_PAGE>> \/ (sub = <<RIGHT_PAGE, LEFT_PAGE>> /\ Direction # "LeftToRight")
    BY DEF SubPagesInOrder
  <1> HIDE DEF pages, sub
  <1>3. ASSUME view = "IMAGE_VIEW" \/ num = 1 PROVE Len(order) = 1 /\ order[1] = Single(id)
    <2>1. pages = <<Single(id)>>
      BY <1>1, <1>3
    <2>2. Len(pages) = 1 /\ pages[1] = Single(id) /\ DOMAIN pages = 1 .. 1
      BY <2>1
    <2>3. pages \in Seq({Single(id)})
      BY <2>1
    <2>4. Len(Reverse(pages)) = 1 /\ Reverse(pages)[1] = Single(id)
      <3>1. Reverse(pages) = [j \in 1 .. Len(pages) |-> pages[(Len(pages) - j) + 1]]
        BY DEF Reverse
      <3>2. Len(Reverse(pages)) = Len(pages)
        BY <2>3, ReverseOf
      <3>3. Reverse(pages)[1] = pages[(Len(pages) - 1) + 1]
        BY <2>2, <3>1
      <3>4. (Len(pages) - 1) + 1 = 1
        BY <2>2
      <3> QED  BY <2>2, <3>2, <3>3, <3>4
    <2> QED  BY <2>2, <2>4
  <1>4. ASSUME view # "IMAGE_VIEW", num # 1 PROVE two
    <2> DEFINE a == sub[1]
               b == sub[2]
    <2>1. a \in {LEFT_PAGE, RIGHT_PAGE} /\ b \in {LEFT_PAGE, RIGHT_PAGE} /\ a # b
          /\ (Direction = "LeftToRight" => a < b)
      BY <1>2 DEF LEFT_PAGE, RIGHT_PAGE
    <2>2. pages = [j \in 1 .. 2 |-> PageId(id, sub[j])]
      BY <1>1, <1>4
    <2> DEFINE S == {PageId(id, a), PageId(id, b)}
    <2>3. pages \in [1 .. 2 -> S]
      <3>1. \A j \in 1 .. 2 : j = 1 \/ j = 2
        OBVIOUS
      <3> QED  BY <2>2, <3>1
    <2>4. pages \in Seq(S) /\ Len(pages) = 2 /\ pages[1] = PageId(id, a) /\ pages[2] = PageId(id, b)
      <3> DEFINE n == 2
      <3>1. n \in Nat /\ pages \in [1 .. n -> S]
        BY <2>3
      <3> HIDE DEF S, n
      <3>2. pages \in Seq(S) /\ Len(pages) = n
        BY <3>1, ListOf
      <3> QED  BY <2>2, <3>2 DEF n
    <2>5. Len(Reverse(pages)) = 2 /\ Reverse(pages)[1] = PageId(id, b) /\ Reverse(pages)[2] = PageId(id, a)
      <3> HIDE DEF S, a, b
      <3>1. Len(Reverse(pages)) = 2
        BY <2>4, ReverseOf
      <3>2. Reverse(pages) = [j \in 1 .. 2 |-> pages[(2 - j) + 1]]
        BY <2>4 DEF Reverse
      <3> QED  BY <2>4, <3>1, <3>2
    <2> HIDE DEF a, b
    <2>6. /\ where = "BEFORE" => order = Reverse(pages)
          /\ where # "BEFORE" => order = pages
      OBVIOUS
    <2> HIDE DEF order
    <2>7. view # "IMAGE_VIEW" /\ Len(order) = 2
      BY <1>4, <2>4, <2>5, <2>6
    <2>8. \E c, d \in {LEFT_PAGE, RIGHT_PAGE} :
            /\ c # d /\ order[1] = PageId(id, c) /\ order[2] = PageId(id, d)
            /\ Direction = "LeftToRight" => (where = "BEFORE" => d < c) /\ (where # "BEFORE" => c < d)
      <3>1. CASE where = "BEFORE"
        <4>1. order[1] = PageId(id, b) /\ order[2] = PageId(id, a)
          BY <2>5, <2>6, <3>1
        <4> QED  BY <2>1, <3>1, <4>1
      <3>2. CASE where # "BEFORE"
        <4>1. order[1] = PageId(id, a) /\ order[2] = PageId(id, b)
          BY <2>4, <2>6, <3>2
        <4> QED  BY <2>1, <3>2, <4>1
      <3> QED  BY <3>1, <3>2
    <2> QED  BY <2>7, <2>8
  <1>5. (Len(order) = 1 /\ order[1] = Single(id)) \/ two
    <2> HIDE DEF order, two
    <2> QED  BY <1>3, <1>4
  <1> QED  BY <1>5 DEF pages

(* A new image has one or two logical pages, both present. *)
LEMMA NewDesc ==
    ASSUME NEW id \in Images
    PROVE  /\ AdviseNumberOfLogicalPages(id, 0) \in {1, 2}
           /\ \A num \in {1, 2} : ImageDesc(id, num) \in ImageDescs /\ DescOK(ImageDesc(id, num)) /\ ImageDesc(id, num).id = id
  <1>1. AdviseNumberOfLogicalPages(id, 0) \in {1, 2}
    BY DEF AdviseNumberOfLogicalPages
  <1>2. \A num \in {1, 2} : ImageDesc(id, num) \in ImageDescs /\ DescOK(ImageDesc(id, num)) /\ ImageDesc(id, num).id = id
    BY DEF ImageDesc, ImageDescs, DescOK
  <1> QED  BY <1>1, <1>2

(* A whole image that is inserted comes into the pages of the project where
   insert() puts it into the list. *)
LEMMA ProjectGrows ==
    ASSUME NEW imgs, ImagesOK(imgs), NEW st \in 0 .. 2, st < 2, NEW desc \in ImageDescs, DescOK(desc),
           desc.id \notin ImageIds(imgs), NEW where \in {"BEFORE", "AFTER"},
           NEW existing, CanInsert(imgs, where, existing)
    PROVE  LET new == InsertImage(imgs, desc, where, existing)
               p == PagesNow(imgs, st)
           IN  /\ ToSet(PagesNow(new, st)) = ToSet(p) \cup {Single(desc.id)}
               /\ \A h : Wanted(p, where, existing, h) => PagesNow(new, st) = InsertAt(p, h, Single(desc.id))
  <1> DEFINE new == InsertImage(imgs, desc, where, existing)
             p == ImageSequence(imgs)
             id == desc.id
             ids == Ids(imgs)
  <1>1. ImagesOK(new) /\ \E h \in 1 .. Len(imgs) + 1 :
                    /\ Ids(new) = InsertAt(Ids(imgs), h, desc.id)
                    /\ existing = NoImage => h = Len(imgs) + 1
                    /\ existing # NoImage /\ where = "BEFORE" => h <= Len(imgs) /\ imgs[h].id = existing
                    /\ existing # NoImage /\ where # "BEFORE" => h > 1 /\ imgs[h - 1].id = existing
    BY InsertImageOf
  <1>2. PICK place \in 1 .. Len(imgs) + 1 :
                    /\ Ids(new) = InsertAt(ids, place, id)
                    /\ existing = NoImage => place = Len(imgs) + 1
                    /\ existing # NoImage /\ where = "BEFORE" => place <= Len(imgs) /\ imgs[place].id = existing
                    /\ existing # NoImage /\ where # "BEFORE" => place > 1 /\ imgs[place - 1].id = existing
    BY <1>1
  <1>3. /\ p \in Seq(PageIds) /\ Len(p) = Len(imgs) /\ p = Mapped(Singles, ids) /\ Distinct(p)
        /\ \A k \in 1 .. Len(imgs) : p[k] = Single(imgs[k].id)
    BY ImageSequenceOf
  <1>4. /\ ids \in Seq(Images) /\ Len(ids) = Len(imgs) /\ Len(imgs) \in Nat
        /\ \A j, k \in 1 .. Len(imgs) : imgs[j].id = imgs[k].id => j = k
    BY IdsAre, ImagesAre
  <1>5. id \in Images
    BY DEF ImageDescs
  <1>6. /\ PagesNow(new, st) = Mapped(Singles, Ids(new)) /\ PagesNow(imgs, st) = p
    BY <1>1, PagesNowAre, ImageSequenceOf
  <1> HIDE DEF new, p, id, ids
  <1>7. Singles[id] = Single(id) /\ Single(id) \in PageIds
    BY <1>5 DEF Singles, Single, PageId, PageIds, SINGLE_PAGE
  <1>8. PagesNow(new, st) = InsertAt(p, place, Single(id))
    <2>1. Mapped(Singles, InsertAt(ids, place, id)) = InsertAt(Mapped(Singles, ids), place, Singles[id])
      BY <1>4, <1>5, MappedInsert
    <2> QED  BY <1>2, <1>3, <1>6, <1>7, <2>1
  <1>9. ToSet(InsertAt(p, place, Single(id))) = ToSet(p) \cup {Single(id)}
    <2>1. place \in 1 .. Len(p) + 1
      BY <1>3
    <2> QED  BY <1>3, <1>7, <2>1, Inserted
  <1>10. ASSUME NEW h, Wanted(p, where, existing, h) PROVE h = place
    <2>1. \A k \in 1 .. Len(imgs) : ImageOf(p[k]) = imgs[k].id
      BY <1>3 DEF Single, PageId, ImageOf
    <2>2. CASE existing = NoImage
      BY <1>2, <1>3, <1>10, <2>2 DEF Wanted
    <2>3. CASE existing # NoImage /\ where = "BEFORE"
      <3>1. h \in 1 .. Len(imgs) /\ ImageOf(p[h]) = existing
        BY <1>3, <1>10, <2>3 DEF Wanted
      <3>2. place \in 1 .. Len(imgs) /\ imgs[place].id = existing
        BY <1>2, <1>4, <2>3
      <3> QED  BY <1>4, <2>1, <3>1, <3>2
    <2>4. CASE existing # NoImage /\ where # "BEFORE"
      <3>1. h \in 2 .. Len(imgs) + 1 /\ ImageOf(p[h - 1]) = existing
        BY <1>3, <1>4, <1>10, <2>4 DEF Wanted
      <3>2. place \in 2 .. Len(imgs) + 1 /\ imgs[place - 1].id = existing
        BY <1>2, <1>4, <2>4
      <3>3. h - 1 \in 1 .. Len(imgs) /\ place - 1 \in 1 .. Len(imgs)
        BY <1>4, <3>1, <3>2
      <3>4. h - 1 = place - 1
        BY <1>4, <2>1, <3>1, <3>2, <3>3
      <3> QED  BY <3>1, <3>2, <3>4
    <2> QED  BY <2>2, <2>3, <2>4
  <1> QED  BY <1>6, <1>8, <1>9, <1>10 DEF new, id

(* The halves of a new image come next to each other into a list of pages. *)
LEMMA HalvesInserted ==
    ASSUME NEW p \in Seq(PageIds), Grouped(p), NEW id \in Images, \A k \in 1 .. Len(p) : ImageOf(p[k]) # id,
           NEW a \in {LEFT_PAGE, RIGHT_PAGE}, NEW b \in {LEFT_PAGE, RIGHT_PAGE},
           NEW where, where = "BEFORE" => b < a, where # "BEFORE" => a < b,
           NEW image, NEW h, Wanted(p, where, image, h),
           NEW g, Wanted(InsertAt(p, h, PageId(id, a)), where, id, g)
    PROVE  Grouped(InsertAt(InsertAt(p, h, PageId(id, a)), g, PageId(id, b)))
  <1> DEFINE one == InsertAt(p, h, PageId(id, a))
             q == PageId(id, a)
             r == PageId(id, b)
  <1>1. q \in PageIds /\ r \in PageIds /\ ImageOf(q) = id /\ ImageOf(r) = id /\ SubOf(q) = a /\ SubOf(r) = b
    BY DEF PageId, PageIds, ImageOf, SubOf
  <1>2. id # NoImage
    BY ImageAssumption DEF NoImage
  <1> HIDE DEF q, r
  <1>3. Grouped(one)
    BY <1>1, GroupedInsert DEF q
  <1>4. Len(p) \in Nat /\ h \in 1 .. Len(p) + 1
    BY ElementsOf DEF Wanted
  <1>5. /\ one \in Seq(PageIds) /\ Len(one) = Len(p) + 1
        /\ \A j \in 1 .. Len(p) + 1 : one[j] = IF j < h THEN p[j] ELSE IF j = h THEN q ELSE p[j - 1]
    BY <1>1, <1>4, InsertAtOf DEF q
  <1> HIDE DEF one
  <1>6. h \in 1 .. Len(one) /\ one[h] = q /\ \A k \in 1 .. Len(one) : ImageOf(one[k]) = id <=> k = h
    <2>1. h \in 1 .. Len(one) /\ one[h] = q
      BY <1>4, <1>5
    <2>2. ASSUME NEW k \in 1 .. Len(one), k # h PROVE ImageOf(one[k]) # id
      <3>1. (k \in 1 .. Len(p) /\ one[k] = p[k]) \/ (k - 1 \in 1 .. Len(p) /\ one[k] = p[k - 1])
        BY <1>4, <1>5, <2>2
      <3> QED  BY <3>1
    <2> QED  BY <1>1, <2>1, <2>2
  <1>7. Grouped(InsertAt(one, g, r))
    <2>1. Wanted(one, where, id, g)
      BY DEF one, q
    <2>2. /\ where = "BEFORE" => SubOf(r) < SubOf(one[h])
          /\ where # "BEFORE" => SubOf(one[h]) < SubOf(r)
      BY <1>1, <1>6
    <2> QED  BY <1>1, <1>2, <1>3, <1>5, <1>6, <2>1, <2>2, GroupedInsert
  <1> QED  BY <1>7 DEF one, q, r

(* MainWindow::insertImage: the image enters the project, then its pages
   enter the list one by one. *)
LEMMA InsertKeeps ==
    ASSUME ListInv, NEW id \in Images, NEW where \in {"BEFORE", "AFTER"}, NEW existing \in ImageIds(images) \cup {NoImage},
           InsertNewImage(id, where, existing)
    PROVE  ListInv' /\ (InOrder(disp.items, Order) => Ordered(disp'.items, Order))
  <1> DEFINE num == AdviseNumberOfLogicalPages(id, 0)
             desc == ImageDesc(id, num)
             imgs == InsertImage(images, desc, where, existing)
             pages == InsertedPages(images, desc, where, existing, ViewOf(stage), Direction)
             order == IF where = "BEFORE" THEN Reverse(pages) ELSE pages
             one == Insert(disp, order[1], where, existing, IncompleteNow, Order)
             list == IF Len(order) = 1 THEN one
                     ELSE Insert(one, order[2], where, id, IncompleteNow, Order)
             given == Order.given
  <1>1. Settings'
    BY StepsCounted DEF ListInv, Settings, InsertNewImage, Step
  <1>2. /\ disp' = list /\ unseen' = unseen /\ stage' = stage /\ loaded' = loaded
        /\ images' = ThumbImages(imgs, record, ImagesShown(list), stage)
        /\ id \notin ImageIds(images) /\ id \notin ImagesShown(disp) /\ CanInsert(images, where, existing)
        /\ Order'.given = Order.given
    <2>1. UNCHANGED <<stage, splitOrder, reverse>>
      BY DEF InsertNewImage
    <2> QED  BY <2>1, GivenAgain DEF InsertNewImage, Step, Thumbnails, MainAreaSame
  <1>3. /\ ImagesOK(images) /\ Whole(disp) /\ Frame(disp) /\ Listed(disp) /\ (~unseen => Tidy(disp))
        /\ stage \in 0 .. 2 /\ Fits(disp) /\ Leads(disp) /\ Good(disp, images, stage, Order.given)
        /\ disp.view = ViewOf(stage)
        /\ loaded \in PageIds \cup {NoPage} /\ (stage < 2 /\ loaded # NoPage => loaded = disp.leader)
    BY DEF ListInv, Agree, Good, Settings, Whole, Frame
  <1>4. num \in {1, 2} /\ desc \in ImageDescs /\ DescOK(desc) /\ desc.id = id
    BY NewDesc
  <1>5. \/ Len(order) = 1 /\ order[1] = Single(id)
        \/ /\ ViewOf(stage) # "IMAGE_VIEW" /\ Len(order) = 2
           /\ \E a, b \in {LEFT_PAGE, RIGHT_PAGE} :
                 /\ a # b /\ order[1] = PageId(id, a) /\ order[2] = PageId(id, b)
                 /\ Direction = "LeftToRight" => (where = "BEFORE" => b < a) /\ (where # "BEFORE" => a < b)
    <2> HIDE DEF num
    <2> QED  BY <1>2, <1>4, InsertedPagesOf
  <1>6. Total(Order) /\ Order.given \in BOOLEAN
    BY OrderIsTotal, OrderGiven DEF Order
  <1>7. \A q \in Shown(disp) : ImageOf(q) # id
    BY <1>2 DEF ImagesShown
  <1>8. ASSUME NEW sub \in {SINGLE_PAGE, LEFT_PAGE, RIGHT_PAGE}
        PROVE  PageId(id, sub) \in PageIds /\ PageId(id, sub) \notin Shown(disp) /\ ImageOf(PageId(id, sub)) = id
               /\ SubOf(PageId(id, sub)) = sub
    BY <1>7 DEF PageId, PageIds, ImageOf, SubOf
  <1> DEFINE p == Pages(disp.items)
  <1>9. p \in Seq(PageIds) /\ ToSet(p) = Shown(disp) /\ Distinct(p)
    BY <1>3, PagesAre DEF Listed, Shown
  <1>10. \A k \in 1 .. Len(p) : ImageOf(p[k]) # id
    BY <1>7, <1>9, ElementsOf
  <1>11. Direction = "LeftToRight" /\ ~Order.given => Grouped(p)
    BY <1>3 DEF Good
  <1>12. stage < 2 => PagesNow(images, stage) = ImageSequence(images) /\ disp.view = "IMAGE_VIEW"
    BY <1>3, PagesNowAre DEF ViewOf
  <1>13. ImagesOK(imgs)
    BY <1>2, <1>3, <1>4, InsertImageOf
  <1> DEFINE Grown(r) == /\ Whole(r) /\ r.view = disp.view /\ r.leader = disp.leader
                         /\ Fits(r) /\ Leads(r) /\ (~unseen => Tidy(r))
                         /\ stage < 2 => Shown(r) = ToSet(PagesNow(imgs, stage))
                         /\ Direction = "LeftToRight" /\ ~Order.given => Grouped(Pages(r.items))
                         /\ stage < 2 /\ ~Order.given => Pages(r.items) = PagesNow(imgs, stage)
                         /\ InOrder(disp.items, Order) => Ordered(r.items, Order)
  <1> HIDE DEF p, num, desc, pages, order, one
  <1>14. ASSUME Len(order) = 1, order[1] = Single(id) PROVE Grown(list)
    <2> DEFINE q == Single(id)
    <2>1. q \in PageIds /\ q \notin Shown(disp) /\ ImageOf(q) = id /\ SubOf(q) = SINGLE_PAGE
      BY <1>8 DEF Single
    <2>2. list = Insert(disp, q, where, existing, IncompleteNow, Order)
      BY <1>14 DEF one
    <2> HIDE DEF q, list
    <2>3. WithPage(disp, q, where, existing, Order, list)
      BY <1>3, <1>6, <2>1, <2>2, InsertOf
    <2>4. /\ Whole(list) /\ list.view = disp.view /\ list.leader = disp.leader
          /\ Fits(list) /\ Leads(list) /\ (~unseen => Tidy(list))
          /\ InOrder(disp.items, Order) => Ordered(list.items, Order)
      BY <1>3, <2>1, <2>3 DEF WithPage
    <2>5. Direction = "LeftToRight" /\ ~Order.given => Grouped(Pages(list.items))
      <3> SUFFICES ASSUME Direction = "LeftToRight", ~Order.given PROVE Grouped(Pages(list.items))
        OBVIOUS
      <3>1. CASE ~Accepts(disp, where, existing)
        BY <1>11, <2>3, <3>1 DEF WithPage, p
      <3>2. CASE Accepts(disp, where, existing)
        <4>1. PICK h : Wanted(p, where, existing, h) /\ Pages(list.items) = InsertAt(p, h, q)
          BY <2>3, <3>2 DEF WithPage, p
        <4>2. Grouped(InsertAt(p, h, q))
          BY <1>9, <1>10, <1>11, <2>1, <4>1, GroupedInsert
        <4> QED  BY <4>1, <4>2
      <3> QED  BY <3>1, <3>2
    <2>6. ASSUME stage < 2
          PROVE  /\ Shown(list) = ToSet(PagesNow(imgs, stage))
                 /\ ~Order.given => Pages(list.items) = PagesNow(imgs, stage)
      <3>1. Accepts(disp, where, existing)
        <4>1. CASE existing = NoImage
          <5>1. NoImage \notin ImageIds(images)
            BY <1>3, ImagesAre, ImageAssumption DEF NoImage
          <5> QED  BY <1>2, <4>1, <5>1 DEF CanInsert, Accepts
        <4>2. CASE existing \in ImageIds(images)
          <5>1. Shown(disp) = {Single(i) : i \in ImageIds(images)}
            BY <1>3, <1>12, <2>6, ImageSequenceOf DEF Good
          <5>2. Single(existing) \in Shown(disp) /\ ImageOf(Single(existing)) = existing
            BY <4>2, <5>1 DEF Single, PageId, ImageOf
          <5> QED  BY <5>2 DEF Accepts
        <4> QED  BY <4>1, <4>2
      <3> DEFINE now == PagesNow(images, stage)
      <3>2. /\ ToSet(PagesNow(imgs, stage)) = ToSet(now) \cup {q}
            /\ \A h : Wanted(now, where, existing, h) => PagesNow(imgs, stage) = InsertAt(now, h, q)
        <4>1. desc.id \notin ImageIds(images)
          BY <1>2, <1>4
        <4>2. /\ ToSet(PagesNow(imgs, stage)) = ToSet(now) \cup {Single(desc.id)}
              /\ \A h : Wanted(now, where, existing, h) => PagesNow(imgs, stage) = InsertAt(now, h, Single(desc.id))
          BY <1>2, <1>3, <1>4, <2>6, <4>1, ProjectGrows
        <4> QED  BY <1>4, <4>2 DEF q
      <3>3. Shown(disp) = ToSet(now) /\ (~Order.given => p = now)
        BY <1>3, <2>6 DEF Good, p
      <3> HIDE DEF now, imgs
      <3>4. Shown(list) = Shown(disp) \cup {q}
        BY <2>3, <3>1 DEF WithPage
      <3>5. ASSUME ~Order.given PROVE Pages(list.items) = PagesNow(imgs, stage)
        <4>1. PICK h : Wanted(p, where, existing, h) /\ Pages(list.items) = InsertAt(p, h, q)
          BY <2>3, <3>1, <3>5 DEF WithPage, p
        <4> QED  BY <3>2, <3>3, <3>5, <4>1
      <3> QED  BY <3>2, <3>3, <3>4, <3>5
    <2> HIDE DEF imgs
    <2> QED  BY <2>4, <2>5, <2>6
  <1>15. ASSUME ViewOf(stage) # "IMAGE_VIEW", Len(order) = 2 PROVE Grown(list)
    <2>1. PICK a \in {LEFT_PAGE, RIGHT_PAGE}, b \in {LEFT_PAGE, RIGHT_PAGE} :
                 /\ a # b /\ order[1] = PageId(id, a) /\ order[2] = PageId(id, b)
                 /\ Direction = "LeftToRight" => (where = "BEFORE" => b < a) /\ (where # "BEFORE" => a < b)
      BY <1>5, <1>15
    <2> DEFINE q == PageId(id, a)
               r == PageId(id, b)
    <2>2. /\ q \in PageIds /\ q \notin Shown(disp) /\ ImageOf(q) = id
          /\ r \in PageIds /\ r \notin Shown(disp) /\ ImageOf(r) = id
          /\ q # r
      <3>1. q # r
        BY <2>1 DEF PageId
      <3> QED  BY <1>8, <3>1
    <2>3. one = Insert(disp, q, where, existing, IncompleteNow, Order)
          /\ list = Insert(one, r, where, id, IncompleteNow, Order)
      BY <1>15, <2>1 DEF one
    <2>4. ~(stage < 2) /\ disp.view # "IMAGE_VIEW"
      BY <1>3, <1>12, <1>15
    <2> HIDE DEF q, r, list
    <2>5. WithPage(disp, q, where, existing, Order, one)
      BY <1>3, <1>6, <2>2, <2>3, InsertOf
    <2>6. /\ Whole(one) /\ one.view = disp.view /\ one.leader = disp.leader
          /\ Fits(one) /\ Leads(one) /\ (~unseen => Tidy(one))
          /\ Accepts(disp, where, existing) => Shown(one) = Shown(disp) \cup {q}
          /\ ~Accepts(disp, where, existing) => one = disp
      BY <1>3, <2>4, <2>5 DEF WithPage
    <2>7. r \notin Shown(one)
      BY <2>2, <2>6
    <2>8. WithPage(one, r, where, id, Order, list)
      BY <1>6, <2>2, <2>3, <2>6, <2>7, InsertOf
    <2>9. /\ Whole(list) /\ list.view = disp.view /\ list.leader = disp.leader
          /\ Fits(list) /\ Leads(list) /\ (~unseen => Tidy(list))
      BY <2>4, <2>6, <2>8 DEF WithPage
    <2>10. Direction = "LeftToRight" /\ ~Order.given => Grouped(Pages(list.items))
      <3> SUFFICES ASSUME Direction = "LeftToRight", ~Order.given PROVE Grouped(Pages(list.items))
        OBVIOUS
      <3>1. CASE ~Accepts(disp, where, existing)
        <4>1. id # NoImage
          BY ImageAssumption DEF NoImage
        <4>2. one = disp /\ ~Accepts(one, where, id)
          BY <1>7, <2>6, <3>1, <4>1 DEF Accepts
        <4>3. list = disp
          BY <2>8, <4>2 DEF WithPage
        <4> QED  BY <1>11, <4>3 DEF p
      <3>2. CASE Accepts(disp, where, existing)
        <4>1. PICK h : Wanted(p, where, existing, h) /\ Pages(one.items) = InsertAt(p, h, q)
          BY <2>5, <3>2 DEF WithPage, p
        <4>2. Accepts(one, where, id)
          BY <2>2, <2>6, <3>2 DEF Accepts
        <4>3. PICK g : Wanted(Pages(one.items), where, id, g) /\ Pages(list.items) = InsertAt(Pages(one.items), g, r)
          BY <2>8, <4>2 DEF WithPage
        <4>4. /\ where = "BEFORE" => b < a
              /\ where # "BEFORE" => a < b
          BY <2>1
        <4>5. Wanted(InsertAt(p, h, PageId(id, a)), where, id, g)
          BY <4>1, <4>3 DEF q
        <4>6. Grouped(InsertAt(InsertAt(p, h, PageId(id, a)), g, PageId(id, b)))
          BY <1>9, <1>10, <1>11, <4>1, <4>4, <4>5, HalvesInserted
        <4> QED  BY <4>1, <4>3, <4>6 DEF q, r
      <3> QED  BY <3>1, <3>2
    <2>11. InOrder(disp.items, Order) => Ordered(list.items, Order)
      BY <2>5, <2>8 DEF WithPage, Ordered
    <2> QED  BY <2>4, <2>9, <2>10, <2>11
  <1>16. Grown(list)
    <2> HIDE DEF Grown, list
    <2> QED  BY <1>5, <1>14, <1>15
  <1> HIDE DEF list
  <1>17. Good(list, imgs, stage, Order.given) /\ SameItems(list, list)
    BY <1>3, <1>16 DEF Good, SameItems
  <1>18. /\ Whole(list) /\ Leads(list) /\ (~unseen => Tidy(list))
         /\ stage < 2 /\ loaded # NoPage => loaded = list.leader
         /\ InOrder(disp.items, Order) => Ordered(disp'.items, Order)
    BY <1>2, <1>3, <1>16
  <1> HIDE DEF imgs, Grown
  <1>19. ImagesOK(images') /\ Ids(images') = Ids(imgs)
    BY <1>2, <1>13, ThumbImagesOf
  <1>20. Agree(list, images', stage, Order.given, loaded', unseen)
    BY <1>2, <1>3, <1>13, <1>17, <1>18, <1>19, AgreeAnew
  <1> QED  BY <1>1, <1>2, <1>18, <1>20 DEF ListInv

-----------------------------------------------------------------------------
(* Every step, and the theorems about the list. *)

(* Every step of the user and of the program keeps it. *)
LEMMA StepKeeps == ListInv /\ [User \/ Program]_vars => ListInv'
  <1> SUFFICES ASSUME ListInv, [User \/ Program]_vars PROVE ListInv'
    OBVIOUS
  <1>1. CASE User
    <2>1. CASE \E st \in 0 .. 2 : FilterSelectionChanged(st)
      BY <2>1, StageKeeps
    <2>2. CASE \E page \in Shown(disp) : SelectByClick(page) \/ SelectWithControl(page) \/ SelectWithShift(page)
      BY <2>2, ClicksKeep
    <2>3. CASE \E page \in PagesShown : GoToPage(page)
      BY <2>3, GoToPageKeeps
    <2>4. CASE \E pages \in SUBSET PagesShown : SelectPages(pages)
      BY <2>4, SelectPagesKeeps
    <2>5. CASE PageOrderingChanged \/ InverseOrderToggled \/ RemoveFromProject
      BY <2>5, OrderingKeeps, InverseOrderKeeps, RemoveKeeps
    <2>6. CASE \E id \in Images, where \in {"BEFORE", "AFTER"}, existing \in ImageIds(images) \cup {NoImage} :
                  InsertNewImage(id, where, existing)
      BY <2>6, InsertKeeps
    <2>7. CASE SetRotation \/ SplitLineAutomatic
      BY <2>7, SetRotationKeeps, SplitLineAutomaticKeeps
    <2>8. CASE \E type \in LayoutTypes : LayoutTypeButtonToggled(type)
      BY <2>8, LayoutButtonKeeps
    <2>9. CASE \E ids \in SUBSET ImageIds(images), type \in LayoutTypes, cut \in BOOLEAN : LayoutTypeSet(ids, type, cut)
      BY <2>9, LayoutDialogKeeps
    <2>10. CASE \E moved \in BOOLEAN : SplitLineSet(moved)
      BY <2>10, SplitLineKeeps
    <2>11. CASE \E sub \in {LEFT_PAGE, RIGHT_PAGE} : Unremove(sub)
      BY <2>11, UnremoveKeeps
    <2> QED  BY <1>1, <2>1, <2>2, <2>3, <2>4, <2>5, <2>6, <2>7, <2>8, <2>9, <2>10, <2>11 DEF User
  <1>2. CASE Program
    BY <1>2, ProgramKeeps
  <1>3. CASE UNCHANGED vars
    <2>1. /\ UNCHANGED <<stage, splitOrder, reverse>> /\ stage' = stage /\ disp' = disp /\ images' = images
          /\ rotation' = rotation /\ splitOrder' = splitOrder /\ reverse' = reverse /\ steps' = steps
          /\ loaded' = loaded /\ unseen' = unseen
      BY <1>3 DEF vars, project
    <2>2. Order'.given = Order.given
      BY <2>1, GivenAgain
    <2> QED  BY <2>1, <2>2 DEF ListInv, Settings
  <1> QED  BY <1>1, <1>2, <1>3

(* So it always holds. *)
LEMMA ListInvAlways == Spec => []ListInv
  BY InitKeeps, StepKeeps, PTL DEF Spec

(* Whatever the user, a task and the thumbnails do in whatever order: of
   an image never both halves are removed, and an image that counts two
   logical pages has none removed
   (ProjectPages::setLogicalPagesInImageImpl, removePagesImpl,
   unremovePageImpl); what is shown and what is loaded are pages. *)
THEOREM TypeCorrect == Spec => []TypeOK
  <1>1. ListInv => TypeOK
    <2> SUFFICES ASSUME ListInv PROVE TypeOK
      OBVIOUS
    <2>1. \A k \in DOMAIN images : images[k] \in ImageDescs /\ DescOK(images[k])
      BY ImagesAre DEF ListInv, Agree
    <2>2. Shown(disp) \subseteq PageIds
      BY ShownAre DEF ListInv, Agree, Good, Whole, Frame
    <2> QED  BY <2>1, <2>2 DEF ListInv, Settings, Agree, TypeOK
  <1> QED  BY ListInvAlways, <1>1, PTL

(* For any images and any sequence of clicks, stages, orders, insertions
   and removals: the flags of the items, the leader, and the index of the
   items by their selection state tell the same selection
   (ThumbnailSequence::Impl::moveToSelected, moveToUnselected,
   setSelection, reset, removePages). *)
THEOREM SelectionIsSound == Spec => []SelectionSound
  <1>1. ListInv => SelectionSound
    <2> SUFFICES ASSUME ListInv, ~unseen
                 PROVE  /\ disp.leaders = {disp.leader} \ {NoPage}
                        /\ disp.leaders \subseteq disp.selected
                        /\ disp.selected = SelectedItems(disp)
                        /\ ToSet(disp.byState) = Shown(disp)
                        /\ Len(disp.byState) = Cardinality(Shown(disp)) /\ Len(disp.items) = Len(disp.byState)
      BY DEF SelectionSound
    <2>1. Whole(disp) /\ Frame(disp) /\ Listed(disp) /\ Tidy(disp)
      BY DEF ListInv, Agree, Good, Whole, Frame
    <2>2. NoPage \notin Shown(disp)
      BY <2>1, ShownAre
    <2>3. /\ disp.leaders = {disp.leader} \ {NoPage} /\ disp.leaders \subseteq disp.selected
      BY <2>1, <2>2 DEF Whole, Frame, Tidy
    <2>4. disp.byState \in Seq(PageIds) /\ Distinct(disp.byState) /\ ToSet(disp.byState) = Shown(disp)
          /\ disp.items \in Seq(Items) /\ Distinct(Pages(disp.items))
      BY <2>1 DEF Listed
    <2>5. disp.selected = SelectedItems(disp)
      BY <2>1, <2>4, SelectedItemsOf DEF Tidy, Frame
    <2>6. Len(disp.byState) = Cardinality(Shown(disp))
      BY <2>4, ElementsOf
    <2>7. Len(disp.items) = Cardinality(Shown(disp))
      <3> DEFINE p == Pages(disp.items)
      <3>1. p \in Seq(PageIds) /\ Len(p) = Len(disp.items) /\ ToSet(p) = Shown(disp) /\ Distinct(p)
        BY <2>4, PagesAre DEF Shown
      <3> HIDE DEF p
      <3> QED  BY <3>1, ElementsOf
    <2> QED  BY <2>3, <2>4, <2>5, <2>6, <2>7
  <1> QED  BY ListInvAlways, <1>1, PTL

(* While images are shown, the list is that of the project, in its order
   unless there is an order of thumbnails (MainWindow::insertImage,
   removeFromProject and ThumbnailSequence::Impl::insert, removePages
   change both in step); and from left to right the natural order never
   separates the halves of an image. *)
THEOREM ProjectIsShown == Spec => []ListShowsProject
  <1>1. ListInv => ListShowsProject
    <2> SUFFICES ASSUME ListInv PROVE ListShowsProject
      OBVIOUS
    <2>1. Good(disp, images, stage, Order.given)
      BY DEF ListInv, Agree
    <2>2. ASSUME Direction = "LeftToRight", ~Order.given PROVE HalvesTogether
      <3> DEFINE p == Pages(disp.items)
                 N == Len(disp.items)
      <3>1. Grouped(p)
        BY <2>1, <2>2 DEF Good
      <3>2. /\ N \in Nat /\ DOMAIN disp.items = 1 .. N /\ DOMAIN p = 1 .. N
            /\ \A k \in 1 .. N : p[k] = disp.items[k].page
        <4>1. disp.items \in Seq(Items)
          BY <2>1 DEF Good, Whole, Frame, Listed
        <4>2. N \in Nat /\ DOMAIN disp.items = 1 .. N
          BY <4>1, LenProperties
        <4> QED  BY <4>2 DEF Pages
      <3> HIDE DEF p, N
      <3> SUFFICES ASSUME NEW i \in 1 .. N, NEW j \in 1 .. N,
                          ImageOf(disp.items[i].page) = ImageOf(disp.items[j].page), NEW k \in i .. j
                   PROVE  ImageOf(disp.items[k].page) = ImageOf(disp.items[i].page)
        BY <3>2 DEF HalvesTogether
      <3>3. k \in 1 .. N /\ (i = j => k = i) /\ (i = j \/ i < j)
        BY <3>2
      <3>4. ImageOf(p[i]) = ImageOf(p[j])
        BY <3>2
      <3>5. i < j => ImageOf(p[k]) = ImageOf(p[i])
        BY <3>1, <3>2, <3>4 DEF Grouped
      <3> QED  BY <3>2, <3>3, <3>5
    <2> QED  BY <2>1, <2>2 DEF Good, ListShowsProject, NothingBetweenHalves, PagesShown, Pages
  <1> QED  BY ListInvAlways, <1>1, PTL

(* While images are shown, the main area and the widget of the stage are
   about the leader of the selection, and so is, at every stage, the page
   that MainWindow remembers (SelectedPage, set by newSelectionLeader). *)
THEOREM LeaderIsTheLoadedPage == Spec => []LeaderIsLoaded
  <1>1. ListInv => LeaderIsLoaded
    BY DEF ListInv, Agree, Good, Leads, LeaderIsLoaded
  <1> QED  BY ListInvAlways, <1>1, PTL

-----------------------------------------------------------------------------
(* The records of the page layouts. *)

(* The parameters of a page layout, or none; a record of page_split::Settings;
   and one whose parameters are of the layout type asked for. *)
Described(p) == p = NoParams \/ p = [type |-> p.type, deps |-> p.deps, mode |-> p.mode]
Shape(r) == r = [layoutType |-> r.layoutType, params |-> r.params] /\ Described(r.params)
Agrees(r) == Shape(r) /\ ~HasLayoutTypeConflict(r.params, CombinedLayoutType(r))
AllAgree(rec) ==
    /\ rec = [id \in Images |-> rec[id]]
    /\ \A id \in Images : Agrees(rec[id])
IInv == AllAgree(record)

(* Parameters are not the absence of them. *)
LEMMA ParamsAre ==
    \A type, deps, mode : /\ Described(Params(type, deps, mode)) /\ Described(NoParams)
                          /\ Params(type, deps, mode) # NoParams
                          /\ Params(type, deps, mode).type = type
  BY DEF Described, Params, NoParams

(* Dependencies::fixCompatibility keeps the type of the layout. *)
LEMMA FixedParams ==
    ASSUME NEW params, Described(params), params # NoParams, NEW deps
    PROVE  /\ Described(FixCompatibility(deps, params)) /\ FixCompatibility(deps, params) # NoParams
           /\ FixCompatibility(deps, params).type = params.type
  <1>1. params = [type |-> params.type, deps |-> params.deps, mode |-> params.mode]
    BY DEF Described
  <1>2. FixCompatibility(deps, params) = Params(params.type, deps, params.mode)
    BY <1>1 DEF FixCompatibility, Params
  <1> QED  BY <1>2, ParamsAre

(* Record::update keeps the fields it does not set. *)
LEMMA Updates ==
    ASSUME NEW r, NEW type, NEW params, Shape(r), Described(params)
    PROVE  /\ Shape(SetLayout(r, type)) /\ Shape(SetParams(r, params))
           /\ SetLayout(r, type).layoutType = type
           /\ SetParams(r, params).params = params
           /\ SetParams(r, params).layoutType = r.layoutType
  BY DEF Shape, SetLayout, SetParams

(* updatePage() leaves a record without a conflict, whatever was set. *)
LEMMA UpdateAgrees == \A r : Shape(r) => Agrees(UpdatePage(r))
  <1> SUFFICES ASSUME NEW r, Shape(r) PROVE Agrees(UpdatePage(r))
    OBVIOUS
  <1>1. CASE HasLayoutTypeConflict(r.params, CombinedLayoutType(r))
    <2>1. UpdatePage(r) = [r EXCEPT !.params = NoParams]
      BY <1>1 DEF UpdatePage
    <2>2. Shape(UpdatePage(r)) /\ UpdatePage(r).params = NoParams
      BY <2>1 DEF Shape, Described
    <2> QED  BY <2>2 DEF Agrees, HasLayoutTypeConflict
  <1>2. CASE ~HasLayoutTypeConflict(r.params, CombinedLayoutType(r))
    BY <1>2 DEF UpdatePage, Agrees
  <1> QED  BY <1>1, <1>2

(* Parameters that are cleared are in no conflict. *)
LEMMA ClearedAgrees == \A r : Shape(r) => Agrees(SetParams(r, NoParams))
  BY Updates, ParamsAre DEF Agrees, HasLayoutTypeConflict

(* conditionalUpdate() refuses what would be in conflict. *)
LEMMA ConditionalAgrees ==
    \A r, params : Agrees(r) /\ Described(params) => Agrees(ConditionalUpdate(r, params).record)
  <1> SUFFICES ASSUME NEW r, NEW params, Agrees(r), Described(params)
               PROVE  Agrees(ConditionalUpdate(r, params).record)
    OBVIOUS
  <1>1. CASE HasLayoutTypeConflict(params, CombinedLayoutType(r))
    BY <1>1 DEF ConditionalUpdate
  <1>2. CASE ~HasLayoutTypeConflict(params, CombinedLayoutType(r))
    <2>1. ConditionalUpdate(r, params).record = SetParams(r, params)
      BY <1>2 DEF ConditionalUpdate
    <2>2. /\ Shape(SetParams(r, params)) /\ SetParams(r, params).params = params
          /\ CombinedLayoutType(SetParams(r, params)) = CombinedLayoutType(r)
      BY Updates DEF Agrees, CombinedLayoutType
    <2> QED  BY <1>2, <2>1, <2>2 DEF Agrees
  <1> QED  BY <1>1, <1>2

(* One record is replaced by one that agrees; nothing is stored for what is
   not an image. *)
LEMMA PutAgrees ==
    ASSUME NEW rec, NEW x, NEW r, AllAgree(rec), x \in Images => Agrees(r)
    PROVE  AllAgree([rec EXCEPT ![x] = r])
  BY DEF AllAgree

(* A stale record as CacheDrivenTask repairs it. *)
Repaired(rec, id) == UpdatePage(SetParams(rec[id], FixCompatibility(DepsOf(rec, id), rec[id].params)))

(* A repaired record is in no conflict, and its layout has the type it
   had. *)
LEMMA RepairedIs ==
    ASSUME NEW rec, NEW id, Agrees(rec[id]), Stale(rec, id)
    PROVE  /\ Agrees(Repaired(rec, id)) /\ Repaired(rec, id).params # NoParams
           /\ Repaired(rec, id).params.type = rec[id].params.type
  <1> DEFINE r == rec[id]
             fixed == FixCompatibility(DepsOf(rec, id), r.params)
             set == SetParams(r, fixed)
  <1>1. Shape(r) /\ r.params # NoParams /\ Described(r.params)
    BY DEF Agrees, Stale, Shape
  <1>2. ~HasLayoutTypeConflict(r.params, CombinedLayoutType(r))
    BY DEF Agrees
  <1> HIDE DEF r
  <1>3. Described(fixed) /\ fixed # NoParams /\ fixed.type = r.params.type
    BY <1>1, FixedParams
  <1> HIDE DEF fixed
  <1>4. Shape(set) /\ set.params = fixed /\ set.layoutType = r.layoutType
    BY <1>1, <1>3, Updates
  <1>5. Repaired(rec, id) = UpdatePage(set)
    BY DEF Repaired, r, fixed
  <1> HIDE DEF set
  <1>6. CombinedLayoutType(set) = CombinedLayoutType(r)
    BY <1>4 DEF CombinedLayoutType
  <1>7. ~HasLayoutTypeConflict(set.params, CombinedLayoutType(set))
    BY <1>1, <1>2, <1>3, <1>4, <1>6 DEF HasLayoutTypeConflict
  <1>8. UpdatePage(set) = set
    BY <1>7 DEF UpdatePage
  <1> QED  BY <1>3, <1>4, <1>5, <1>7, <1>8 DEF Agrees, r

(* The repairs of CacheDrivenTask, for any set of images. *)
LEMMA ThumbsAgree ==
    \A rec, ids, st : AllAgree(rec) => AllAgree(ThumbRecords(rec, ids, st))
  <1> SUFFICES ASSUME NEW rec, NEW ids, NEW st, AllAgree(rec)
               PROVE  AllAgree(ThumbRecords(rec, ids, st))
    OBVIOUS
  <1>1. ASSUME NEW id \in Images PROVE Agrees(rec[id]) /\ (Stale(rec, id) => Agrees(Repaired(rec, id)))
    BY RepairedIs DEF AllAgree
  <1>2. ThumbRecords(rec, ids, st) =
            [id \in Images |-> IF st >= 1 /\ id \in ids /\ Stale(rec, id)
                               THEN Repaired(rec, id) ELSE rec[id]]
    BY DEF ThumbRecords, Repaired
  <1> QED  BY <1>1, <1>2 DEF AllAgree

(* The types by which pages are ordered do not change when thumbnails are made. *)
LEMMA SameRank ==
    ASSUME NEW rec, NEW ids, NEW st, AllAgree(rec), NEW id \in Images
    PROVE  TypeRank(ThumbRecords(rec, ids, st), id) = TypeRank(rec, id)
  <1> DEFINE new == ThumbRecords(rec, ids, st)
             Type(r) == IF r.params # NoParams THEN TypeServed(r.params.type) ELSE CombinedLayoutType(r)
  <1>1. new[id] = IF st >= 1 /\ id \in ids /\ Stale(rec, id) THEN Repaired(rec, id) ELSE rec[id]
    BY DEF ThumbRecords, Repaired
  <1>2. Agrees(rec[id])
    BY DEF AllAgree
  <1> HIDE DEF new
  <1>3. Type(new[id]) = Type(rec[id])
    <2>1. CASE st >= 1 /\ id \in ids /\ Stale(rec, id)
      <3>1. /\ rec[id].params # NoParams /\ Repaired(rec, id).params # NoParams
            /\ Repaired(rec, id).params.type = rec[id].params.type
        BY <1>2, <2>1, RepairedIs DEF Stale
      <3> QED  BY <1>1, <2>1, <3>1
    <2>2. CASE ~(st >= 1 /\ id \in ids /\ Stale(rec, id))
      <3>1. new[id] = rec[id]
        BY <1>1, <2>2
      <3> QED  BY <3>1
    <2> QED  BY <2>1, <2>2
  <1>4. \A m : TypeRank(m, id) = CASE Type(m[id]) = "SINGLE_PAGE_UNCUT" -> 1
                                   [] Type(m[id]) = "PAGE_PLUS_OFFCUT" -> 2
                                   [] Type(m[id]) = "TWO_PAGES" -> 3
                                   [] OTHER -> 100
    BY DEF TypeRank
  <1> HIDE DEF Type
  <1> QED  BY <1>3, <1>4 DEF new

(* So neither does the order of thumbnails. *)
LEMMA SameOrder ==
    ASSUME NEW rec, NEW ids, NEW at, AllAgree(rec), NEW st, NEW split, NEW rev
    PROVE  OrderProvider(ThumbRecords(rec, ids, at), st, split, rev) = OrderProvider(rec, st, split, rev)
  <1> DEFINE new == ThumbRecords(rec, ids, at)
             by == st = 1 /\ split
             P(m, l, r) == IF by THEN BySplitType(m, l, r) ELSE PageLess(l.page, r.page)
             less(m) == [pair \in Items \X Items |-> IF rev THEN ~P(m, pair[1], pair[2]) ELSE P(m, pair[1], pair[2])]
  <1>1. \A m : OrderProvider(m, st, split, rev) = [given |-> by \/ rev, less |-> less(m)]
    BY DEF OrderProvider
  <1>2. ASSUME NEW l \in Items, NEW r \in Items PROVE P(new, l, r) = P(rec, l, r)
    <2>1. ImageOf(l.page) \in Images /\ ImageOf(r.page) \in Images
      BY DEF Items, PageIds, ImageOf
    <2> HIDE DEF new
    <2>2. TypeRank(new, ImageOf(l.page)) = TypeRank(rec, ImageOf(l.page))
      BY <2>1, SameRank DEF new
    <2>3. TypeRank(new, ImageOf(r.page)) = TypeRank(rec, ImageOf(r.page))
      BY <2>1, SameRank DEF new
    <2>4. BySplitType(new, l, r) = BySplitType(rec, l, r)
      BY <2>2, <2>3 DEF BySplitType
    <2> QED  BY <2>4
  <1> HIDE DEF P, new
  <1>3. \A pair \in Items \X Items : P(new, pair[1], pair[2]) = P(rec, pair[1], pair[2])
    BY <1>2
  <1>4. less(new) = less(rec)
    BY <1>3
  <1> HIDE DEF less, by
  <1> QED  BY <1>1, <1>4 DEF new

-----------------------------------------------------------------------------
(* What stores a record. *)

(* A project that is opened has layouts of no type asked for. *)
LEMMA InitAgrees == Init => IInv
  <1> SUFFICES ASSUME Init PROVE IInv
    OBVIOUS
  <1>1. PICK types : record =
            [id \in Images |-> FileRecord(id, IF id \in Loaded THEN types[id] ELSE Unset)]
    BY Zenon DEF Init
  <1>2. ASSUME NEW id \in Images, NEW type PROVE Agrees(FileRecord(id, type))
    <2>1. Shape(NullRecord) /\ NullRecord.layoutType = Unset /\ NullRecord.params = NoParams
      BY DEF NullRecord, Shape, Described
    <2> DEFINE p == Params(type, Dependencies(id, 0, "AUTO_LAYOUT_TYPE"), "MODE_AUTO")
    <2>2. Described(p)
      BY ParamsAre
    <2> HIDE DEF p
    <2>3. Shape(SetParams(NullRecord, p)) /\ SetParams(NullRecord, p).layoutType = Unset
      BY <2>1, <2>2, Updates
    <2>4. FileRecord(id, type) = NullRecord \/ FileRecord(id, type) = SetParams(NullRecord, p)
      BY DEF FileRecord, p
    <2>5. Shape(FileRecord(id, type)) /\ FileRecord(id, type).layoutType = Unset
      BY <2>1, <2>3, <2>4
    <2> QED  BY <2>5 DEF Agrees, HasLayoutTypeConflict, CombinedLayoutType
  <1> QED  BY <1>1, <1>2 DEF IInv, AllAgree

(* What the widgets of page_split do: they store a record, then make the
   thumbnails of the pages it is about again, or load the page again. *)
Stored(rec) == record' = rec \/ \E ids : record' = ThumbRecords(rec, ids, stage)
RemadeFor(rec) == disp' = disp \/ disp' = InvalidatedThumbnail(disp, loaded, rec)

(* The layout type button. *)
LEMMA LayoutTypeButton ==
    ASSUME NEW type, IInv, LayoutTypeButtonToggled(type)
    PROVE  \E rec : AllAgree(rec) /\ Stored(rec) /\ RemadeFor(rec)
  <1> DEFINE id == ImageOf(loaded)
             reload == \/ type = "PAGE_PLUS_OFFCUT"
                       \/ type # "SINGLE_PAGE_UNCUT" /\ ui.mode = "MODE_AUTO"
             asked == SetLayout(record[id], type)
             params == Params(type, ui.deps, ui.mode)
             updated == UpdatePage(IF reload THEN asked ELSE SetParams(asked, params))
             rec == [record EXCEPT ![id] = updated]
  <1>1. id \in Images => Agrees(updated)
    <2> SUFFICES ASSUME id \in Images PROVE Agrees(updated)
      OBVIOUS
    <2>1. Shape(record[id]) /\ Described(params) /\ Described(NoParams)
      BY ParamsAre DEF IInv, AllAgree, Agrees
    <2> HIDE DEF params, id
    <2>2. Shape(asked)
      BY <2>1, Updates
    <2> HIDE DEF asked
    <2>3. Shape(SetParams(asked, params))
      BY <2>1, <2>2, Updates
    <2> QED  BY <2>2, <2>3, UpdateAgrees
  <1>2. AllAgree(rec)
    <2> HIDE DEF updated, id
    <2> QED  BY <1>1, PutAgrees DEF IInv
  <1>3. \/ record' = rec /\ disp' = disp
        \/ (\E ids : record' = ThumbRecords(rec, ids, stage)) /\ disp' = InvalidatedThumbnail(disp, loaded, rec)
    BY DEF LayoutTypeButtonToggled, Thumbnails
  <1> HIDE DEF rec
  <1>4. Stored(rec) /\ RemadeFor(rec)
    BY <1>3 DEF Stored, RemadeFor
  <1> QED  BY <1>2, <1>4

(* The dialog: all thumbnails are made again, unless page_split is left. *)
LEMMA LayoutTypeDialog ==
    ASSUME NEW ids, NEW type, NEW applyCut, IInv, LayoutTypeSet(ids, type, applyCut)
    PROVE  \E rec : /\ AllAgree(rec) /\ Stored(rec)
                    /\ \/ disp' = InvalidateAll(disp, IncompletePages(rec, stage),
                                                OrderProvider(rec, stage, splitOrder, reverse))
                       \/ disp' = disp
  <1> DEFINE params == record[ImageOf(ui.page)].params
             SetFor(r) == IF type = "AUTO_LAYOUT_TYPE" THEN SetParams(r, NoParams)
                          ELSE IF applyCut THEN UpdatePage(SetParams(SetLayout(r, type), params))
                          ELSE UpdatePage(SetLayout(r, type))
             rec == [id \in Images |-> IF id \in ids THEN SetFor(record[id]) ELSE record[id]]
  <1>1. Described(params)
    <2>1. ui.page \in PageIds
      BY DEF LayoutTypeSet
    <2>2. ImageOf(ui.page) \in Images
      BY <2>1 DEF PageIds, ImageOf
    <2> QED  BY <2>2 DEF IInv, AllAgree, Agrees, Shape
  <1>2. ASSUME NEW id \in Images PROVE Agrees(record[id]) /\ Agrees(SetFor(record[id]))
    <2> DEFINE r == record[id]
    <2>1. Shape(r) /\ Agrees(r)
      BY DEF IInv, AllAgree, Agrees
    <2> HIDE DEF r, params
    <2>2. Shape(SetLayout(r, type)) /\ Shape(SetParams(SetLayout(r, type), params))
      <3> DEFINE asked == SetLayout(r, type)
      <3>1. Shape(asked)
        BY <1>1, <2>1, Updates
      <3> HIDE DEF asked
      <3>2. Shape(SetParams(asked, params))
        BY <1>1, <3>1, Updates
      <3> QED  BY <3>1, <3>2 DEF asked
    <2>3. Agrees(SetFor(r))
      BY <2>1, <2>2, UpdateAgrees, ClearedAgrees
    <2> QED  BY <2>1, <2>3 DEF r
  <1>3. AllAgree(rec)
    <2> HIDE DEF SetFor
    <2> QED  BY <1>2 DEF AllAgree
  <1>4. /\ record' = rec \/ \E some : record' = ThumbRecords(rec, some, stage)
        /\ \/ disp' = InvalidateAll(disp, IncompletePages(rec, stage), OrderProvider(rec, stage, splitOrder, reverse))
           \/ disp' = disp
    BY DEF LayoutTypeSet, Thumbnails
  <1> HIDE DEF rec
  <1> QED  BY <1>3, <1>4 DEF Stored

(* The split line is moved, or set to manual. *)
LEMMA SplitLine ==
    ASSUME NEW moved, IInv, SplitLineSet(moved)
    PROVE  \E rec : AllAgree(rec) /\ Stored(rec) /\ RemadeFor(rec)
  <1> DEFINE id == ImageOf(loaded)
             params == Params(ui.type, ui.deps, "MODE_MANUAL")
             updated == UpdatePage(SetParams(record[id], params))
             rec == [record EXCEPT ![id] = updated]
  <1>1. id \in Images => Agrees(updated)
    <2> SUFFICES ASSUME id \in Images PROVE Agrees(updated)
      OBVIOUS
    <2>1. Shape(record[id]) /\ Described(params)
      BY ParamsAre DEF IInv, AllAgree, Agrees
    <2> HIDE DEF params, id
    <2>2. Shape(SetParams(record[id], params))
      BY <2>1, Updates
    <2> QED  BY <2>2, UpdateAgrees
  <1>2. AllAgree(rec)
    <2> HIDE DEF updated, id
    <2> QED  BY <1>1, PutAgrees DEF IInv
  <1>3. \/ record' = rec /\ disp' = disp
        \/ (\E ids : record' = ThumbRecords(rec, ids, stage)) /\ disp' = InvalidatedThumbnail(disp, loaded, rec)
    BY DEF SplitLineSet, Thumbnails
  <1> HIDE DEF rec
  <1>4. Stored(rec) /\ RemadeFor(rec)
    BY <1>3 DEF Stored, RemadeFor
  <1> QED  BY <1>2, <1>4

(* The split line is set back to automatic: the parameters are cleared. *)
LEMMA SplitLineCleared ==
    ASSUME IInv, SplitLineAutomatic PROVE IInv'
  <1> DEFINE id == ImageOf(loaded)
  <1>1. record' = [record EXCEPT ![id] = SetParams(record[id], NoParams)]
    BY DEF SplitLineAutomatic
  <1>2. id \in Images => Agrees(SetParams(record[id], NoParams))
    BY ClearedAgrees DEF IInv, AllAgree, Agrees
  <1> HIDE DEF id
  <1> QED  BY <1>1, <1>2, PutAgrees DEF IInv

(* The task of the worker thread stores the layout it found. *)
LEMMA TaskStores ==
    ASSUME IInv, LayoutStored PROVE IInv'
  <1> DEFINE id == ImageOf(run.page)
             params == Params(run.type, run.deps, "MODE_AUTO")
             new == ConditionalUpdate(record[id], params).record
  <1>1. record' = [record EXCEPT ![id] = new]
    BY DEF LayoutStored
  <1>2. id \in Images => Agrees(new)
    BY ConditionalAgrees, ParamsAre DEF IInv, AllAgree
  <1> HIDE DEF id, new
  <1> QED  BY <1>1, <1>2, PutAgrees DEF IInv

(* Every step keeps the records without conflicts. *)
LEMMA StepAgrees == IInv /\ TypeOK /\ [User \/ Program]_vars => IInv'
  <1> SUFFICES ASSUME IInv, TypeOK, [User \/ Program]_vars PROVE IInv'
    OBVIOUS
  <1> DEFINE Repairs == \E ids, st : record' = ThumbRecords(record, ids, st)
  <1>a. Repairs \/ record' = record => IInv'
    BY ThumbsAgree DEF IInv
  <1>b. (\E rec : AllAgree(rec) /\ Stored(rec)) => IInv'
    BY ThumbsAgree DEF IInv, Stored
  <1>1. ASSUME NEW st, FilterSelectionChanged(st) PROVE Repairs
    BY <1>1 DEF FilterSelectionChanged, Thumbnails
  <1>2. ASSUME NEW page, SelectByClick(page) \/ SelectWithControl(page) \/ SelectWithShift(page)
        PROVE  record' = record
    BY <1>2 DEF SelectByClick, SelectWithControl, SelectWithShift, Click, project
  <1>3. ASSUME NEW page, GoToPage(page) PROVE record' = record
    BY <1>3 DEF GoToPage, project
  <1>4. ASSUME NEW pages, SelectPages(pages) PROVE record' = record
    BY <1>4 DEF SelectPages, project
  <1>5. CASE PageOrderingChanged
    BY <1>5, <1>a DEF PageOrderingChanged, Thumbnails
  <1>6. CASE InverseOrderToggled
    BY <1>6, <1>a DEF InverseOrderToggled, Thumbnails
  <1>7. CASE RemoveFromProject
    BY <1>7, <1>a DEF RemoveFromProject, Thumbnails
  <1>8. ASSUME NEW id, NEW where, NEW existing, InsertNewImage(id, where, existing) PROVE Repairs
    BY <1>8 DEF InsertNewImage, Thumbnails
  <1>9. CASE SetRotation
    BY <1>9, <1>a DEF SetRotation
  <1>10. ASSUME NEW sub, Unremove(sub) PROVE Repairs
    BY <1>10 DEF Unremove, Thumbnails
  <1>19. ASSUME NEW type, LayoutTypeButtonToggled(type) PROVE IInv'
    BY <1>19, <1>b, LayoutTypeButton
  <1>20. ASSUME NEW ids, NEW type, NEW cut, LayoutTypeSet(ids, type, cut) PROVE IInv'
    BY <1>20, <1>b, LayoutTypeDialog
  <1>21. ASSUME NEW moved, SplitLineSet(moved) PROVE IInv'
    BY <1>21, <1>b, SplitLine
  <1>11. CASE User
    BY <1>11, <1>1, <1>2, <1>3, <1>4, <1>5, <1>6, <1>7, <1>8, <1>9, <1>10, <1>a,
       <1>19, <1>20, <1>21, SplitLineCleared DEF User
  <1>12. CASE LayoutStored
    BY <1>12, TaskStores
  <1>13. CASE ResultShown
    BY <1>13, <1>a DEF ResultShown, Thumbnails
  <1>14. CASE TaskTaken \/ RecordRead \/ PagesSet \/ TaskFinished
    BY <1>14, <1>a DEF TaskTaken, RecordRead, PagesSet, TaskFinished, project
  <1>15. ASSUME NEW type, LayoutEstimated(type) PROVE record' = record
    BY <1>15 DEF LayoutEstimated, project
  <1>16. CASE Program
    BY <1>16, <1>12, <1>13, <1>14, <1>15, <1>a DEF Program
  <1>17. CASE UNCHANGED vars
    BY <1>17, <1>a DEF vars, project
  <1> QED  BY <1>11, <1>16, <1>17

(* So no record is ever in conflict. *)
LEMMA RecordsAgree == Spec => []IInv
  <1>1. IInv /\ TypeOK /\ [User \/ Program]_vars => IInv'
    BY StepAgrees
  <1> QED  BY InitAgrees, TypeCorrect, <1>1, PTL DEF Spec

(* Whatever the user, a task and the thumbnails store, in whatever order,
   the parameters of an image are never of another layout type than the one
   asked for (page_split::Settings::updatePage, conditionalUpdate). *)
THEOREM LayoutsAgree == Spec => []NoConflict
  <1>1. IInv => NoConflict
    BY DEF IInv, AllAgree, Agrees, NoConflict
  <1> QED  BY RecordsAgree, <1>1, PTL

-----------------------------------------------------------------------------
(* The order of the list after a step. *)

(* The order after a step that stored records and made thumbnails. *)
LEMMA OrderAfter ==
    ASSUME NEW rec, AllAgree(rec), NEW st,
           record' = rec \/ \E ids : record' = ThumbRecords(rec, ids, st)
    PROVE  Order' = OrderProvider(rec, stage', splitOrder', reverse')
  <1>1. Order' = OrderProvider(record', stage', splitOrder', reverse')
    BY DEF Order
  <1> QED  BY <1>1, SameOrder

(* What a step does to a list in order, and to one that is not. *)
OrderKept == InOrder(disp.items, Order') => Ordered(disp'.items, Order')
OrderMade == Ordered(disp'.items, Order')
ChoiceSame == stage' = stage /\ splitOrder' = splitOrder /\ reverse' = reverse

(* One thumbnail is made again, with the records that were stored. *)
LEMMA RemadeInOrder ==
    ASSUME ListInv, ChoiceSame, NEW rec, AllAgree(rec), Stored(rec),
           NEW page, disp' = disp \/ disp' = InvalidatedThumbnail(disp, page, rec)
    PROVE  OrderKept
  <1> DEFINE order == OrderProvider(rec, stage, splitOrder, reverse)
  <1>1. Order' = order
    BY OrderAfter DEF ChoiceSame, Stored
  <1>2. Frame(disp) /\ Total(order)
    BY OrderIsTotal DEF ListInv, Agree, Good, Whole
  <1>3. disp' = disp \/ disp' = InvalidateThumbnail(disp, page, IncompletePages(rec, stage), order)
    BY DEF InvalidatedThumbnail
  <1> HIDE DEF order
  <1> SUFFICES ASSUME InOrder(disp.items, order) PROVE Ordered(disp'.items, order)
    BY <1>1 DEF OrderKept
  <1>4. CASE disp' = disp
    BY <1>4 DEF Ordered
  <1>5. CASE disp' = InvalidateThumbnail(disp, page, IncompletePages(rec, stage), order)
    BY <1>2, <1>5, ThumbnailKeepsOrder DEF Ordered
  <1> QED  BY <1>3, <1>4, <1>5

(* The choice of a stage or of an order puts the list in order. *)
LEMMA ChoicesOrder ==
    ASSUME ListInv, IInv,
           (\E st \in 0 .. 2 : FilterSelectionChanged(st)) \/ PageOrderingChanged \/ InverseOrderToggled
    PROVE  OrderMade
  <1>1. CASE \E st \in 0 .. 2 : FilterSelectionChanged(st)
    <2>1. PICK st \in 0 .. 2 : FilterSelectionChanged(st)
      BY <1>1
    <2>2. stage' = st /\ splitOrder' = splitOrder /\ reverse' = reverse /\ \E ids : record' = ThumbRecords(record, ids, st)
      BY <2>1 DEF FilterSelectionChanged, Thumbnails
    <2>3. Order' = OrderProvider(record, st, splitOrder, reverse)
      BY <2>2, OrderAfter DEF IInv
    <2> QED  BY <2>1, <2>3, StageKeeps DEF OrderMade
  <1>2. CASE PageOrderingChanged
    <2>1. stage' = stage /\ splitOrder' = ~splitOrder /\ reverse' = reverse /\ \E ids : record' = ThumbRecords(record, ids, stage)
      BY <1>2 DEF PageOrderingChanged, Thumbnails
    <2>2. Order' = OrderProvider(record, stage, ~splitOrder, reverse)
      BY <2>1, OrderAfter DEF IInv
    <2> QED  BY <1>2, <2>2, OrderingKeeps DEF OrderMade
  <1>3. CASE InverseOrderToggled
    <2>1. stage' = stage /\ splitOrder' = splitOrder /\ reverse' = ~reverse /\ \E ids : record' = ThumbRecords(record, ids, stage)
      BY <1>3 DEF InverseOrderToggled, Thumbnails
    <2>2. Order' = OrderProvider(record, stage, splitOrder, ~reverse)
      BY <2>1, OrderAfter DEF IInv
    <2> QED  BY <1>3, <2>2, InverseOrderKeeps DEF OrderMade
  <1> QED  BY <1>1, <1>2, <1>3

(* Clicks and selections leave the thumbnails where they are. *)
LEMMA SelectionsOrder ==
    ASSUME ListInv,
           \/ \E page \in Shown(disp) : SelectByClick(page) \/ SelectWithControl(page) \/ SelectWithShift(page)
           \/ \E page \in PagesShown : GoToPage(page)
           \/ \E pages \in SUBSET PagesShown : SelectPages(pages)
    PROVE  ChoiceSame /\ disp'.items = disp.items
  <1>1. Whole(disp)
    BY DEF ListInv, Agree, Good
  <1>2. ASSUME NEW list, Click(list), list.items = disp.items
        PROVE  ChoiceSame /\ disp'.items = disp.items
    BY <1>2 DEF Click, ChoiceSame
  <1>3. ASSUME NEW page \in Shown(disp), SelectByClick(page) \/ SelectWithControl(page) \/ SelectWithShift(page)
        PROVE  ChoiceSame /\ disp'.items = disp.items
    BY <1>1, <1>2, <1>3, ClickPlainOf, ClickControlOf, ClickShiftOf
       DEF SelectByClick, SelectWithControl, SelectWithShift, Clicked, SameItems
  <1>4. ASSUME NEW page, GoToPage(page)
        PROVE  ChoiceSame /\ disp'.items = disp.items
    <2>1. SetSelection(disp, page, "RESET_SELECTION").items = disp.items
      BY <1>1, SetSelectionOf DEF SameItems, Whole
    <2> QED  BY <1>4, <2>1 DEF GoToPage, ChoiceSame
  <1>5. ASSUME NEW pages, SelectPages(pages)
        PROVE  ChoiceSame /\ disp'.items = disp.items
    <2>1. SetSelectionToSet(disp, pages, "RESET_SELECTION").items = disp.items
      BY <1>1, SetSelectionToSetOf DEF SameItems
    <2> QED  BY <1>5, <2>1 DEF SelectPages, ChoiceSame
  <1> QED  BY <1>3, <1>4, <1>5

(* The list is left as it is, or one of its thumbnails is made again, or all
   of them are. *)
LEMMA WidgetsOrder ==
    ASSUME ListInv, IInv,
           \/ SetRotation \/ SplitLineAutomatic
           \/ \E type \in LayoutTypes : LayoutTypeButtonToggled(type)
           \/ \E ids \in SUBSET ImageIds(images), type \in LayoutTypes, cut \in BOOLEAN :
                  LayoutTypeSet(ids, type, cut)
           \/ \E moved \in BOOLEAN : SplitLineSet(moved)
           \/ \E sub \in {LEFT_PAGE, RIGHT_PAGE} : Unremove(sub)
    PROVE  ChoiceSame /\ OrderKept
  <1>1. AllAgree(record) /\ Frame(disp) /\ loaded \in PageIds \cup {NoPage}
    BY DEF IInv, ListInv, Agree, Good, Whole
  <1>2. ASSUME disp' = disp PROVE OrderKept
    BY <1>2 DEF OrderKept, Ordered
  <1>3. ASSUME ChoiceSame, NEW rec, AllAgree(rec), Stored(rec), RemadeFor(rec) PROVE OrderKept
    BY <1>3, RemadeInOrder DEF RemadeFor
  <1>4. CASE SetRotation
    <2>1. ChoiceSame /\ record' = record /\ disp' = InvalidatedThumbnail(disp, loaded, record)
      BY <1>4 DEF SetRotation, ChoiceSame
    <2> QED  BY <1>1, <1>3, <2>1 DEF Stored, RemadeFor
  <1>5. CASE SplitLineAutomatic
    <2>1. ChoiceSame /\ disp' = disp
      BY <1>5 DEF SplitLineAutomatic, ChoiceSame
    <2> QED  BY <1>2, <2>1
  <1>6. ASSUME NEW type, LayoutTypeButtonToggled(type) PROVE ChoiceSame /\ OrderKept
    <2>1. ChoiceSame
      BY <1>6 DEF LayoutTypeButtonToggled, ChoiceSame
    <2> QED  BY <1>3, <1>6, <2>1, LayoutTypeButton
  <1>7. ASSUME NEW ids, NEW type, NEW cut, LayoutTypeSet(ids, type, cut) PROVE ChoiceSame /\ OrderKept
    <2>1. ChoiceSame
      BY <1>7 DEF LayoutTypeSet, ChoiceSame
    <2>2. PICK rec : /\ AllAgree(rec) /\ Stored(rec)
                     /\ \/ disp' = InvalidateAll(disp, IncompletePages(rec, stage),
                                                 OrderProvider(rec, stage, splitOrder, reverse))
                        \/ disp' = disp
      BY <1>7, LayoutTypeDialog
    <2> DEFINE order == OrderProvider(rec, stage, splitOrder, reverse)
    <2>3. Order' = order
      BY <2>1, <2>2, OrderAfter DEF ChoiceSame, Stored
    <2>4. Total(order)
      BY OrderIsTotal
    <2>5. disp' = InvalidateAll(disp, IncompletePages(rec, stage), order) \/ disp' = disp
      BY <2>2
    <2> HIDE DEF order
    <2>6. disp' = InvalidateAll(disp, IncompletePages(rec, stage), order) => Ordered(disp'.items, order)
      BY <1>1, <2>4, InvalidateAllOf DEF Ordered
    <2> QED  BY <1>2, <2>1, <2>3, <2>5, <2>6 DEF OrderKept
  <1>8. ASSUME NEW moved, SplitLineSet(moved) PROVE ChoiceSame /\ OrderKept
    <2>1. ChoiceSame
      BY <1>8 DEF SplitLineSet, ChoiceSame
    <2> QED  BY <1>3, <1>8, <2>1, SplitLine
  <1>9. ASSUME NEW sub, Unremove(sub) PROVE ChoiceSame /\ OrderKept
    <2>1. /\ ChoiceSame /\ disp' = InvalidatedThumbnail(disp, loaded, record)
          /\ \E ids : record' = ThumbRecords(record, ids, stage)
      BY <1>9 DEF Unremove, Thumbnails, ChoiceSame
    <2> QED  BY <1>1, <1>3, <2>1 DEF Stored, RemadeFor
  <1> QED  BY <1>4, <1>5, <1>6, <1>7, <1>8, <1>9

(* Pages are removed, and an image is inserted, where the order has them. *)
LEMMA EditsOrder ==
    ASSUME ListInv, IInv,
           \/ RemoveFromProject
           \/ \E id \in Images, where \in {"BEFORE", "AFTER"}, existing \in ImageIds(images) \cup {NoImage} :
                  InsertNewImage(id, where, existing)
    PROVE  ChoiceSame /\ OrderKept
  <1>1. ASSUME ChoiceSame, \E ids : record' = ThumbRecords(record, ids, stage),
               InOrder(disp.items, Order) => Ordered(disp'.items, Order)
        PROVE  OrderKept
    <2>1. Order' = Order
      BY <1>1, OrderAfter DEF IInv, Order, ChoiceSame
    <2> QED  BY <1>1, <2>1 DEF OrderKept
  <1>2. CASE RemoveFromProject
    <2>1. ChoiceSame /\ \E ids : record' = ThumbRecords(record, ids, stage)
      BY <1>2 DEF RemoveFromProject, Thumbnails, ChoiceSame
    <2> QED  BY <1>1, <1>2, <2>1, RemoveKeeps
  <1>3. CASE \E id \in Images, where \in {"BEFORE", "AFTER"}, existing \in ImageIds(images) \cup {NoImage} :
                  InsertNewImage(id, where, existing)
    <2>1. PICK id \in Images, where \in {"BEFORE", "AFTER"}, existing \in ImageIds(images) \cup {NoImage} :
              InsertNewImage(id, where, existing)
      BY <1>3
    <2>2. ChoiceSame /\ \E ids : record' = ThumbRecords(record, ids, stage)
      BY <2>1 DEF InsertNewImage, Thumbnails, ChoiceSame
    <2> QED  BY <1>1, <2>1, <2>2, InsertKeeps
  <1> QED  BY <1>2, <1>3

(* The tasks do not touch the list; their result makes one thumbnail again. *)
LEMMA ProgramOrder ==
    ASSUME ListInv, IInv, Program \/ UNCHANGED vars
    PROVE  ChoiceSame /\ OrderKept
  <1>1. ASSUME disp' = disp PROVE OrderKept
    BY <1>1 DEF OrderKept, Ordered
  <1>2. CASE ResultShown
    <2>1. /\ ChoiceSame /\ disp' = InvalidatedThumbnail(disp, result.page, record)
          /\ \E ids : record' = ThumbRecords(record, ids, stage)
      BY <1>2 DEF ResultShown, Thumbnails, ChoiceSame
    <2>2. Stored(record) /\ AllAgree(record)
      BY <2>1 DEF Stored, IInv
    <2> QED  BY <2>1, <2>2, RemadeInOrder
  <1>3. ASSUME NEW type, LayoutEstimated(type) PROVE ChoiceSame /\ disp' = disp
    BY <1>3 DEF LayoutEstimated, ChoiceSame
  <1>4. CASE TaskTaken \/ RecordRead \/ LayoutStored \/ PagesSet \/ TaskFinished
    <2>1. ChoiceSame /\ disp' = disp
      BY <1>4 DEF TaskTaken, RecordRead, LayoutStored, PagesSet, TaskFinished, ChoiceSame
    <2> QED  BY <1>1, <2>1
  <1>5. CASE UNCHANGED vars
    <2>1. ChoiceSame /\ disp' = disp
      BY <1>5 DEF vars, ChoiceSame
    <2> QED  BY <1>1, <2>1
  <1> QED  BY <1>1, <1>2, <1>3, <1>4, <1>5 DEF Program

(* The result puts the thumbnail of its page in its place. *)
LEMMA ResultInOrder ==
    ASSUME ListInv, IInv, ResultShown, result.page \in Shown(disp),
           OthersInOrder(disp.items, result.page, Order')
    PROVE  OrderMade
  <1> DEFINE order == OrderProvider(record, stage, splitOrder, reverse)
             incomplete == IncompletePages(record, stage)
  <1>1. /\ stage' = stage /\ splitOrder' = splitOrder /\ reverse' = reverse
        /\ disp' = InvalidateThumbnail(disp, result.page, incomplete, order)
        /\ \E ids : record' = ThumbRecords(record, ids, stage)
    BY DEF ResultShown, Thumbnails, InvalidatedThumbnail
  <1>2. Order' = order
    BY <1>1, OrderAfter DEF IInv
  <1>3. Frame(disp) /\ Total(order)
    BY OrderIsTotal DEF ListInv, Agree, Good, Whole
  <1> HIDE DEF order, incomplete
  <1>4. Ordered(disp'.items, order)
    BY <1>1, <1>2, <1>3, ThumbnailInOrder DEF Ordered
  <1> QED  BY <1>2, <1>4 DEF OrderMade

(* What ThumbnailsInOrder says of a step. *)
StepInOrder ==
    Order'.given =>
        /\ <<stage, splitOrder, reverse>>' # <<stage, splitOrder, reverse>> =>
               InOrder(disp'.items, Order')
        /\ InOrder(disp.items, Order') => InOrder(disp'.items, Order')
        /\ ResultShown /\ result.page \in Shown(disp)
               /\ OthersInOrder(disp.items, result.page, Order') => InOrder(disp'.items, Order')

(* Every step is as ThumbnailsInOrder says. *)
LEMMA StepIsInOrder == ListInv /\ IInv /\ [User \/ Program]_vars => StepInOrder
  <1> SUFFICES ASSUME ListInv, IInv, [User \/ Program]_vars PROVE StepInOrder
    OBVIOUS
  <1>1. OrderMade \/ (ChoiceSame /\ OrderKept)
    <2>1. CASE User
      <3>1. CASE (\E st \in 0 .. 2 : FilterSelectionChanged(st)) \/ PageOrderingChanged \/ InverseOrderToggled
        BY <3>1, ChoicesOrder
      <3>2. CASE \/ \E page \in Shown(disp) : SelectByClick(page) \/ SelectWithControl(page) \/ SelectWithShift(page)
                 \/ \E page \in PagesShown : GoToPage(page)
                 \/ \E pages \in SUBSET PagesShown : SelectPages(pages)
        BY <3>2, SelectionsOrder DEF OrderKept, Ordered
      <3>3. CASE \/ SetRotation \/ SplitLineAutomatic
                 \/ \E type \in LayoutTypes : LayoutTypeButtonToggled(type)
                 \/ \E ids \in SUBSET ImageIds(images), type \in LayoutTypes, cut \in BOOLEAN :
                        LayoutTypeSet(ids, type, cut)
                 \/ \E moved \in BOOLEAN : SplitLineSet(moved)
                 \/ \E sub \in {LEFT_PAGE, RIGHT_PAGE} : Unremove(sub)
        BY <3>3, WidgetsOrder
      <3>4. CASE \/ RemoveFromProject
                 \/ \E id \in Images, where \in {"BEFORE", "AFTER"}, existing \in ImageIds(images) \cup {NoImage} :
                        InsertNewImage(id, where, existing)
        BY <3>4, EditsOrder
      <3> QED  BY <2>1, <3>1, <3>2, <3>3, <3>4 DEF User
    <2>2. CASE Program \/ UNCHANGED vars
      BY <2>2, ProgramOrder
    <2> QED  BY <2>1, <2>2
  <1>2. ASSUME ResultShown, result.page \in Shown(disp), OthersInOrder(disp.items, result.page, Order')
        PROVE  OrderMade
    BY <1>2, ResultInOrder
  <1>3. ChoiceSame => <<stage, splitOrder, reverse>>' = <<stage, splitOrder, reverse>>
    BY DEF ChoiceSame
  <1> QED  BY <1>1, <1>2, <1>3 DEF StepInOrder, OrderMade, OrderKept, Ordered

(* A choice of the order or of the stage puts the whole list in order; a list
   in order stays so, whatever pages and thumbnails are added, removed or made
   again one by one; and a result puts the one thumbnail that is out of place
   where it belongs. *)
THEOREM ThumbnailsStayInOrder == Spec => ThumbnailsInOrder
  <1>1. ListInv /\ IInv /\ [User \/ Program]_vars => [StepInOrder]_vars
    BY StepIsInOrder
  <1> QED  BY ListInvAlways, RecordsAgree, <1>1, PTL DEF Spec, ThumbnailsInOrder, StepInOrder
=============================================================================
