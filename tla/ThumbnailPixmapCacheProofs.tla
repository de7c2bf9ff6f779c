-------------------- MODULE ThumbnailPixmapCacheProofs --------------------
(***************************************************************************)
(* Proofs about ThumbnailPixmapCache: the three views of the items stay in *)
(* step, the references that leave the mutex stay valid, no request is     *)
(* forgotten and no outdated pixmap stays in memory.                       *)
(*                                                                         *)
(* The invariant says of the two lists what the module says of them, with  *)
(* "comes before" in the place of positions; the lemmas of the first part  *)
(* say what each operation of a list does to that order.  Then comes one   *)
(* lemma for each action.                                                  *)
(***************************************************************************)
EXTENDS ThumbnailPixmapCache, FiniteSetTheorems, TLAPS

(* list has each element of S once. *)
IsList(list, S) ==
    /\ list \in Seq(S)
    /\ \A i, j \in 1 .. Len(list) : list[i] = list[j] => i = j
    /\ \A a \in S : \E i \in 1 .. Len(list) : list[i] = a

(* a comes before b in it. *)
Before(list, a, b) ==
    \E i, j \in 1 .. Len(list) : i < j /\ list[i] = a /\ list[j] = b

-----------------------------------------------------------------------------
(* Lists: where an element is, and what the operations do to the order. *)

LEMMA PositionOf ==
    ASSUME NEW S, NEW list, IsList(list, S), NEW a \in S
    PROVE  Position(list, a) \in 1 .. Len(list) /\ list[Position(list, a)] = a
<1>1. \E i \in DOMAIN list : list[i] = a /\ DOMAIN list = 1 .. Len(list)
  BY DEF IsList
<1> QED  BY <1>1 DEF Position

(* The order is that of the positions. *)
LEMMA Ordered ==
    ASSUME NEW S, NEW list, IsList(list, S)
    PROVE  /\ \A a, b : Before(list, a, b) => a \in S /\ b \in S /\ a # b
           /\ \A a, b : Before(list, a, b) => ~Before(list, b, a)
           /\ \A a, b \in S : a # b => Before(list, a, b) \/ Before(list, b, a)
           /\ \A a, b, c : Before(list, a, b) /\ Before(list, b, c) => Before(list, a, c)
<1>0. /\ Len(list) \in Nat
      /\ \A i \in 1 .. Len(list) : list[i] \in S
      /\ \A i, j \in 1 .. Len(list) : list[i] = list[j] => i = j
      /\ \A a \in S : \E i \in 1 .. Len(list) : list[i] = a
  BY DEF IsList
<1>1. \A a, b : Before(list, a, b) => a \in S /\ b \in S /\ a # b
  BY <1>0 DEF Before
<1>2. \A a, b : Before(list, a, b) => ~Before(list, b, a)
  BY <1>0 DEF Before
<1>3. \A a, b \in S : a # b => Before(list, a, b) \/ Before(list, b, a)
  BY <1>0 DEF Before
<1>4. \A a, b, c : Before(list, a, b) /\ Before(list, b, c) => Before(list, a, c)
  BY <1>0 DEF Before
<1> QED  BY <1>1, <1>2, <1>3, <1>4

LEMMA Erased ==
    ASSUME NEW S, NEW list, IsList(list, S), NEW k \in S
    PROVE  /\ IsList(Erase(list, k), S \ {k})
           /\ \A a, b : Before(Erase(list, k), a, b) =>
                Before(list, a, b) /\ a # k /\ b # k
<1> DEFINE n == Position(list, k)
           t == Erase(list, k)
           m == Len(list)
<1>1. n \in 1 .. m /\ list[n] = k
  BY PositionOf
<1>2. list \in Seq(S) /\ m \in Nat
  BY DEF IsList
<1>3. /\ t \in Seq(S) /\ Len(t) = m - 1
      /\ \A i \in 1 .. (m - 1) : t[i] = IF i < n THEN list[i] ELSE list[i + 1]
  <2> HIDE DEF n
  <2> DEFINE u == SubSeq(list, 1, n - 1)
             v == SubSeq(list, n + 1, m)
             z == u \o v
  <2>1. /\ u \in Seq(S) /\ Len(u) = n - 1 /\ \A i \in 1 .. (n - 1) : u[i] = list[i]
    BY <1>1, <1>2, SMTT(30)
  <2>2. /\ v \in Seq(S) /\ Len(v) = m - n
        /\ \A i \in 1 .. (m - n) : v[i] = list[i + n]
    BY <1>1, <1>2, SMTT(30)
  <2>3. t = z
    BY DEF Erase, RemoveAt, n
  <2> HIDE DEF u, v, m, t
  <2>4. /\ z \in Seq(S) /\ Len(z) = m - 1
        /\ \A i \in 1 .. (n - 1) : z[i] = u[i]
        /\ \A i \in 1 .. (m - 1) : i >= n => z[i] = v[i - (n - 1)]
    <3>1. n - 1 \in Nat /\ m - n \in Nat /\ (n - 1) + (m - n) = m - 1
      BY <1>1, <1>2
    <3>2. z \in Seq(S) /\ Len(z) = m - 1
      BY <2>1, <2>2, <3>1
    <3>3. \A i \in 1 .. (n - 1) : z[i] = u[i]
      BY <2>1, <2>2, <3>1
    <3>4. ASSUME NEW i \in 1 .. (m - 1), i >= n PROVE z[i] = v[i - (n - 1)]
      <4>1. i \in Nat /\ i > Len(u) /\ i <= Len(u) + Len(v)
        BY <3>1, <3>4, <2>1, <2>2, <1>1, <1>2
      <4> QED  BY <4>1, <2>1, <2>2
    <3> QED  BY <3>2, <3>3, <3>4
  <2> HIDE DEF z
  <2>5. ASSUME NEW i \in 1 .. (m - 1) PROVE t[i] = IF i < n THEN list[i] ELSE list[i + 1]
    <3>1. CASE i < n
      BY <3>1, <2>1, <2>3, <2>4, <1>1, <1>2
    <3>2. CASE i >= n
      <4>1. i - (n - 1) \in 1 .. (m - n) /\ (i - (n - 1)) + n = i + 1
        BY <3>2, <1>1, <1>2
      <4>2. t[i] = v[i - (n - 1)]
        BY <3>2, <2>3, <2>4
      <4>3. v[i - (n - 1)] = list[i + 1]
        BY <4>1, <2>2
      <4>4. ~(i < n)
        BY <3>2, <1>1, <1>2
      <4> QED  BY <4>2, <4>3, <4>4
    <3> QED  BY <3>1, <3>2, <1>1, <1>2
  <2> QED  BY <2>3, <2>4, <2>5
<1>4. /\ \A i \in 1 .. m : list[i] \in S
      /\ \A i, j \in 1 .. m : list[i] = list[j] => i = j
      /\ \A a \in S : \E i \in 1 .. m : list[i] = a
  BY DEF IsList
<1> HIDE DEF n, t, m
<1> DEFINE From(i) == IF i < n THEN i ELSE i + 1
<1>5. ASSUME NEW i \in 1 .. (m - 1)
      PROVE  /\ From(i) \in 1 .. m /\ From(i) # n /\ t[i] = list[From(i)]
             /\ t[i] \in S \ {k}
  <2>1. From(i) \in 1 .. m /\ From(i) # n
    BY <1>1, <1>2
  <2>2. t[i] = list[From(i)]
    BY <1>3
  <2> QED  BY <1>1, <1>4, <2>1, <2>2
<1>10. ASSUME NEW i \in 1 .. (m - 1), NEW j \in 1 .. (m - 1)
       PROVE  /\ From(i) = From(j) => i = j
              /\ i < j => From(i) < From(j)
  BY <1>1, <1>2
<1> HIDE DEF From
<1>6. t \in Seq(S \ {k})
  BY <1>3, <1>5
<1>7. ASSUME NEW i \in 1 .. (m - 1), NEW j \in 1 .. (m - 1), t[i] = t[j]
      PROVE  i = j
  <2>1. From(i) = From(j)
    BY <1>4, <1>5, <1>7
  <2> QED  BY <2>1, <1>10
<1>8. ASSUME NEW a \in S \ {k} PROVE \E i \in 1 .. Len(t) : t[i] = a
  <2>1. PICK i \in 1 .. m : list[i] = a
    BY <1>4
  <2>2. i # n
    BY <2>1, <1>1, <1>8
  <2>3. CASE i < n
    BY <2>1, <2>3, <1>1, <1>2, <1>3 DEF m
  <2>4. CASE i > n
    <3>1. i - 1 \in 1 .. (m - 1) /\ ~(i - 1 < n) /\ (i - 1) + 1 = i
      BY <2>1, <2>4, <1>1, <1>2 DEF m
    <3> QED  BY <3>1, <2>1, <1>3
  <2> QED  BY <2>2, <2>3, <2>4, <1>1, <1>2 DEF m
<1>9. ASSUME NEW a, NEW b, Before(t, a, b)
      PROVE  Before(list, a, b) /\ a # k /\ b # k
  <2>1. PICK i, j \in 1 .. (m - 1) : i < j /\ t[i] = a /\ t[j] = b
    BY <1>9, <1>3 DEF Before
  <2>2. From(i) \in 1 .. m /\ From(j) \in 1 .. m /\ From(i) < From(j)
    BY <2>1, <1>5, <1>10
  <2>3. list[From(i)] = a /\ list[From(j)] = b
    BY <2>1, <1>5
  <2>4. a \in S \ {k} /\ b \in S \ {k}
    BY <2>1, <1>5
  <2> QED  BY <2>2, <2>3, <2>4 DEF Before, m
<1> QED  BY <1>3, <1>6, <1>7, <1>8, <1>9 DEF IsList, t

LEMMA Appended ==
    ASSUME NEW S, NEW list, IsList(list, S), NEW k, k \notin S
    PROVE  /\ IsList(Append(list, k), S \cup {k})
           /\ \A a, b : Before(Append(list, k), a, b) =>
                Before(list, a, b) \/ (a \in S /\ b = k)
<1> DEFINE t == Append(list, k)
           m == Len(list)
<1>1. /\ m \in Nat
      /\ \A i \in 1 .. m : list[i] \in S
      /\ \A i, j \in 1 .. m : list[i] = list[j] => i = j
      /\ \A a \in S : \E i \in 1 .. m : list[i] = a
  BY DEF IsList
<1>2. /\ t \in Seq(S \cup {k}) /\ Len(t) = m + 1 /\ t[m + 1] = k
      /\ \A i \in 1 .. m : t[i] = list[i]
  BY DEF IsList
<1> HIDE DEF t, m
<1>3. \A i, j \in 1 .. Len(t) : t[i] = t[j] => i = j
  BY <1>1, <1>2
<1>4. \A a \in S \cup {k} : \E i \in 1 .. Len(t) : t[i] = a
  BY <1>1, <1>2
<1>5. ASSUME NEW a, NEW b, Before(t, a, b)
      PROVE  Before(list, a, b) \/ (a \in S /\ b = k)
  BY <1>1, <1>2, <1>5 DEF Before, m
<1> QED  BY <1>2, <1>3, <1>4, <1>5 DEF IsList, t

LEMMA Prepended ==
    ASSUME NEW S, NEW list, IsList(list, S), NEW k, k \notin S
    PROVE  /\ IsList(<<k>> \o list, S \cup {k})
           /\ \A a, b : Before(<<k>> \o list, a, b) =>
                Before(list, a, b) \/ (a = k /\ b \in S)
<1> DEFINE t == <<k>> \o list
           m == Len(list)
<1>1. /\ m \in Nat
      /\ \A i \in 1 .. m : list[i] \in S
      /\ \A i, j \in 1 .. m : list[i] = list[j] => i = j
      /\ \A a \in S : \E i \in 1 .. m : list[i] = a
  BY DEF IsList
<1>2. /\ t \in Seq(S \cup {k}) /\ Len(t) = m + 1 /\ t[1] = k
      /\ \A i \in 1 .. (m + 1) : i > 1 => t[i] = list[i - 1]
  BY DEF IsList
<1> HIDE DEF t, m
<1>6. ASSUME NEW i \in 2 .. (m + 1)
      PROVE  i - 1 \in 1 .. m /\ t[i] = list[i - 1] /\ t[i] \in S
  <2>1. i - 1 \in 1 .. m /\ i \in 1 .. (m + 1) /\ i > 1
    BY <1>1
  <2> QED  BY <2>1, <1>1, <1>2
<1>3. ASSUME NEW i \in 1 .. (m + 1), NEW j \in 1 .. (m + 1), t[i] = t[j]
      PROVE  i = j
  <2>1. CASE i = 1 \/ j = 1
    BY <2>1, <1>1, <1>2, <1>3, <1>6
  <2>2. CASE i \in 2 .. (m + 1) /\ j \in 2 .. (m + 1)
    <3>1. i - 1 = j - 1
      BY <2>2, <1>1, <1>3, <1>6
    <3> QED  BY <3>1, <1>1
  <2> QED  BY <2>1, <2>2, <1>1
<1>4. ASSUME NEW a \in S \cup {k} PROVE \E i \in 1 .. Len(t) : t[i] = a
  <2>1. CASE a = k
    BY <2>1, <1>1, <1>2
  <2>2. CASE a \in S
    <3>1. PICK i \in 1 .. m : list[i] = a
      BY <2>2, <1>1
    <3>2. i + 1 \in 1 .. (m + 1) /\ i + 1 > 1 /\ (i + 1) - 1 = i
      BY <3>1, <1>1
    <3> QED  BY <3>1, <3>2, <1>2
  <2> QED  BY <2>1, <2>2
<1>5. ASSUME NEW a, NEW b, Before(t, a, b)
      PROVE  Before(list, a, b) \/ (a = k /\ b \in S)
  <2>1. PICK i, j \in 1 .. (m + 1) : i < j /\ t[i] = a /\ t[j] = b
    BY <1>2, <1>5 DEF Before
  <2>2. j \in 2 .. (m + 1) /\ b \in S /\ list[j - 1] = b /\ j - 1 \in 1 .. m
    BY <2>1, <1>1, <1>6
  <2>3. CASE i = 1
    BY <2>1, <2>2, <2>3, <1>2
  <2>4. CASE i \in 2 .. (m + 1)
    <3>1. list[i - 1] = a /\ i - 1 \in 1 .. m /\ i - 1 < j - 1
      BY <2>1, <2>2, <2>4, <1>1, <1>6
    <3> QED  BY <2>2, <3>1 DEF Before, m
  <2> QED  BY <2>1, <2>3, <2>4, <1>1
<1> QED  BY <1>2, <1>3, <1>4, <1>5 DEF IsList, t

LEMMA Inserted ==
    ASSUME NEW S, NEW list, IsList(list, S), NEW k, k \notin S, NEW p \in S
    PROVE  LET t == InsertAt(list, Position(list, p), k) IN
           /\ IsList(t, S \cup {k})
           /\ \A a, b : Before(t, a, b) =>
                \/ Before(list, a, b)
                \/ a = k /\ (b = p \/ Before(list, p, b))
                \/ b = k /\ Before(list, a, p)
<1> DEFINE n == Position(list, p)
           t == InsertAt(list, n, k)
           m == Len(list)
<1>1. n \in 1 .. m /\ list[n] = p
  BY PositionOf
<1>2. /\ m \in Nat /\ list \in Seq(S)
      /\ \A i \in 1 .. m : list[i] \in S
      /\ \A i, j \in 1 .. m : list[i] = list[j] => i = j
      /\ \A a \in S : \E i \in 1 .. m : list[i] = a
  BY DEF IsList
<1>3. /\ t \in Seq(S \cup {k}) /\ Len(t) = m + 1 /\ t[n] = k
      /\ \A i \in 1 .. (m + 1) : i < n => t[i] = list[i]
      /\ \A i \in 1 .. (m + 1) : i > n => t[i] = list[i - 1]
  <2> HIDE DEF n
  <2> DEFINE u == SubSeq(list, 1, n - 1)
             v == SubSeq(list, n, m)
             w == u \o <<k>>
  <2>1. /\ u \in Seq(S) /\ Len(u) = n - 1 /\ \A i \in 1 .. (n - 1) : u[i] = list[i]
    BY <1>1, <1>2, SMTT(30)
  <2>2. /\ v \in Seq(S) /\ Len(v) = m - n + 1
        /\ \A i \in 1 .. (m - n + 1) : v[i] = list[i + n - 1]
    BY <1>1, <1>2, SMTT(30)
  <2> HIDE DEF u, v, m
  <2>3. /\ w \in Seq(S \cup {k}) /\ Len(w) = n /\ w[n] = k
        /\ \A i \in 1 .. (n - 1) : w[i] = list[i]
    BY <2>1, <1>1, <1>2
  <2>4. v \in Seq(S \cup {k})
    BY <2>2
  <2> HIDE DEF w
  <2> DEFINE z == w \o v
  <2>5. /\ z \in Seq(S \cup {k}) /\ Len(z) = m + 1
        /\ \A i \in 1 .. n : z[i] = w[i]
        /\ \A i \in 1 .. (m + 1) : i > n => z[i] = v[i - n]
    <3>1. n \in Nat /\ m - n + 1 \in Nat /\ n + (m - n + 1) = m + 1
      BY <1>1, <1>2
    <3>2. z \in Seq(S \cup {k}) /\ Len(z) = m + 1
      BY <2>2, <2>3, <2>4, <3>1
    <3>3. \A i \in 1 .. n : z[i] = w[i]
      BY <2>2, <2>3, <2>4, <3>1
    <3>4. \A i \in 1 .. (m + 1) : i > n => z[i] = v[i - n]
      BY <2>2, <2>3, <2>4, <3>1, <1>2
    <3> QED  BY <3>2, <3>3, <3>4
  <2>6. t = z
    BY DEF InsertAt, u, v, w, m
  <2> HIDE DEF z, t
  <2>7. \A i \in 1 .. (m + 1) : i > n => t[i] = list[i - 1]
    <3> SUFFICES ASSUME NEW i \in 1 .. (m + 1), i > n PROVE t[i] = list[i - 1]
      OBVIOUS
    <3>1. i - n \in 1 .. (m - n + 1) /\ (i - n) + n - 1 = i - 1
      BY <1>1, <1>2
    <3> QED  BY <3>1, <2>2, <2>5, <2>6
  <2>8. \A i \in 1 .. (m + 1) : i < n => t[i] = list[i]
    BY <2>3, <2>5, <2>6, <1>1, <1>2
  <2>9. t[n] = k
    BY <2>3, <2>5, <2>6, <1>1
  <2> QED  BY <2>5, <2>6, <2>7, <2>8, <2>9
<1> HIDE DEF t, m, n
<1> DEFINE From(i) == IF i < n THEN i ELSE i - 1
<1>7. ASSUME NEW i \in 1 .. (m + 1), i # n
      PROVE  From(i) \in 1 .. m /\ t[i] = list[From(i)] /\ t[i] \in S
  <2>1. CASE i < n
    BY <1>1, <1>2, <1>3, <2>1
  <2>2. CASE i > n
    BY <1>1, <1>2, <1>3, <2>2
  <2> QED  BY <1>1, <1>7, <2>1, <2>2
<1>8. ASSUME NEW i \in 1 .. (m + 1), NEW j \in 1 .. (m + 1), i # n, j # n
      PROVE  (From(i) = From(j) => i = j) /\ (i < j => From(i) < From(j))
  BY <1>1, <1>2, <1>8
<1> HIDE DEF From
<1>4. ASSUME NEW i \in 1 .. (m + 1), NEW j \in 1 .. (m + 1), t[i] = t[j]
      PROVE  i = j
  <2>1. CASE i = n \/ j = n
    BY <2>1, <1>3, <1>4, <1>7
  <2>2. CASE i # n /\ j # n
    BY <2>2, <1>2, <1>4, <1>7, <1>8
  <2> QED  BY <2>1, <2>2
<1>5. ASSUME NEW a \in S \cup {k} PROVE \E i \in 1 .. Len(t) : t[i] = a
  <2>1. CASE a = k
    BY <2>1, <1>1, <1>2, <1>3
  <2>2. CASE a \in S
    <3>1. PICK i \in 1 .. m : list[i] = a
      BY <2>2, <1>2
    <3>2. CASE i < n
      BY <3>1, <3>2, <1>1, <1>2, <1>3
    <3>3. CASE i >= n
      <4>1. i + 1 \in 1 .. (m + 1) /\ i + 1 > n /\ (i + 1) - 1 = i
        BY <3>1, <3>3, <1>1, <1>2
      <4> QED  BY <3>1, <4>1, <1>3
    <3> QED  BY <3>1, <3>2, <3>3, <1>1, <1>2
  <2> QED  BY <2>1, <2>2
<1>6. ASSUME NEW a, NEW b, Before(t, a, b)
      PROVE  \/ Before(list, a, b)
             \/ a = k /\ (b = p \/ Before(list, p, b))
             \/ b = k /\ Before(list, a, p)
  <2>1. PICK i, j \in 1 .. (m + 1) : i < j /\ t[i] = a /\ t[j] = b
    BY <1>6, <1>3 DEF Before
  <2>2. CASE i = n
    <3>1. j # n /\ From(j) = j - 1 /\ n <= j - 1 /\ a = k
      BY <2>1, <2>2, <1>1, <1>2, <1>3 DEF From
    <3>2. From(j) \in 1 .. m /\ list[From(j)] = b
      BY <2>1, <3>1, <1>7
    <3>3. n = From(j) \/ n < From(j)
      BY <3>1, <3>2, <1>1, <1>2
    <3> QED  BY <3>1, <3>2, <3>3, <1>1 DEF Before, m
  <2>3. CASE j = n
    <3>1. i # n /\ From(i) = i /\ b = k
      BY <2>1, <2>3, <1>1, <1>2, <1>3 DEF From
    <3>2. i \in 1 .. m /\ list[i] = a
      BY <2>1, <3>1, <1>7
    <3> QED  BY <3>1, <3>2, <2>1, <2>3, <1>1 DEF Before, m
  <2>4. CASE i # n /\ j # n
    <3>1. /\ From(i) \in 1 .. m /\ From(j) \in 1 .. m /\ From(i) < From(j)
          /\ list[From(i)] = a /\ list[From(j)] = b
      BY <2>1, <2>4, <1>7, <1>8
    <3> QED  BY <3>1 DEF Before, m
  <2> QED  BY <2>2, <2>3, <2>4
<1> QED  BY <1>3, <1>4, <1>5, <1>6 DEF IsList, t, n

LEMMA Relocated ==
    ASSUME NEW S, NEW list, IsList(list, S), End \notin S,
           NEW k \in S, NEW p \in S \cup {End}
    PROVE  /\ IsList(Relocate(list, p, k), S)
           /\ \A a, b : Before(Relocate(list, p, k), a, b) =>
                \/ Before(list, a, b) /\ (p = k \/ (a # k /\ b # k))
                \/ a = k /\ b # k /\ p # End /\ (b = p \/ Before(list, p, b))
                \/ b = k /\ a # k /\ (p = End \/ Before(list, a, p))
<1> DEFINE others == Erase(list, k)
           rest == S \ {k}
<1>1. /\ IsList(others, rest)
      /\ \A a, b : Before(others, a, b) => Before(list, a, b) /\ a # k /\ b # k
  BY Erased
<1>2. rest \cup {k} = S /\ k \notin rest /\ k # End
  OBVIOUS
<1> HIDE DEF others, rest
<1>3. CASE p = k
  BY <1>3 DEF Relocate
<1>4. CASE p = End
  <2>1. Relocate(list, p, k) = Append(others, k)
    BY <1>2, <1>4 DEF Relocate, others
  <2>2. /\ IsList(Append(others, k), rest \cup {k})
        /\ \A a, b : Before(Append(others, k), a, b) =>
             Before(others, a, b) \/ (a \in rest /\ b = k)
    BY <1>1, <1>2, Appended
  <2> QED  BY <2>1, <2>2, <1>1, <1>2, <1>4
<1>5. CASE p # k /\ p # End
  <2> DEFINE t == InsertAt(others, Position(others, p), k)
  <2>1. Relocate(list, p, k) = t
    BY <1>2, <1>5 DEF Relocate, others
  <2>2. p \in rest
    BY <1>5 DEF rest
  <2>3. /\ IsList(t, rest \cup {k})
        /\ \A a, b : Before(t, a, b) =>
             \/ Before(others, a, b)
             \/ a = k /\ (b = p \/ Before(others, p, b))
             \/ b = k /\ Before(others, a, p)
    BY <1>1, <1>2, <2>2, Inserted
  <2> HIDE DEF t
  <2> QED  BY <2>1, <2>3, <1>1, <1>2, <1>5
<1> QED  BY <1>3, <1>4, <1>5

LEMMA Followed ==
    ASSUME NEW S, NEW list, IsList(list, S), End \notin S, NEW k \in S
    PROVE  LET f == Following(list, k) IN
           /\ f \in (S \ {k}) \cup {End}
           /\ f = End => \A b : ~Before(list, k, b)
           /\ f # End => /\ Before(list, k, f)
                         /\ \A a : Before(list, a, f) => a = k \/ Before(list, a, k)
<1> DEFINE n == Position(list, k)
           m == Len(list)
           f == Following(list, k)
<1>1. n \in 1 .. m /\ list[n] = k
  BY PositionOf
<1>2. /\ m \in Nat
      /\ \A i \in 1 .. m : list[i] \in S
      /\ \A i, j \in 1 .. m : list[i] = list[j] => i = j
      /\ \A a \in S : \E i \in 1 .. m : list[i] = a
  BY DEF IsList
<1>3. f = IF n = m THEN End ELSE list[n + 1]
  BY DEF Following
<1> HIDE DEF n, f
<1>4. CASE n = m
  BY <1>1, <1>2, <1>3, <1>4 DEF Before, f
<1>5. CASE n # m
  <2>1. n + 1 \in 1 .. m /\ n < n + 1 /\ n # n + 1
    BY <1>1, <1>2, <1>5
  <2>2. f = list[n + 1] /\ f \in S /\ f # k /\ f # End
    BY <2>1, <1>1, <1>2, <1>3, <1>5
  <2>3. Before(list, k, f)
    BY <2>1, <2>2, <1>1 DEF Before
  <2>4. ASSUME NEW a, Before(list, a, f) PROVE a = k \/ Before(list, a, k)
    <3>1. PICK i, j \in 1 .. m : i < j /\ list[i] = a /\ list[j] = f
      BY <2>4 DEF Before
    <3>2. j = n + 1
      BY <3>1, <2>1, <2>2, <1>2
    <3>3. i = n \/ i < n
      BY <3>1, <3>2, <1>1, <1>2
    <3> QED  BY <3>1, <3>3, <1>1 DEF Before
  <2> QED  BY <2>2, <2>3, <2>4 DEF f
<1> QED  BY <1>4, <1>5

LEMMA FirstOf ==
    ASSUME NEW S, NEW list, IsList(list, S), End \notin S
    PROVE  /\ First(list) \in S \cup {End}
           /\ First(list) = End <=> S = {}
           /\ S # {} => Head(list) = First(list)
           /\ \A b \in S : b = First(list) \/ Before(list, First(list), b)
<1> DEFINE m == Len(list)
<1>1. /\ m \in Nat /\ list \in Seq(S)
      /\ \A i \in 1 .. m : list[i] \in S
      /\ \A a \in S : \E i \in 1 .. m : list[i] = a
  BY DEF IsList
<1>2. CASE list = <<>>
  <2>1. m = 0
    BY <1>2
  <2> QED  BY <2>1, <1>1, <1>2 DEF First
<1>3. CASE list # <<>>
  <2>1. m >= 1 /\ Head(list) = list[1]
    BY <1>1, <1>3
  <2>2. First(list) = list[1] /\ list[1] \in S
    BY <2>1, <1>1, <1>3 DEF First
  <2>3. ASSUME NEW b \in S PROVE b = list[1] \/ Before(list, list[1], b)
    <3>1. PICK i \in 1 .. m : list[i] = b
      BY <1>1
    <3>2. i = 1 \/ 1 < i
      BY <1>1, <3>1
    <3> QED  BY <3>1, <3>2, <1>1, <2>1 DEF Before
  <2> QED  BY <2>1, <2>2, <2>3
<1> QED  BY <1>2, <1>3

-----------------------------------------------------------------------------
(* The invariant. *)

(* The load queue has all items, the QUEUED ones first. *)
LoadOrder(list, keys, queued) ==
    /\ IsList(list, keys)
    /\ \A a, b \in keys : Before(list, a, b) /\ b \in queued => a \in queued

(* The remove queue has all items; those before the iterator e are LOADED,  *)
(* those behind it are not, and the item it refers to may be either.        *)
RemoveOrder(list, e, keys, loaded) ==
    /\ IsList(list, keys)
    /\ e \in keys \cup {End}
    /\ e = End => keys \subseteq loaded
    /\ \A a \in keys : Before(list, a, e) => a \in loaded
    /\ \A b \in keys : Before(list, e, b) => b \notin loaded

Item == [image : Images, status : Statuses, age : 0 .. Expired,
         handlers : SUBSET Images, pixmap : Versions]

LoaderStates ==
    [pc : {"none", "process", "exec"}]
        \cup [pc : {"load"}, key : Files, image : Images]
        \cup [pc : {"save", "post"}, key : Files, image : Images, pixmap : Versions]

WriterStates == {Idle} \cup [op : {"recreate", "forget", "ensure"}, image : Images]

Result == [key : Files, status : Results, pixmap : Versions]

ItemTypes ==
    /\ items \in [Keys -> Item]
    /\ Keys \subseteq Files /\ IsFiniteSet(Keys)
    /\ \A k \in Keys : FileOf[items[k].image] = k

OtherTypes ==
    /\ threadStarted \in BOOLEAN /\ shuttingDown \in BOOLEAN /\ wake \in BOOLEAN
    /\ loader \in LoaderStates
    /\ ~threadStarted => loader.pc = "none"
    /\ resultQ \in Seq(Result)
    /\ dirty \subseteq Images /\ waiting \subseteq Images
    /\ source \in [Images -> 1 .. MaxVersion]
    /\ disk \in [Images -> Versions] /\ recreated \in [Images -> Versions]
    /\ writer \in WriterStates

Listed ==
    /\ LoadOrder(loadQueue, Keys, WithStatus("QUEUED"))
    /\ RemoveOrder(removeQueue, endOfLoaded, Keys, WithStatus("LOADED"))

(* The keys of the posted results, none of them posted twice. *)
KeysOf(q) == {q[i].key : i \in 1 .. Len(q)}
PostedOnce(q) == \A i, j \in 1 .. Len(q) : q[i].key = q[j].key => i = j

Busy == loader.pc \in {"load", "save", "post"}
HeldKeys == IF Busy THEN {loader.key} ELSE {}

Referenced ==
    /\ PostedOnce(resultQ)
    /\ KeysOf(resultQ) \cap HeldKeys = {}
    /\ KeysOf(resultQ) \cup HeldKeys = WithStatus("IN_PROGRESS")
    /\ Busy => loader.image = items[loader.key].image

(* What FreshUnlessRaced says of a pixmap, wherever it is. *)
Fresh(version, x) ==
    \/ version >= recreated[x]
    \/ disk[x] < recreated[x]
    \/ writer = [op |-> "forget", image |-> x]

Current ==
    /\ \A k \in WithStatus("LOADED") : Fresh(items[k].pixmap, items[k].image)
    /\ \A i \in 1 .. Len(resultQ) : resultQ[i].status = "LOADED" =>
           Fresh(resultQ[i].pixmap, items[resultQ[i].key].image)
    /\ loader.pc = "post" => loader.pixmap = 0 \/ Fresh(loader.pixmap, loader.image)
    /\ loader.pc = "save" =>
           loader.pixmap >= recreated[loader.image] /\ loader.pixmap > 0
    /\ \A x \in Images : /\ recreated[x] <= source[x]
                         /\ recreated[x] > 0 => disk[x] > 0
    /\ writer.op = "forget" => disk[writer.image] > 0
    /\ writer.op = "ensure" => recreated[writer.image] = 0

IInv ==
    /\ ItemTypes /\ OtherTypes /\ Listed /\ CountersExact /\ Referenced
    /\ WaitingIsListed /\ NoLostWakeUp /\ Current

-----------------------------------------------------------------------------
(* What the operations do to the orders of the two queues. *)

LEMMA LoadErased ==
    ASSUME NEW keys, NEW list, NEW queued, End \notin keys,
           LoadOrder(list, keys, queued), NEW k \in keys
    PROVE  LoadOrder(Erase(list, k), keys \ {k}, queued \ {k})
BY Erased DEF LoadOrder

LEMMA LoadToEnd ==
    ASSUME NEW keys, NEW list, NEW queued, End \notin keys,
           LoadOrder(list, keys, queued), NEW k \in keys
    PROVE  LoadOrder(Relocate(list, End, k), keys, queued \ {k})
<1> DEFINE t == Relocate(list, End, k)
<1>1. k # End
  OBVIOUS
<1>2. /\ IsList(t, keys)
      /\ \A a, b : Before(t, a, b) =>
           \/ Before(list, a, b) /\ (End = k \/ (a # k /\ b # k))
           \/ a = k /\ b # k /\ End # End /\ (b = End \/ Before(list, End, b))
           \/ b = k /\ a # k /\ (End = End \/ Before(list, a, End))
  BY Relocated DEF LoadOrder
<1> HIDE DEF t
<1>3. \A a, b : Before(t, a, b) => (Before(list, a, b) /\ a # k) \/ b = k
  BY <1>1, <1>2
<1>4. t = Relocate(list, End, k)
  BY DEF t
<1> QED  BY <1>2, <1>3, <1>4 DEF LoadOrder

LEMMA LoadToFront ==
    ASSUME NEW keys, NEW list, NEW queued, End \notin keys,
           LoadOrder(list, keys, queued), NEW k \in keys, k \in queued
    PROVE  LoadOrder(Relocate(list, First(list), k), keys, queued)
<1> DEFINE p == First(list)
           t == Relocate(list, p, k)
<1>1. /\ p \in keys \cup {End} /\ (p = End <=> keys = {})
      /\ \A b \in keys : b = p \/ Before(list, p, b)
  BY FirstOf DEF LoadOrder
<1>2. /\ \A a, b : Before(list, a, b) => a \in keys /\ b \in keys /\ a # b
      /\ \A a, b : Before(list, a, b) => ~Before(list, b, a)
  BY Ordered DEF LoadOrder
<1>3. p \in keys /\ \A a : ~Before(list, a, p)
  BY <1>1, <1>2
<1> HIDE DEF p
<1>4. /\ IsList(t, keys)
      /\ \A a, b : Before(t, a, b) =>
           \/ Before(list, a, b) /\ (p = k \/ (a # k /\ b # k))
           \/ a = k /\ b # k /\ p # End /\ (b = p \/ Before(list, p, b))
           \/ b = k /\ a # k /\ (p = End \/ Before(list, a, p))
  BY <1>3, Relocated DEF LoadOrder
<1> HIDE DEF t
<1>5. \A a, b : Before(t, a, b) => Before(list, a, b) \/ a = k
  BY <1>3, <1>4
<1> QED  BY <1>4, <1>5 DEF LoadOrder, t, p

LEMMA LoadNew ==
    ASSUME NEW keys, NEW list, NEW queued, LoadOrder(list, keys, queued),
           NEW k, k \notin keys
    PROVE  LoadOrder(<<k>> \o list, keys \cup {k}, queued \cup {k})
<1> DEFINE t == <<k>> \o list
<1>1. /\ IsList(t, keys \cup {k})
      /\ \A a, b : Before(t, a, b) => Before(list, a, b) \/ (a = k /\ b \in keys)
  BY Prepended DEF LoadOrder
<1>2. \A a, b : Before(list, a, b) => a \in keys /\ b \in keys
  BY Ordered DEF LoadOrder
<1> HIDE DEF t
<1> QED  BY <1>1, <1>2 DEF LoadOrder, t

LEMMA LoadFirst ==
    ASSUME NEW keys, NEW list, NEW queued, End \notin keys,
           LoadOrder(list, keys, queued), queued \subseteq keys, queued # {}
    PROVE  First(list) \in queued
<1>1. /\ First(list) \in keys \cup {End} /\ (First(list) = End <=> keys = {})
      /\ \A b \in keys : b = First(list) \/ Before(list, First(list), b)
  BY FirstOf DEF LoadOrder
<1> QED  BY <1>1 DEF LoadOrder

LEMMA RemoveErased ==
    ASSUME NEW keys, NEW list, NEW e, NEW loaded, End \notin keys,
           RemoveOrder(list, e, keys, loaded), NEW k \in keys
    PROVE  RemoveOrder(Erase(list, k), IF e = k THEN Following(list, e) ELSE e,
                       keys \ {k}, loaded \ {k})
<1> DEFINE t == Erase(list, k)
           f == Following(list, k)
<1>1. /\ IsList(t, keys \ {k})
      /\ \A a, b : Before(t, a, b) => Before(list, a, b) /\ a # k /\ b # k
  BY Erased DEF RemoveOrder
<1>2. /\ f \in (keys \ {k}) \cup {End}
      /\ f = End => \A b : ~Before(list, k, b)
      /\ f # End => /\ Before(list, k, f)
                    /\ \A a : Before(list, a, f) => a = k \/ Before(list, a, k)
  BY Followed DEF RemoveOrder
<1>3. /\ \A a, b : Before(list, a, b) => a \in keys /\ b \in keys /\ a # b
      /\ \A a, b \in keys : a # b => Before(list, a, b) \/ Before(list, b, a)
      /\ \A a, b, c : Before(list, a, b) /\ Before(list, b, c) => Before(list, a, c)
  BY Ordered DEF RemoveOrder
<1> HIDE DEF t, f
<1>4. CASE e # k
  BY <1>1, <1>4 DEF RemoveOrder, t
<1>5. CASE e = k
  <2>1. f = End => keys \ {k} \subseteq loaded \ {k}
    BY <1>2, <1>3, <1>5 DEF RemoveOrder
  <2>2. \A a \in keys \ {k} : Before(t, a, f) => a \in loaded \ {k}
    BY <1>1, <1>2, <1>3, <1>5 DEF RemoveOrder
  <2>3. \A b \in keys \ {k} : Before(t, f, b) => b \notin loaded \ {k}
    BY <1>1, <1>2, <1>3, <1>5 DEF RemoveOrder
  <2>4. RemoveOrder(t, f, keys \ {k}, loaded \ {k})
    BY <1>1, <1>2, <2>1, <2>2, <2>3 DEF RemoveOrder
  <2> QED  BY <2>4, <1>5 DEF t, f
<1> QED  BY <1>4, <1>5

LEMMA RemoveLoaded ==
    ASSUME NEW keys, NEW list, NEW e, NEW loaded, End \notin keys,
           RemoveOrder(list, e, keys, loaded), NEW k \in keys
    PROVE  RemoveOrder(Relocate(list, e, k), e, keys, loaded \cup {k})
<1> DEFINE t == Relocate(list, e, k)
<1>1. /\ IsList(t, keys)
      /\ \A a, b : Before(t, a, b) =>
           \/ Before(list, a, b) /\ (e = k \/ (a # k /\ b # k))
           \/ a = k /\ b # k /\ e # End /\ (b = e \/ Before(list, e, b))
           \/ b = k /\ a # k /\ (e = End \/ Before(list, a, e))
  BY Relocated DEF RemoveOrder
<1>2. \A a, b : Before(list, a, b) => a \in keys /\ b \in keys /\ a # b
  BY Ordered DEF RemoveOrder
<1>3. t = Relocate(list, e, k)
  BY DEF t
<1> HIDE DEF t
<1>4. \A a \in keys : Before(t, a, e) => a \in loaded \cup {k}
  BY <1>1, <1>2 DEF RemoveOrder
<1>5. ASSUME NEW b \in keys, Before(t, e, b) PROVE b \notin loaded \cup {k}
  <2>1. e \in keys /\ e # End /\ e # b
    BY <1>1, <1>5, Ordered
  <2> QED  BY <1>1, <1>2, <1>5, <2>1 DEF RemoveOrder
<1> QED  BY <1>1, <1>3, <1>4, <1>5 DEF RemoveOrder

LEMMA RemoveNew ==
    ASSUME NEW keys, NEW list, NEW e, NEW loaded, End \notin keys,
           RemoveOrder(list, e, keys, loaded),
           NEW k, k \notin keys, k \notin loaded, k # End
    PROVE  RemoveOrder(Append(list, k), IF e = End THEN k ELSE e, keys \cup {k}, loaded)
<1> DEFINE t == Append(list, k)
           g == IF e = End THEN k ELSE e
<1>1. /\ IsList(t, keys \cup {k})
      /\ \A a, b : Before(t, a, b) => Before(list, a, b) \/ (a \in keys /\ b = k)
  BY Appended DEF RemoveOrder
<1>2. \A a, b : Before(list, a, b) => a \in keys /\ b \in keys /\ a # b
  BY Ordered DEF RemoveOrder
<1> HIDE DEF t
<1>3. \A a \in keys \cup {k} : Before(t, a, g) => a \in loaded
  BY <1>1, <1>2 DEF RemoveOrder
<1>4. \A b \in keys \cup {k} : Before(t, g, b) => b \notin loaded
  BY <1>1, <1>2 DEF RemoveOrder
<1>5. g \in keys \cup {k} /\ g # End
  BY DEF RemoveOrder
<1> QED  BY <1>1, <1>3, <1>4, <1>5 DEF RemoveOrder, t

LEMMA LoadedFirst ==
    ASSUME NEW keys, NEW list, NEW e, NEW loaded, End \notin keys,
           RemoveOrder(list, e, keys, loaded), NEW a, NEW b \in loaded,
           Before(list, a, b)
    PROVE  a \in loaded
<1>1. /\ \A c, d : Before(list, c, d) => c \in keys /\ d \in keys /\ c # d
      /\ \A c, d \in keys : c # d => Before(list, c, d) \/ Before(list, d, c)
      /\ \A c, d, g : Before(list, c, d) /\ Before(list, d, g) => Before(list, c, g)
  BY Ordered DEF RemoveOrder
<1>2. a \in keys /\ b \in keys
  BY <1>1
<1>3. CASE e = End
  BY <1>2, <1>3 DEF RemoveOrder
<1>4. CASE e # End
  BY <1>1, <1>2, <1>4 DEF RemoveOrder
<1> QED  BY <1>3, <1>4

LEMMA FirstLoaded ==
    ASSUME NEW keys, NEW list, NEW e, NEW loaded, End \notin keys,
           RemoveOrder(list, e, keys, loaded), loaded \subseteq keys, loaded # {}
    PROVE  First(list) \in loaded /\ Head(list) = First(list)
<1>1. /\ Head(list) = First(list)
      /\ \A b \in keys : b = First(list) \/ Before(list, First(list), b)
  <2>1. IsList(list, keys) /\ keys # {}
    BY DEF RemoveOrder
  <2> QED  BY <2>1, FirstOf
<1>2. ASSUME NEW b \in loaded, Before(list, First(list), b)
      PROVE  First(list) \in loaded
  BY <1>2, LoadedFirst
<1>3. First(list) \in loaded
  BY <1>1, <1>2
<1> QED  BY <1>1, <1>3

(* The order is stated by positions in the module. *)
LEMMA Preceding ==
    ASSUME NEW list, NEW keys, IsList(list, keys), NEW S,
           \A a, b \in keys : Before(list, a, b) /\ b \in S => a \in S
    PROVE  Precedes(list, S) /\ IsInjective(list) /\ Range(list) = keys
<1>1. /\ DOMAIN list = 1 .. Len(list) /\ Len(list) \in Nat
      /\ \A i \in 1 .. Len(list) : list[i] \in keys
      /\ \A i, j \in 1 .. Len(list) : list[i] = list[j] => i = j
      /\ \A a \in keys : \E i \in 1 .. Len(list) : list[i] = a
  BY DEF IsList
<1>2. Precedes(list, S)
  BY <1>1 DEF Precedes, Before
<1>3. IsInjective(list)
  BY <1>1 DEF IsInjective
<1>4. Range(list) = keys
  BY <1>1 DEF Range
<1> QED  BY <1>2, <1>3, <1>4

-----------------------------------------------------------------------------
(* Results are posted and delivered. *)

LEMMA PostedLast ==
    ASSUME NEW q \in Seq(Result), NEW r \in Result
    PROVE  /\ Append(q, r) \in Seq(Result)
           /\ KeysOf(Append(q, r)) = KeysOf(q) \cup {r.key}
           /\ PostedOnce(q) /\ r.key \notin KeysOf(q) => PostedOnce(Append(q, r))
           /\ \A i \in 1 .. Len(Append(q, r)) :
                  \/ Append(q, r)[i] = r
                  \/ \E j \in 1 .. Len(q) : Append(q, r)[i] = q[j]
<1> DEFINE t == Append(q, r)
           m == Len(q)
<1>1. /\ t \in Seq(Result) /\ Len(t) = m + 1 /\ m \in Nat /\ t[m + 1] = r
      /\ \A i \in 1 .. m : t[i] = q[i]
  OBVIOUS
<1> HIDE DEF t, m
<1>2. \A i \in 1 .. (m + 1) : i = m + 1 \/ i \in 1 .. m
  BY <1>1
<1>3. \A i \in 1 .. Len(t) : t[i] = r \/ \E j \in 1 .. m : t[i] = q[j]
  BY <1>1, <1>2
<1>4. KeysOf(t) = KeysOf(q) \cup {r.key}
  <2>1. KeysOf(t) \subseteq KeysOf(q) \cup {r.key}
    BY <1>3 DEF KeysOf, m
  <2>2. KeysOf(q) \subseteq KeysOf(t)
    <3>1. \A i \in 1 .. m : i \in 1 .. Len(t) /\ q[i].key = t[i].key
      BY <1>1
    <3> QED  BY <3>1 DEF KeysOf, m
  <2>3. r.key \in KeysOf(t)
    BY <1>1 DEF KeysOf
  <2> QED  BY <2>1, <2>2, <2>3
<1>5. ASSUME PostedOnce(q), r.key \notin KeysOf(q) PROVE PostedOnce(t)
  BY <1>1, <1>2, <1>5 DEF PostedOnce, KeysOf, m
<1> QED  BY <1>1, <1>3, <1>4, <1>5 DEF t, m

LEMMA DeliveredFirst ==
    ASSUME NEW q \in Seq(Result), q # <<>>, PostedOnce(q)
    PROVE  /\ Head(q) \in Result /\ Head(q).key \in KeysOf(q)
           /\ Tail(q) \in Seq(Result) /\ PostedOnce(Tail(q))
           /\ KeysOf(Tail(q)) = KeysOf(q) \ {Head(q).key}
           /\ \E j \in 1 .. Len(q) : Head(q) = q[j]
           /\ \A i \in 1 .. Len(Tail(q)) : \E j \in 1 .. Len(q) : Tail(q)[i] = q[j]
<1> DEFINE t == Tail(q)
           m == Len(q)
           h == Head(q)
<1>1. /\ t \in Seq(Result) /\ Len(t) = m - 1 /\ m \in Nat /\ m >= 1
      /\ h = q[1] /\ h \in Result
      /\ \A i \in 1 .. (m - 1) : t[i] = q[i + 1]
  OBVIOUS
<1> HIDE DEF t, m, h
<1>2. /\ \A i \in 1 .. (m - 1) : i + 1 \in 1 .. m /\ i + 1 # 1
      /\ \A j \in 1 .. m : j = 1 \/ (j - 1 \in 1 .. (m - 1) /\ (j - 1) + 1 = j)
      /\ 1 \in 1 .. m
  BY <1>1
<1>3. \A i, j \in 1 .. m : q[i].key = q[j].key => i = j
  BY DEF PostedOnce, m
<1>4. PostedOnce(t)
  <2> SUFFICES ASSUME NEW i \in 1 .. (m - 1), NEW j \in 1 .. (m - 1),
                      t[i].key = t[j].key
               PROVE  i = j
    BY <1>1 DEF PostedOnce
  <2>1. i + 1 = j + 1
    BY <1>1, <1>2, <1>3
  <2> QED  BY <2>1
<1>5. KeysOf(t) = KeysOf(q) \ {h.key}
  <2>1. KeysOf(t) \subseteq KeysOf(q) \ {h.key}
    <3> SUFFICES ASSUME NEW i \in 1 .. (m - 1)
                 PROVE  t[i].key \in KeysOf(q) /\ t[i].key # h.key
      BY <1>1 DEF KeysOf
    <3>1. t[i].key = q[i + 1].key /\ i + 1 \in 1 .. m /\ i + 1 # 1
      BY <1>1, <1>2
    <3> QED  BY <3>1, <1>1, <1>2, <1>3 DEF KeysOf, m
  <2>2. KeysOf(q) \ {h.key} \subseteq KeysOf(t)
    <3> SUFFICES ASSUME NEW j \in 1 .. m, q[j].key # h.key
                 PROVE  q[j].key \in KeysOf(t)
      BY DEF KeysOf, m
    <3>1. j - 1 \in 1 .. (m - 1) /\ t[j - 1] = q[j]
      BY <1>1, <1>2
    <3> QED  BY <3>1, <1>1 DEF KeysOf
  <2> QED  BY <2>1, <2>2
<1>6. h.key \in KeysOf(q)
  BY <1>1, <1>2 DEF KeysOf, m
<1>7. \E j \in 1 .. m : h = q[j]
  BY <1>1, <1>2
<1>8. \A i \in 1 .. Len(t) : \E j \in 1 .. m : t[i] = q[j]
  BY <1>1, <1>2
<1> QED  BY <1>1, <1>4, <1>5, <1>6, <1>7, <1>8 DEF t, m, h

(* A counter is adjusted by one. *)
LEMMA Counting ==
    ASSUME NEW S, IsFiniteSet(S), NEW x
    PROVE  /\ IsFiniteSet(S \cup {x}) /\ IsFiniteSet(S \ {x})
           /\ Cardinality(S) \in Nat
           /\ Cardinality(S) = 0 <=> S = {}
           /\ Cardinality(S \cup {x}) = IF x \in S THEN Cardinality(S)
                                                   ELSE Cardinality(S) + 1
           /\ Cardinality(S \ {x}) = IF x \in S THEN Cardinality(S) - 1
                                                ELSE Cardinality(S)
BY FS_AddElement, FS_RemoveElement, FS_CardinalityType, FS_EmptySet

(* The sets of items of one status. *)
LEMMA StatusSets ==
    ASSUME ItemTypes
    PROVE  /\ \A s \in Statuses : WithStatus(s) \subseteq Keys /\ IsFiniteSet(WithStatus(s))
           /\ \A k \in Keys, s \in Statuses : k \in WithStatus(s) <=> items[k].status = s
           /\ \A k \in Keys : items[k].status \in Statuses
           /\ End \notin Keys
<1>1. \A s \in Statuses : WithStatus(s) \subseteq Keys
  BY DEF WithStatus
<1>2. \A s \in Statuses : IsFiniteSet(WithStatus(s))
  BY <1>1, FS_Subset DEF ItemTypes
<1>3. \A k \in Keys : items[k].status \in Statuses
  BY DEF ItemTypes, Item
<1> QED  BY <1>1, <1>2, <1>3, CacheAssumption DEF WithStatus, ItemTypes

(* What the thread and the writer hold. *)
LEMMA LoaderHolds ==
    ASSUME OtherTypes
    PROVE  /\ loader.pc \in {"none", "process", "exec", "load", "save", "post"}
           /\ Busy => loader.key \in Files /\ loader.image \in Images
           /\ loader.pc \in {"save", "post"} => loader.pixmap \in Versions
BY DEF OtherTypes, LoaderStates, Busy

LEMMA WriterHolds ==
    ASSUME OtherTypes
    PROVE  /\ writer.op \in {"none", "recreate", "forget", "ensure"}
           /\ writer.op # "none" =>
                /\ writer.image \in Images
                /\ writer = [op |-> writer.op, image |-> writer.image]
           /\ writer.op = "none" => writer = Idle
BY DEF OtherTypes, WriterStates, Idle

(* Versions are numbers. *)
LEMMA VersionsAre ==
    ASSUME OtherTypes
    PROVE  /\ Versions \subseteq Nat /\ 0 \in Versions
           /\ \A x \in Images : /\ source[x] \in Versions /\ source[x] > 0
                                /\ disk[x] \in Versions /\ recreated[x] \in Versions
BY CacheAssumption DEF OtherTypes, Versions

(* An item that is IN_PROGRESS is the only one of its image. *)
LEMMA OnlyOne ==
    ASSUME IInv
    PROVE  /\ \A k \in Keys : items[k].image \in Images /\ FileOf[items[k].image] = k
           /\ \A i \in 1 .. Len(resultQ) :
                  /\ resultQ[i] \in Result
                  /\ resultQ[i].key \in WithStatus("IN_PROGRESS")
           /\ Busy => /\ loader.key \in WithStatus("IN_PROGRESS")
                      /\ loader.image = items[loader.key].image
                      /\ \A i \in 1 .. Len(resultQ) : resultQ[i].key # loader.key
<1>1. \A k \in Keys : items[k].image \in Images /\ FileOf[items[k].image] = k
  BY DEF IInv, ItemTypes, Item
<1>2. \A i \in 1 .. Len(resultQ) : resultQ[i] \in Result /\ resultQ[i].key \in KeysOf(resultQ)
  BY DEF IInv, OtherTypes, KeysOf
<1>3. Busy => HeldKeys = {loader.key}
  BY DEF HeldKeys
<1>4. /\ KeysOf(resultQ) \cap HeldKeys = {}
      /\ KeysOf(resultQ) \cup HeldKeys = WithStatus("IN_PROGRESS")
      /\ Busy => loader.image = items[loader.key].image
  BY DEF IInv, Referenced
<1> QED  BY <1>1, <1>2, <1>3, <1>4

-----------------------------------------------------------------------------
(* The initial state, and the steps that leave the items and lists alone.  *)

LEMMA InitHolds == Init => IInv
<1> SUFFICES ASSUME Init PROVE IInv
  OBVIOUS
<1>0. items = << >> /\ Keys = {}
  BY DEF Init, Keys
<1>1. ItemTypes
  <2>1. items \in [Keys -> Item]
    BY <1>0
  <2> QED  BY <1>0, <2>1, FS_EmptySet DEF ItemTypes
<1>2. OtherTypes
  <2>1. 1 .. MaxVersion # {} /\ 1 \in 1 .. MaxVersion /\ {0, 1} \subseteq Versions
    BY CacheAssumption DEF Versions
  <2>2. disk \in [Images -> Versions] /\ recreated \in [Images -> Versions]
    BY <2>1 DEF Init
  <2>3. source \in [Images -> 1 .. MaxVersion]
    BY <2>1 DEF Init
  <2>4. loader \in LoaderStates /\ writer \in WriterStates /\ loader.pc = "none"
    <3>1. loader = [pc |-> "none"] /\ writer = Idle
      BY DEF Init
    <3>2. loader \in [pc : {"none", "process", "exec"}] /\ loader.pc = "none"
      BY <3>1
    <3> QED  BY <3>1, <3>2 DEF LoaderStates, WriterStates
  <2>5. resultQ \in Seq(Result) /\ dirty \subseteq Images /\ waiting \subseteq Images
    BY DEF Init
  <2>6. threadStarted \in BOOLEAN /\ shuttingDown \in BOOLEAN /\ wake \in BOOLEAN
    BY DEF Init
  <2> QED  BY <2>2, <2>3, <2>4, <2>5, <2>6 DEF OtherTypes
<1>3. \A s : WithStatus(s) = {}
  BY <1>0 DEF WithStatus
<1>4. Listed
  <2>1. IsList(<<>>, {})
    BY DEF IsList
  <2> QED  BY <1>0, <1>3, <2>1 DEF Init, Listed, LoadOrder, RemoveOrder
<1>5. CountersExact
  <2>1. Cardinality({}) = 0
    BY FS_EmptySet
  <2>2. /\ Cardinality(WithStatus("QUEUED")) = 0
        /\ Cardinality(WithStatus("LOADED")) = 0
    BY <1>3, <2>1, Zenon
  <2>3. 0 <= MaxCachedPixmaps
    BY CacheAssumption
  <2> QED  BY <2>2, <2>3 DEF Init, CountersExact
<1>6. Referenced
  BY <1>3 DEF Init, Referenced, PostedOnce, KeysOf, HeldKeys, Busy
<1>7. WaitingIsListed /\ NoLostWakeUp
  BY <1>3 DEF Init, WaitingIsListed, NoLostWakeUp
<1>8. Current
  BY <1>3, CacheAssumption DEF Init, Current, Idle, Versions
<1> QED  BY <1>1, <1>2, <1>4, <1>5, <1>6, <1>7, <1>8 DEF IInv

(* Steps that leave the items and their lists alone. *)
LEMMA ViewsKept ==
    ASSUME IInv, UNCHANGED views
    PROVE  /\ ItemTypes' /\ Listed' /\ CountersExact'
           /\ items' = items /\ Keys' = Keys
           /\ WithStatus("QUEUED")' = WithStatus("QUEUED")
           /\ WithStatus("IN_PROGRESS")' = WithStatus("IN_PROGRESS")
           /\ WithStatus("LOADED")' = WithStatus("LOADED")
<1>1. items' = items /\ Keys' = Keys
  BY DEF views, Keys
<1>2. \A s : WithStatus(s)' = WithStatus(s)
  BY <1>1 DEF WithStatus
<1>3. ItemTypes'
  BY <1>1 DEF IInv, ItemTypes
<1>4. Listed' /\ CountersExact'
  BY <1>1, <1>2 DEF IInv, Listed, CountersExact, views
<1> QED  BY <1>1, <1>2, <1>3, <1>4

(* Steps of a thread that holds no item before or after. *)
LEMMA QuietStep ==
    ASSUME IInv, UNCHANGED <<views, resultQ, waiting, files, writer, recreated>>,
           loader' = loader \/ (~Busy /\ ~Busy'),
           OtherTypes', NoLostWakeUp'
    PROVE  IInv'
<1>1. /\ ItemTypes' /\ Listed' /\ CountersExact'
      /\ items' = items
      /\ WithStatus("QUEUED")' = WithStatus("QUEUED")
      /\ WithStatus("IN_PROGRESS")' = WithStatus("IN_PROGRESS")
      /\ WithStatus("LOADED")' = WithStatus("LOADED")
  BY ViewsKept
<1>2. Referenced'
  BY <1>1 DEF IInv, Referenced, Busy, HeldKeys, KeysOf, PostedOnce
<1>3. WaitingIsListed'
  BY <1>1 DEF IInv, WaitingIsListed
<1>4. Current'
  BY <1>1 DEF IInv, Current, Fresh, Busy, files
<1> QED  BY <1>1, <1>2, <1>3, <1>4 DEF IInv

(* Updates, paints that ask for nothing, the destructor, the wake-ups. *)
LEMMA QuietStepsKeep ==
    ASSUME IInv,
           \/ \E x \in Images : Update(x) \/ PaintWaiting(x) \/ PaintFailed(x)
           \/ Destroy \/ LoaderStops \/ LoaderWakes \/ LoaderQuits
           \/ UNCHANGED vars
    PROVE  IInv'
<1>1. CASE \/ \E x \in Images : Update(x) \/ PaintWaiting(x) \/ PaintFailed(x)
           \/ Destroy \/ UNCHANGED vars
  <2>1. /\ UNCHANGED <<views, resultQ, waiting, files, writer, recreated>>
        /\ UNCHANGED <<threadStarted, wake, loader>>
        /\ dirty' \subseteq Images /\ shuttingDown' \in BOOLEAN
        /\ shuttingDown => shuttingDown'
    BY <1>1 DEF Update, PaintWaiting, PaintFailed, Paint, Destroy, vars, gui, IInv, OtherTypes
  <2>2. OtherTypes'
    BY <2>1 DEF IInv, OtherTypes, files
  <2>3. NoLostWakeUp'
    <3>1. WithStatus("QUEUED")' = WithStatus("QUEUED")
      BY <2>1, ViewsKept
    <3> QED  BY <2>1, <3>1 DEF IInv, NoLostWakeUp
  <2> QED  BY <2>1, <2>2, <2>3, QuietStep
<1>2. CASE LoaderStops \/ LoaderWakes \/ LoaderQuits
  <2>1. /\ UNCHANGED <<views, resultQ, waiting, files, writer, recreated>>
        /\ UNCHANGED <<threadStarted, shuttingDown, dirty>>
        /\ loader.pc \in {"process", "exec"}
        /\ \E pc \in {"none", "process", "exec"} : loader' = [pc |-> pc]
        /\ wake' \in BOOLEAN
    BY <1>2 DEF LoaderStops, LoaderWakes, LoaderQuits, gui, IInv, OtherTypes
  <2>2. ~Busy /\ ~Busy'
    BY <2>1 DEF Busy
  <2>3. OtherTypes'
    <3>1. loader' \in LoaderStates
      BY <2>1 DEF LoaderStates
    <3>2. threadStarted
      BY <2>1 DEF IInv, OtherTypes
    <3> QED  BY <2>1, <3>1, <3>2 DEF IInv, OtherTypes, files
  <2>4. NoLostWakeUp'
    <3>1. WithStatus("QUEUED")' = WithStatus("QUEUED")
      BY <2>1, ViewsKept
    <3>2. CASE LoaderStops
      <4>1. WithStatus("QUEUED") \subseteq Keys /\ End \notin Keys
        BY StatusSets DEF IInv, Statuses
      <4>2. WithStatus("QUEUED") # {} => First(loadQueue) \in WithStatus("QUEUED")
        BY <4>1, LoadFirst DEF IInv, Listed
      <4> QED  BY <3>1, <3>2, <4>2 DEF LoaderStops, SomeQueued, NextToLoad, NoLostWakeUp
    <3>3. CASE LoaderWakes
      BY <3>3 DEF LoaderWakes, NoLostWakeUp
    <3>4. CASE LoaderQuits
      BY <3>4 DEF LoaderQuits, NoLostWakeUp
    <3> QED  BY <1>2, <3>2, <3>3, <3>4
  <2> QED  BY <2>1, <2>2, <2>3, <2>4, QuietStep
<1> QED  BY <1>1, <1>2

LEMMA LoadThumbnailKeeps ==
    ASSUME IInv, LoadThumbnail
    PROVE  IInv'
<1>1. UNCHANGED views
  BY DEF LoadThumbnail
<1>2. /\ ItemTypes' /\ Listed' /\ CountersExact'
      /\ items' = items /\ Keys' = Keys
      /\ WithStatus("QUEUED")' = WithStatus("QUEUED")
      /\ WithStatus("IN_PROGRESS")' = WithStatus("IN_PROGRESS")
      /\ WithStatus("LOADED")' = WithStatus("LOADED")
  BY <1>1, ViewsKept
<1>3. OtherTypes'
  <2>1. /\ loader.pc = "load" /\ loader.key \in Files /\ loader.image \in Images
        /\ Busy
    BY LoaderHolds DEF IInv, LoadThumbnail, Busy
  <2>2. /\ Versions \subseteq Nat /\ 0 \in Versions
        /\ source[loader.image] \in Versions /\ source[loader.image] > 0
        /\ disk[loader.image] \in Versions
        /\ recreated[loader.image] \in Versions
    BY <2>1, VersionsAre DEF IInv
  <2>3. \/ \E v \in {0, disk[loader.image]} :
              loader' = [pc |-> "post", key |-> loader.key, image |-> loader.image,
                         pixmap |-> v]
        \/ loader' = [pc |-> "save", key |-> loader.key, image |-> loader.image,
                      pixmap |-> source[loader.image]]
    BY DEF LoadThumbnail, Loaded
  <2>4. loader' \in LoaderStates
    BY <2>1, <2>2, <2>3 DEF LoaderStates
  <2>5. threadStarted
    BY <2>1 DEF IInv, OtherTypes
  <2> QED  BY <2>4, <2>5 DEF IInv, OtherTypes, LoadThumbnail, files, gui
<1>4. /\ loader.pc = "load" /\ Busy /\ loader.image \in Images
      /\ loader'.pc \in {"save", "post"}
      /\ loader'.key = loader.key /\ loader'.image = loader.image
      /\ loader'.pc = "post" => loader'.pixmap \in {0, disk[loader.image]}
      /\ loader'.pc = "save" => loader'.pixmap = source[loader.image]
      /\ UNCHANGED <<resultQ, wake, shuttingDown, source, disk, recreated, writer>>
  BY LoaderHolds DEF IInv, LoadThumbnail, Loaded, Busy, files
<1>5. Referenced'
  BY <1>2, <1>4 DEF IInv, Referenced, Busy, HeldKeys
<1>6. WaitingIsListed'
  BY <1>2 DEF IInv, WaitingIsListed, gui, LoadThumbnail
<1>7. NoLostWakeUp'
  BY <1>4 DEF NoLostWakeUp
<1>8. Current'
  <2>1. /\ Versions \subseteq Nat
        /\ source[loader.image] \in Versions /\ source[loader.image] > 0
        /\ disk[loader.image] \in Versions
        /\ recreated[loader.image] \in Versions
        /\ recreated[loader.image] <= source[loader.image]
    BY <1>4, VersionsAre DEF IInv, Current
  <2>2. loader'.pc = "post" => loader'.pixmap = 0 \/ Fresh(loader'.pixmap, loader'.image)
    <3>1. disk[loader.image] \in Nat /\ recreated[loader.image] \in Nat
      BY <2>1
    <3>2. \/ disk[loader.image] >= recreated[loader.image]
          \/ disk[loader.image] < recreated[loader.image]
      BY <3>1
    <3> QED  BY <1>4, <3>2 DEF Fresh
  <2>3. loader'.pc = "save" => loader'.pixmap >= recreated[loader'.image] /\ loader'.pixmap > 0
    BY <1>4, <2>1
  <2> QED  BY <1>2, <1>4, <2>2, <2>3 DEF IInv, Current, Fresh
<1> QED  BY <1>2, <1>3, <1>5, <1>6, <1>7, <1>8 DEF IInv

LEMMA SaveThumbnailKeeps ==
    ASSUME IInv, SaveThumbnail
    PROVE  IInv'
<1>1. UNCHANGED views
  BY DEF SaveThumbnail
<1>2. /\ ItemTypes' /\ Listed' /\ CountersExact'
      /\ items' = items /\ Keys' = Keys
      /\ WithStatus("QUEUED")' = WithStatus("QUEUED")
      /\ WithStatus("IN_PROGRESS")' = WithStatus("IN_PROGRESS")
      /\ WithStatus("LOADED")' = WithStatus("LOADED")
  BY <1>1, ViewsKept
<1>3. OtherTypes'
  <2>1. /\ loader.pc = "save" /\ loader.key \in Files /\ loader.image \in Images
        /\ loader.pixmap \in Versions
    BY LoaderHolds DEF IInv, SaveThumbnail, Busy
  <2>2. loader' \in LoaderStates /\ threadStarted
    BY <2>1 DEF SaveThumbnail, Loaded, LoaderStates, IInv, OtherTypes
  <2>3. disk' \in [Images -> Versions]
    BY <2>1 DEF SaveThumbnail, IInv, OtherTypes
  <2> QED  BY <2>2, <2>3 DEF IInv, OtherTypes, SaveThumbnail, gui
<1>4. /\ loader.pc = "save" /\ Busy /\ loader.image \in Images
      /\ loader.pixmap \in Versions
      /\ loader'.pc = "post" /\ loader'.key = loader.key
      /\ loader'.image = loader.image /\ loader'.pixmap = loader.pixmap
      /\ UNCHANGED <<resultQ, wake, shuttingDown, source, recreated, writer>>
      /\ disk' = [disk EXCEPT ![loader.image] = loader.pixmap]
  BY LoaderHolds DEF IInv, SaveThumbnail, Loaded, Busy
<1>5. Referenced'
  BY <1>2, <1>4 DEF IInv, Referenced, Busy, HeldKeys
<1>6. WaitingIsListed'
  BY <1>2 DEF IInv, WaitingIsListed, gui, SaveThumbnail
<1>7. NoLostWakeUp'
  BY <1>4 DEF NoLostWakeUp
<1>8. Current'
  <2> DEFINE x == loader.image
  <2>1. /\ Versions \subseteq Nat /\ disk \in [Images -> Versions]
        /\ recreated[x] \in Versions /\ source[x] \in Versions
        /\ loader.pixmap >= recreated[x] /\ loader.pixmap > 0
    BY <1>4, VersionsAre DEF IInv, Current, OtherTypes
  <2>2. /\ disk'[x] = loader.pixmap
        /\ \A y \in Images : y # x => disk'[y] = disk[y]
    BY <1>4, <2>1
  <2>3. ASSUME NEW k \in Keys, k # loader.key
        PROVE  items[k].image \in Images /\ items[k].image # x
    BY <2>3, <1>4, OnlyOne DEF WithStatus
  <2>4. \A v, y : y \in Images /\ y # x /\ Fresh(v, y) => Fresh(v, y)'
    BY <1>4, <2>2 DEF Fresh
  <2>5. \A k \in WithStatus("LOADED") : Fresh(items[k].pixmap, items[k].image)'
    <3> SUFFICES ASSUME NEW k \in WithStatus("LOADED")
                 PROVE  Fresh(items[k].pixmap, items[k].image)'
      OBVIOUS
    <3>1. k \in Keys /\ k # loader.key
      BY <1>4, OnlyOne DEF WithStatus
    <3>2. Fresh(items[k].pixmap, items[k].image)
      BY DEF IInv, Current
    <3>3. items[k].image \in Images /\ items[k].image # x
      BY <3>1, <2>3
    <3> HIDE DEF x
    <3>4. (Fresh(items[k].pixmap, items[k].image))'
      BY <3>2, <3>3, <1>2, <1>4, <2>2 DEF Fresh
    <3> QED  BY <3>4
  <2>6. \A i \in 1 .. Len(resultQ) : resultQ[i].status = "LOADED" =>
            Fresh(resultQ[i].pixmap, items[resultQ[i].key].image)'
    <3> SUFFICES ASSUME NEW i \in 1 .. Len(resultQ), resultQ[i].status = "LOADED"
                 PROVE  Fresh(resultQ[i].pixmap, items[resultQ[i].key].image)'
      OBVIOUS
    <3> DEFINE k == resultQ[i].key
    <3>1. k \in Keys /\ k # loader.key
      BY <1>4, OnlyOne DEF WithStatus
    <3>2. Fresh(resultQ[i].pixmap, items[k].image)
      BY DEF IInv, Current
    <3>3. items[k].image \in Images /\ items[k].image # x
      BY <3>1, <2>3
    <3> HIDE DEF x
    <3> QED  BY <3>2, <3>3, <1>2, <1>4, <2>2 DEF Fresh
  <2>7. \A y \in Images : /\ recreated[y] <= source[y]
                          /\ recreated[y] > 0 => disk'[y] > 0
    BY <2>1, <2>2 DEF IInv, Current
  <2>8. writer.op = "forget" => disk'[writer.image] > 0
    BY <2>1, <2>2, WriterHolds DEF IInv, Current
  <2>9. Fresh(loader.pixmap, x)'
    BY <1>4, <2>1 DEF Fresh
  <2> QED  BY <1>2, <1>4, <2>5, <2>6, <2>7, <2>8, <2>9 DEF IInv, Current, Fresh
<1> QED  BY <1>2, <1>3, <1>5, <1>6, <1>7, <1>8 DEF IInv

LEMMA PostLoadResultKeeps ==
    ASSUME IInv, PostLoadResult
    PROVE  IInv'
<1>1. UNCHANGED views
  BY DEF PostLoadResult
<1>2. /\ ItemTypes' /\ Listed' /\ CountersExact'
      /\ items' = items /\ Keys' = Keys
      /\ WithStatus("QUEUED")' = WithStatus("QUEUED")
      /\ WithStatus("IN_PROGRESS")' = WithStatus("IN_PROGRESS")
      /\ WithStatus("LOADED")' = WithStatus("LOADED")
  BY <1>1, ViewsKept
<1>3. OtherTypes'
  <2>1. /\ loader.pc = "post" /\ loader.key \in Files /\ loader.pixmap \in Versions
        /\ loader.image \in Images /\ threadStarted
    BY LoaderHolds DEF IInv, PostLoadResult, Busy, OtherTypes
  <2> DEFINE r == [key |-> loader.key, pixmap |-> loader.pixmap,
                   status |-> IF loader.pixmap = 0 THEN "LOAD_FAILED" ELSE "LOADED"]
  <2>2. r \in Result /\ resultQ \in Seq(Result)
    BY <2>1 DEF Result, Results, IInv, OtherTypes
  <2>3. resultQ' = Append(resultQ, r) /\ loader' = [pc |-> "process"]
    BY DEF PostLoadResult
  <2> HIDE DEF r
  <2>4. resultQ' \in Seq(Result) /\ loader' \in LoaderStates
    BY <2>2, <2>3, PostedLast DEF LoaderStates
  <2> QED  BY <2>1, <2>4 DEF IInv, OtherTypes, PostLoadResult, gui, files
<1>4. \E r \in Result :
         /\ r.key = loader.key /\ resultQ' = Append(resultQ, r)
         /\ r.pixmap = loader.pixmap /\ (r.status = "LOADED" => r.pixmap # 0)
         /\ loader.pc = "post" /\ Busy /\ loader'.pc = "process"
         /\ UNCHANGED <<source, disk, recreated, writer>>
  <2>1. /\ loader.pc = "post" /\ loader.key \in Files /\ loader.pixmap \in Versions
        /\ Busy
    BY LoaderHolds DEF IInv, PostLoadResult, Busy
  <2> DEFINE r == [key |-> loader.key, pixmap |-> loader.pixmap,
                   status |-> IF loader.pixmap = 0 THEN "LOAD_FAILED" ELSE "LOADED"]
  <2>2. r \in Result /\ r.key = loader.key /\ r.pixmap = loader.pixmap
        /\ (r.status = "LOADED" => r.pixmap # 0)
    BY <2>1 DEF Result, Results
  <2>3. resultQ' = Append(resultQ, r) /\ loader'.pc = "process"
        /\ UNCHANGED <<source, disk, recreated, writer>>
    BY DEF PostLoadResult, files
  <2> HIDE DEF r
  <2> QED  BY <2>1, <2>2, <2>3
<1>5. Referenced'
  <2>1. PICK r \in Result : /\ r.key = loader.key /\ resultQ' = Append(resultQ, r)
                           /\ loader.pc = "post" /\ Busy /\ loader'.pc = "process"
    BY <1>4
  <2>2. resultQ \in Seq(Result)
    BY DEF IInv, OtherTypes
  <2>3. /\ KeysOf(resultQ') = KeysOf(resultQ) \cup {r.key}
        /\ PostedOnce(resultQ) /\ r.key \notin KeysOf(resultQ) => PostedOnce(resultQ')
    BY <2>1, <2>2, PostedLast
  <2>4. HeldKeys = {loader.key} /\ HeldKeys' = {} /\ ~Busy'
    BY <2>1 DEF HeldKeys, Busy
  <2> QED  BY <1>2, <2>1, <2>3, <2>4 DEF IInv, Referenced
<1>6. WaitingIsListed'
  BY <1>2 DEF IInv, WaitingIsListed, gui, PostLoadResult
<1>7. NoLostWakeUp'
  BY <1>2 DEF IInv, NoLostWakeUp, PostLoadResult
<1>8. Current'
  <2>1. PICK r \in Result :
           /\ r.key = loader.key /\ resultQ' = Append(resultQ, r)
           /\ r.pixmap = loader.pixmap /\ (r.status = "LOADED" => r.pixmap # 0)
           /\ loader.pc = "post" /\ Busy /\ loader'.pc = "process"
           /\ UNCHANGED <<source, disk, recreated, writer>>
    BY <1>4
  <2>2. resultQ \in Seq(Result)
    BY DEF IInv, OtherTypes
  <2>3. \A i \in 1 .. Len(resultQ') :
           resultQ'[i] = r \/ \E j \in 1 .. Len(resultQ) : resultQ'[i] = resultQ[j]
    BY <2>1, <2>2, PostedLast
  <2>4. r.status = "LOADED" => Fresh(r.pixmap, items[r.key].image)
    BY <2>1, OnlyOne DEF IInv, Current
  <2>5. \A i \in 1 .. Len(resultQ') : resultQ'[i].status = "LOADED" =>
            Fresh(resultQ'[i].pixmap, items[resultQ'[i].key].image)
    BY <2>3, <2>4 DEF IInv, Current
  <2>6. \A v, y : Fresh(v, y)' <=> Fresh(v, y)
    BY <2>1 DEF Fresh
  <2> QED  BY <1>2, <2>1, <2>5 DEF IInv, Current, Fresh
<1> QED  BY <1>2, <1>3, <1>5, <1>6, <1>7, <1>8 DEF IInv

LEMMA ChangeImageKeeps ==
    ASSUME IInv, NEW x \in Images, ChangeImage(x)
    PROVE  IInv'
<1>1. UNCHANGED views
  BY DEF ChangeImage
<1>2. /\ ItemTypes' /\ Listed' /\ CountersExact'
      /\ items' = items /\ Keys' = Keys
      /\ WithStatus("QUEUED")' = WithStatus("QUEUED")
      /\ WithStatus("IN_PROGRESS")' = WithStatus("IN_PROGRESS")
      /\ WithStatus("LOADED")' = WithStatus("LOADED")
  BY <1>1, ViewsKept
<1>3. OtherTypes'
  <2>1. source' \in [Images -> 1 .. MaxVersion]
    BY CacheAssumption DEF ChangeImage, IInv, OtherTypes
  <2>2. writer' \in WriterStates
    BY DEF ChangeImage, WriterStates
  <2> QED  BY <2>1, <2>2 DEF IInv, OtherTypes, ChangeImage, gui
<1>4. Referenced'
  BY <1>2 DEF IInv, Referenced, Busy, HeldKeys, KeysOf, PostedOnce, files, gui, ChangeImage
<1>5. WaitingIsListed'
  BY <1>2 DEF IInv, WaitingIsListed, gui, ChangeImage
<1>6. NoLostWakeUp'
  BY <1>2 DEF IInv, NoLostWakeUp, ChangeImage
<1>7. Current'
  <2>1. /\ source' = [source EXCEPT ![x] = @ + 1]
        /\ writer = Idle /\ writer' = [op |-> "recreate", image |-> x]
        /\ UNCHANGED <<loader, resultQ, disk, recreated>>
    BY DEF ChangeImage
  <2>2. source \in [Images -> 1 .. MaxVersion] /\ recreated \in [Images -> Versions]
    BY DEF IInv, OtherTypes
  <2>3. \A y \in Images : recreated[y] <= source'[y]
    BY <2>1, <2>2, CacheAssumption DEF IInv, Current, Versions
  <2>4. \A y : writer # [op |-> "forget", image |-> y]
    BY <2>1 DEF Idle
  <2>5. writer'.op = "recreate"
    BY <2>1
  <2> QED  BY <1>2, <2>1, <2>3, <2>4, <2>5 DEF IInv, Current, Fresh
<1> QED  BY <1>2, <1>3, <1>4, <1>5, <1>6, <1>7 DEF IInv

LEMMA RecreateFileKeeps ==
    ASSUME IInv, RecreateFile
    PROVE  IInv'
<1>1. UNCHANGED views
  BY DEF RecreateFile
<1>2. /\ ItemTypes' /\ Listed' /\ CountersExact'
      /\ items' = items /\ Keys' = Keys
      /\ WithStatus("QUEUED")' = WithStatus("QUEUED")
      /\ WithStatus("IN_PROGRESS")' = WithStatus("IN_PROGRESS")
      /\ WithStatus("LOADED")' = WithStatus("LOADED")
  BY <1>1, ViewsKept
<1>3. OtherTypes'
  <2>1. writer.image \in Images /\ source[writer.image] \in Versions
    BY WriterHolds, VersionsAre DEF IInv, RecreateFile
  <2>2. disk' \in [Images -> Versions] /\ writer' \in WriterStates
    BY <2>1 DEF RecreateFile, IInv, OtherTypes, WriterStates
  <2> QED  BY <2>2 DEF IInv, OtherTypes, RecreateFile, gui
<1>4. Referenced'
  BY <1>2 DEF IInv, Referenced, Busy, HeldKeys, KeysOf, PostedOnce, files, gui, RecreateFile
<1>5. WaitingIsListed'
  BY <1>2 DEF IInv, WaitingIsListed, gui, RecreateFile
<1>6. NoLostWakeUp'
  BY <1>2 DEF IInv, NoLostWakeUp, RecreateFile
<1>7. Current'
  <2> DEFINE x == writer.image
  <2>0. /\ x \in Images /\ writer.op = "recreate"
        /\ UNCHANGED <<loader, resultQ, source, recreated>>
    BY WriterHolds DEF IInv, RecreateFile
  <2>1. /\ Versions \subseteq Nat /\ disk \in [Images -> Versions]
        /\ source[x] \in Versions /\ source[x] > 0
    BY <2>0, VersionsAre DEF IInv, OtherTypes
  <2>2. \A y : writer # [op |-> "forget", image |-> y]
    BY <2>0
  <2>3. CASE /\ disk' = [disk EXCEPT ![x] = source[x]]
             /\ writer' = [op |-> "forget", image |-> x]
    <3>1. /\ disk'[x] > 0 /\ \A y \in Images : y # x => disk'[y] = disk[y]
          /\ writer'.op = "forget" /\ writer'.image = x
      BY <2>3, <2>0, <2>1
    <3> HIDE DEF x
    <3>2. \A v, y : y \in Images /\ Fresh(v, y) =>
            \/ v >= recreated[y] \/ disk'[y] < recreated[y]
            \/ writer' = [op |-> "forget", image |-> y]
      BY <3>1, <2>2, <2>3 DEF Fresh
    <3>3. \A k \in WithStatus("LOADED") : items[k].image \in Images
      BY OnlyOne DEF WithStatus
    <3>4. \A i \in 1 .. Len(resultQ) : items[resultQ[i].key].image \in Images
      BY OnlyOne DEF WithStatus
    <3>5. loader.pc = "post" => loader.image \in Images
      BY LoaderHolds DEF IInv, Busy
    <3>6. \A y \in Images : /\ recreated[y] <= source[y]
                            /\ recreated[y] > 0 => disk'[y] > 0
      BY <3>1, <2>0 DEF IInv, Current
    <3>7. writer'.op # "ensure"
      BY <3>1
    <3> QED  BY <1>2, <2>0, <3>1, <3>2, <3>3, <3>4, <3>5, <3>6, <3>7
             DEF IInv, Current, Fresh
  <2>4. CASE writer' = Idle /\ UNCHANGED disk
    <3>1. writer'.op = "none"
      BY <2>4 DEF Idle
    <3> QED  BY <1>2, <2>0, <2>2, <2>4, <3>1 DEF IInv, Current, Fresh
  <2> QED  BY <2>3, <2>4 DEF RecreateFile
<1> QED  BY <1>2, <1>3, <1>4, <1>5, <1>6, <1>7 DEF IInv

LEMMA EnsureExistsKeeps ==
    ASSUME IInv, NEW x \in Images, EnsureExists(x)
    PROVE  IInv'
<1>1. UNCHANGED views
  BY DEF EnsureExists
<1>2. /\ ItemTypes' /\ Listed' /\ CountersExact'
      /\ items' = items /\ Keys' = Keys
      /\ WithStatus("QUEUED")' = WithStatus("QUEUED")
      /\ WithStatus("IN_PROGRESS")' = WithStatus("IN_PROGRESS")
      /\ WithStatus("LOADED")' = WithStatus("LOADED")
  BY <1>1, ViewsKept
<1>3. OtherTypes'
  BY <1>2 DEF IInv, OtherTypes, gui, files, WriterStates, EnsureExists
<1>4. Referenced'
  BY <1>2 DEF IInv, Referenced, Busy, HeldKeys, KeysOf, PostedOnce, files, gui, EnsureExists
<1>5. WaitingIsListed'
  BY <1>2 DEF IInv, WaitingIsListed, gui, EnsureExists
<1>6. NoLostWakeUp'
  BY <1>2 DEF IInv, NoLostWakeUp, EnsureExists
<1>7. Current'
  <2>1. /\ writer = Idle /\ writer' = [op |-> "ensure", image |-> x] /\ disk[x] = 0
        /\ UNCHANGED <<loader, resultQ, source, disk, recreated>>
    BY DEF EnsureExists, files
  <2>2. \A y : writer # [op |-> "forget", image |-> y]
    BY <2>1 DEF Idle
  <2>3. recreated[x] \in Nat
    BY VersionsAre DEF IInv
  <2>6. recreated[x] > 0 => disk[x] > 0
    BY DEF IInv, Current
  <2>4. recreated[x] = 0
    BY <2>1, <2>3, <2>6
  <2>5. writer'.op = "ensure" /\ writer'.image = x
    BY <2>1
  <2> QED  BY <1>2, <2>1, <2>2, <2>4, <2>5 DEF IInv, Current, Fresh
<1> QED  BY <1>2, <1>3, <1>4, <1>5, <1>6, <1>7 DEF IInv

LEMMA EnsureWriteKeeps ==
    ASSUME IInv, EnsureWrite
    PROVE  IInv'
<1>1. UNCHANGED views
  BY DEF EnsureWrite
<1>2. /\ ItemTypes' /\ Listed' /\ CountersExact'
      /\ items' = items /\ Keys' = Keys
      /\ WithStatus("QUEUED")' = WithStatus("QUEUED")
      /\ WithStatus("IN_PROGRESS")' = WithStatus("IN_PROGRESS")
      /\ WithStatus("LOADED")' = WithStatus("LOADED")
  BY <1>1, ViewsKept
<1>3. OtherTypes'
  <2>1. writer.image \in Images /\ source[writer.image] \in Versions
    BY WriterHolds, VersionsAre DEF IInv, EnsureWrite
  <2>2. disk' \in [Images -> Versions] /\ writer' \in WriterStates
    BY <2>1 DEF EnsureWrite, IInv, OtherTypes, WriterStates
  <2> QED  BY <2>2 DEF IInv, OtherTypes, EnsureWrite, gui
<1>4. Referenced'
  BY <1>2 DEF IInv, Referenced, Busy, HeldKeys, KeysOf, PostedOnce, files, gui, EnsureWrite
<1>5. WaitingIsListed'
  BY <1>2 DEF IInv, WaitingIsListed, gui, EnsureWrite
<1>6. NoLostWakeUp'
  BY <1>2 DEF IInv, NoLostWakeUp, EnsureWrite
<1>7. Current'
  <2> DEFINE x == writer.image
  <2>0. /\ x \in Images /\ writer.op = "ensure" /\ writer' = Idle /\ recreated[x] = 0
        /\ UNCHANGED <<loader, resultQ, source, recreated>>
    BY WriterHolds DEF IInv, EnsureWrite, Current
  <2>1. /\ Versions \subseteq Nat /\ disk \in [Images -> Versions]
        /\ source[x] \in Versions /\ source[x] > 0
    BY <2>0, VersionsAre DEF IInv, OtherTypes
  <2>2. \A y : writer # [op |-> "forget", image |-> y]
    BY <2>0
  <2>3. \A y \in Images : y # x => disk'[y] = disk[y]
    BY <2>0, <2>1 DEF EnsureWrite
  <2>4. writer'.op = "none"
    BY <2>0 DEF Idle
  <2> HIDE DEF x
  <2>5. \A v \in Versions, y \in Images : Fresh(v, y) =>
            v >= recreated[y] \/ disk'[y] < recreated[y]
    BY <2>0, <2>1, <2>2, <2>3 DEF Fresh
  <2>6. \A k \in WithStatus("LOADED") :
            items[k].image \in Images /\ items[k].pixmap \in Versions
    BY DEF WithStatus, IInv, ItemTypes, Item
  <2>7. \A i \in 1 .. Len(resultQ) :
            items[resultQ[i].key].image \in Images /\ resultQ[i].pixmap \in Versions
    BY OnlyOne DEF WithStatus, Result
  <2>8. loader.pc = "post" => loader.image \in Images /\ loader.pixmap \in Versions
    BY LoaderHolds DEF IInv, Busy
  <2>9. \A y \in Images : /\ recreated[y] <= source[y]
                          /\ recreated[y] > 0 => disk'[y] > 0
    BY <2>0, <2>3 DEF IInv, Current
  <2> QED  BY <1>2, <2>0, <2>4, <2>5, <2>6, <2>7, <2>8, <2>9
           DEF IInv, Current, Fresh
<1> QED  BY <1>2, <1>3, <1>4, <1>5, <1>6, <1>7 DEF IInv

-----------------------------------------------------------------------------
(* Steps that keep the items but for their ages and handlers.              *)

(* The statuses, images and pixmaps are what the lists, the counters, the  *)
(* references and the freshness of the pixmaps are about.                  *)
LEMMA ItemsKept ==
    ASSUME IInv, Keys' = Keys,
           \A k \in Keys : /\ items'[k].status = items[k].status
                           /\ items'[k].image = items[k].image
                           /\ items'[k].pixmap = items[k].pixmap
    PROVE  /\ \A s \in Statuses : WithStatus(s)' = WithStatus(s)
           /\ WithStatus("QUEUED")' = WithStatus("QUEUED")
           /\ WithStatus("IN_PROGRESS")' = WithStatus("IN_PROGRESS")
           /\ WithStatus("LOADED")' = WithStatus("LOADED")
           /\ UNCHANGED <<loader, resultQ>> => Referenced'
           /\ UNCHANGED <<loader, wake, shuttingDown>> => NoLostWakeUp'
           /\ UNCHANGED <<loader, resultQ, source, disk, recreated, writer>> => Current'
<1>1. \A s : WithStatus(s)' = WithStatus(s)
  BY DEF WithStatus
<1>2. /\ WithStatus("QUEUED")' = WithStatus("QUEUED")
      /\ WithStatus("IN_PROGRESS")' = WithStatus("IN_PROGRESS")
      /\ WithStatus("LOADED")' = WithStatus("LOADED")
  BY <1>1
<1>3. WithStatus("LOADED") \subseteq Keys /\ WithStatus("IN_PROGRESS") \subseteq Keys
  BY DEF WithStatus
<1>4. ASSUME UNCHANGED <<loader, resultQ>> PROVE Referenced'
  <2>1. Busy => items'[loader.key].image = items[loader.key].image
    BY <1>3, OnlyOne
  <2> QED  BY <1>2, <1>4, <2>1
           DEF IInv, Referenced, Busy, HeldKeys, PostedOnce, KeysOf
<1>5. ASSUME UNCHANGED <<loader, wake, shuttingDown>> PROVE NoLostWakeUp'
  BY <1>2, <1>5 DEF IInv, NoLostWakeUp
<1>6. ASSUME UNCHANGED <<loader, resultQ, source, disk, recreated, writer>>
      PROVE  Current'
  <2>1. \A i \in 1 .. Len(resultQ) : resultQ[i].key \in Keys
    BY <1>3, OnlyOne
  <2> QED  BY <1>2, <1>3, <1>6, <2>1 DEF IInv, Current, Fresh
<1> QED  BY <1>1, <1>2, <1>4, <1>5, <1>6

LEMMA DismissKeeps ==
    ASSUME IInv, NEW x \in Images, Dismiss(x)
    PROVE  IInv'
<1>0. items \in [Keys -> Item] /\ IsFiniteSet(Keys)
  BY DEF IInv, ItemTypes
<1>1. items' = [k \in Keys |-> [items[k] EXCEPT !.handlers = @ \ {x}]]
  BY DEF Dismiss
<1>2. /\ Keys' = Keys /\ items' \in [Keys -> Item]
      /\ \A k \in Keys : /\ items'[k].status = items[k].status
                         /\ items'[k].image = items[k].image
                         /\ items'[k].pixmap = items[k].pixmap
                         /\ items'[k].handlers = items[k].handlers \ {x}
  BY <1>0, <1>1 DEF Keys, Item
<1>3. /\ WithStatus("QUEUED")' = WithStatus("QUEUED")
      /\ WithStatus("IN_PROGRESS")' = WithStatus("IN_PROGRESS")
      /\ WithStatus("LOADED")' = WithStatus("LOADED")
      /\ Referenced' /\ NoLostWakeUp' /\ Current'
  BY <1>2, ItemsKept DEF Dismiss, files
<1>4. ItemTypes'
  BY <1>0, <1>2 DEF IInv, ItemTypes
<1>5. OtherTypes'
  BY DEF IInv, OtherTypes, Dismiss, files
<1>6. Listed' /\ CountersExact'
  BY <1>2, <1>3 DEF IInv, Listed, CountersExact, Dismiss
<1>7. WaitingIsListed'
  <2>1. WithStatus("QUEUED") \subseteq Keys /\ WithStatus("IN_PROGRESS") \subseteq Keys
    BY DEF WithStatus
  <2>2. waiting' = waiting \ {x}
    BY DEF Dismiss
  <2> QED  BY <1>2, <1>3, <2>1, <2>2 DEF IInv, WaitingIsListed
<1> QED  BY <1>3, <1>4, <1>5, <1>6, <1>7 DEF IInv

LEMMA PaintLoadedKeeps ==
    ASSUME IInv, NEW x \in Images, PaintLoaded(x)
    PROVE  IInv'
<1>1. items' = items /\ Keys' = Keys
  BY DEF PaintLoaded, Keys
<1>2. /\ WithStatus("QUEUED")' = WithStatus("QUEUED")
      /\ WithStatus("IN_PROGRESS")' = WithStatus("IN_PROGRESS")
      /\ WithStatus("LOADED")' = WithStatus("LOADED")
      /\ Referenced' /\ NoLostWakeUp' /\ Current'
  BY <1>1, ItemsKept DEF PaintLoaded, Paint, files
<1>3. ItemTypes'
  BY <1>1 DEF IInv, ItemTypes
<1>4. OtherTypes'
  BY DEF IInv, OtherTypes, PaintLoaded, Paint, files
<1>5. RemoveOrder(removeQueue', endOfLoaded', Keys, WithStatus("LOADED"))
  <2>1. /\ ThumbId(x) \in WithStatus("LOADED") /\ ThumbId(x) \in Keys
        /\ removeQueue' = Relocate(removeQueue, endOfLoaded, ThumbId(x))
        /\ endOfLoaded' = endOfLoaded
    BY DEF PaintLoaded, WithStatus
  <2>2. End \notin Keys
    BY StatusSets DEF IInv
  <2>3. WithStatus("LOADED") \cup {ThumbId(x)} = WithStatus("LOADED")
    BY <2>1
  <2>4. RemoveOrder(removeQueue, endOfLoaded, Keys, WithStatus("LOADED"))
    BY DEF IInv, Listed
  <2>5. RemoveOrder(Relocate(removeQueue, endOfLoaded, ThumbId(x)), endOfLoaded,
                    Keys, WithStatus("LOADED") \cup {ThumbId(x)})
    BY <2>1, <2>2, <2>4, RemoveLoaded
  <2> QED  BY <2>1, <2>3, <2>5
<1>6. Listed' /\ CountersExact'
  BY <1>1, <1>2, <1>5 DEF IInv, Listed, CountersExact, PaintLoaded
<1>7. WaitingIsListed'
  BY <1>1, <1>2 DEF IInv, WaitingIsListed, PaintLoaded
<1> QED  BY <1>2, <1>3, <1>4, <1>6, <1>7 DEF IInv

LEMMA PaintAgainKeeps ==
    ASSUME IInv, NEW x \in Images, PaintAgain(x)
    PROVE  IInv'
<1> DEFINE key == ThumbId(x)
<1>0. /\ items \in [Keys -> Item] /\ IsFiniteSet(Keys)
      /\ key \in WithStatus("QUEUED") \cup WithStatus("IN_PROGRESS") /\ key \in Keys
      /\ items[key].status = "QUEUED" <=> key \in WithStatus("QUEUED")
  BY DEF IInv, ItemTypes, PaintAgain, WithStatus
<1>1. /\ items' = [items EXCEPT ![key].handlers = @ \cup {x}]
      /\ loadQueue' = IF items[key].status = "QUEUED"
                      THEN Relocate(loadQueue, First(loadQueue), key)
                      ELSE loadQueue
  BY DEF PaintAgain
<1>8. /\ waiting' = waiting \cup {x}
      /\ UNCHANGED <<removeQueue, endOfLoaded, numQueued, numLoaded, loader, resultQ>>
  BY DEF PaintAgain
<1> HIDE DEF key
<1>2. /\ Keys' = Keys /\ items' \in [Keys -> Item]
      /\ \A k \in Keys : /\ items'[k].status = items[k].status
                         /\ items'[k].image = items[k].image
                         /\ items'[k].pixmap = items[k].pixmap
                         /\ items[k].handlers \subseteq items'[k].handlers
      /\ x \in items'[key].handlers
  BY <1>0, <1>1 DEF Keys, Item
<1>3. /\ WithStatus("QUEUED")' = WithStatus("QUEUED")
      /\ WithStatus("IN_PROGRESS")' = WithStatus("IN_PROGRESS")
      /\ WithStatus("LOADED")' = WithStatus("LOADED")
      /\ Referenced' /\ NoLostWakeUp' /\ Current'
  BY <1>2, ItemsKept DEF PaintAgain, Paint, files
<1>4. ItemTypes'
  BY <1>0, <1>2 DEF IInv, ItemTypes
<1>5. OtherTypes'
  BY DEF IInv, OtherTypes, PaintAgain, Paint, files
<1>6. LoadOrder(loadQueue', Keys, WithStatus("QUEUED"))
  <2>1. End \notin Keys
    BY StatusSets DEF IInv
  <2>2. LoadOrder(loadQueue, Keys, WithStatus("QUEUED"))
    BY DEF IInv, Listed
  <2>3. CASE key \in WithStatus("QUEUED")
    <3>1. LoadOrder(Relocate(loadQueue, First(loadQueue), key), Keys,
                    WithStatus("QUEUED"))
      BY <1>0, <2>1, <2>2, <2>3, LoadToFront
    <3> QED  BY <3>1, <2>3, <1>0, <1>1
  <2>4. CASE key \notin WithStatus("QUEUED")
    BY <2>2, <2>4, <1>0, <1>1
  <2> QED  BY <2>3, <2>4
<1>7. Listed' /\ CountersExact'
  BY <1>2, <1>3, <1>6, <1>8 DEF IInv, Listed, CountersExact
<1>9. WaitingIsListed'
  <2>1. WithStatus("QUEUED") \subseteq Keys /\ WithStatus("IN_PROGRESS") \subseteq Keys
    BY DEF WithStatus
  <2> QED  BY <1>0, <1>2, <1>3, <1>8, <2>1 DEF IInv, WaitingIsListed
<1> QED  BY <1>3, <1>4, <1>5, <1>7, <1>9 DEF IInv

LEMMA SetThumbDirKeeps ==
    ASSUME IInv, SetThumbDir
    PROVE  IInv'
<1>0. items \in [Keys -> Item] /\ IsFiniteSet(Keys) /\ Expired \in 0 .. Expired
  BY CacheAssumption DEF IInv, ItemTypes, Expired
<1>1. items' = [k \in Keys |-> [items[k] EXCEPT !.age = Expired]]
  BY DEF SetThumbDir
<1>2. /\ Keys' = Keys /\ items' \in [Keys -> Item]
      /\ \A k \in Keys : /\ items'[k].status = items[k].status
                         /\ items'[k].image = items[k].image
                         /\ items'[k].pixmap = items[k].pixmap
                         /\ items'[k].handlers = items[k].handlers
  BY <1>0, <1>1 DEF Keys, Item
<1>3. /\ WithStatus("QUEUED")' = WithStatus("QUEUED")
      /\ WithStatus("IN_PROGRESS")' = WithStatus("IN_PROGRESS")
      /\ WithStatus("LOADED")' = WithStatus("LOADED")
      /\ Referenced' /\ NoLostWakeUp' /\ Current'
  BY <1>2, ItemsKept DEF SetThumbDir, files
<1>4. ItemTypes'
  BY <1>0, <1>2 DEF IInv, ItemTypes
<1>5. OtherTypes'
  BY DEF IInv, OtherTypes, SetThumbDir, files, gui
<1>6. Listed' /\ CountersExact'
  BY <1>2, <1>3 DEF IInv, Listed, CountersExact, SetThumbDir
<1>7. WaitingIsListed'
  <2>1. WithStatus("QUEUED") \subseteq Keys /\ WithStatus("IN_PROGRESS") \subseteq Keys
    BY DEF WithStatus
  <2> QED  BY <1>2, <1>3, <2>1 DEF IInv, WaitingIsListed, SetThumbDir, gui
<1> QED  BY <1>3, <1>4, <1>5, <1>6, <1>7 DEF IInv

-----------------------------------------------------------------------------
(* Steps that add items or remove them.                                    *)

LEMMA PaintNewKeeps ==
    ASSUME IInv, NEW x \in Images, PaintNew(x)
    PROVE  IInv'
<1> DEFINE key == ThumbId(x)
           new == [image |-> x, status |-> "QUEUED", age |-> 0,
                   handlers |-> {x}, pixmap |-> 0]
<1>0. /\ items \in [Keys -> Item] /\ IsFiniteSet(Keys) /\ Keys \subseteq Files
      /\ key \notin Keys /\ key \in Files /\ FileOf[x] = key
      /\ key # End /\ End \notin Keys
  BY CacheAssumption DEF IInv, ItemTypes, PaintNew, ThumbId
<1>1. new \in Item
  BY CacheAssumption DEF Item, Statuses, Versions, Expired
<1>2. /\ items' = [k \in Keys \cup {key} |-> IF k # key THEN items[k] ELSE new]
      /\ loadQueue' = <<key>> \o loadQueue
      /\ removeQueue' = Append(removeQueue, key)
      /\ endOfLoaded' = IF endOfLoaded = End THEN key ELSE endOfLoaded
      /\ numQueued' = numQueued + 1 /\ numLoaded' = numLoaded
      /\ loader' = IF threadStarted THEN loader ELSE [pc |-> "process"]
      /\ wake' = (wake \/ (threadStarted /\ numQueued = 0))
      /\ waiting' = waiting \cup {x} /\ threadStarted' = TRUE
      /\ UNCHANGED <<shuttingDown, resultQ, source, disk, writer, recreated>>
  BY DEF PaintNew, WakeUpNeeded, files
<1>3. new.image = x /\ new.status = "QUEUED" /\ new.handlers = {x}
  OBVIOUS
<1> HIDE DEF key, new
<1>4. /\ Keys' = Keys \cup {key} /\ items' \in [Keys' -> Item]
      /\ \A k \in Keys : items'[k] = items[k]
      /\ items'[key] = new
  BY <1>0, <1>1, <1>2 DEF Keys
<1>5. /\ WithStatus("QUEUED")' = WithStatus("QUEUED") \cup {key}
      /\ WithStatus("IN_PROGRESS")' = WithStatus("IN_PROGRESS")
      /\ WithStatus("LOADED")' = WithStatus("LOADED")
  BY <1>0, <1>3, <1>4 DEF WithStatus
<1>6. /\ WithStatus("QUEUED") \subseteq Keys /\ WithStatus("LOADED") \subseteq Keys
      /\ WithStatus("IN_PROGRESS") \subseteq Keys /\ IsFiniteSet(WithStatus("QUEUED"))
  BY StatusSets DEF IInv, Statuses
<1>7. ItemTypes'
  <2>1. IsFiniteSet(Keys')
    BY <1>0, <1>4, Counting
  <2>2. \A k \in Keys' : FileOf[items'[k].image] = k
    BY <1>0, <1>3, <1>4 DEF IInv, ItemTypes
  <2> QED  BY <1>0, <1>4, <2>1, <2>2 DEF ItemTypes
<1>8. OtherTypes'
  <2>1. loader' \in LoaderStates
    BY <1>2 DEF IInv, OtherTypes, LoaderStates
  <2>2. wake' \in BOOLEAN
    BY <1>2
  <2> QED  BY <1>2, <2>1, <2>2 DEF IInv, OtherTypes, PaintNew, Paint
<1>9. Listed'
  <2>1. LoadOrder(loadQueue', Keys', WithStatus("QUEUED")')
    <3>1. LoadOrder(loadQueue, Keys, WithStatus("QUEUED"))
      BY DEF IInv, Listed
    <3>2. LoadOrder(<<key>> \o loadQueue, Keys \cup {key}, WithStatus("QUEUED") \cup {key})
      BY <1>0, <3>1, LoadNew
    <3> QED  BY <3>2, <1>2, <1>4, <1>5
  <2>2. RemoveOrder(removeQueue', endOfLoaded', Keys', WithStatus("LOADED")')
    <3>1. RemoveOrder(removeQueue, endOfLoaded, Keys, WithStatus("LOADED"))
      BY DEF IInv, Listed
    <3>2. key \notin WithStatus("LOADED")
      BY <1>0, <1>6
    <3>3. RemoveOrder(Append(removeQueue, key), IF endOfLoaded = End THEN key ELSE endOfLoaded,
                      Keys \cup {key}, WithStatus("LOADED"))
      BY <1>0, <3>1, <3>2, RemoveNew
    <3> QED  BY <3>3, <1>2, <1>4, <1>5
  <2> QED  BY <2>1, <2>2 DEF Listed
<1>10. CountersExact'
  <2>1. numQueued + 1 = Cardinality(WithStatus("QUEUED") \cup {key})
    BY <1>0, <1>6, Counting DEF IInv, CountersExact
  <2> QED  BY <2>1, <1>2, <1>5 DEF IInv, CountersExact
<1>11. /\ HeldKeys' = HeldKeys /\ (Busy' => Busy)
       /\ Busy' => loader' = loader
  BY <1>2 DEF IInv, OtherTypes, HeldKeys, Busy
<1>12. \A k \in WithStatus("IN_PROGRESS") \cup WithStatus("LOADED") : items'[k] = items[k]
  BY <1>4, <1>6
<1>13. Referenced'
  <2>1. Busy => items'[loader.key] = items[loader.key]
    BY <1>12, OnlyOne
  <2> QED  BY <1>2, <1>5, <1>11, <2>1 DEF IInv, Referenced, PostedOnce, KeysOf
<1>14. WaitingIsListed'
  BY <1>2, <1>3, <1>4, <1>5, <1>6 DEF IInv, WaitingIsListed
<1>15. NoLostWakeUp'
  <2> SUFFICES ASSUME loader'.pc \in {"none", "exec"} PROVE wake' \/ shuttingDown'
    BY DEF NoLostWakeUp
  <2>1. threadStarted /\ loader' = loader
    BY <1>2
  <2>2. CASE numQueued = 0
    BY <2>1, <2>2, <1>2
  <2>3. CASE numQueued # 0
    <3>1. WithStatus("QUEUED") # {}
      BY <2>3, <1>6, Counting DEF IInv, CountersExact
    <3> QED  BY <3>1, <2>1, <1>2 DEF IInv, NoLostWakeUp
  <2> QED  BY <2>2, <2>3
<1>16. Current'
  <2>1. \A i \in 1 .. Len(resultQ) : items'[resultQ[i].key] = items[resultQ[i].key]
    BY <1>12, OnlyOne
  <2>2. loader'.pc \in {"post", "save"} => loader' = loader
    BY <1>11 DEF Busy
  <2>3. \A v, y : Fresh(v, y)' <=> Fresh(v, y)
    BY <1>2 DEF Fresh
  <2>4. \A k \in WithStatus("LOADED") : Fresh(items'[k].pixmap, items'[k].image)
    BY <1>12 DEF IInv, Current
  <2>5. \A i \in 1 .. Len(resultQ) : resultQ[i].status = "LOADED" =>
            Fresh(resultQ[i].pixmap, items'[resultQ[i].key].image)
    BY <2>1 DEF IInv, Current
  <2>6. loader'.pc = "post" => loader'.pixmap = 0 \/ Fresh(loader'.pixmap, loader'.image)
    BY <2>2 DEF IInv, Current
  <2>7. loader'.pc = "save" =>
            loader'.pixmap >= recreated[loader'.image] /\ loader'.pixmap > 0
    BY <2>2 DEF IInv, Current
  <2> QED  BY <1>2, <1>5, <2>3, <2>4, <2>5, <2>6, <2>7 DEF IInv, Current, Fresh
<1> QED  BY <1>7, <1>8, <1>9, <1>10, <1>13, <1>14, <1>15, <1>16 DEF IInv

(* removeItemLocked() of any item. *)
LEMMA Removed ==
    ASSUME IInv, NEW key \in Keys, RemoveItem(items, key)
    PROVE  /\ Keys' = Keys \ {key}
           /\ \A k \in Keys \ {key} : items'[k] = items[k]
           /\ WithStatus("QUEUED")' = WithStatus("QUEUED") \ {key}
           /\ WithStatus("IN_PROGRESS")' = WithStatus("IN_PROGRESS") \ {key}
           /\ WithStatus("LOADED")' = WithStatus("LOADED") \ {key}
           /\ ItemTypes' /\ Listed' /\ CountersExact'
<1>0. /\ items \in [Keys -> Item] /\ IsFiniteSet(Keys) /\ Keys \subseteq Files
      /\ End \notin Keys
  BY CacheAssumption DEF IInv, ItemTypes
<1>1. /\ items' = [k \in Keys \ {key} |-> items[k]]
      /\ loadQueue' = Erase(loadQueue, key)
      /\ removeQueue' = Erase(removeQueue, key)
      /\ endOfLoaded' = IF endOfLoaded = key THEN Following(removeQueue, endOfLoaded)
                                             ELSE endOfLoaded
      /\ numQueued' = numQueued - (IF items[key].status = "QUEUED" THEN 1 ELSE 0)
      /\ numLoaded' = numLoaded - (IF items[key].status = "LOADED" THEN 1 ELSE 0)
  BY DEF RemoveItem, RemoveFromLists, Keys
<1>2. /\ Keys' = Keys \ {key} /\ items' \in [Keys' -> Item]
      /\ \A k \in Keys \ {key} : items'[k] = items[k]
  BY <1>0, <1>1 DEF Keys
<1>3. /\ WithStatus("QUEUED")' = WithStatus("QUEUED") \ {key}
      /\ WithStatus("IN_PROGRESS")' = WithStatus("IN_PROGRESS") \ {key}
      /\ WithStatus("LOADED")' = WithStatus("LOADED") \ {key}
  BY <1>0, <1>2 DEF WithStatus
<1>4. /\ WithStatus("QUEUED") \subseteq Keys /\ WithStatus("LOADED") \subseteq Keys
      /\ IsFiniteSet(WithStatus("QUEUED")) /\ IsFiniteSet(WithStatus("LOADED"))
      /\ key \in WithStatus("QUEUED") <=> items[key].status = "QUEUED"
      /\ key \in WithStatus("LOADED") <=> items[key].status = "LOADED"
  BY StatusSets DEF IInv, Statuses
<1>5. ItemTypes'
  <2>1. IsFiniteSet(Keys')
    BY <1>0, <1>2, Counting
  <2> QED  BY <1>0, <1>2, <2>1 DEF IInv, ItemTypes
<1>6. Listed'
  <2>1. LoadOrder(loadQueue', Keys', WithStatus("QUEUED")')
    <3>1. LoadOrder(loadQueue, Keys, WithStatus("QUEUED"))
      BY DEF IInv, Listed
    <3>2. LoadOrder(Erase(loadQueue, key), Keys \ {key}, WithStatus("QUEUED") \ {key})
      BY <1>0, <3>1, LoadErased
    <3> QED  BY <3>2, <1>1, <1>2, <1>3
  <2>2. RemoveOrder(removeQueue', endOfLoaded', Keys', WithStatus("LOADED")')
    <3>1. RemoveOrder(removeQueue, endOfLoaded, Keys, WithStatus("LOADED"))
      BY DEF IInv, Listed
    <3>2. RemoveOrder(Erase(removeQueue, key),
                      IF endOfLoaded = key THEN Following(removeQueue, endOfLoaded)
                                           ELSE endOfLoaded,
                      Keys \ {key}, WithStatus("LOADED") \ {key})
      BY <1>0, <3>1, RemoveErased
    <3> QED  BY <3>2, <1>1, <1>2, <1>3
  <2> QED  BY <2>1, <2>2 DEF Listed
<1>7. CountersExact'
  <2>1. /\ numQueued = Cardinality(WithStatus("QUEUED"))
        /\ numLoaded = Cardinality(WithStatus("LOADED"))
        /\ numLoaded <= MaxCachedPixmaps /\ MaxCachedPixmaps \in Nat
    BY CacheAssumption DEF IInv, CountersExact
  <2>2. /\ numQueued \in Nat /\ numLoaded \in Nat
        /\ Cardinality(WithStatus("QUEUED") \ {key}) =
             IF items[key].status = "QUEUED" THEN numQueued - 1 ELSE numQueued
        /\ Cardinality(WithStatus("LOADED") \ {key}) =
             IF items[key].status = "LOADED" THEN numLoaded - 1 ELSE numLoaded
    BY <1>4, <2>1, Counting
  <2>3. /\ numQueued' = Cardinality(WithStatus("QUEUED") \ {key})
        /\ numLoaded' = Cardinality(WithStatus("LOADED") \ {key})
        /\ numLoaded' <= MaxCachedPixmaps
    BY <1>1, <2>1, <2>2
  <2> QED  BY <1>3, <2>3 DEF CountersExact
<1> QED  BY <1>2, <1>3, <1>5, <1>6, <1>7

LEMMA ForgetItemKeeps ==
    ASSUME IInv, ForgetItem
    PROVE  IInv'
<1> SUFFICES ASSUME NEW y \in Images, y = writer.image
             PROVE  IInv'
  BY WriterHolds DEF IInv, ForgetItem
<1> DEFINE key == ThumbId(y)
<1>0. /\ writer.op = "forget" /\ writer' = Idle /\ writer = [op |-> "forget", image |-> y]
      /\ FileOf[y] = key
      /\ UNCHANGED <<threadStarted, shuttingDown, wake, loader, resultQ,
                     dirty, waiting, source, disk>>
  BY WriterHolds DEF IInv, ForgetItem, gui, files, ThumbId
<1>1. /\ IF key \in WithStatus("LOADED") \cup WithStatus("LOAD_FAILED")
         THEN RemoveItem(items, key) ELSE UNCHANGED views
      /\ recreated' = [recreated EXCEPT ![y] =
                          IF key \in WithStatus("IN_PROGRESS") THEN 0 ELSE source[y]]
  BY DEF ForgetItem, Outdated
<1> HIDE DEF key
<1>2. /\ ItemTypes' /\ Listed' /\ CountersExact'
      /\ Keys' \subseteq Keys /\ \A k \in Keys' : items'[k] = items[k]
      /\ WithStatus("QUEUED")' = WithStatus("QUEUED")
      /\ WithStatus("IN_PROGRESS")' = WithStatus("IN_PROGRESS")
      /\ WithStatus("LOADED")' = WithStatus("LOADED") \ {key}
  <2>1. CASE key \in WithStatus("LOADED") \cup WithStatus("LOAD_FAILED")
    <3>1. RemoveItem(items, key) /\ key \in Keys
      BY <2>1, <1>1 DEF WithStatus
    <3>2. /\ Keys' = Keys \ {key}
          /\ \A k \in Keys \ {key} : items'[k] = items[k]
          /\ WithStatus("QUEUED")' = WithStatus("QUEUED") \ {key}
          /\ WithStatus("IN_PROGRESS")' = WithStatus("IN_PROGRESS") \ {key}
          /\ WithStatus("LOADED")' = WithStatus("LOADED") \ {key}
          /\ ItemTypes' /\ Listed' /\ CountersExact'
      <4> SUFFICES ASSUME NEW r, r = key, r \in Keys
                   PROVE  /\ Keys' = Keys \ {r}
                          /\ \A k \in Keys \ {r} : items'[k] = items[k]
                          /\ WithStatus("QUEUED")' = WithStatus("QUEUED") \ {r}
                          /\ WithStatus("IN_PROGRESS")' = WithStatus("IN_PROGRESS") \ {r}
                          /\ WithStatus("LOADED")' = WithStatus("LOADED") \ {r}
                          /\ ItemTypes' /\ Listed' /\ CountersExact'
        BY <3>1
      <4> QED  BY <3>1, Removed
    <3>3. key \notin WithStatus("QUEUED") /\ key \notin WithStatus("IN_PROGRESS")
      BY <2>1 DEF WithStatus
    <3> QED  BY <3>2, <3>3
  <2>2. CASE key \notin WithStatus("LOADED") \cup WithStatus("LOAD_FAILED")
    <3>1. /\ ItemTypes' /\ Listed' /\ CountersExact'
          /\ items' = items /\ Keys' = Keys
          /\ WithStatus("QUEUED")' = WithStatus("QUEUED")
          /\ WithStatus("IN_PROGRESS")' = WithStatus("IN_PROGRESS")
          /\ WithStatus("LOADED")' = WithStatus("LOADED")
      BY <2>2, <1>1, ViewsKept
    <3> QED  BY <3>1, <2>2
  <2> QED  BY <2>1, <2>2
<1>3. OtherTypes'
  <2>1. recreated' \in [Images -> Versions] /\ writer' \in WriterStates
    BY <1>0, <1>1, VersionsAre DEF IInv, OtherTypes, WriterStates
  <2> QED  BY <1>0, <2>1 DEF IInv, OtherTypes
<1>4. \A k \in WithStatus("IN_PROGRESS") \cup WithStatus("QUEUED") :
          k \in Keys' /\ items'[k] = items[k]
  BY <1>2 DEF WithStatus
<1>5. Referenced'
  <2>1. Busy => items'[loader.key] = items[loader.key]
    BY <1>4, OnlyOne
  <2> QED  BY <1>0, <1>2, <2>1 DEF IInv, Referenced, Busy, HeldKeys, PostedOnce, KeysOf
<1>6. WaitingIsListed'
  BY <1>0, <1>2, <1>4 DEF IInv, WaitingIsListed
<1>7. NoLostWakeUp'
  BY <1>0, <1>2 DEF IInv, NoLostWakeUp
<1>8. Current'
  <2>1. /\ Versions \subseteq Nat /\ recreated \in [Images -> Versions]
        /\ source[y] \in Versions /\ disk[y] \in Versions /\ disk[y] > 0
    BY <1>0, VersionsAre DEF IInv, OtherTypes, Current
  <2>2. /\ \A x \in Images : x # y => recreated'[x] = recreated[x]
        /\ key \in WithStatus("IN_PROGRESS") => recreated'[y] = 0
        /\ key \notin WithStatus("IN_PROGRESS") => recreated'[y] = source[y]
    BY <1>1, <2>1
  <2>3. \A v, x : x # y /\ x \in Images /\ Fresh(v, x) =>
            v >= recreated'[x] \/ disk[x] < recreated'[x]
    BY <1>0, <2>2 DEF Fresh
  <2>4. \A k \in WithStatus("LOADED")' :
            items[k].image \in Images /\ items[k].image # y /\ k \in WithStatus("LOADED")
    BY <1>0, <1>2, OnlyOne DEF WithStatus
  <2>5. \A k \in WithStatus("LOADED")' : items'[k] = items[k]
    BY <1>2 DEF WithStatus
  <2>6. \A k \in WithStatus("LOADED")' : Fresh(items[k].pixmap, items[k].image)'
    <3> SUFFICES ASSUME NEW k \in WithStatus("LOADED")'
                 PROVE  Fresh(items[k].pixmap, items[k].image)'
      OBVIOUS
    <3>1. Fresh(items[k].pixmap, items[k].image)
      BY <2>4 DEF IInv, Current
    <3> QED  BY <3>1, <1>0, <2>3, <2>4, <2>5 DEF Fresh
  <2>7. \A k \in WithStatus("IN_PROGRESS"), v \in Nat :
            Fresh(v, items[k].image) =>
                \/ v >= recreated'[items[k].image]
                \/ disk[items[k].image] < recreated'[items[k].image]
    <3> SUFFICES ASSUME NEW k \in WithStatus("IN_PROGRESS"), NEW v \in Nat,
                        Fresh(v, items[k].image)
                 PROVE  \/ v >= recreated'[items[k].image]
                        \/ disk[items[k].image] < recreated'[items[k].image]
      OBVIOUS
    <3>1. items[k].image \in Images /\ FileOf[items[k].image] = k
      BY OnlyOne DEF WithStatus
    <3>2. CASE items[k].image = y
      BY <3>1, <3>2, <1>0, <2>2
    <3>3. CASE items[k].image # y
      BY <3>1, <3>3, <2>3
    <3> QED  BY <3>2, <3>3
  <2>8. \A i \in 1 .. Len(resultQ) : resultQ[i].status = "LOADED" =>
            Fresh(resultQ[i].pixmap, items[resultQ[i].key].image)'
    <3>1. \A i \in 1 .. Len(resultQ) :
              /\ resultQ[i].key \in WithStatus("IN_PROGRESS")
              /\ resultQ[i].pixmap \in Nat
              /\ items'[resultQ[i].key] = items[resultQ[i].key]
      BY <1>4, <2>1, OnlyOne DEF Result
    <3> QED  BY <3>1, <2>7, <1>0 DEF IInv, Current, Fresh
  <2>9. loader.pc = "post" => loader.pixmap = 0 \/ Fresh(loader.pixmap, loader.image)'
    <3> SUFFICES ASSUME loader.pc = "post", loader.pixmap # 0
                 PROVE  Fresh(loader.pixmap, loader.image)'
      OBVIOUS
    <3>1. /\ loader.key \in WithStatus("IN_PROGRESS") /\ loader.pixmap \in Nat
          /\ loader.image = items[loader.key].image
          /\ Fresh(loader.pixmap, loader.image)
      BY <2>1, OnlyOne, LoaderHolds DEF IInv, Busy, Current
    <3> QED  BY <3>1, <2>7, <1>0 DEF Fresh
  <2>10. loader.pc = "save" =>
             loader.pixmap >= recreated'[loader.image] /\ loader.pixmap > 0
    <3> SUFFICES ASSUME loader.pc = "save"
                 PROVE  loader.pixmap >= recreated'[loader.image] /\ loader.pixmap > 0
      OBVIOUS
    <3>1. /\ loader.key \in WithStatus("IN_PROGRESS") /\ loader.pixmap \in Nat
          /\ loader.image = items[loader.key].image /\ loader.image \in Images
          /\ loader.pixmap >= recreated[loader.image] /\ loader.pixmap > 0
          /\ FileOf[loader.image] = loader.key
      BY <2>1, OnlyOne, LoaderHolds DEF IInv, Busy, Current, WithStatus
    <3> QED  BY <3>1, <2>2, <1>0
  <2>11. \A x \in Images : /\ recreated'[x] <= source[x]
                           /\ recreated'[x] > 0 => disk[x] > 0
    <3> SUFFICES ASSUME NEW x \in Images
                 PROVE  recreated'[x] <= source[x] /\ (recreated'[x] > 0 => disk[x] > 0)
      OBVIOUS
    <3>2. source[y] \in Nat
      BY <2>1
    <3>3. source[y] <= source[y] /\ 0 <= source[y]
      BY <3>2
    <3>4. recreated'[y] = 0 \/ recreated'[y] = source[y]
      BY <2>2
    <3>1. CASE x = y
      BY <3>1, <3>3, <3>4, <2>1
    <3>5. CASE x # y
      BY <3>5, <2>2 DEF IInv, Current
    <3> QED  BY <3>1, <3>5
  <2>12. writer'.op = "none"
    BY <1>0 DEF Idle
  <2> QED  BY <1>0, <2>6, <2>8, <2>9, <2>10, <2>11, <2>12 DEF Current
<1> QED  BY <1>2, <1>3, <1>5, <1>6, <1>7, <1>8 DEF IInv

-----------------------------------------------------------------------------
(* Steps that move an item from one status to the next.                    *)

(* The thread takes the first QUEUED item, whether it has expired or not. *)
LEMMA Taken ==
    ASSUME IInv, SomeQueued, NEW age \in {0, 1}, QueuedToInProgress(age),
           UNCHANGED <<removeQueue, endOfLoaded, numLoaded>>,
           NEW key, key = NextToLoad
    PROVE  /\ key \in WithStatus("QUEUED") /\ key \in Keys /\ Keys' = Keys
           /\ \A k \in Keys : /\ items'[k].image = items[k].image
                              /\ items'[k].pixmap = items[k].pixmap
                              /\ items'[k].handlers = items[k].handlers
           /\ WithStatus("QUEUED")' = WithStatus("QUEUED") \ {key}
           /\ WithStatus("IN_PROGRESS")' = WithStatus("IN_PROGRESS") \cup {key}
           /\ WithStatus("LOADED")' = WithStatus("LOADED")
           /\ ItemTypes' /\ Listed' /\ CountersExact'
<1>0. /\ items \in [Keys -> Item] /\ IsFiniteSet(Keys) /\ Keys \subseteq Files
      /\ End \notin Keys /\ key \in WithStatus("QUEUED") /\ key \in Keys
      /\ items[key].status = "QUEUED"
  BY CacheAssumption DEF IInv, ItemTypes, SomeQueued, WithStatus
<1> DEFINE Older(a) == IF a + age > Expired THEN Expired ELSE a + age
<1>1. /\ items' = [k \in Keys |->
                      [items[k] EXCEPT
                          !.status = IF k = key THEN "IN_PROGRESS" ELSE @,
                          !.age = Older(@)]]
      /\ loadQueue' = Relocate(loadQueue, End, key)
      /\ numQueued' = numQueued - 1
  BY DEF QueuedToInProgress
<1>2. \A a \in 0 .. Expired : Older(a) \in 0 .. Expired
  BY CacheAssumption DEF Expired
<1> HIDE DEF Older
<1>3. /\ Keys' = Keys
      /\ \A k \in Keys : /\ items'[k] \in Item
                         /\ items'[k].image = items[k].image
                         /\ items'[k].pixmap = items[k].pixmap
                         /\ items'[k].handlers = items[k].handlers
                         /\ k # key => items'[k].status = items[k].status
      /\ items'[key].status = "IN_PROGRESS"
      /\ items' \in [Keys -> Item]
  <2>1. Keys' = Keys
    BY <1>1 DEF Keys
  <2>2. ASSUME NEW k \in Keys
        PROVE  /\ items'[k] \in Item
               /\ items'[k].image = items[k].image
               /\ items'[k].pixmap = items[k].pixmap
               /\ items'[k].handlers = items[k].handlers
               /\ k # key => items'[k].status = items[k].status
               /\ k = key => items'[k].status = "IN_PROGRESS"
    BY <1>0, <1>1, <1>2 DEF Item, Statuses
  <2>3. items' \in [Keys -> Item]
    <3>1. items' = [k \in Keys |-> items'[k]]
      BY <1>1
    <3> HIDE DEF Older
    <3> QED  BY <2>2, <3>1
  <2> QED  BY <1>0, <2>1, <2>2, <2>3
<1>4. /\ WithStatus("QUEUED")' = WithStatus("QUEUED") \ {key}
      /\ WithStatus("IN_PROGRESS")' = WithStatus("IN_PROGRESS") \cup {key}
      /\ WithStatus("LOADED")' = WithStatus("LOADED")
  BY <1>0, <1>3 DEF WithStatus
<1>5. ItemTypes'
  BY <1>0, <1>3 DEF IInv, ItemTypes
<1>6. Listed'
  <2>1. LoadOrder(loadQueue, Keys, WithStatus("QUEUED"))
    BY DEF IInv, Listed
  <2>2. LoadOrder(Relocate(loadQueue, End, key), Keys, WithStatus("QUEUED") \ {key})
    BY <1>0, <2>1, LoadToEnd
  <2> QED  BY <2>2, <1>1, <1>3, <1>4 DEF IInv, Listed
<1>7. CountersExact'
  <2>1. IsFiniteSet(WithStatus("QUEUED"))
    BY StatusSets DEF IInv, Statuses
  <2>2. numQueued - 1 = Cardinality(WithStatus("QUEUED") \ {key})
    BY <1>0, <2>1, Counting DEF IInv, CountersExact
  <2> QED  BY <2>2, <1>1, <1>4 DEF IInv, CountersExact
<1> QED  BY <1>0, <1>3, <1>4, <1>5, <1>6, <1>7

LEMMA LoaderExpiresKeeps ==
    ASSUME IInv, LoaderExpires
    PROVE  IInv'
<1> SUFFICES ASSUME NEW key, key = NextToLoad PROVE IInv'
  OBVIOUS
<1> DEFINE r == [key |-> key, status |-> "REQUEST_EXPIRED", pixmap |-> 0]
<1>0. /\ loader.pc = "process" /\ SomeQueued /\ QueuedToInProgress(0)
      /\ resultQ' = Append(resultQ, r)
      /\ UNCHANGED <<removeQueue, endOfLoaded, numLoaded, threadStarted, shuttingDown,
                     wake, loader, dirty, waiting, source, disk, writer, recreated>>
  BY DEF LoaderExpires, gui, files
<1>1. /\ key \in WithStatus("QUEUED") /\ key \in Keys /\ Keys' = Keys
      /\ \A k \in Keys : /\ items'[k].image = items[k].image
                         /\ items'[k].pixmap = items[k].pixmap
                         /\ items'[k].handlers = items[k].handlers
      /\ WithStatus("QUEUED")' = WithStatus("QUEUED") \ {key}
      /\ WithStatus("IN_PROGRESS")' = WithStatus("IN_PROGRESS") \cup {key}
      /\ WithStatus("LOADED")' = WithStatus("LOADED")
      /\ ItemTypes' /\ Listed' /\ CountersExact'
  <2>1. 0 \in {0, 1}
    OBVIOUS
  <2> QED  BY <1>0, <2>1, Taken
<1>2. r \in Result /\ resultQ \in Seq(Result) /\ r.key = key /\ r.status # "LOADED"
  BY <1>1, CacheAssumption DEF IInv, ItemTypes, OtherTypes, Result, Results, Versions
<1> HIDE DEF r
<1>3. /\ resultQ' \in Seq(Result)
      /\ KeysOf(resultQ') = KeysOf(resultQ) \cup {key}
      /\ PostedOnce(resultQ) /\ key \notin KeysOf(resultQ) => PostedOnce(resultQ')
      /\ \A i \in 1 .. Len(resultQ') :
             resultQ'[i] = r \/ \E j \in 1 .. Len(resultQ) : resultQ'[i] = resultQ[j]
  BY <1>0, <1>2, PostedLast
<1>4. OtherTypes'
  BY <1>0, <1>3 DEF IInv, OtherTypes
<1>5. ~Busy /\ ~Busy' /\ HeldKeys = {} /\ HeldKeys' = {}
  BY <1>0 DEF Busy, HeldKeys
<1>6. Referenced'
  <2>1. key \notin WithStatus("IN_PROGRESS")
    BY <1>1 DEF WithStatus
  <2> QED  BY <1>1, <1>3, <1>5, <2>1 DEF IInv, Referenced
<1>7. WaitingIsListed'
  <2>1. WithStatus("QUEUED") \subseteq Keys /\ WithStatus("IN_PROGRESS") \subseteq Keys
    BY DEF WithStatus
  <2> QED  BY <1>0, <1>1, <2>1 DEF IInv, WaitingIsListed
<1>8. NoLostWakeUp'
  BY <1>0 DEF NoLostWakeUp
<1>9. Current'
  <2>1. \A v, x : Fresh(v, x)' <=> Fresh(v, x)
    BY <1>0 DEF Fresh
  <2>2. \A k \in WithStatus("LOADED")' : Fresh(items'[k].pixmap, items'[k].image)
    BY <1>1 DEF IInv, Current, WithStatus
  <2>3. \A i \in 1 .. Len(resultQ') : resultQ'[i].status = "LOADED" =>
            Fresh(resultQ'[i].pixmap, items'[resultQ'[i].key].image)
    <3>1. \A j \in 1 .. Len(resultQ) :
              /\ resultQ[j].key \in Keys
              /\ resultQ[j].status = "LOADED" =>
                   Fresh(resultQ[j].pixmap, items[resultQ[j].key].image)
      BY OnlyOne DEF IInv, Current, WithStatus
    <3> QED  BY <3>1, <1>1, <1>2, <1>3
  <2> QED  BY <1>0, <2>1, <2>2, <2>3 DEF IInv, Current, Fresh
<1> QED  BY <1>1, <1>4, <1>6, <1>7, <1>8, <1>9 DEF IInv

LEMMA LoaderTakesKeeps ==
    ASSUME IInv, LoaderTakes
    PROVE  IInv'
<1> SUFFICES ASSUME NEW key, key = NextToLoad PROVE IInv'
  OBVIOUS
<1>0. /\ loader.pc = "process" /\ SomeQueued /\ QueuedToInProgress(1)
      /\ loader' = [pc |-> "load", key |-> key, image |-> items[key].image]
      /\ UNCHANGED <<removeQueue, endOfLoaded, numLoaded, threadStarted, shuttingDown,
                     wake, resultQ, dirty, waiting, source, disk, writer, recreated>>
  BY DEF LoaderTakes, gui, files
<1>1. /\ key \in WithStatus("QUEUED") /\ key \in Keys /\ Keys' = Keys
      /\ \A k \in Keys : /\ items'[k].image = items[k].image
                         /\ items'[k].pixmap = items[k].pixmap
                         /\ items'[k].handlers = items[k].handlers
      /\ WithStatus("QUEUED")' = WithStatus("QUEUED") \ {key}
      /\ WithStatus("IN_PROGRESS")' = WithStatus("IN_PROGRESS") \cup {key}
      /\ WithStatus("LOADED")' = WithStatus("LOADED")
      /\ ItemTypes' /\ Listed' /\ CountersExact'
  <2>1. 1 \in {0, 1}
    OBVIOUS
  <2> QED  BY <1>0, <2>1, Taken
<1>2. /\ loader'.pc = "load" /\ loader'.key = key
      /\ loader'.image = items[key].image
  BY <1>0
<1>3. OtherTypes'
  <2>1. threadStarted
    BY <1>0 DEF IInv, OtherTypes
  <2>2. key \in Files /\ items[key].image \in Images
    BY <1>1, OnlyOne DEF IInv, ItemTypes
  <2>3. loader' \in LoaderStates
    BY <1>0, <2>2 DEF LoaderStates
  <2> QED  BY <1>0, <2>1, <2>3 DEF IInv, OtherTypes
<1>4. ~Busy /\ HeldKeys = {} /\ HeldKeys' = {key}
  BY <1>0, <1>2 DEF Busy, HeldKeys
<1>5. Referenced'
  <2>1. key \notin WithStatus("IN_PROGRESS")
    BY <1>1 DEF WithStatus
  <2> QED  BY <1>0, <1>1, <1>2, <1>4, <2>1 DEF IInv, Referenced, PostedOnce, KeysOf
<1>6. WaitingIsListed'
  <2>1. WithStatus("QUEUED") \subseteq Keys /\ WithStatus("IN_PROGRESS") \subseteq Keys
    BY DEF WithStatus
  <2> QED  BY <1>0, <1>1, <2>1 DEF IInv, WaitingIsListed
<1>7. NoLostWakeUp'
  BY <1>2 DEF NoLostWakeUp
<1>8. Current'
  <2>1. \A v, x : Fresh(v, x)' <=> Fresh(v, x)
    BY <1>0 DEF Fresh
  <2>2. \A k \in WithStatus("LOADED")' : Fresh(items'[k].pixmap, items'[k].image)
    BY <1>1 DEF IInv, Current, WithStatus
  <2>3. \A i \in 1 .. Len(resultQ) : resultQ[i].status = "LOADED" =>
            Fresh(resultQ[i].pixmap, items'[resultQ[i].key].image)
    <3>1. \A j \in 1 .. Len(resultQ) : resultQ[j].key \in Keys
      BY OnlyOne DEF WithStatus
    <3> QED  BY <3>1, <1>1 DEF IInv, Current
  <2> QED  BY <1>0, <1>2, <2>1, <2>2, <2>3 DEF IInv, Current, Fresh
<1> QED  BY <1>1, <1>3, <1>5, <1>6, <1>7, <1>8 DEF IInv

-----------------------------------------------------------------------------
(* Results are processed by the GUI thread. *)

(* What a delivered result is about, whatever becomes of its item. *)
LEMMA Delivered ==
    ASSUME IInv, NEW status \in Results, ProcessResult(status), NEW r, r = Head(resultQ)
    PROVE  /\ r \in Result /\ r.status = status
           /\ r.key \in WithStatus("IN_PROGRESS") /\ r.key \in Keys
           /\ items[r.key].status = "IN_PROGRESS"
           /\ items[r.key] \in Item
           /\ r.key \notin HeldKeys
           /\ r.status = "LOADED" => Fresh(r.pixmap, items[r.key].image)
           /\ resultQ' \in Seq(Result) /\ PostedOnce(resultQ')
           /\ KeysOf(resultQ') = KeysOf(resultQ) \ {r.key}
           /\ \A i \in 1 .. Len(resultQ') :
                  /\ resultQ'[i].key \in WithStatus("IN_PROGRESS") \ {r.key}
                  /\ resultQ'[i].status = "LOADED" =>
                         Fresh(resultQ'[i].pixmap, items[resultQ'[i].key].image)
           /\ waiting' = waiting \ items[r.key].handlers
           /\ dirty' \subseteq Images /\ waiting' \subseteq Images
<1>1. /\ resultQ \in Seq(Result) /\ resultQ # <<>> /\ PostedOnce(resultQ)
      /\ r.status = status /\ resultQ' = Tail(resultQ)
      /\ waiting' = waiting \ items[r.key].handlers
      /\ dirty' = IF status = "LOAD_FAILED" THEN dirty ELSE dirty \cup items[r.key].handlers
  BY DEF IInv, OtherTypes, Referenced, ProcessResult, Notify
<1>2. /\ r \in Result /\ r.key \in KeysOf(resultQ)
      /\ resultQ' \in Seq(Result) /\ PostedOnce(resultQ')
      /\ KeysOf(resultQ') = KeysOf(resultQ) \ {r.key}
      /\ \E j \in 1 .. Len(resultQ) : r = resultQ[j]
      /\ \A i \in 1 .. Len(resultQ') :
             \E j \in 1 .. Len(resultQ) : resultQ'[i] = resultQ[j]
  BY <1>1, DeliveredFirst
<1>3. \A j \in 1 .. Len(resultQ) :
          /\ resultQ[j].key \in WithStatus("IN_PROGRESS")
          /\ resultQ[j].status = "LOADED" =>
                 Fresh(resultQ[j].pixmap, items[resultQ[j].key].image)
  BY OnlyOne DEF IInv, Current
<1>4. /\ r.key \in WithStatus("IN_PROGRESS") /\ r.key \notin HeldKeys
      /\ r.status = "LOADED" => Fresh(r.pixmap, items[r.key].image)
  BY <1>2, <1>3 DEF IInv, Referenced
<1>5. r.key \in Keys /\ items[r.key].status = "IN_PROGRESS" /\ items[r.key] \in Item
  BY <1>4 DEF WithStatus, IInv, ItemTypes
<1>6. \A i \in 1 .. Len(resultQ') : resultQ'[i].key # r.key
  <2>1. \A i \in 1 .. Len(resultQ') : resultQ'[i].key \in KeysOf(resultQ')
    BY DEF KeysOf
  <2> QED  BY <2>1, <1>2
<1>7. dirty' \subseteq Images /\ waiting' \subseteq Images
  BY <1>1, <1>5 DEF IInv, OtherTypes, Item
<1> QED  BY <1>1, <1>2, <1>3, <1>4, <1>5, <1>6, <1>7

(* The invariant, when the items and their lists are in order. *)
LEMMA DeliveryKeeps ==
    ASSUME IInv, NEW status \in Results, ProcessResult(status), NEW r, r = Head(resultQ),
           UNCHANGED <<threadStarted, shuttingDown, wake, loader, source, disk,
                       writer, recreated>>,
           ItemTypes', Listed', CountersExact',
           WithStatus("QUEUED")' = WithStatus("QUEUED"),
           WithStatus("IN_PROGRESS")' = WithStatus("IN_PROGRESS") \ {r.key},
           \A k \in WithStatus("QUEUED") \cup WithStatus("IN_PROGRESS") :
               k # r.key => items'[k] = items[k],
           \A k \in WithStatus("LOADED")' : Fresh(items'[k].pixmap, items'[k].image)
    PROVE  IInv'
<1>1. /\ r.key \in WithStatus("IN_PROGRESS") /\ r.key \notin HeldKeys
      /\ resultQ' \in Seq(Result) /\ PostedOnce(resultQ')
      /\ KeysOf(resultQ') = KeysOf(resultQ) \ {r.key}
      /\ \A i \in 1 .. Len(resultQ') :
             /\ resultQ'[i].key \in WithStatus("IN_PROGRESS") \ {r.key}
             /\ resultQ'[i].status = "LOADED" =>
                    Fresh(resultQ'[i].pixmap, items[resultQ'[i].key].image)
      /\ waiting' = waiting \ items[r.key].handlers
      /\ dirty' \subseteq Images /\ waiting' \subseteq Images
  BY Delivered
<1>2. OtherTypes'
  BY <1>1 DEF IInv, OtherTypes
<1>3. Busy' = Busy /\ HeldKeys' = HeldKeys
  BY DEF Busy, HeldKeys
<1>4. Referenced'
  <2>1. Busy => items'[loader.key] = items[loader.key]
    BY <1>1, OnlyOne DEF HeldKeys
  <2>2. /\ KeysOf(resultQ') \cap HeldKeys = {}
        /\ KeysOf(resultQ') \cup HeldKeys = WithStatus("IN_PROGRESS")'
    BY <1>1 DEF IInv, Referenced
  <2> QED  BY <1>1, <1>3, <2>1, <2>2 DEF IInv, Referenced
<1>5. WaitingIsListed'
  BY <1>1 DEF IInv, WaitingIsListed
<1>6. NoLostWakeUp'
  BY DEF IInv, NoLostWakeUp
<1>7. Current'
  <2>1. \A v, x : Fresh(v, x)' <=> Fresh(v, x)
    BY DEF Fresh
  <2>2. \A i \in 1 .. Len(resultQ') : resultQ'[i].status = "LOADED" =>
            Fresh(resultQ'[i].pixmap, items'[resultQ'[i].key].image)
    BY <1>1
  <2> QED  BY <2>1, <2>2 DEF IInv, Current, Fresh
<1> QED  BY <1>2, <1>4, <1>5, <1>6, <1>7 DEF IInv

LEMMA ProcessFailedKeeps ==
    ASSUME IInv, ProcessFailed
    PROVE  IInv'
<1> SUFFICES ASSUME NEW r, r = Head(resultQ), NEW key, key = r.key PROVE IInv'
  OBVIOUS
<1>1. /\ ProcessResult("LOAD_FAILED") /\ "LOAD_FAILED" \in Results
      /\ items' = [items EXCEPT ![key].status = "LOAD_FAILED", ![key].handlers = {},
                                ![key].pixmap = 0]
      /\ loadQueue' = Relocate(loadQueue, End, key)
      /\ UNCHANGED <<removeQueue, endOfLoaded, numQueued, numLoaded, threadStarted,
                     shuttingDown, wake, loader, source, disk, writer, recreated>>
  BY DEF ProcessFailed, files, Results
<1>2. /\ key \in Keys /\ items[key].status = "IN_PROGRESS" /\ items[key] \in Item
  BY <1>1, Delivered
<1>3. items \in [Keys -> Item] /\ End \notin Keys /\ 0 \in Versions
  BY StatusSets, VersionsAre DEF IInv, ItemTypes
<1>4. /\ Keys' = Keys /\ items' \in [Keys -> Item]
      /\ \A k \in Keys : /\ items'[k].image = items[k].image
                         /\ k # key => items'[k] = items[k]
      /\ items'[key].status = "LOAD_FAILED"
  BY <1>1, <1>2, <1>3 DEF Keys, Item, Statuses
<1>5. /\ WithStatus("QUEUED")' = WithStatus("QUEUED")
      /\ WithStatus("IN_PROGRESS")' = WithStatus("IN_PROGRESS") \ {key}
      /\ WithStatus("LOADED")' = WithStatus("LOADED")
      /\ key \notin WithStatus("QUEUED") /\ key \notin WithStatus("LOADED")
  BY <1>2, <1>4 DEF WithStatus
<1>6. ItemTypes'
  BY <1>4 DEF IInv, ItemTypes
<1>7. Listed'
  <2>1. LoadOrder(loadQueue, Keys, WithStatus("QUEUED"))
    BY DEF IInv, Listed
  <2>2. LoadOrder(Relocate(loadQueue, End, key), Keys, WithStatus("QUEUED") \ {key})
    BY <1>2, <1>3, <2>1, LoadToEnd
  <2>3. WithStatus("QUEUED") \ {key} = WithStatus("QUEUED")
    BY <1>5
  <2> QED  BY <2>2, <2>3, <1>1, <1>4, <1>5 DEF IInv, Listed
<1>8. CountersExact'
  BY <1>1, <1>5 DEF IInv, CountersExact
<1>9. \A k \in WithStatus("LOADED")' : Fresh(items'[k].pixmap, items'[k].image)
  BY <1>4, <1>5 DEF IInv, Current, WithStatus
<1>10. \A k \in WithStatus("QUEUED") \cup WithStatus("IN_PROGRESS") :
           k # key => items'[k] = items[k]
  BY <1>4 DEF WithStatus
<1> QED  BY <1>1, <1>5, <1>6, <1>7, <1>8, <1>9, <1>10, DeliveryKeeps

LEMMA ProcessExpiredKeeps ==
    ASSUME IInv, ProcessExpired
    PROVE  IInv'
<1> SUFFICES ASSUME NEW r, r = Head(resultQ), NEW key, key = r.key PROVE IInv'
  OBVIOUS
<1>1. /\ ProcessResult("REQUEST_EXPIRED") /\ "REQUEST_EXPIRED" \in Results
      /\ RemoveItem(items, key)
      /\ UNCHANGED <<threadStarted, shuttingDown, wake, loader, source, disk, writer,
                     recreated>>
  BY DEF ProcessExpired, files, Results
<1>2. key \in Keys /\ items[key].status = "IN_PROGRESS"
  BY <1>1, Delivered
<1>3. /\ Keys' = Keys \ {key}
      /\ \A k \in Keys \ {key} : items'[k] = items[k]
      /\ WithStatus("QUEUED")' = WithStatus("QUEUED") \ {key}
      /\ WithStatus("IN_PROGRESS")' = WithStatus("IN_PROGRESS") \ {key}
      /\ WithStatus("LOADED")' = WithStatus("LOADED") \ {key}
      /\ ItemTypes' /\ Listed' /\ CountersExact'
  BY <1>1, <1>2, Removed
<1>4. WithStatus("QUEUED")' = WithStatus("QUEUED")
  BY <1>2, <1>3 DEF WithStatus
<1>5. \A k \in WithStatus("QUEUED") \cup WithStatus("IN_PROGRESS") :
          k # key => items'[k] = items[k]
  BY <1>3 DEF WithStatus
<1>6. \A k \in WithStatus("LOADED")' : Fresh(items'[k].pixmap, items'[k].image)
  <2>1. \A k \in WithStatus("LOADED")' : k \in WithStatus("LOADED") /\ items'[k] = items[k]
    BY <1>3 DEF WithStatus
  <2> QED  BY <2>1 DEF IInv, Current
<1> QED  BY <1>1, <1>3, <1>4, <1>5, <1>6, DeliveryKeeps

(* removeExcessLocked() removes a LOADED item, so that there is room for one. *)
LEMMA Trimming ==
    ASSUME IInv
    PROVE  /\ Excess \subseteq WithStatus("LOADED")
           /\ LoadOrder(Trimmed(loadQueue), Keys \ Excess, WithStatus("QUEUED"))
           /\ RemoveOrder(Trimmed(removeQueue), EndTrimmed, Keys \ Excess,
                          WithStatus("LOADED") \ Excess)
           /\ Cardinality(Excess \cap WithStatus("QUEUED")) = 0
           /\ numLoaded - Cardinality(Excess \cap WithStatus("LOADED")) =
                Cardinality(WithStatus("LOADED") \ Excess)
           /\ Cardinality(WithStatus("LOADED") \ Excess) + 1 <= MaxCachedPixmaps
           /\ Cardinality(WithStatus("LOADED") \ Excess) \in Nat
<1>0. /\ End \notin Keys /\ MaxCachedPixmaps \in Nat /\ MaxCachedPixmaps > 0
      /\ WithStatus("LOADED") \subseteq Keys /\ WithStatus("QUEUED") \subseteq Keys
      /\ IsFiniteSet(WithStatus("LOADED"))
      /\ WithStatus("LOADED") \cap WithStatus("QUEUED") = {}
  <2>1. WithStatus("LOADED") \cap WithStatus("QUEUED") = {}
    BY DEF WithStatus
  <2> QED  BY <2>1, CacheAssumption, StatusSets DEF IInv, Statuses
<1>1. /\ LoadOrder(loadQueue, Keys, WithStatus("QUEUED"))
      /\ RemoveOrder(removeQueue, endOfLoaded, Keys, WithStatus("LOADED"))
      /\ numLoaded = Cardinality(WithStatus("LOADED"))
      /\ numLoaded <= MaxCachedPixmaps
  BY DEF IInv, Listed, CountersExact
<1>2. /\ numLoaded \in Nat
      /\ Cardinality(WithStatus("LOADED")) = 0 <=> WithStatus("LOADED") = {}
  BY <1>0, <1>1, Counting
<1>3. Cardinality({}) = 0
  BY FS_EmptySet
<1>4. CASE ~(numLoaded >= MaxCachedPixmaps)
  <2>1. Excess = {}
    BY <1>4 DEF Excess
  <2>2. /\ Trimmed(loadQueue) = loadQueue /\ Trimmed(removeQueue) = removeQueue
        /\ EndTrimmed = endOfLoaded
    BY <2>1 DEF Trimmed, EndTrimmed
  <2>3. /\ Keys \ Excess = Keys /\ WithStatus("LOADED") \ Excess = WithStatus("LOADED")
        /\ Excess \cap WithStatus("LOADED") = {} /\ Excess \cap WithStatus("QUEUED") = {}
    BY <2>1
  <2>4. numLoaded + 1 <= MaxCachedPixmaps /\ numLoaded - 0 = numLoaded
    BY <1>0, <1>2, <1>4
  <2> QED  BY <1>1, <1>2, <1>3, <2>1, <2>2, <2>3, <2>4
<1>5. CASE numLoaded >= MaxCachedPixmaps
  <2> SUFFICES ASSUME NEW h, h = Head(removeQueue)
               PROVE  /\ Excess \subseteq WithStatus("LOADED")
                      /\ LoadOrder(Trimmed(loadQueue), Keys \ Excess, WithStatus("QUEUED"))
                      /\ RemoveOrder(Trimmed(removeQueue), EndTrimmed, Keys \ Excess,
                                     WithStatus("LOADED") \ Excess)
                      /\ Cardinality(Excess \cap WithStatus("QUEUED")) = 0
                      /\ numLoaded - Cardinality(Excess \cap WithStatus("LOADED")) =
                           Cardinality(WithStatus("LOADED") \ Excess)
                      /\ Cardinality(WithStatus("LOADED") \ Excess) + 1 <= MaxCachedPixmaps
                      /\ Cardinality(WithStatus("LOADED") \ Excess) \in Nat
    OBVIOUS
  <2>1. h \in WithStatus("LOADED")
    <3>1. WithStatus("LOADED") # {}
      BY <1>0, <1>2, <1>1, <1>5
    <3> QED  BY <3>1, <1>0, <1>1, FirstLoaded
  <2>2. Excess = {h}
    BY <1>5 DEF Excess
  <2>3. /\ Trimmed(loadQueue) = Erase(loadQueue, h)
        /\ Trimmed(removeQueue) = Erase(removeQueue, h)
        /\ EndTrimmed = IF endOfLoaded = h THEN Following(removeQueue, endOfLoaded)
                                           ELSE endOfLoaded
    <3>1. Excess # {}
      BY <2>2
    <3> QED  BY <2>2, <3>1 DEF Trimmed, EndTrimmed
  <2>4. h \in Keys /\ WithStatus("QUEUED") \ {h} = WithStatus("QUEUED")
    BY <1>0, <2>1
  <2>5. LoadOrder(Erase(loadQueue, h), Keys \ {h}, WithStatus("QUEUED") \ {h})
    BY <1>0, <1>1, <2>4, LoadErased
  <2>6. RemoveOrder(Erase(removeQueue, h),
                    IF endOfLoaded = h THEN Following(removeQueue, endOfLoaded)
                                       ELSE endOfLoaded,
                    Keys \ {h}, WithStatus("LOADED") \ {h})
    BY <1>0, <1>1, <2>4, RemoveErased
  <2>7. /\ Excess \cap WithStatus("LOADED") = {h} /\ Excess \cap WithStatus("QUEUED") = {}
        /\ WithStatus("LOADED") \ Excess = WithStatus("LOADED") \ {h}
        /\ Keys \ Excess = Keys \ {h}
    BY <1>0, <2>1, <2>2
  <2>8. Cardinality({h}) = 1
    BY FS_Singleton
  <2>9. Cardinality(WithStatus("LOADED") \ {h}) = numLoaded - 1
    BY <1>0, <1>1, <2>1, Counting
  <2>10. numLoaded - 1 \in Nat /\ numLoaded - 1 + 1 <= MaxCachedPixmaps
    BY <1>0, <1>1, <1>2, <1>5
  <2>11. LoadOrder(Erase(loadQueue, h), Keys \ {h}, WithStatus("QUEUED"))
    BY <2>4, <2>5
  <2>12. LoadOrder(Trimmed(loadQueue), Keys \ Excess, WithStatus("QUEUED"))
    BY <2>3, <2>7, <2>11
  <2>13. RemoveOrder(Trimmed(removeQueue), EndTrimmed, Keys \ Excess,
                     WithStatus("LOADED") \ Excess)
    BY <2>3, <2>6, <2>7
  <2>14. /\ Cardinality(Excess \cap WithStatus("QUEUED")) = 0
         /\ Cardinality(Excess \cap WithStatus("LOADED")) = 1
         /\ Cardinality(WithStatus("LOADED") \ Excess) = numLoaded - 1
    BY <1>3, <2>7, <2>8, <2>9
  <2>15. Excess \subseteq WithStatus("LOADED")
    BY <2>1, <2>2
  <2> QED  BY <2>10, <2>12, <2>13, <2>14, <2>15
<1> QED  BY <1>4, <1>5

LEMMA ProcessLoadedKeeps ==
    ASSUME IInv, ProcessLoaded
    PROVE  IInv'
<1> SUFFICES ASSUME NEW r, r = Head(resultQ), NEW key, key = r.key,
                    NEW out, out = Excess,
                    NEW e, e = EndTrimmed,
                    NEW loads, loads = Trimmed(loadQueue),
                    NEW removes, removes = Trimmed(removeQueue),
                    NEW loaded, loaded = WithStatus("LOADED") \ out
             PROVE  IInv'
  OBVIOUS
<1>1. /\ ProcessResult("LOADED") /\ "LOADED" \in Results
      /\ items' = [k \in Keys \ out |->
                      IF k # key THEN items[k]
                      ELSE [items[k] EXCEPT !.status = "LOADED",
                                            !.pixmap = r.pixmap, !.handlers = {}]]
      /\ endOfLoaded' = e
      /\ removeQueue' = Relocate(removes, e, key)
      /\ loadQueue' = Relocate(loads, End, key)
      /\ numLoaded' = numLoaded + 1 - Cardinality(out \cap WithStatus("LOADED"))
      /\ numQueued' = numQueued - Cardinality(out \cap WithStatus("QUEUED"))
      /\ UNCHANGED <<threadStarted, shuttingDown, wake, loader, source, disk,
                     writer, recreated>>
  BY DEF ProcessLoaded, files, Results
<1>2. /\ key \in Keys /\ items[key].status = "IN_PROGRESS" /\ items[key] \in Item
      /\ r.pixmap \in Versions /\ Fresh(r.pixmap, items[key].image)
  BY <1>1, Delivered DEF Result
<1>3. /\ out \subseteq WithStatus("LOADED")
      /\ LoadOrder(loads, Keys \ out, WithStatus("QUEUED"))
      /\ RemoveOrder(removes, e, Keys \ out, loaded)
      /\ Cardinality(out \cap WithStatus("QUEUED")) = 0
      /\ numLoaded - Cardinality(out \cap WithStatus("LOADED")) = Cardinality(loaded)
      /\ Cardinality(loaded) + 1 <= MaxCachedPixmaps
      /\ Cardinality(loaded) \in Nat
  BY Trimming
<1>4. /\ items \in [Keys -> Item] /\ End \notin Keys /\ IsFiniteSet(Keys)
      /\ IsFiniteSet(WithStatus("LOADED")) /\ WithStatus("LOADED") \subseteq Keys
  BY StatusSets DEF IInv, ItemTypes, Statuses
<1>5. key \notin out /\ key \notin loaded /\ key \notin WithStatus("QUEUED")
      /\ key \in Keys \ out
  BY <1>2, <1>3 DEF WithStatus
<1>6. [items[key] EXCEPT !.status = "LOADED", !.pixmap = r.pixmap, !.handlers = {}] \in Item
  BY <1>2 DEF Item, Statuses
<1>7. /\ Keys' = Keys \ out /\ items' \in [Keys \ out -> Item]
      /\ \A k \in Keys \ out : k # key => items'[k] = items[k]
      /\ items'[key].image = items[key].image
      /\ items'[key].status = "LOADED" /\ items'[key].pixmap = r.pixmap
  <2>1. items'[key] = [items[key] EXCEPT !.status = "LOADED", !.pixmap = r.pixmap,
                                         !.handlers = {}]
    BY <1>1, <1>5
  <2>2. \A k \in Keys \ out : k # key => items'[k] = items[k]
    BY <1>1
  <2>3. Keys' = Keys \ out
    BY <1>1 DEF Keys
  <2>4. items' \in [Keys \ out -> Item]
    BY <1>1, <1>4, <1>6
  <2>5. /\ items'[key].image = items[key].image
        /\ items'[key].status = "LOADED" /\ items'[key].pixmap = r.pixmap
    BY <2>1, <1>2 DEF Item
  <2> QED  BY <2>2, <2>3, <2>4, <2>5
<1>8. /\ WithStatus("QUEUED")' = WithStatus("QUEUED")
      /\ WithStatus("IN_PROGRESS")' = WithStatus("IN_PROGRESS") \ {key}
      /\ WithStatus("LOADED")' = loaded \cup {key}
  BY <1>2, <1>3, <1>5, <1>7 DEF WithStatus
<1>9. ItemTypes'
  <2>1. IsFiniteSet(Keys') /\ Keys' \subseteq Keys
    BY <1>4, <1>7, FS_Subset
  <2>2. \A k \in Keys' : FileOf[items'[k].image] = k
    BY <1>7 DEF IInv, ItemTypes
  <2> QED  BY <1>7, <2>1, <2>2 DEF IInv, ItemTypes
<1>10. Listed'
  <2>1. End \notin Keys \ out /\ WithStatus("QUEUED") \ {key} = WithStatus("QUEUED")
    BY <1>4, <1>5
  <2>2. LoadOrder(Relocate(loads, End, key), Keys \ out, WithStatus("QUEUED") \ {key})
    BY <1>3, <1>5, <2>1, LoadToEnd
  <2>3. RemoveOrder(Relocate(removes, e, key), e, Keys \ out, loaded \cup {key})
    BY <1>3, <1>5, <2>1, RemoveLoaded
  <2>4. LoadOrder(loadQueue', Keys', WithStatus("QUEUED")')
    BY <1>1, <1>7, <1>8, <2>1, <2>2
  <2>5. RemoveOrder(removeQueue', endOfLoaded', Keys', WithStatus("LOADED")')
    BY <1>1, <1>7, <1>8, <2>3
  <2> QED  BY <2>4, <2>5 DEF Listed
<1>11. CountersExact'
  <2>1. /\ numQueued = Cardinality(WithStatus("QUEUED"))
        /\ numLoaded = Cardinality(WithStatus("LOADED"))
    BY DEF IInv, CountersExact
  <2>2. IsFiniteSet(loaded) /\ IsFiniteSet(WithStatus("QUEUED"))
    BY <1>4, FS_Subset, StatusSets DEF IInv, Statuses
  <2>3. /\ Cardinality(loaded \cup {key}) = Cardinality(loaded) + 1
        /\ numLoaded \in Nat /\ numQueued \in Nat
    BY <1>4, <1>5, <2>1, <2>2, Counting
  <2>4. IsFiniteSet(out \cap WithStatus("LOADED"))
    BY <1>4, FS_Subset
  <2>5. Cardinality(out \cap WithStatus("LOADED")) \in Nat
    BY <2>4, FS_CardinalityType
  <2>6. numLoaded' = Cardinality(loaded) + 1 /\ numQueued' = numQueued
    <3>1. /\ numLoaded' = numLoaded + 1 - Cardinality(out \cap WithStatus("LOADED"))
          /\ numQueued' = numQueued - Cardinality(out \cap WithStatus("QUEUED"))
      BY <1>1
    <3>2. /\ numLoaded - Cardinality(out \cap WithStatus("LOADED")) = Cardinality(loaded)
          /\ Cardinality(out \cap WithStatus("QUEUED")) = 0
      BY <1>3
    <3>3. \A n, c, m \in Nat : n - c = m => n + 1 - c = m + 1
      OBVIOUS
    <3>4. Cardinality(loaded) \in Nat
      BY <1>3
    <3>5. numLoaded + 1 - Cardinality(out \cap WithStatus("LOADED")) = Cardinality(loaded) + 1
      BY <2>3, <2>5, <3>2, <3>3, <3>4
    <3> QED  BY <2>3, <3>1, <3>2, <3>5
  <2> QED  BY <1>3, <1>8, <2>1, <2>3, <2>6 DEF CountersExact
<1>12. \A k \in WithStatus("LOADED")' : Fresh(items'[k].pixmap, items'[k].image)
  <2>1. \A k \in loaded : k # key /\ k \in WithStatus("LOADED") /\ items'[k] = items[k]
    BY <1>5, <1>7, <1>4
  <2>2. \A k \in loaded : Fresh(items'[k].pixmap, items'[k].image)
    BY <2>1 DEF IInv, Current
  <2> QED  BY <1>2, <1>7, <1>8, <2>2
<1>13. \A k \in WithStatus("QUEUED") \cup WithStatus("IN_PROGRESS") :
           k # key => items'[k] = items[k]
  BY <1>3, <1>7 DEF WithStatus
<1> QED  BY <1>1, <1>8, <1>9, <1>10, <1>11, <1>12, <1>13, DeliveryKeeps

-----------------------------------------------------------------------------
(* The theorems. *)

(* Every step keeps the invariant. *)
LEMMA NextKeeps == IInv /\ [Next]_vars => IInv'
<1> SUFFICES ASSUME IInv, [Next]_vars PROVE IInv'
  OBVIOUS
<1>1. CASE UNCHANGED vars
  BY <1>1, QuietStepsKeep
<1>2. ASSUME NEW x \in Images,
             Update(x) \/ Dismiss(x) \/ Painting(x) \/ ChangeImage(x) \/ EnsureExists(x)
      PROVE  IInv'
  <2>1. CASE Painting(x)
    BY <2>1, QuietStepsKeep, PaintLoadedKeeps, PaintAgainKeeps, PaintNewKeeps DEF Painting
  <2>2. CASE Update(x) \/ Dismiss(x) \/ ChangeImage(x) \/ EnsureExists(x)
    BY <2>2, QuietStepsKeep, DismissKeeps, ChangeImageKeeps, EnsureExistsKeeps
  <2> QED  BY <1>2, <2>1, <2>2
<1>3. CASE Delivery \/ SetThumbDir \/ Destroy
  BY <1>3, ProcessLoadedKeeps, ProcessFailedKeeps, ProcessExpiredKeeps, SetThumbDirKeeps,
     QuietStepsKeep DEF Delivery
<1>4. CASE LoaderNext
  BY <1>4, QuietStepsKeep, LoaderExpiresKeeps, LoaderTakesKeeps, LoadThumbnailKeeps,
     SaveThumbnailKeeps, PostLoadResultKeeps DEF LoaderNext
<1>5. CASE WriterNext
  BY <1>5, RecreateFileKeeps, ForgetItemKeeps, EnsureWriteKeeps DEF WriterNext
<1> QED  BY <1>1, <1>2, <1>3, <1>4, <1>5 DEF Next

(* The invariant says what the module says of the lists and references. *)
LEMMA IInvImpliesInv == IInv => Inv
<1> SUFFICES ASSUME IInv PROVE Inv
  OBVIOUS
<1>1. TypeOK
  <2>1. loadQueue \in Seq(Files) /\ removeQueue \in Seq(Files) /\ endOfLoaded \in Files \cup {End}
    <3>1. loadQueue \in Seq(Keys) /\ removeQueue \in Seq(Keys) /\ endOfLoaded \in Keys \cup {End}
      BY DEF IInv, Listed, LoadOrder, RemoveOrder, IsList
    <3> QED  BY <3>1 DEF IInv, ItemTypes
  <2>2. numQueued \in Nat /\ numLoaded \in Nat
    BY StatusSets, Counting DEF IInv, CountersExact, Statuses
  <2>3. source \in [Images -> Versions] /\ disk \in [Images -> Versions]
        /\ recreated \in [Images -> Versions]
    BY CacheAssumption DEF IInv, OtherTypes, Versions
  <2>4. /\ resultQ \in Seq([key : Files, status : Results, pixmap : Versions])
        /\ threadStarted \in BOOLEAN /\ shuttingDown \in BOOLEAN /\ wake \in BOOLEAN
        /\ dirty \subseteq Images /\ waiting \subseteq Images
        /\ loader.pc \in {"none", "process", "load", "save", "post", "exec"}
    BY LoaderHolds DEF IInv, OtherTypes, Result
  <2>5. /\ Keys \subseteq Files
        /\ \A k \in Keys : items[k] \in [image : Images, status : Statuses, age : 0 .. Expired,
                                         handlers : SUBSET Images, pixmap : Versions]
    BY DEF IInv, ItemTypes, Item
  <2> QED  BY <2>1, <2>2, <2>3, <2>4, <2>5 DEF TypeOK
<1>2. ListsInOrder
  <2>1. /\ Precedes(loadQueue, WithStatus("QUEUED"))
        /\ IsInjective(loadQueue) /\ Range(loadQueue) = Keys
    BY Preceding DEF IInv, Listed, LoadOrder
  <2>2. /\ Precedes(removeQueue, WithStatus("LOADED"))
        /\ IsInjective(removeQueue) /\ Range(removeQueue) = Keys
    <3>1. /\ RemoveOrder(removeQueue, endOfLoaded, Keys, WithStatus("LOADED"))
          /\ End \notin Keys
      BY StatusSets DEF IInv, Listed
    <3>2. \A a, b \in Keys :
              Before(removeQueue, a, b) /\ b \in WithStatus("LOADED") => a \in WithStatus("LOADED")
      BY <3>1, LoadedFirst
    <3>3. IsList(removeQueue, Keys)
      BY <3>1 DEF RemoveOrder
    <3> QED  BY <3>2, <3>3, Preceding
  <2> QED  BY <2>1, <2>2 DEF ListsInOrder
<1>3. ReferencesValid
  <2> DEFINE held == IF Busy THEN <<loader.key>> ELSE <<>>
             posted == [i \in DOMAIN resultQ |-> resultQ[i].key]
             all == held \o posted
  <2>1. /\ Len(resultQ) \in Nat /\ DOMAIN resultQ = 1 .. Len(resultQ)
        /\ \A i \in 1 .. Len(resultQ) : resultQ[i].key \in KeysOf(resultQ)
    BY DEF IInv, OtherTypes, KeysOf
  <2>2. /\ \A i, j \in 1 .. Len(resultQ) : resultQ[i].key = resultQ[j].key => i = j
        /\ KeysOf(resultQ) \cap HeldKeys = {}
        /\ KeysOf(resultQ) \cup HeldKeys = WithStatus("IN_PROGRESS")
    BY DEF IInv, Referenced, PostedOnce
  <2>3. IsInjective(all) /\ Range(all) = WithStatus("IN_PROGRESS")
    <3> DEFINE m == Len(resultQ)
    <3>1. posted \in Seq(KeysOf(resultQ)) /\ Len(posted) = m /\ m \in Nat
          /\ \A i \in 1 .. m : posted[i] = resultQ[i].key
      BY <2>1
    <3>2. CASE ~Busy
      <4>1. all = posted
        BY <3>1, <3>2
      <4>2. HeldKeys = {}
        BY <3>2 DEF HeldKeys
      <4>3. DOMAIN posted = 1 .. m
        BY <2>1
      <4>4. IsInjective(posted)
        BY <4>3, <3>1, <2>2 DEF IsInjective
      <4>5. Range(posted) = WithStatus("IN_PROGRESS")
        BY <4>2, <4>3, <3>1, <2>2 DEF Range, KeysOf
      <4> QED  BY <4>1, <4>4, <4>5
    <3>3. CASE Busy
      <4>1. HeldKeys = {loader.key}
        BY <3>3 DEF HeldKeys
      <4>2. /\ all \in Seq(WithStatus("IN_PROGRESS")) /\ Len(all) = m + 1
            /\ all[1] = loader.key
            /\ \A i \in 2 .. (m + 1) : all[i] = resultQ[i - 1].key
            /\ \A i \in 1 .. m : all[i + 1] = resultQ[i].key
        <5>1. held = <<loader.key>>
          BY <3>3
        <5>2. /\ posted \in Seq(WithStatus("IN_PROGRESS"))
              /\ <<loader.key>> \in Seq(WithStatus("IN_PROGRESS"))
          BY <3>1, <4>1, <2>2
        <5> HIDE DEF posted, held
        <5> QED  BY <5>1, <5>2, <3>1
      <4> HIDE DEF all
      <4>3. DOMAIN all = 1 .. (m + 1)
        BY <4>2
      <4>4. \A i \in 1 .. m : resultQ[i].key # loader.key /\ resultQ[i].key \in KeysOf(resultQ)
        BY <4>1, <2>1, <2>2
      <4>5. \A i \in 1 .. (m + 1) : i = 1 \/ (i \in 2 .. (m + 1) /\ i - 1 \in 1 .. m)
        BY <3>1
      <4>6. IsInjective(all)
        <5> SUFFICES ASSUME NEW i \in 1 .. (m + 1), NEW j \in 1 .. (m + 1), all[i] = all[j]
                     PROVE  i = j
          BY <4>3 DEF IsInjective
        <5>1. CASE i = 1 \/ j = 1
          BY <5>1, <4>2, <4>4, <4>5
        <5>2. CASE i # 1 /\ j # 1
          <6>1. i - 1 = j - 1
            BY <5>2, <4>2, <4>5, <2>2
          <6> QED  BY <6>1
        <5> QED  BY <5>1, <5>2
      <4>7. Range(all) = WithStatus("IN_PROGRESS")
        <5>1. Range(all) \subseteq WithStatus("IN_PROGRESS")
          BY <4>2, <4>3 DEF Range
        <5>2. \A k \in WithStatus("IN_PROGRESS") : k \in Range(all)
          <6> SUFFICES ASSUME NEW k \in WithStatus("IN_PROGRESS")
                       PROVE  \E i \in 1 .. (m + 1) : all[i] = k
            BY <4>3 DEF Range
          <6>1. CASE k = loader.key
            <7>1. 1 \in 1 .. (m + 1)
              BY <3>1
            <7> QED  BY <6>1, <7>1, <4>2
          <6>2. CASE k # loader.key
            <7>1. PICK i \in 1 .. m : resultQ[i].key = k
              BY <6>2, <4>1, <2>2 DEF KeysOf
            <7>2. i + 1 \in 1 .. (m + 1) /\ all[i + 1] = k
              BY <7>1, <4>2, <3>1
            <7> QED  BY <7>2
          <6> QED  BY <6>1, <6>2
        <5> QED  BY <5>1, <5>2
      <4> QED  BY <4>6, <4>7
    <3> QED  BY <3>2, <3>3
  <2> QED  BY <2>3 DEF ReferencesValid, Busy
<1>4. CountersExact /\ WaitingIsListed /\ NoLostWakeUp
  BY DEF IInv
<1> QED  BY <1>1, <1>2, <1>3, <1>4 DEF Inv, ViewsAgree, NotForgotten

LEMMA IInvImpliesFresh == IInv => FreshUnlessRaced
BY DEF IInv, Current, Fresh, FreshUnlessRaced

(***************************************************************************)
(* The map of the items, both lists and the counters of the cache agree,   *)
(* the iterators that the thread and the posted events hold are valid, and *)
(* no request is forgotten, between any two critical sections.             *)
(***************************************************************************)
THEOREM CacheIsConsistent == Spec => []Inv
<1>1. Init => IInv
  BY InitHolds
<1>2. IInv /\ [Next]_vars => IInv'
  BY NextKeeps
<1>3. IInv => Inv
  BY IInvImpliesInv
<1> QED  BY <1>1, <1>2, <1>3, PTL DEF Spec

(***************************************************************************)
(* A pixmap in memory is not older than the file recreateThumbnail() left, *)
(* but for the race with a load in progress.                               *)
(***************************************************************************)
THEOREM NoStalePixmap == Spec => []FreshUnlessRaced
<1>1. Init => IInv
  BY InitHolds
<1>2. IInv /\ [Next]_vars => IInv'
  BY NextKeeps
<1>3. IInv => FreshUnlessRaced
  BY IInvImpliesFresh
<1> QED  BY <1>1, <1>2, <1>3, PTL DEF Spec
=============================================================================
