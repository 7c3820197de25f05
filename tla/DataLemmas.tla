------------------------------ MODULE DataLemmas ------------------------------
(***************************************************************************)
(* Lemmas that the proofs about data share: least elements, what is at a   *)
(* set of positions, recursion along the numbers, joining the sequences of *)
(* a sequence, and taking numbers apart.                                   *)
(*                                                                         *)
(* The library's induction theorems take an operator; Induction and        *)
(* Recursion take a set in its place, so that they can be cited.           *)
(***************************************************************************)
EXTENDS Positions, SequencesExt, SequenceTheorems, FiniteSetTheorems, WellFoundedInduction, TLAPS

-----------------------------------------------------------------------------
(* Least elements, and positions in a sequence.                            *)

Precedes == {ss \in Nat \X Nat : ss[1] < ss[2]}

\* A set of numbers has a least one.
LEMMA LeastIs ==
  ASSUME NEW S \in SUBSET Nat, S # {}
  PROVE  \E x \in S : \A y \in S : x <= y
<1>1. OpToRel(<, Nat) = Precedes
  BY Zenon DEF OpToRel, Precedes
<1>2. IsWellFoundedOn(Precedes, Nat)
  BY <1>1, NatLessThanWellFounded, Zenon
<1>3. PICK x \in S : \A y \in S : ~ (<<y, x>> \in Precedes)
  BY <1>2, WFMin, Zenon
<1>4. \A y \in S : x <= y
  <2>1. ASSUME NEW y \in S, y < x PROVE FALSE
    <3>1. <<y, x>> \in Precedes
      BY <2>1 DEF Precedes
    <3> QED
      BY <3>1, <1>3
  <2> QED
    BY <2>1
<1> QED
  BY <1>4

\* The n-th of a set of positions is the one at which n have been counted.
LEMMA NthIs ==
  ASSUME NEW length \in Nat, NEW I \in SUBSET (0 .. length)
  PROVE  /\ IsFiniteSet(I) /\ Cardinality(I) \in Nat
         /\ \A n \in 1 .. Cardinality(I) :
              Nth(I, n) \in I /\ Cardinality({j \in I : j <= Nth(I, n)}) = n
<1> DEFINE UpTo(m) == {j \in I : j <= m}
<1>i. \A j \in I : j \in Nat /\ j <= length
  OBVIOUS
<1>1. IsFiniteSet(I) /\ Cardinality(I) \in Nat
  <2>1. IsFiniteSet(0 .. length)
    BY FS_Interval
  <2> QED
    BY <2>1, FS_Subset, FS_CardinalityType
<1>2. \A m : UpTo(m) \in SUBSET I
  OBVIOUS
<1>3. /\ UpTo(length) = I
      /\ UpTo(0) \subseteq {0}
      /\ \A m \in Nat : m + 1 \in I => UpTo(m + 1) = UpTo(m) \cup {m + 1} /\ m + 1 \notin UpTo(m)
      /\ \A m \in Nat : m + 1 \notin I => UpTo(m + 1) = UpTo(m)
  <2>1. UpTo(length) = I
    BY <1>i
  <2>2. UpTo(0) \subseteq {0}
    <3>1. \A j \in I : j <= 0 => j = 0
      BY <1>i
    <3> QED
      BY <3>1
  <2>3. ASSUME NEW m \in Nat, m + 1 \in I
        PROVE  UpTo(m + 1) = UpTo(m) \cup {m + 1} /\ m + 1 \notin UpTo(m)
    <3>1. \A j \in I : j <= m + 1 <=> j <= m \/ j = m + 1
      BY <1>i
    <3>2. m + 1 <= m + 1 /\ ~ (m + 1 <= m)
      OBVIOUS
    <3> QED
      BY <2>3, <3>1, <3>2
  <2>4. ASSUME NEW m \in Nat, m + 1 \notin I
        PROVE  UpTo(m + 1) = UpTo(m)
    <3>1. \A j \in I : j <= m + 1 <=> j <= m
      BY <1>i, <2>4
    <3> QED
      BY <3>1
  <2> QED
    BY <2>1, <2>2, <2>3, <2>4
<1>4. \A m : IsFiniteSet(UpTo(m)) /\ Cardinality(UpTo(m)) \in Nat
  BY <1>1, <1>2, FS_Subset, FS_CardinalityType
<1> SUFFICES ASSUME NEW n \in 1 .. Cardinality(I)
             PROVE  Nth(I, n) \in I /\ Cardinality({j \in I : j <= Nth(I, n)}) = n
  BY <1>1
<1> HIDE DEF UpTo
<1> DEFINE S == {m \in Nat : Cardinality(UpTo(m)) >= n}
<1>5. S \in SUBSET Nat /\ length \in S
  BY <1>1, <1>3
<1>6. PICK m \in S : \A k \in S : m <= k
  <2> HIDE DEF S
  <2> QED
    BY <1>5, LeastIs
<1>7. m \in I /\ Cardinality(UpTo(m)) = n
  <2>1. CASE m = 0
    <3>1. Cardinality(UpTo(0)) >= 1 /\ Cardinality(UpTo(0)) \in Nat /\ Cardinality(UpTo(0)) >= n
      BY <1>1, <1>4, <1>6, <2>1
    <3>2. UpTo(0) # {}
      BY <3>1, FS_EmptySet
    <3>3. UpTo(0) = {0}
      BY <1>3, <3>2
    <3>4. Cardinality(UpTo(0)) = 1
      <4>1. 0 \notin {} /\ {} \cup {0} = {0} /\ IsFiniteSet({}) /\ Cardinality({}) = 0
        BY FS_EmptySet
      <4>2. Cardinality({0}) = 0 + 1
        BY <4>1, FS_AddElement
      <4> QED
        BY <3>3, <4>2
    <3>5. 0 \in I
      BY <1>2, <3>3
    <3> QED
      BY <1>1, <2>1, <3>1, <3>4, <3>5
  <2>2. CASE m # 0
    <3>1. m - 1 \in Nat /\ m = (m - 1) + 1 /\ m - 1 \notin S
      BY <1>6, <2>2
    <3>2. Cardinality(UpTo(m - 1)) < n /\ Cardinality(UpTo(m)) >= n
      BY <1>1, <1>4, <1>6, <3>1
    <3>3. m \in I
      <4> SUFFICES ASSUME m \notin I PROVE FALSE
        OBVIOUS
      <4>1. UpTo(m) = UpTo(m - 1)
        BY <1>3, <3>1
      <4> QED
        BY <1>1, <1>4, <3>2, <4>1
    <3>4. UpTo(m) = UpTo(m - 1) \cup {m} /\ m \notin UpTo(m - 1)
      BY <1>3, <3>1, <3>3
    <3>5. Cardinality(UpTo(m)) = Cardinality(UpTo(m - 1)) + 1
      BY <1>4, <3>4, FS_AddElement
    <3> QED
      BY <1>1, <1>4, <3>2, <3>3, <3>5
  <2> QED
    BY <2>1, <2>2
<1>8. Nth(I, n) \in I /\ Cardinality(UpTo(Nth(I, n))) = n
  BY <1>7 DEF Nth, UpTo
<1> QED
  BY <1>8 DEF UpTo

\* The positions come in order, with no other between two of them.
LEMMA NthOrder ==
  ASSUME NEW length \in Nat, NEW I \in SUBSET (0 .. length), NEW n \in 1 .. Cardinality(I)
  PROVE  /\ n = 1 => \A j \in I : Nth(I, n) <= j
         /\ n = Cardinality(I) => \A j \in I : j <= Nth(I, n)
         /\ n + 1 \in 1 .. Cardinality(I) =>
              /\ Nth(I, n) < Nth(I, n + 1)
              /\ \A j \in I : j <= Nth(I, n) \/ Nth(I, n + 1) <= j
<1> DEFINE UpTo(m) == {j \in I : j <= m}
           a == Nth(I, n)
           b == Nth(I, n + 1)
<1>1. /\ IsFiniteSet(I) /\ Cardinality(I) \in Nat
      /\ \A k \in 1 .. Cardinality(I) : Nth(I, k) \in I /\ Cardinality(UpTo(Nth(I, k))) = k
  BY NthIs
<1>u. \A m, j : j \in UpTo(m) <=> j \in I /\ j <= m
  OBVIOUS
<1> HIDE DEF UpTo
<1>2. a \in I /\ a \in Nat /\ Cardinality(UpTo(a)) = n /\ n \in Nat
  <2>1. n \in Nat /\ Nth(I, n) \in I /\ Cardinality(UpTo(Nth(I, n))) = n
    BY <1>1
  <2>2. a \in 0 .. length
    BY <2>1
  <2> QED
    BY <2>1, <2>2
<1>3. \A m : UpTo(m) \in SUBSET I /\ IsFiniteSet(UpTo(m)) /\ Cardinality(UpTo(m)) \in Nat
  <2>1. \A m : UpTo(m) \in SUBSET I
    BY <1>u
  <2> QED
    BY <1>1, <2>1, FS_Subset, FS_CardinalityType
<1>i. \A j \in I : j \in Nat
  OBVIOUS
\* A set between two of these has its size between theirs.
<1>4. \A m, k : UpTo(m) \subseteq UpTo(k) => Cardinality(UpTo(m)) <= Cardinality(UpTo(k))
  BY <1>3, FS_Subset
<1>5. \A m, j : j \notin UpTo(m) => Cardinality(UpTo(m) \cup {j}) = Cardinality(UpTo(m)) + 1
  BY <1>3, FS_AddElement
<1>6. ASSUME NEW m \in Nat, NEW k \in Nat, m < k, k \in I
      PROVE  Cardinality(UpTo(m)) + 1 <= Cardinality(UpTo(k))
  <2>1. k \notin UpTo(m) /\ UpTo(m) \cup {k} \in SUBSET UpTo(k)
    <3>1. ~ (k <= m) /\ k <= k /\ \A j \in I : j <= m => j <= k
      BY <1>6, <1>i
    <3> QED
      BY ONLY <1>u, <1>6, <3>1
  <2>2. Cardinality(UpTo(m) \cup {k}) <= Cardinality(UpTo(k))
    BY <1>3, <2>1, FS_Subset
  <2> QED
    BY <1>5, <2>1, <2>2
<1> HIDE DEF a, b
<1>7. ASSUME n = 1, NEW j \in I PROVE a <= j
  <2> SUFFICES ASSUME j < a PROVE FALSE
    BY <1>2, <1>i
  <2>1. Cardinality(UpTo(j)) + 1 <= 1
    BY <1>2, <1>6, <1>7, <1>i
  <2>2. Cardinality(UpTo(j)) = 0
    BY <1>3, <2>1
  <2>3. j \in UpTo(j)
    BY <1>i, <1>u
  <2> QED
    BY <1>3, <2>2, <2>3, FS_EmptySet
<1>8. ASSUME n = Cardinality(I), NEW j \in I PROVE j <= a
  <2>1. UpTo(a) = I
    BY <1>1, <1>2, <1>3, <1>8, FS_Subset
  <2> QED
    BY <1>u, <2>1
<1>9. ASSUME n + 1 \in 1 .. Cardinality(I)
      PROVE  a < b /\ \A j \in I : j <= a \/ b <= j
  <2>1. b \in I /\ b \in Nat /\ Cardinality(UpTo(b)) = n + 1
    BY <1>1, <1>9, <1>i DEF b
  <2>2. a < b
    <3> SUFFICES ASSUME b <= a PROVE FALSE
      BY <1>2, <2>1
    <3>1. UpTo(b) \subseteq UpTo(a)
      <4>1. \A j \in I : j <= b => j <= a
        BY <1>2, <2>1, <1>i
      <4> QED
        BY ONLY <1>u, <4>1
    <3>2. n + 1 <= n
      BY <1>2, <1>4, <2>1, <3>1
    <3> QED
      BY <1>2, <3>2
  <2>3. ASSUME NEW j \in I, a < j, j < b PROVE FALSE
    <3>1. Cardinality(UpTo(a)) + 1 <= Cardinality(UpTo(j))
      BY <1>2, <1>6, <1>i, <2>3
    <3>2. Cardinality(UpTo(j)) + 1 <= Cardinality(UpTo(b))
      BY <2>1, <1>6, <1>i, <2>3
    <3>3. n + 1 + 1 <= n + 1
      BY <1>2, <1>3, <2>1, <3>1, <3>2
    <3> QED
      BY <1>2, <3>3
  <2> QED
    BY <1>2, <1>i, <2>1, <2>2, <2>3
<1> QED
  BY <1>7, <1>8, <1>9 DEF a, b

\* What is selected are elements at the positions.
LEMMA SelectedIs ==
  ASSUME NEW T, NEW q \in Seq(T), NEW I \in SUBSET DOMAIN q
  PROVE  /\ Selected(q, I) \in Seq(T)
         /\ \A n \in DOMAIN Selected(q, I) : \E i \in I : Selected(q, I)[n] = q[i]
<1>1. Len(q) \in Nat /\ DOMAIN q = 1 .. Len(q) /\ \A i \in DOMAIN q : q[i] \in T
  OBVIOUS
<1>2. Cardinality(I) \in Nat /\ \A n \in 1 .. Cardinality(I) : Nth(I, n) \in I
  <2>1. I \in SUBSET (0 .. Len(q))
    BY <1>1
  <2> QED
    BY <1>1, <2>1, NthIs
<1>3. Selected(q, I) \in [1 .. Cardinality(I) -> T]
  BY <1>1, <1>2 DEF Selected
<1>4. Selected(q, I) \in Seq(T)
  BY <1>2, <1>3, SeqDef
<1> QED
  BY <1>2, <1>4 DEF Selected

-----------------------------------------------------------------------------
(* Recursion along the numbers, with sets in the place of operators.       *)

\* A set that has 0, and every number up to N after the one before it, has them all.
LEMMA Induction ==
  ASSUME NEW N \in Nat, NEW S, 0 \in S, \A n \in 1 .. N : n - 1 \in S => n \in S
  PROVE  \A n \in 0 .. N : n \in S
<1> DEFINE Missing == {n \in 0 .. N : n \notin S}
<1>1. SUFFICES ASSUME Missing # {} PROVE FALSE
  OBVIOUS
<1>2. Missing \in SUBSET Nat
  OBVIOUS
<1>3. PICK n \in Missing : \A k \in Missing : n <= k
  <2> HIDE DEF Missing
  <2> QED
    BY <1>1, <1>2, LeastIs
<1>4. n \in 1 .. N /\ n - 1 \in 0 .. N /\ n - 1 \notin Missing
  BY <1>3
<1> QED
  BY <1>3, <1>4

\* What is built step by step exists.
LEMMA Recursion ==
  ASSUME NEW V, NEW v \in V, NEW N \in Nat, NEW F \in [1 .. N -> [V -> V]]
  PROVE  \E g \in [0 .. N -> V] : g[0] = v /\ \A n \in 1 .. N : g[n] = F[n][g[n - 1]]
<1> DEFINE Built(k) == \E g \in [0 .. k -> V] : g[0] = v /\ \A n \in 1 .. k : g[n] = F[n][g[n - 1]]
           S == {k \in 0 .. N : Built(k)}
<1>1. 0 \in S
  <2> DEFINE g == [n \in 0 .. 0 |-> v]
  <2>1. g \in [0 .. 0 -> V] /\ g[0] = v
    OBVIOUS
  <2>2. \A n \in 1 .. 0 : g[n] = F[n][g[n - 1]]
    OBVIOUS
  <2>3. Built(0)
    BY <2>1, <2>2
  <2> QED
    BY <2>3
<1>2. ASSUME NEW k \in 1 .. N, k - 1 \in S
      PROVE  k \in S
  <2>1. PICK g \in [0 .. k - 1 -> V] : g[0] = v /\ \A n \in 1 .. k - 1 : g[n] = F[n][g[n - 1]]
    BY <1>2
  <2> DEFINE h == [n \in 0 .. k |-> IF n = k THEN F[k][g[k - 1]] ELSE g[n]]
  <2>2. g[k - 1] \in V /\ F[k][g[k - 1]] \in V
    BY <2>1
  <2>3. h \in [0 .. k -> V]
    BY <2>1, <2>2
  <2>4. h[0] = v
    BY <2>1
  <2>5. \A n \in 1 .. k : h[n] = F[n][h[n - 1]]
    <3> TAKE n \in 1 .. k
    <3>1. n - 1 \in 0 .. k /\ n - 1 # k /\ h[n - 1] = g[n - 1]
      OBVIOUS
    <3>2. CASE n = k
      BY <3>1, <3>2
    <3>3. CASE n # k
      <4>1. n \in 1 .. k - 1 /\ n \in 0 .. k /\ h[n] = g[n]
        BY <3>3
      <4> QED
        BY <2>1, <3>1, <4>1
    <3> QED
      BY <3>2, <3>3
  <2> HIDE DEF h
  <2>6. Built(k)
    BY <2>3, <2>4, <2>5
  <2> QED
    BY <2>6
<1> HIDE DEF S
<1>3. \A k \in 0 .. N : k \in S
  BY <1>1, <1>2, Induction
<1>4. N \in S
  BY <1>3
<1> QED
  BY <1>4 DEF S

\* h has the sequences of l so far, one after the other.
Joins(A, l, N, h) ==
  /\ h \in [1 .. N -> Seq(A)]
  /\ h = [i \in 1 .. N |-> IF i = 1 THEN l[i] ELSE h[i - 1] \o l[i]]

LEMMA JoinsExist ==
  ASSUME NEW A, NEW N, N \in Nat \ {0}, NEW l, l \in [1 .. N -> Seq(A)]
  PROVE  \E h : Joins(A, l, N, h)
<1>1. PICK V : V = Seq(A)
  OBVIOUS
<1>2. PICK v : v \in V /\ v = <<>>
  <2>1. <<>> \in Seq(A)
    OBVIOUS
  <2> QED
    BY <1>1, <2>1
<1>3. PICK F : /\ F \in [1 .. N -> [V -> V]]
               /\ \A i \in 1 .. N : \A x \in V : F[i][x] = x \o l[i]
  <2> DEFINE F == [i \in 1 .. N |-> [x \in Seq(A) |-> x \o l[i]]]
  <2>1. F \in [1 .. N -> [Seq(A) -> Seq(A)]]
    OBVIOUS
  <2>2. \A i \in 1 .. N : \A x \in Seq(A) : F[i][x] = x \o l[i]
    OBVIOUS
  <2> HIDE DEF F
  <2> QED
    BY ONLY <1>1, <2>1, <2>2
<1>4. PICK g : g \in [0 .. N -> V] /\ g[0] = v /\ \A i \in 1 .. N : g[i] = F[i][g[i - 1]]
  <2>1. v \in V /\ F \in [1 .. N -> [V -> V]] /\ N \in Nat
    BY <1>2, <1>3
  <2> QED
    BY ONLY <2>1, Recursion
<1>5. /\ \A i \in 1 .. N : i - 1 \in 0 .. N /\ i \in 0 .. N
      /\ \A i \in 1 .. N : i # 1 => i - 1 \in 1 .. N
      /\ 1 \in 1 .. N /\ 1 - 1 = 0
  OBVIOUS
<1>6. \A i \in 1 .. N : g[i] = g[i - 1] \o l[i]
  BY ONLY <1>3, <1>4, <1>5
<1>7. g[1] = l[1]
  <2>1. <<>> \o l[1] = l[1]
    BY <1>5
  <2> QED
    BY ONLY <2>1, <1>2, <1>4, <1>5, <1>6
<1> DEFINE h == [i \in 1 .. N |-> g[i]]
<1>8. h \in [1 .. N -> V]
  BY ONLY <1>4, <1>5
<1>9. \A i \in 1 .. N : h[i] = IF i = 1 THEN l[i] ELSE h[i - 1] \o l[i]
  BY ONLY <1>5, <1>6, <1>7
<1>10. h = [i \in 1 .. N |-> IF i = 1 THEN l[i] ELSE h[i - 1] \o l[i]]
  BY ONLY <1>9
<1> HIDE DEF h
<1> QED
  BY ONLY <1>1, <1>8, <1>10 DEF Joins

\* A sequence of sequences is joined from the left.
Folds(A, l, N, f) ==
  /\ f \in [1 .. N -> Seq(A)]
  /\ FlattenSeq(l) = f[N]
  /\ f[1] = l[1]
  /\ \A i \in 2 .. N : f[i] = f[i - 1] \o l[i]

LEMMA FlattenIs ==
  ASSUME NEW A, NEW l, l \in Seq(Seq(A)), NEW N, N = Len(l), N # 0
  PROVE  \E f : Folds(A, l, N, f)
<1> DEFINE f == CHOOSE h : h = [i \in 1 .. Len(l) |-> IF i = 1 THEN l[i] ELSE h[i - 1] \o l[i]]
<1>1. N \in Nat \ {0} /\ DOMAIN l = 1 .. N /\ \A i \in 1 .. N : l[i] \in Seq(A)
  OBVIOUS
<1>2. PICK h : Joins(A, l, N, h)
  <2>1. N \in Nat \ {0} /\ l \in [1 .. N -> Seq(A)]
    BY <1>1
  <2> HIDE DEF f
  <2> QED
    BY ONLY <2>1, JoinsExist
<1>3. f = [i \in 1 .. N |-> IF i = 1 THEN l[i] ELSE f[i - 1] \o l[i]]
  <2>1. h = [i \in 1 .. N |-> IF i = 1 THEN l[i] ELSE h[i - 1] \o l[i]]
    BY <1>2 DEF Joins
  <2> QED
    BY <2>1
<1>4. FlattenSeq(l) = f[N]
  BY DEF FlattenSeq
<1> HIDE DEF f
<1>5. f[1] = l[1] /\ \A i \in 2 .. N : f[i] = f[i - 1] \o l[i]
  <2>1. 1 \in 1 .. N /\ \A i \in 2 .. N : i \in 1 .. N /\ i # 1
    BY <1>1
  <2> QED
    BY ONLY <1>3, <2>1
<1>6. \A i \in 1 .. N : f[i] \in Seq(A)
  <2> DEFINE S == {i \in 0 .. N : i = 0 \/ f[i] \in Seq(A)}
  <2>1. 0 \in S
    BY <1>1
  <2>2. ASSUME NEW i \in 1 .. N, i - 1 \in S PROVE i \in S
    <3>1. CASE i = 1
      BY <1>1, <1>5, <3>1
    <3>2. CASE i # 1
      <4>1. i \in 2 .. N /\ f[i - 1] \in Seq(A) /\ l[i] \in Seq(A)
        BY <1>1, <2>2, <3>2
      <4>2. f[i - 1] \o l[i] \in Seq(A)
        BY <4>1
      <4>3. f[i] \in Seq(A)
        BY <1>5, <4>1, <4>2
      <4>4. i \in 0 .. N
        BY <1>1
      <4> QED
        BY <4>3, <4>4
    <3> QED
      BY <3>1, <3>2
  <2> HIDE DEF S
  <2>3. \A i \in 0 .. N : i \in S
    BY <1>1, <2>1, <2>2, Induction
  <2> QED
    BY <1>1, <2>3 DEF S
<1>7. f \in [1 .. N -> Seq(A)]
  BY <1>3, <1>6
<1>8. Folds(A, l, N, f)
  BY <1>4, <1>5, <1>7 DEF Folds
<1> QED
  BY <1>8

\* One more sequence comes at the end.
LEMMA FlattenAppend ==
  ASSUME NEW A, NEW l, l \in Seq(Seq(A)), NEW x, x \in Seq(A)
  PROVE  /\ FlattenSeq(l) \in Seq(A)
         /\ FlattenSeq(Append(l, x)) = FlattenSeq(l) \o x
<1>m. PICK m : m = Append(l, x)
  OBVIOUS
<1>n. PICK N : N = Len(l)
  OBVIOUS
<1>1. /\ N \in Nat /\ m \in Seq(Seq(A)) /\ Len(m) = N + 1 /\ m[N + 1] = x
      /\ \A i \in 1 .. N : m[i] = l[i]
  BY <1>n, <1>m
<1>2. PICK g : Folds(A, m, N + 1, g)
  <2>1. PICK M : M = N + 1
    OBVIOUS
  <2>2. m \in Seq(Seq(A)) /\ M = Len(m) /\ M # 0
    BY <1>1, <2>1
  <2>3. \E g : Folds(A, m, M, g)
    BY ONLY <2>2, FlattenIs
  <2> QED
    BY <2>1, <2>3
<1>3. CASE N = 0
  <2>1. l = <<>>
    <3>1. Len(l) = 0 /\ l \in Seq(Seq(A))
      BY <1>n, <1>3
    <3>2. \A q \in Seq(Seq(A)) : q # <<>> => Len(q) \in Nat \ {0}
      BY EmptySeq, Zenon
    <3> QED
      BY ONLY <3>1, <3>2
  <2>2. FlattenSeq(l) = <<>>
    BY ONLY <2>1 DEF FlattenSeq
  <2>3. FlattenSeq(m) = x
    BY <1>1, <1>2, <1>3 DEF Folds
  <2>4. <<>> \in Seq(A) /\ <<>> \o x = x
    OBVIOUS
  <2> QED
    BY ONLY <2>2, <2>3, <2>4, <1>m
<1>4. CASE N # 0
  <2>1. PICK f : Folds(A, l, N, f)
    <3>1. l \in Seq(Seq(A)) /\ N = Len(l) /\ N # 0
      BY <1>n, <1>4
    <3> QED
      BY ONLY <3>1, FlattenIs
  <2>a. /\ g \in [1 .. N + 1 -> Seq(A)] /\ FlattenSeq(m) = g[N + 1] /\ g[1] = m[1]
        /\ \A i \in 2 .. N + 1 : g[i] = g[i - 1] \o m[i]
    BY <1>2 DEF Folds
  <2>b. /\ f \in [1 .. N -> Seq(A)] /\ FlattenSeq(l) = f[N] /\ f[1] = l[1]
        /\ \A i \in 2 .. N : f[i] = f[i - 1] \o l[i]
    BY <2>1 DEF Folds
  <2> DEFINE S == {i \in 0 .. N : i = 0 \/ g[i] = f[i]}
  <2>2. 0 \in S
    BY <1>1
  <2>3. ASSUME NEW i \in 1 .. N, i - 1 \in S PROVE i \in S
    <3>1. CASE i = 1
      BY <1>1, <2>a, <2>b, <3>1
    <3>2. CASE i # 1
      <4>1. i \in 2 .. N /\ i \in 2 .. N + 1 /\ i \in 0 .. N /\ m[i] = l[i]
        BY <1>1, <3>2
      <4>3. g[i - 1] = f[i - 1]
        BY <1>1, <2>3, <3>2
      <4>2. g[i] = g[i - 1] \o m[i] /\ f[i] = f[i - 1] \o l[i]
        BY ONLY <2>a, <2>b, <4>1
      <4> QED
        BY <4>1, <4>2, <4>3
    <3> QED
      BY <3>1, <3>2
  <2> HIDE DEF S
  <2>4. \A i \in 0 .. N : i \in S
    BY <1>1, <2>2, <2>3, Induction
  <2>5. g[N] = f[N]
    BY <1>1, <1>4, <2>4 DEF S
  <2>6. PICK M : M = N + 1
    OBVIOUS
  <2>7. M \in 2 .. N + 1 /\ M - 1 = N /\ N \in 1 .. N
    BY <1>1, <1>4, <2>6
  <2>8. g[M] = g[M - 1] \o m[M]
    BY ONLY <2>a, <2>7
  <2>9. g[N + 1] = f[N] \o x /\ f[N] \in Seq(A)
    BY <1>1, <2>b, <2>5, <2>6, <2>7, <2>8
  <2> QED
    BY <2>a, <2>b, <2>9, <1>m
<1> QED
  BY <1>3, <1>4

LEMMA FlattenTyped ==
  ASSUME NEW A, NEW l, l \in Seq(Seq(A))
  PROVE  FlattenSeq(l) \in Seq(A)
<1>1. PICK x : x \in Seq(A) /\ x = <<>>
  <2>1. <<>> \in Seq(A)
    OBVIOUS
  <2> QED
    BY <2>1
<1> QED
  BY ONLY <1>1, l \in Seq(Seq(A)), FlattenAppend

LEMMA FlattenEmpty == ASSUME NEW l, Len(l) = 0, l = <<>> PROVE FlattenSeq(l) = <<>>
  BY DEF FlattenSeq

-----------------------------------------------------------------------------
(* Numbers of two octets.                                                  *)

LEMMA LowHalf ==
  ASSUME NEW w \in Nat, w < 65536
  PROVE  w % 256 \in Nat /\ w % 256 < 256
  OBVIOUS

LEMMA HighHalf ==
  ASSUME NEW w \in Nat, w < 65536
  PROVE  w \div 256 \in Nat /\ w \div 256 < 256
<1>1. w \div 256 \in Int
  OBVIOUS
<1>2. w \div 256 < 256
  OBVIOUS
<1>3. w \div 256 >= 0
  OBVIOUS
<1> QED
  BY <1>1, <1>2, <1>3

LEMMA LowOf ==
  ASSUME NEW a \in Nat, NEW b \in Nat, a < 256, b < 256
  PROVE  (a + 256 * b) % 256 = a
  OBVIOUS

LEMMA HighOf ==
  ASSUME NEW a \in Nat, NEW b \in Nat, a < 256, b < 256
  PROVE  (a + 256 * b) \div 256 = b
  OBVIOUS

\* Quotient and rest.
LEMMA Division ==
  ASSUME NEW d \in Nat \ {0}, NEW w \in Nat
  PROVE  /\ w = d * (w \div d) + (w % d)
         /\ w \div d \in Nat /\ w % d \in Nat /\ w % d < d
<1>1. w = d * (w \div d) + (w % d)
  OBVIOUS
<1>2. w \div d \in Int
  OBVIOUS
<1>3. w \div d >= 0
  OBVIOUS
<1>4. w % d \in Int /\ w % d >= 0 /\ w % d < d
  OBVIOUS
<1> QED
  BY <1>1, <1>2, <1>3, <1>4

LEMMA Divided ==
  ASSUME NEW d \in Nat \ {0}, NEW w \in Int, NEW b \in Int, NEW x \in Int,
         w = d * b + x, 0 <= x, x < d
  PROVE  w \div d = b /\ w % d = x
<1>1. w \div d = b
  OBVIOUS
<1>2. w % d = x
  OBVIOUS
<1> QED
  BY <1>1, <1>2

\* The handle and the flags of an ACL header.
LEMMA Flags ==
  ASSUME NEW w \in Nat, w < 65536
  PROVE  /\ w % 4096 \in Nat /\ (w % 4096) % 4096 = w % 4096
         /\ (w \div 4096) % 4 \in Nat /\ w \div 16384 \in Nat
         /\ w = (w % 4096) + 4096 * ((w \div 4096) % 4) + 16384 * (w \div 16384)
<1>1. PICK r, q : r = w % 4096 /\ q = w \div 4096
  OBVIOUS
<1>2. PICK a, b : a = q % 4 /\ b = q \div 4
  OBVIOUS
<1>3. w = 4096 * q + r /\ q \in Nat /\ r \in Nat /\ r < 4096
  BY ONLY w \in Nat, <1>1, Division
<1>4. q = 4 * b + a /\ b \in Nat /\ a \in Nat /\ a < 4
  BY ONLY <1>2, <1>3, Division
<1>5. r % 4096 = r
  <2>1. r = 4096 * 0 + r
    BY ONLY <1>3
  <2> QED
    BY ONLY <1>3, <2>1, Divided
<1>6. PICK x : x = 4096 * a + r
  OBVIOUS
<1>7. x \in Int /\ 0 <= x /\ x < 16384 /\ w = 16384 * b + x
  BY ONLY <1>3, <1>4, <1>6
<1>8. w \div 16384 = b
  BY ONLY w \in Nat, <1>4, <1>7, Divided
<1>9. w = r + 4096 * a + 16384 * b
  BY ONLY <1>3, <1>4
<1> QED
  BY ONLY <1>1, <1>2, <1>3, <1>4, <1>5, <1>8, <1>9

\* Two, six, five and eleven bits of three octets.
LEMMA Bits ==
  ASSUME NEW w \in Nat, w < 16777216
  PROVE  /\ w % 4 \in Nat /\ (w \div 4) % 64 \in Nat /\ (w \div 4) % 64 < 64
         /\ (w \div 256) % 32 \in Nat
         /\ (w \div 8192) % 2048 \in Nat /\ (w \div 8192) % 2048 < 2048
         /\ w = (w % 4) + 4 * ((w \div 4) % 64) + 256 * ((w \div 256) % 32)
                  + 8192 * ((w \div 8192) % 2048)
<1>1. PICK a, p : a = w % 4 /\ p = w \div 4
  OBVIOUS
<1>2. PICK b, q : b = p % 64 /\ q = p \div 64
  OBVIOUS
<1>3. PICK c, r : c = q % 32 /\ r = q \div 32
  OBVIOUS
<1>4. w = 4 * p + a /\ p \in Nat /\ a \in Nat /\ a < 4
  BY ONLY w \in Nat, <1>1, Division
<1>5. p = 64 * q + b /\ q \in Nat /\ b \in Nat /\ b < 64
  BY ONLY <1>2, <1>4, Division
<1>6. q = 32 * r + c /\ r \in Nat /\ c \in Nat /\ c < 32
  BY ONLY <1>3, <1>5, Division
<1>7. w \div 256 = q
  <2>1. PICK x : x = 4 * b + a
    OBVIOUS
  <2>2. x \in Int /\ 0 <= x /\ x < 256 /\ w = 256 * q + x
    BY ONLY <1>4, <1>5, <2>1
  <2> QED
    BY ONLY w \in Nat, <1>5, <2>2, Divided
<1>8. w \div 8192 = r
  <2>1. PICK x : x = 256 * c + 4 * b + a
    OBVIOUS
  <2>2. x \in Int /\ 0 <= x /\ x < 8192 /\ w = 8192 * r + x
    BY ONLY <1>4, <1>5, <1>6, <2>1
  <2> QED
    BY ONLY w \in Nat, <1>6, <2>2, Divided
<1>9. r < 2048
  <2>1. w \in Nat /\ w < 16777216
    OBVIOUS
  <2> QED
    BY ONLY <1>4, <1>5, <1>6, <2>1
<1>10. r % 2048 = r
  <2>1. r = 2048 * 0 + r
    BY ONLY <1>6
  <2> QED
    BY ONLY <1>6, <1>9, <2>1, Divided
<1>11. w = a + 4 * b + 256 * c + 8192 * r
  BY ONLY <1>4, <1>5, <1>6
<1> QED
  BY ONLY <1>1, <1>2, <1>3, <1>4, <1>5, <1>6, <1>7, <1>8, <1>9, <1>10, <1>11
=============================================================================
