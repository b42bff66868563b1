------------------------------ MODULE Counting ------------------------------
(***************************************************************************)
(* Lemmas that the proofs of several parts need.  Numbers: a set of them   *)
(* has a least element, so that what holds of no first number holds of     *)
(* none; and who is ordered has a place.  Sequences: what is built by      *)
(* appending is all of them, and a recursive function over the indexes of  *)
(* one exists, is the only one, and takes one step more for one element    *)
(* more.  Numbers of elements: how many elements of a sequence are in a    *)
(* set, and of two sequences after each other the sum.                     *)
(***************************************************************************)
EXTENDS Integers, SequenceTheorems, FiniteSetTheorems, FunctionTheorems, TLAPS

(* Least elements.  The theorems on induction take an operator, which no   *)
(* prover instantiates; that an injection of a finite set into itself is   *)
(* onto takes none, and gives every non-empty set of numbers a least one:  *)
(* else the numbers from one of the set on, down from another, would be    *)
(* closed under the predecessor, which is an injection and misses the top. *)
LEMMA LeastNat ==
  ASSUME NEW T \in SUBSET Nat, T # {}
  PROVE  \E x \in T : \A y \in T : x <= y
<1> SUFFICES ASSUME \A x \in T : \E y \in T : y < x PROVE FALSE
  OBVIOUS
<1>1. PICK top \in T : TRUE
  OBVIOUS
<1> DEFINE U == {m \in 0 .. top : \E y \in T : y <= m}
           f == [m \in U |-> m - 1]
<1>2. top \in Nat /\ top \in U
  OBVIOUS
<1>3. \A m \in U : m - 1 \in U
  <2> SUFFICES ASSUME NEW m \in U PROVE m - 1 \in U
    OBVIOUS
  <2>1. PICK y \in T : y <= m
    OBVIOUS
  <2>2. PICK z \in T : z < y
    OBVIOUS
  <2> QED
    BY <1>2, <2>1, <2>2
<1>4. IsFiniteSet(U)
  <2>1. IsFiniteSet(0 .. top)
    BY <1>2, FS_Interval
  <2> QED
    BY <2>1, FS_Subset
<1>5. U \subseteq Int
  BY <1>2
<1> HIDE DEF U
<1>6. f \in Injection(U, U)
  <2>1. f \in [U -> U] /\ \A m, n \in U : f[m] = f[n] => m = n
    BY <1>3, <1>5
  <2> HIDE DEF f
  <2> QED
    BY <2>1, Fun_IsInj
<1>7. f \in Surjection(U, U)
  <2> HIDE DEF f
  <2> QED
    BY <1>4, <1>6, FS_Injection
<1>8. PICK m \in U : f[m] = top
  BY <1>2, <1>7 DEF Surjection
<1>9. m - 1 = top /\ m <= top
  BY <1>8 DEF U
<1> QED
  BY <1>2, <1>5, <1>9

(* Greatest elements.                                                      *)
LEMMA GreatestUpTo ==
  ASSUME NEW n \in Nat, NEW T \in SUBSET (0 .. n), T # {}
  PROVE  \E x \in T : \A y \in T : y <= x
<1> DEFINE U == {n - x : x \in T}
<1>1. U \in SUBSET Nat /\ U # {}
  <2>1. \A x \in T : n - x \in Nat
    OBVIOUS
  <2>2. PICK x \in T : TRUE
    OBVIOUS
  <2>3. n - x \in U
    OBVIOUS
  <2> QED
    BY <2>1, <2>3
<1>2. \A x \in T : n - x \in U
  OBVIOUS
<1>3. \A u \in U : \E x \in T : u = n - x
  OBVIOUS
<1> HIDE DEF U
<1>4. PICK u \in U : \A v \in U : u <= v
  BY <1>1, LeastNat
<1>5. PICK x \in T : u = n - x
  BY <1>3
<1> QED
  BY <1>2, <1>4, <1>5

(* A search through 1 .. n that keeps the last element it takes: it can be *)
(* made, and what it ends with is that element's.                          *)
IsSearch(f, n, none, T, out) ==
  f = [i \in 0 .. n |-> IF i = 0 THEN none ELSE IF i \in T THEN out[i] ELSE f[i - 1]]

LEMMA SearchExists ==
  ASSUME NEW n \in Nat, NEW none, NEW T, NEW out
  PROVE  \E f : IsSearch(f, n, none, T, out)
<1> DEFINE Taken(i) == {j \in 1 .. i : j \in T}
           Last(i) == CHOOSE x \in Taken(i) : \A y \in Taken(i) : y <= x
           f == [i \in 0 .. n |-> IF Taken(i) = {} THEN none ELSE out[Last(i)]]
<1>1. ASSUME NEW i \in 0 .. n
      PROVE  f[i] = IF i = 0 THEN none ELSE IF i \in T THEN out[i] ELSE f[i - 1]
  <2>1. f[i] = IF Taken(i) = {} THEN none ELSE out[Last(i)]
    OBVIOUS
  <2>2. CASE i = 0
    <3>1. Taken(i) = {}
      BY <2>2
    <3> QED
      BY <2>1, <2>2, <3>1
  <2>3. CASE i # 0 /\ i \in T
    <3>1. i \in Taken(i) /\ \A y \in Taken(i) : y \in Nat /\ y <= i
      BY <2>3
    <3>2. Last(i) = i
      <4> DEFINE S == Taken(i)
      <4>1. i \in S /\ \A y \in S : y \in Nat /\ y <= i
        BY <3>1
      <4> HIDE DEF S
      <4>2. \A x \in S : (\A y \in S : y <= x) => x = i
        BY <4>1
      <4>3. (CHOOSE x \in S : \A y \in S : y <= x) = i
        BY <4>1, <4>2
      <4> QED
        BY <4>3 DEF S
    <3> QED
      BY <2>1, <2>3, <3>1, <3>2
  <2>4. CASE i # 0 /\ i \notin T
    <3>1. Taken(i) = Taken(i - 1) /\ i - 1 \in 0 .. n
      <4>1. \A j : j \in 1 .. i /\ j # i <=> j \in 1 .. i - 1
        BY <2>4
      <4> QED
        BY <2>4, <4>1
    <3>2. f[i - 1] = IF Taken(i - 1) = {} THEN none ELSE out[Last(i - 1)]
      BY <3>1
    <3>3. Last(i) = Last(i - 1)
      BY <3>1
    <3> HIDE DEF Taken, Last, f
    <3> QED
      BY <2>1, <2>4, <3>1, <3>2, <3>3
  <2> QED
    BY <2>2, <2>3, <2>4
<1>2. f = [i \in 0 .. n |-> f[i]]
  OBVIOUS
<1> HIDE DEF f
<1>3. IsSearch(f, n, none, T, out)
  BY <1>1, <1>2 DEF IsSearch
<1> QED
  BY <1>3

LEMMA SearchIs ==
  ASSUME NEW n \in Nat, NEW none, NEW T, NEW out, NEW f, IsSearch(f, n, none, T, out)
  PROVE  /\ (\A i \in 1 .. n : i \notin T) => f[n] = none
         /\ \A i \in 1 .. n : i \in T /\ (\A j \in i + 1 .. n : j \notin T) => f[n] = out[i]
<1>0. \A i \in 0 .. n : f[i] = IF i = 0 THEN none
                                ELSE IF i \in T THEN out[i] ELSE f[i - 1]
  BY DEF IsSearch
<1>1. ASSUME NEW b \in 0 .. n, NEW v, f[b] = v, \A j \in b + 1 .. n : j \notin T
      PROVE  f[n] = v
  <2> DEFINE Bad == {m \in Nat : m \in b .. n /\ f[m] # v}
  <2>1. Bad \in SUBSET Nat /\ \A m \in Nat : m \in Bad <=> m \in b .. n /\ f[m] # v
    OBVIOUS
  <2> HIDE DEF Bad
  <2>2. Bad = {}
    <3> SUFFICES ASSUME Bad # {} PROVE FALSE
      OBVIOUS
    <3>1. PICK m \in Bad : \A l \in Bad : m <= l
      BY <2>1, LeastNat
    <3>2. m \in b .. n /\ f[m] # v /\ m # b
      BY <1>1, <2>1, <3>1
    <3>3. m - 1 \in Nat /\ m - 1 \in b .. n /\ f[m - 1] = v
      <4>1. m - 1 \in Nat /\ m - 1 \in b .. n /\ ~(m <= m - 1)
        BY <3>2
      <4> QED
        BY <2>1, <3>1, <4>1
    <3>4. m \notin T /\ m # 0 /\ m \in 0 .. n
      BY <1>1, <3>2
    <3> QED
      BY <1>0, <3>2, <3>3, <3>4
  <2> QED
    BY <2>1, <2>2
<1>2. ASSUME \A i \in 1 .. n : i \notin T PROVE f[n] = none
  <2>1. f[0] = none
    BY <1>0
  <2> QED
    BY <1>1, <1>2, <2>1
<1>3. ASSUME NEW i \in 1 .. n, i \in T, \A j \in i + 1 .. n : j \notin T PROVE f[n] = out[i]
  <2>1. f[i] = out[i]
    BY <1>0, <1>3
  <2> QED
    BY <1>1, <1>3, <2>1
<1> QED
  BY <1>2, <1>3

(* The places of a sequence are the numbers up to its length.              *)
LEMMA DomainOf ==
  ASSUME NEW S, NEW s \in Seq(S)
  PROVE  /\ Len(s) \in Nat /\ DOMAIN s = 1 .. Len(s) /\ IsFiniteSet(DOMAIN s)
         /\ \A i \in DOMAIN s : s[i] \in S
         /\ Cardinality(DOMAIN s) = Len(s)
<1>1. Len(s) \in Nat /\ DOMAIN s = 1 .. Len(s) /\ \A i \in DOMAIN s : s[i] \in S
  BY LenProperties, ElementOfSeq
<1>2. IsFiniteSet(1 .. Len(s)) /\ Cardinality(1 .. Len(s)) = Len(s)
  BY <1>1, FS_Interval
<1> QED
  BY <1>1, <1>2

(* If sets that are ordered by inclusion belong to the elements of D, each *)
(* with its element, there is one of each size up to that of D.            *)
LEMMA EveryRank ==
  ASSUME NEW D, IsFiniteSet(D), NEW r \in [D -> SUBSET D],
         \A i \in D : i \in r[i],
         \A i, j \in D : r[i] \subseteq r[j] \/ r[j] \subseteq r[i],
         \A i, j \in D : r[i] = r[j] => i = j
  PROVE  /\ \A i \in D : Cardinality(r[i]) \in 1 .. Cardinality(D)
         /\ \A i, j \in D : Cardinality(r[i]) = Cardinality(r[j]) => i = j
         /\ \A n \in 1 .. Cardinality(D) : \E i \in D : Cardinality(r[i]) = n
<1> DEFINE N == Cardinality(D)
           rank == [i \in D |-> Cardinality(r[i])]
<1>1. N \in Nat
  BY FS_CardinalityType
<1>2. \A i \in D : IsFiniteSet(r[i]) /\ Cardinality(r[i]) \in 1 .. N
  <2> SUFFICES ASSUME NEW i \in D PROVE IsFiniteSet(r[i]) /\ Cardinality(r[i]) \in 1 .. N
    OBVIOUS
  <2>1. IsFiniteSet(r[i]) /\ Cardinality(r[i]) <= N
    BY FS_Subset
  <2>2. Cardinality(r[i]) \in Nat /\ Cardinality(r[i]) # 0
    BY <2>1, FS_CardinalityType, FS_EmptySet
  <2> QED
    BY <1>1, <2>1, <2>2
<1>3. \A i, j \in D : rank[i] = rank[j] => i = j
  <2> SUFFICES ASSUME NEW i \in D, NEW j \in D, Cardinality(r[i]) = Cardinality(r[j])
               PROVE  r[i] = r[j]
    OBVIOUS
  <2>1. CASE r[i] \subseteq r[j]
    BY <1>2, <2>1, FS_Subset
  <2>2. CASE r[j] \subseteq r[i]
    BY <1>2, <2>2, FS_Subset
  <2> QED
    BY <2>1, <2>2
<1>4. rank \in Injection(D, 1 .. N)
  <2>1. rank \in [D -> 1 .. N]
    BY <1>2
  <2> HIDE DEF rank, N
  <2> QED
    BY <1>3, <2>1, Fun_IsInj
<1>5. IsFiniteSet(1 .. N) /\ Cardinality(1 .. N) = N
  BY <1>1, FS_Interval
<1>6. rank \in Surjection(D, 1 .. N)
  <2> HIDE DEF rank
  <2> QED
    BY <1>4, <1>5, FS_Injection
<1>7. \A n \in 1 .. N : \E i \in D : rank[i] = n
  BY <1>6 DEF Surjection
<1> QED
  BY <1>2, <1>3, <1>7
---------------------------------------------------------------------------
(* A set of numbers with the first and, with each that is not the last, the *)
(* next has all of them.                                                    *)
LEMMA Upwards ==
  ASSUME NEW n \in Nat, NEW T \in SUBSET (0 .. n), 0 \in T,
         \A i \in T : i # n => i + 1 \in T
  PROVE  T = 0 .. n
<1> DEFINE Bad == {i \in Nat : i \in 0 .. n /\ i \notin T}
<1>1. Bad \in SUBSET Nat /\ \A i \in Nat : i \in Bad <=> i \in 0 .. n /\ i \notin T
  OBVIOUS
<1> HIDE DEF Bad
<1>2. Bad = {}
  <2> SUFFICES ASSUME Bad # {} PROVE FALSE
    OBVIOUS
  <2>1. PICK i \in Bad : \A j \in Bad : i <= j
    BY <1>1, LeastNat
  <2>2. i \in 0 .. n /\ i # 0 /\ i \notin T
    BY <1>1, <2>1
  <2>3. i - 1 \in Nat /\ i - 1 \in 0 .. n /\ i - 1 # n /\ ~(i <= i - 1)
    BY <2>2
  <2>4. i - 1 \notin Bad
    BY <2>1, <2>3
  <2>5. i - 1 \in T
    BY <1>1, <2>3, <2>4
  <2>6. (i - 1) + 1 = i
    BY <2>2
  <2> QED
    BY <2>2, <2>3, <2>5, <2>6
<1>3. ASSUME NEW i \in 0 .. n PROVE i \in T
  BY <1>1, <1>2
<1> QED
  BY <1>3

(* Sequences are what can be appended to the empty one.                    *)
LEMMA SequencesByAppend ==
  ASSUME NEW S, NEW T, <<>> \in T,
         \A s \in Seq(S) : s \in T => \A x \in S : Append(s, x) \in T
  PROVE  Seq(S) \subseteq T
<1> SUFFICES ASSUME NEW s \in Seq(S) PROVE s \in T
  OBVIOUS
<1> DEFINE U == {i \in 0 .. Len(s) : SubSeq(s, 1, i) \in T}
<1>1. Len(s) \in Nat /\ U \in SUBSET (0 .. Len(s))
  OBVIOUS
<1>2. 0 \in U
  <2>1. SubSeq(s, 1, 0) = <<>>
    OBVIOUS
  <2>2. 0 \in 0 .. Len(s)
    BY <1>1
  <2>3. SubSeq(s, 1, 0) \in T
    BY <2>1, Zenon
  <2> QED
    BY <2>2, <2>3
<1>3. ASSUME NEW i \in U, i # Len(s) PROVE i + 1 \in U
  <2>1. i \in 0 .. Len(s) /\ i + 1 \in 1 .. Len(s) /\ s[i + 1] \in S
    BY <1>1, <1>3
  <2>2. SubSeq(s, 1, i) \in Seq(S)
    BY <2>1
  <2>3. SubSeq(s, 1, i + 1) = Append(SubSeq(s, 1, i), s[i + 1])
    BY <2>1
  <2>4. SubSeq(s, 1, i) \in T
    OBVIOUS
  <2>5. SubSeq(s, 1, i + 1) \in T
    BY <2>1, <2>2, <2>3, <2>4
  <2>6. i + 1 \in 0 .. Len(s)
    BY <2>1
  <2> QED
    BY <2>5, <2>6
<1> HIDE DEF U
<1>4. Len(s) \in U
  BY <1>1, <1>2, <1>3, Upwards
<1>5. SubSeq(s, 1, Len(s)) \in T
  BY <1>4 DEF U
<1>6. SubSeq(s, 1, Len(s)) = s
  OBVIOUS
<1> QED
  BY <1>5, <1>6

(* Reading s from left to right, from b on, each element by a step.        *)
IsFold(f, s, b, step) ==
  f = [i \in 0 .. Len(s) |-> IF i = 0 THEN b ELSE step[<<f[i - 1], s[i]>>]]

Fold(s, b, step) == (CHOOSE f : IsFold(f, s, b, step))[Len(s)]

(* f is a reading of the first n elements.                                 *)
Reads(f, s, b, step, n) ==
  f[0] = b /\ \A i \in 1 .. n : f[i] = step[<<f[i - 1], s[i]>>]

LEMMA FoldEquations ==
  ASSUME NEW S, NEW s \in Seq(S), NEW b, NEW step, NEW f
  PROVE  IsFold(f, s, b, step) <=>
           f = [i \in 0 .. Len(s) |-> f[i]] /\ Reads(f, s, b, step, Len(s))
<1>1. Len(s) \in Nat
  OBVIOUS
<1> DEFINE g == [i \in 0 .. Len(s) |-> IF i = 0 THEN b ELSE step[<<f[i - 1], s[i]>>]]
<1>2. g[0] = b /\ \A i \in 1 .. Len(s) : g[i] = step[<<f[i - 1], s[i]>>]
  BY <1>1
<1>3. g = [i \in 0 .. Len(s) |-> g[i]]
  OBVIOUS
<1>4. IsFold(f, s, b, step) <=> f = g
  BY DEF IsFold
<1> HIDE DEF g
<1>5. ASSUME f = g
      PROVE  f = [i \in 0 .. Len(s) |-> f[i]] /\ Reads(f, s, b, step, Len(s))
  BY <1>2, <1>3, <1>5 DEF Reads
<1>6. ASSUME f = [i \in 0 .. Len(s) |-> f[i]], Reads(f, s, b, step, Len(s))
      PROVE  f = g
  <2>1. ASSUME NEW i \in 0 .. Len(s) PROVE f[i] = g[i]
    <3>1. CASE i = 0
      BY <1>1, <1>3, <1>6, <3>1 DEF Reads, g
    <3>2. CASE i # 0
      <4>1. i \in 1 .. Len(s)
        BY <1>1, <3>2
      <4>2. g[i] = step[<<f[i - 1], s[i]>>]
        BY <1>2, <4>1
      <4> QED
        BY <1>6, <4>1, <4>2 DEF Reads
    <3> QED
      BY <3>1, <3>2
  <2> QED
    BY <1>3, <1>6, <2>1
<1> QED
  BY <1>4, <1>5, <1>6

LEMMA FoldUnique ==
  ASSUME NEW n \in Nat, NEW s, NEW b, NEW step, NEW f, NEW g,
         Reads(f, s, b, step, n), Reads(g, s, b, step, n)
  PROVE  f[n] = g[n]
<1> DEFINE T == {i \in 0 .. n : f[i] = g[i]}
<1>1. n \in Nat /\ T \in SUBSET (0 .. n) /\ 0 \in T
  BY DEF Reads
<1>2. ASSUME NEW i \in T, i # n PROVE i + 1 \in T
  <2>1. i + 1 \in 1 .. n /\ (i + 1) - 1 = i /\ f[i] = g[i] /\ i + 1 \in 0 .. n
    BY <1>2
  <2> HIDE DEF T
  <2>2. f[i + 1] = step[<<f[i], s[i + 1]>>] /\ g[i + 1] = step[<<g[i], s[i + 1]>>]
    BY <2>1 DEF Reads
  <2> QED
    BY <2>1, <2>2 DEF T
<1> HIDE DEF T
<1>3. T = 0 .. n
  BY <1>1, <1>2, Upwards
<1>4. n \in T
  BY <1>1, <1>3
<1> QED
  BY <1>4 DEF T

LEMMA FoldExists ==
  ASSUME NEW S, NEW s \in Seq(S), NEW b, NEW step
  PROVE  \E f : IsFold(f, s, b, step)
<1> DEFINE T == {n \in 0 .. Len(s) : \E f : Reads(f, s, b, step, n)}
<1>1. Len(s) \in Nat
  OBVIOUS
<1>2. 0 \in T
  <2> DEFINE f == [i \in 0 .. 0 |-> b]
  <2>1. Reads(f, s, b, step, 0)
    BY DEF Reads
  <2> QED
    BY <1>1, <2>1
<1>3. ASSUME NEW n \in T, n # Len(s) PROVE n + 1 \in T
  <2>1. n \in 0 .. Len(s) /\ n + 1 \in 0 .. Len(s) /\ n \in Nat
    BY <1>1, <1>3
  <2>2. PICK f : Reads(f, s, b, step, n)
    OBVIOUS
  <2> DEFINE g == [i \in 0 .. n + 1 |-> IF i = n + 1 THEN step[<<f[n], s[n + 1]>>] ELSE f[i]]
  <2>3. g[0] = b
    BY <2>1, <2>2 DEF Reads
  <2>4. ASSUME NEW i \in 1 .. n + 1 PROVE g[i] = step[<<g[i - 1], s[i]>>]
    <3>1. i - 1 \in 0 .. n + 1 /\ i - 1 # n + 1 /\ g[i - 1] = f[i - 1]
      BY <2>1
    <3>2. CASE i = n + 1
      <4>1. g[i] = step[<<f[n], s[n + 1]>>] /\ i - 1 = n
        BY <2>1, <3>2
      <4> HIDE DEF g
      <4> QED
        BY <3>1, <3>2, <4>1
    <3>3. CASE i # n + 1
      <4>1. i \in 1 .. n /\ g[i] = f[i]
        BY <2>1, <3>3
      <4> HIDE DEF g
      <4> QED
        BY <2>2, <3>1, <4>1 DEF Reads
    <3> QED
      BY <3>2, <3>3
  <2> HIDE DEF g
  <2>5. Reads(g, s, b, step, n + 1)
    BY <2>3, <2>4 DEF Reads
  <2> QED
    BY <2>1, <2>5
<1>4. T \in SUBSET (0 .. Len(s))
  OBVIOUS
<1> HIDE DEF T
<1>5. T = 0 .. Len(s)
  BY <1>1, <1>2, <1>3, <1>4, Upwards
<1>6. Len(s) \in T
  BY <1>1, <1>5
<1>7. PICK f : Reads(f, s, b, step, Len(s))
  BY <1>6 DEF T
<1> DEFINE h == [i \in 0 .. Len(s) |-> f[i]]
<1>8. \A i \in 0 .. Len(s) : h[i] = f[i]
  OBVIOUS
<1>9. h = [i \in 0 .. Len(s) |-> h[i]]
  OBVIOUS
<1> HIDE DEF h
<1>10. Reads(h, s, b, step, Len(s))
  <2>1. h[0] = b
    BY <1>1, <1>7, <1>8 DEF Reads
  <2>2. ASSUME NEW i \in 1 .. Len(s) PROVE h[i] = step[<<h[i - 1], s[i]>>]
    <3>1. i \in 0 .. Len(s) /\ i - 1 \in 0 .. Len(s)
      BY <1>1
    <3> QED
      BY <1>7, <1>8, <3>1 DEF Reads
  <2> QED
    BY <2>1, <2>2 DEF Reads
<1> QED
  BY <1>9, <1>10, FoldEquations

(* The reading of s, and that any other ends with the same.                *)
LEMMA FoldReads ==
  ASSUME NEW S, NEW s \in Seq(S), NEW b, NEW step
  PROVE  \E f : IsFold(f, s, b, step) /\ Reads(f, s, b, step, Len(s))
                /\ f[Len(s)] = Fold(s, b, step)
<1> DEFINE f == CHOOSE f : IsFold(f, s, b, step)
<1>1. IsFold(f, s, b, step)
  BY FoldExists
<1>2. f[Len(s)] = Fold(s, b, step)
  BY DEF Fold
<1> HIDE DEF f
<1> QED
  BY <1>1, <1>2, FoldEquations

LEMMA FoldIsReading ==
  ASSUME NEW S, NEW s \in Seq(S), NEW b, NEW step, NEW g, Reads(g, s, b, step, Len(s))
  PROVE  g[Len(s)] = Fold(s, b, step)
<1>1. PICK f : Reads(f, s, b, step, Len(s)) /\ f[Len(s)] = Fold(s, b, step)
  BY FoldReads
<1>2. Len(s) \in Nat
  OBVIOUS
<1> QED
  BY <1>1, <1>2, FoldUnique

LEMMA FoldEmpty ==
  ASSUME NEW b, NEW step PROVE Fold(<<>>, b, step) = b
<1>1. <<>> \in Seq({}) /\ Len(<<>>) = 0
  OBVIOUS
<1>2. PICK f : Reads(f, <<>>, b, step, Len(<<>>)) /\ f[Len(<<>>)] = Fold(<<>>, b, step)
  BY <1>1, FoldReads
<1> QED
  BY <1>1, <1>2 DEF Reads

LEMMA FoldAppend ==
  ASSUME NEW S, NEW s \in Seq(S), NEW x \in S, NEW b, NEW step
  PROVE  Fold(Append(s, x), b, step) = step[<<Fold(s, b, step), x>>]
<1> DEFINE t == Append(s, x)
<1>1. t \in Seq(S) /\ Len(t) = Len(s) + 1 /\ Len(s) \in Nat /\ t[Len(s) + 1] = x
      /\ \A i \in 1 .. Len(s) : t[i] = s[i]
  OBVIOUS
<1> HIDE DEF t
<1>2. PICK f : Reads(f, t, b, step, Len(t)) /\ f[Len(t)] = Fold(t, b, step)
  BY <1>1, FoldReads
<1>3. Reads(f, s, b, step, Len(s))
  <2>1. \A i \in 1 .. Len(s) : i \in 1 .. Len(t)
    BY <1>1
  <2> QED
    BY <1>1, <1>2, <2>1 DEF Reads
<1>4. f[Len(s)] = Fold(s, b, step)
  BY <1>3, FoldIsReading
<1>5. Len(t) \in 1 .. Len(t) /\ Len(t) - 1 = Len(s)
  BY <1>1
<1>6. f[Len(t)] = step[<<f[Len(s)], t[Len(t)]>>]
  BY <1>2, <1>5 DEF Reads
<1> QED
  BY <1>1, <1>2, <1>4, <1>6 DEF t

(* Steps in V.                                                             *)
Steps(V, S) == [V \X S -> V]

LEMMA StepStays ==
  ASSUME NEW V, NEW S, NEW step \in Steps(V, S), NEW v \in V, NEW x \in S
  PROVE  step[<<v, x>>] \in V
  BY DEF Steps

LEMMA FoldType ==
  ASSUME NEW V, NEW S, NEW s \in Seq(S), NEW b \in V, NEW step \in Steps(V, S)
  PROVE  \E f : /\ IsFold(f, s, b, step) /\ Reads(f, s, b, step, Len(s))
                /\ f \in [0 .. Len(s) -> V] /\ f[Len(s)] = Fold(s, b, step)
<1>1. PICK f : IsFold(f, s, b, step) /\ Reads(f, s, b, step, Len(s)) /\ f[Len(s)] = Fold(s, b, step)
  BY FoldReads
<1> DEFINE T == {i \in 0 .. Len(s) : f[i] \in V}
<1>2. Len(s) \in Nat /\ T \in SUBSET (0 .. Len(s)) /\ 0 \in T
  BY <1>1 DEF Reads
<1>3. ASSUME NEW i \in T, i # Len(s) PROVE i + 1 \in T
  <2>1. i + 1 \in 1 .. Len(s) /\ (i + 1) - 1 = i /\ f[i] \in V /\ i + 1 \in 0 .. Len(s)
    BY <1>2, <1>3
  <2>2. s[i + 1] \in S
    BY <2>1
  <2> HIDE DEF T
  <2>3. f[i + 1] = step[<<f[i], s[i + 1]>>]
    BY <1>1, <2>1 DEF Reads
  <2>5. f[i + 1] \in V
    BY <2>1, <2>2, <2>3, StepStays
  <2> QED
    BY <2>1, <2>5 DEF T
<1> HIDE DEF T
<1>4. T = 0 .. Len(s)
  BY <1>2, <1>3, Upwards
<1>5. \A i \in 0 .. Len(s) : f[i] \in V
  BY <1>4 DEF T
<1>6. f = [i \in 0 .. Len(s) |-> f[i]]
  BY <1>1, FoldEquations
<1>7. f \in [0 .. Len(s) -> V]
  BY <1>5, <1>6
<1> QED
  BY <1>1, <1>7

(* What reads s by the step as long as it is in V ends with the fold.      *)
LEMMA FoldIs ==
  ASSUME NEW V, NEW S, NEW s \in Seq(S), NEW b \in V, NEW step \in Steps(V, S), NEW g,
         g[0] = b, \A i \in 1 .. Len(s) : g[i - 1] \in V => g[i] = step[<<g[i - 1], s[i]>>]
  PROVE  g[Len(s)] = Fold(s, b, step) /\ Fold(s, b, step) \in V
<1>1. PICK f : /\ IsFold(f, s, b, step) /\ Reads(f, s, b, step, Len(s))
               /\ f \in [0 .. Len(s) -> V] /\ f[Len(s)] = Fold(s, b, step)
  BY FoldType
<1> DEFINE T == {i \in 0 .. Len(s) : g[i] = f[i]}
<1>2. Len(s) \in Nat /\ T \in SUBSET (0 .. Len(s)) /\ 0 \in T
  BY <1>1 DEF Reads
<1>3. ASSUME NEW i \in T, i # Len(s) PROVE i + 1 \in T
  <2>1. i + 1 \in 1 .. Len(s) /\ (i + 1) - 1 = i /\ g[i] = f[i] /\ i \in 0 .. Len(s)
        /\ i + 1 \in 0 .. Len(s)
    BY <1>2, <1>3
  <2> HIDE DEF T
  <2>2. g[i] \in V
    BY <1>1, <2>1
  <2>3. g[i + 1] = step[<<g[i], s[i + 1]>>] /\ f[i + 1] = step[<<f[i], s[i + 1]>>]
    BY <1>1, <2>1, <2>2 DEF Reads
  <2> QED
    BY <2>1, <2>3 DEF T
<1> HIDE DEF T
<1>4. Len(s) \in T
  BY <1>2, <1>3, Upwards
<1>5. Len(s) \in 0 .. Len(s)
  BY <1>2
<1> QED
  BY <1>1, <1>4, <1>5 DEF T
------------------------------------------------------------------------------
(* How many elements of s are in X.                                        *)
Number(s, X) == Cardinality({i \in DOMAIN s : s[i] \in X})

LEMMA NumberType ==
  ASSUME NEW S, NEW s \in Seq(S), NEW X
  PROVE  Number(s, X) \in Nat
<1>1. IsFiniteSet(1 .. Len(s)) /\ DOMAIN s = 1 .. Len(s)
  BY FS_Interval
<1>2. IsFiniteSet({i \in DOMAIN s : s[i] \in X})
  BY <1>1, FS_Subset
<1> QED
  BY <1>2, FS_CardinalityType DEF Number

LEMMA NumberNone ==
  ASSUME NEW X PROVE Number(<<>>, X) = 0
<1>1. {i \in DOMAIN <<>> : <<>>[i] \in X} = {}
  OBVIOUS
<1> QED
  BY <1>1, FS_EmptySet DEF Number

(* A set of numbers moved by d.                                            *)
LEMMA MovedCardinality ==
  ASSUME NEW A \in SUBSET Int, IsFiniteSet(A), NEW d \in Int,
         NEW B \in SUBSET Int, \A i \in Int : i \in B <=> i - d \in A
  PROVE  IsFiniteSet(B) /\ Cardinality(B) = Cardinality(A)
<1> DEFINE f == [i \in A |-> i + d]
<1>1. f \in [A -> B]
  <2>1. \A i \in A : i + d \in Int /\ (i + d) - d = i
    OBVIOUS
  <2> QED
    BY <2>1
<1>2. \A i, j \in A : f[i] = f[j] => i = j
  <2>1. \A i, j \in A : i + d = j + d => i = j
    OBVIOUS
  <2> QED
    BY <2>1
<1>3. \A j \in B : \E i \in A : f[i] = j
  <2> SUFFICES ASSUME NEW j \in B PROVE \E i \in A : f[i] = j
    OBVIOUS
  <2>1. j - d \in A /\ (j - d) + d = j
    OBVIOUS
  <2> QED
    BY <2>1
<1> HIDE DEF f
<1>4. f \in Bijection(A, B)
  BY <1>1, <1>2, <1>3 DEF Bijection, Injection, Surjection, IsInjective
<1>5. ExistsBijection(A, B)
  BY <1>4 DEF ExistsBijection
<1> QED
  BY <1>5, FS_Bijection

LEMMA DisjointUnion ==
  ASSUME NEW A, NEW B, IsFiniteSet(A), IsFiniteSet(B), A \cap B = {}
  PROVE  IsFiniteSet(A \cup B) /\ Cardinality(A \cup B) = Cardinality(A) + Cardinality(B)
<1>1. IsFiniteSet(A \cup B)
      /\ Cardinality(A \cup B) = Cardinality(A) + Cardinality(B) - Cardinality(A \cap B)
  BY FS_Union
<1>2. Cardinality(A \cap B) = 0
  BY FS_EmptySet
<1>3. Cardinality(A) \in Nat /\ Cardinality(B) \in Nat
  BY FS_CardinalityType
<1> QED
  BY <1>1, <1>2, <1>3

LEMMA NumberConcat ==
  ASSUME NEW S, NEW s \in Seq(S), NEW t \in Seq(S), NEW X
  PROVE  Number(s \o t, X) = Number(s, X) + Number(t, X)
<1> DEFINE u == s \o t
           A == {i \in 1 .. Len(s) : s[i] \in X}
           B == {i \in 1 .. Len(t) : t[i] \in X}
           C == {i \in Len(s) + 1 .. Len(s) + Len(t) : u[i] \in X}
<1>1. /\ Len(s) \in Nat /\ Len(t) \in Nat /\ Len(u) = Len(s) + Len(t) /\ u \in Seq(S)
      /\ DOMAIN s = 1 .. Len(s) /\ DOMAIN t = 1 .. Len(t) /\ DOMAIN u = 1 .. Len(s) + Len(t)
      /\ \A i \in 1 .. Len(s) + Len(t) : u[i] = IF i <= Len(s) THEN s[i] ELSE t[i - Len(s)]
  BY ConcatProperties, LenProperties
<1> HIDE DEF u
<1>2. {i \in DOMAIN u : u[i] \in X} = A \cup C
  BY <1>1
<1>3. A \cap C = {}
  BY <1>1
<1>4. IsFiniteSet(A) /\ IsFiniteSet(B)
  <2>1. IsFiniteSet(1 .. Len(s)) /\ IsFiniteSet(1 .. Len(t))
    BY <1>1, FS_Interval
  <2> QED
    BY <2>1, FS_Subset
<1>5. IsFiniteSet(C) /\ Cardinality(C) = Cardinality(B)
  <2>1. \A i \in Int : i \in C <=> i - Len(s) \in B
    BY <1>1
  <2>2. B \in SUBSET Int /\ C \in SUBSET Int /\ Len(s) \in Int
    BY <1>1
  <2> HIDE DEF B, C
  <2> QED
    BY <1>4, <2>1, <2>2, MovedCardinality
<1>6. {i \in DOMAIN s : s[i] \in X} = A /\ {i \in DOMAIN t : t[i] \in X} = B
  BY <1>1
<1> HIDE DEF A, B, C
<1>7. Cardinality(A \cup C) = Cardinality(A) + Cardinality(C)
  BY <1>3, <1>4, <1>5, DisjointUnion
<1> QED
  BY <1>2, <1>5, <1>6, <1>7 DEF Number, u

LEMMA NumberOne ==
  ASSUME NEW x, NEW X
  PROVE  Number(<<x>>, X) = IF x \in X THEN 1 ELSE 0
<1>1. {i \in DOMAIN <<x>> : <<x>>[i] \in X} = IF x \in X THEN {1} ELSE {}
  OBVIOUS
<1> QED
  BY <1>1, FS_EmptySet, FS_Singleton DEF Number

LEMMA Numbered ==
  ASSUME NEW n \in Nat
  PROVE  IsFiniteSet(1 .. n) /\ Cardinality(1 .. n) = n
<1>1. IsFiniteSet(1 .. n) /\ Cardinality(1 .. n) = IF 1 > n THEN 0 ELSE n - 1 + 1
  BY FS_Interval
<1> QED
  BY <1>1

Moved(A, B, d) == \A i \in Int : i \in B <=> i - d \in A

LEMMA MovedNumber ==
  ASSUME NEW A \in SUBSET Int, IsFiniteSet(A), NEW d \in Int, NEW B \in SUBSET Int, Moved(A, B, d)
  PROVE  IsFiniteSet(B) /\ Cardinality(B) = Cardinality(A)
  BY MovedCardinality DEF Moved

LEMMA SeqOver ==
  ASSUME NEW R, NEW s \in Seq(R), NEW Q, \A i \in 1 .. Len(s) : s[i] \in Q
  PROVE  s \in Seq(Q)
  OBVIOUS

LEMMA SeqWider ==
  ASSUME NEW R, NEW S, R \subseteq S, NEW s \in Seq(R)
  PROVE  s \in Seq(S)
<1>1. \A i \in 1 .. Len(s) : s[i] \in S
  OBVIOUS
<1> QED
  BY <1>1, SeqOver

=============================================================================
