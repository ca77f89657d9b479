--------------------------- MODULE SelectionProofs ---------------------------
(***************************************************************************)
(* The facts on which the proofs about lists rest: induction, and what a   *)
(* selection keeps.  The library states induction for a predicate, which   *)
(* the provers cannot instantiate; a set of numbers takes its place here.  *)
(***************************************************************************)
EXTENDS Selections, FiniteSetTheorems, SequenceTheorems, WellFoundedInduction, TLAPS

LEMMA WellFoundedMinimum ==
  \A R, S : IsWellFoundedOn(R, S) =>
      \A T : T \subseteq S /\ T # {} => \E x \in T : \A y \in T : ~(<<y, x>> \in R)
  BY WFMin, Zenon

\* Every set of naturals that is not empty has a least element.
LEMMA LeastNatural == \A T \in SUBSET Nat : T # {} => \E x \in T : \A y \in T : x <= y
<1>1. \E R : IsWellFoundedOn(R, Nat) /\ \A x, y \in Nat : x < y => <<x, y>> \in R
  BY NatLessThanWellFounded DEF OpToRel
<1>2. PICK R : IsWellFoundedOn(R, Nat) /\ \A x, y \in Nat : x < y => <<x, y>> \in R
  BY <1>1
<1>3. \A T : T \subseteq Nat /\ T # {} => \E x \in T : \A y \in T : ~(<<y, x>> \in R)
  BY <1>2, WellFoundedMinimum, Zenon
<1> SUFFICES ASSUME NEW T \in SUBSET Nat, T # {}
             PROVE  \E x \in T : \A y \in T : x <= y
  OBVIOUS
<1>4. PICK x \in T : \A y \in T : ~(<<y, x>> \in R)
  BY <1>3
<1>5. \A y \in T : y \in Nat /\ x \in Nat
  OBVIOUS
<1>6. \A y \in T : ~(y < x)
  BY <1>2, <1>4, <1>5
<1> QED BY <1>5, <1>6

\* Induction: a set that holds 0, and n + 1 with every n below a bound, holds
\* every number up to the bound.
LEMMA Counting ==
  ASSUME NEW S, NEW bound \in Nat, 0 \in S, \A n \in 0..(bound - 1) : n \in S => n + 1 \in S
  PROVE  0..bound \subseteq S
<1> DEFINE T == (0..bound) \ S
<1> SUFFICES ASSUME T # {}
             PROVE  FALSE
  OBVIOUS
<1>1. T \in SUBSET Nat
  OBVIOUS
<1>2. PICK x \in T : \A y \in T : x <= y
  BY <1>1, LeastNatural
<1>3. x \in 1..bound /\ x \notin S
  OBVIOUS
<1>4. x - 1 \in 0..(bound - 1) /\ x - 1 \notin T
  BY <1>2, <1>3
<1>5. x - 1 \in S
  BY <1>4
<1> QED BY <1>3, <1>4, <1>5

\* Of the values at some positions one is the greatest, and one the least.
LEMMA GreatestHeld ==
  ASSUME NEW n \in Nat, NEW f, \A i \in 1..n : f[i] \in Nat, NEW P \in SUBSET (1..n), P # {}
  PROVE  \E i \in P : \A j \in P : f[j] <= f[i]
<1> DEFINE Has(Q) == \E i \in Q : \A j \in Q : f[j] <= f[i]
           S == {k \in 0..n : \A Q \in SUBSET (1..k) : Q # {} => Has(Q)}
<1>1. 0 \in S
  <2>1. \A Q : Q \subseteq 1..0 => Q = {}
    OBVIOUS
  <2>2. 0 \in 0..n
    OBVIOUS
  <2> HIDE DEF Has
  <2> QED BY <2>1, <2>2, Zenon
<1>2. ASSUME NEW k \in 0..(n - 1), k \in S
      PROVE  k + 1 \in S
  <2> SUFFICES ASSUME NEW Q \in SUBSET (1..k + 1), Q # {}
               PROVE  Has(Q)
    OBVIOUS
  <2> DEFINE R == Q \ {k + 1}
  <2>1. R \in SUBSET (1..k) /\ \A i \in R : f[i] \in Nat
    OBVIOUS
  <2>2. f[k + 1] \in Nat
    OBVIOUS
  <2>3. CASE R = {}
    <3>1. Q = {k + 1}
      BY <2>3
    <3> QED BY <3>1, <2>2
  <2>4. CASE R # {}
    <3>1. PICK i \in R : \A j \in R : f[j] <= f[i]
      BY <1>2, <2>1, <2>4
    <3>2. CASE k + 1 \in Q /\ f[i] < f[k + 1]
      BY <2>1, <2>2, <3>1, <3>2
    <3>3. CASE k + 1 \notin Q \/ ~(f[i] < f[k + 1])
      BY <2>1, <2>2, <3>1, <3>3
    <3> QED BY <3>2, <3>3
  <2> QED BY <2>3, <2>4
<1> HIDE DEF S
<1>3. 0..n \subseteq S
  BY <1>1, <1>2, Counting
<1>4. n \in S
  BY <1>3
<1> QED BY <1>4 DEF S

\* Of the values at some positions one is the least.
LEMMA LeastHeld ==
  ASSUME NEW n \in Nat, NEW f, \A i \in 1..n : f[i] \in Nat, NEW P \in SUBSET (1..n), P # {}
  PROVE  \E i \in P : \A j \in P : f[i] <= f[j]
<1> DEFINE T == {f[i] : i \in P}
<1>1. T \in SUBSET Nat /\ T # {}
  OBVIOUS
<1>2. PICK x \in T : \A y \in T : x <= y
  BY <1>1, LeastNatural
<1> QED BY <1>2
-----------------------------------------------------------------------------
(* Selections.                                                             *)

\* The k-th position, for every k there is, is a position with k - 1 below it;
\* and each position is one of them.
LEMMA NthPosition ==
  ASSUME NEW n \in Nat, NEW P \in SUBSET (1..n)
  PROVE  /\ IsFiniteSet(P) /\ Cardinality(P) \in Nat
         /\ \A k \in 1..Cardinality(P) : Nth(P, k) \in P
         /\ \A k, l \in 1..Cardinality(P) : k < l => Nth(P, k) < Nth(P, l)
         /\ \A i \in P : \E k \in 1..Cardinality(P) : Nth(P, k) = i
<1> DEFINE Upto(i) == {j \in P : j <= i}
           rank == [i \in P |-> Cardinality(Upto(i))]
           N == Cardinality(P)
<1> P \subseteq Int /\ \A i \in P : i \in Int
  OBVIOUS
<1>1. IsFiniteSet(P) /\ N \in Nat
  <2>1. IsFiniteSet(1..n)
    BY FS_Interval
  <2>2. IsFiniteSet(P)
    BY <2>1, FS_Subset
  <2> QED BY <2>2, FS_CardinalityType
<1>2. \A i \in P : IsFiniteSet(Upto(i)) /\ Cardinality(Upto(i)) \in 1..N
  <2> SUFFICES ASSUME NEW i \in P
               PROVE  IsFiniteSet(Upto(i)) /\ Cardinality(Upto(i)) \in 1..N
    OBVIOUS
  <2>1. Upto(i) \in SUBSET P /\ i \in Upto(i)
    OBVIOUS
  <2> HIDE DEF Upto
  <2>2. IsFiniteSet(Upto(i)) /\ Cardinality(Upto(i)) <= N /\ Cardinality(Upto(i)) \in Nat
    BY <1>1, <2>1, FS_Subset, FS_CardinalityType
  <2>3. Cardinality(Upto(i)) # 0
    BY <2>1, <2>2, FS_EmptySet
  <2> QED BY <2>2, <2>3, <1>1
<1>3. \A i, j \in P : i < j => Cardinality(Upto(i)) < Cardinality(Upto(j))
  <2> SUFFICES ASSUME NEW i \in P, NEW j \in P, i < j
               PROVE  Cardinality(Upto(i)) < Cardinality(Upto(j))
    OBVIOUS
  <2> i \in Int /\ j \in Int
    OBVIOUS
  <2>1. \A x \in P : x <= i => x <= j
    OBVIOUS
  <2>2. Upto(i) \subseteq Upto(j)
    BY <2>1, Zenon
  <2>3. j \in Upto(j) /\ j \notin Upto(i)
    OBVIOUS
  <2>4. Upto(i) \in SUBSET Upto(j) /\ j \in Upto(j) /\ j \notin Upto(i)
    BY <2>2, <2>3, Zenon
  <2> HIDE DEF Upto
  <2>5. Cardinality(Upto(i)) <= Cardinality(Upto(j)) /\ Cardinality(Upto(i)) # Cardinality(Upto(j))
    BY <1>2, <2>4, FS_Subset
  <2> QED BY <2>5, <1>2
<1>4. rank \in Injection(P, 1..N)
  <2>1. rank \in [P -> 1..N]
    BY <1>2
  <2>2. \A i, j \in P : rank[i] = rank[j] => i = j
    <3> SUFFICES ASSUME NEW i \in P, NEW j \in P, rank[i] = rank[j], i # j
                 PROVE  FALSE
      OBVIOUS
    <3>1. i < j \/ j < i
      OBVIOUS
    <3>2. rank[i] \in Int /\ rank[j] \in Int
      BY <2>1
    <3> QED BY <3>1, <3>2, <1>3
  <2> HIDE DEF rank
  <2> QED BY <2>1, <2>2 DEF Injection, IsInjective
<1>5. rank \in Surjection(P, 1..N)
  <2>1. IsFiniteSet(1..N) /\ Cardinality(1..N) = N
    BY <1>1, FS_Interval
  <2> HIDE DEF rank
  <2> QED BY <1>4, <2>1, FS_Injection
<1>6. \A k \in 1..N : \E i \in P : Cardinality(Upto(i)) = k
  <2>1. \A k \in 1..N : \E i \in P : rank[i] = k
    BY <1>5 DEF Surjection
  <2> QED BY <2>1
<1>7. \A k \in 1..N : Nth(P, k) \in P /\ Cardinality(Upto(Nth(P, k))) = k
  BY <1>6 DEF Nth
<1>8. \A k, l \in 1..N : k < l => Nth(P, k) < Nth(P, l)
  <2> SUFFICES ASSUME NEW k \in 1..N, NEW l \in 1..N, k < l, ~(Nth(P, k) < Nth(P, l))
               PROVE  FALSE
    OBVIOUS
  <2> DEFINE a == Nth(P, k)
             b == Nth(P, l)
  <2>1. a \in P /\ b \in P /\ Cardinality(Upto(a)) = k /\ Cardinality(Upto(b)) = l
    BY <1>7
  <2>2. a \in Int /\ b \in Int /\ ~(a < b)
    BY <2>1
  <2> HIDE DEF Upto, a, b
  <2>3. b < a \/ b = a
    BY <2>2
  <2> QED BY <2>1, <2>3, <1>3
<1>9. \A i \in P : \E k \in 1..N : Nth(P, k) = i
  <2> SUFFICES ASSUME NEW i \in P
               PROVE  Nth(P, Cardinality(Upto(i))) = i
    BY <1>2
  <2> DEFINE k == Cardinality(Upto(i))
             a == Nth(P, k)
  <2>1. k \in 1..N
    BY <1>2
  <2>2. a \in P /\ Cardinality(Upto(a)) = k
    BY <2>1, <1>7
  <2> HIDE DEF a
  <2>3. ~(a < i) /\ ~(i < a)
    BY <2>1, <2>2, <1>3
  <2>4. a = i
    BY <2>2, <2>3
  <2> QED BY <2>4 DEF a
<1> QED BY <1>1, <1>7, <1>8, <1>9

\* A selection keeps the elements at its positions, each once and in their order.
LEMMA PickedElements ==
  ASSUME NEW S, NEW s \in Seq(S), NEW P \in SUBSET (1..Len(s))
  PROVE  /\ Picked(s, P) \in Seq(S)
         /\ Len(Picked(s, P)) = Cardinality(P) /\ Cardinality(P) \in Nat
         /\ \A k \in 1..Cardinality(P) : Nth(P, k) \in P /\ Picked(s, P)[k] = s[Nth(P, k)]
         /\ \A k, l \in 1..Cardinality(P) : k < l => Nth(P, k) < Nth(P, l)
         /\ \A i \in P : \E k \in 1..Cardinality(P) : Nth(P, k) = i /\ Picked(s, P)[k] = s[i]
<1>1. Len(s) \in Nat /\ \A i \in 1..Len(s) : s[i] \in S
  BY LenProperties
<1>2. /\ Cardinality(P) \in Nat
      /\ \A k \in 1..Cardinality(P) : Nth(P, k) \in P
      /\ \A k, l \in 1..Cardinality(P) : k < l => Nth(P, k) < Nth(P, l)
      /\ \A i \in P : \E k \in 1..Cardinality(P) : Nth(P, k) = i
  BY <1>1, NthPosition
<1>3. \A k \in 1..Cardinality(P) : s[Nth(P, k)] \in S
  BY <1>1, <1>2
<1> DEFINE N == Cardinality(P)
<1> HIDE DEF N
<1>4. /\ [k \in 1..N |-> s[Nth(P, k)]] \in Seq(S)
      /\ Len([k \in 1..N |-> s[Nth(P, k)]]) = N
  BY <1>2, <1>3 DEF N
<1> QED BY <1>2, <1>4 DEF Picked, N
-----------------------------------------------------------------------------
(* Lists that have nothing twice.                                          *)

Once(s) == \A i, j \in DOMAIN s : i # j => s[i] # s[j]

LEMMA RangeIs ==
  ASSUME NEW S, NEW s \in Seq(S)
  PROVE  /\ Range(s) \subseteq S /\ DOMAIN s = 1..Len(s) /\ Len(s) \in Nat
         /\ \A i \in DOMAIN s : s[i] \in Range(s)
         /\ \A x \in Range(s) : \E i \in DOMAIN s : x = s[i]
<1>1. Len(s) \in Nat /\ DOMAIN s = 1..Len(s) /\ \A i \in 1..Len(s) : s[i] \in S
  BY LenProperties
<1> QED BY <1>1 DEF Range

\* Two lists that have nothing twice and nothing in common.
LEMMA JoinedOnce ==
  ASSUME NEW S, NEW s \in Seq(S), NEW t \in Seq(S), Once(s), Once(t),
         Range(s) \cap Range(t) = {}
  PROVE  /\ s \o t \in Seq(S) /\ Once(s \o t)
         /\ Range(s \o t) = Range(s) \cup Range(t)
<1>1. /\ s \o t \in Seq(S) /\ Len(s \o t) = Len(s) + Len(t)
      /\ \A i \in 1..Len(s) + Len(t) : (s \o t)[i] = IF i <= Len(s) THEN s[i] ELSE t[i - Len(s)]
  BY ConcatProperties
<1>2. /\ DOMAIN s = 1..Len(s) /\ Len(s) \in Nat /\ \A i \in DOMAIN s : s[i] \in Range(s)
      /\ DOMAIN t = 1..Len(t) /\ Len(t) \in Nat /\ \A i \in DOMAIN t : t[i] \in Range(t)
      /\ DOMAIN (s \o t) = 1..(Len(s) + Len(t))
  <2>1. DOMAIN (s \o t) = 1..(Len(s) + Len(t))
    BY <1>1, RangeIs
  <2> QED BY <2>1, RangeIs
<1>3. ASSUME NEW i \in 1..Len(s) + Len(t), NEW j \in 1..Len(s) + Len(t), i < j
      PROVE  (s \o t)[i] # (s \o t)[j]
  <2>1. CASE j <= Len(s)
    BY <1>1, <1>2, <1>3, <2>1 DEF Once
  <2>2. CASE i > Len(s)
    <3>1. /\ i - Len(s) \in DOMAIN t /\ j - Len(s) \in DOMAIN t /\ i - Len(s) # j - Len(s)
          /\ (s \o t)[i] = t[i - Len(s)] /\ (s \o t)[j] = t[j - Len(s)]
      BY <1>1, <1>2, <1>3, <2>2
    <3> QED BY <3>1 DEF Once
  <2>3. CASE i <= Len(s) /\ j > Len(s)
    <3>1. (s \o t)[i] = s[i] /\ (s \o t)[j] = t[j - Len(s)]
      BY <1>1, <1>3, <2>3
    <3>2. i \in DOMAIN s /\ j - Len(s) \in DOMAIN t
      BY <1>2, <1>3, <2>3
    <3>3. s[i] \in Range(s) /\ t[j - Len(s)] \in Range(t)
      BY <1>2, <3>2
    <3> QED BY <3>1, <3>3
  <2> QED BY <2>1, <2>2, <2>3, <1>2
<1>4. Once(s \o t)
  <2> SUFFICES ASSUME NEW i \in DOMAIN (s \o t), NEW j \in DOMAIN (s \o t), i # j
               PROVE  (s \o t)[i] # (s \o t)[j]
    BY DEF Once
  <2>1. i < j \/ j < i
    BY <1>2
  <2> QED BY <1>2, <1>3, <2>1
<1>5. Range(s \o t) = Range(s) \cup Range(t)
  BY RangeConcatenation
<1> QED BY <1>1, <1>4, <1>5

\* Different places of a selection are different positions of the list.
LEMMA PickedFrom ==
  ASSUME NEW S, NEW s \in Seq(S), NEW P, P \subseteq DOMAIN s
  PROVE  /\ Picked(s, P) \in Seq(S)
         /\ \A i \in P : s[i] \in Range(Picked(s, P))
         /\ \A x \in Range(Picked(s, P)) : \E i \in P : x = s[i]
         /\ \A k, l \in DOMAIN Picked(s, P) : k # l =>
                \E i, j \in P : i # j /\ Picked(s, P)[k] = s[i] /\ Picked(s, P)[l] = s[j]
<1>1. P \in SUBSET (1..Len(s)) /\ \A i \in P : i \in DOMAIN s /\ i \in Int
  BY RangeIs
<1> DEFINE t == Picked(s, P)
           N == Cardinality(P)
<1>2. /\ t \in Seq(S) /\ Len(t) = N
      /\ \A k \in 1..N : Nth(P, k) \in P /\ t[k] = s[Nth(P, k)]
      /\ \A k, l \in 1..N : k < l => Nth(P, k) < Nth(P, l)
      /\ \A i \in P : \E k \in 1..N : Nth(P, k) = i /\ t[k] = s[i]
  BY <1>1, PickedElements, Zenon
<1> HIDE DEF t
<1>3. DOMAIN t = 1..N /\ N \in Nat
  BY <1>2, RangeIs
<1> HIDE DEF N
<1>4. ASSUME NEW k \in 1..N, NEW l \in 1..N, k # l
      PROVE  \E i, j \in P : i # j /\ t[k] = s[i] /\ t[l] = s[j]
  <2>1. k < l \/ l < k
    BY <1>3, <1>4
  <2>2. Nth(P, k) \in P /\ Nth(P, l) \in P
    BY <1>2
  <2>3. Nth(P, k) < Nth(P, l) \/ Nth(P, l) < Nth(P, k)
    BY <1>2, <2>1
  <2>4. Nth(P, k) # Nth(P, l)
    BY <1>1, <2>2, <2>3
  <2> QED BY <1>2, <2>2, <2>4
<1>5. \A i \in P : s[i] \in Range(t)
  BY <1>2, <1>3 DEF Range
<1>6. \A x \in Range(t) : \E i \in P : x = s[i]
  BY <1>2, <1>3 DEF Range
<1>7. ASSUME NEW k \in DOMAIN t, NEW l \in DOMAIN t, k # l
      PROVE  \E i, j \in P : i # j /\ t[k] = s[i] /\ t[l] = s[j]
  <2>1. k \in 1..N /\ l \in 1..N
    BY <1>3
  <2> QED BY <1>4, <1>7, <2>1
<1> QED BY <1>2, <1>5, <1>6, <1>7, Zenon DEF t

\* A selection from a list that has nothing twice.
LEMMA PickedOnce ==
  ASSUME NEW S, NEW s \in Seq(S), Once(s), NEW P, P \subseteq DOMAIN s
  PROVE  /\ Picked(s, P) \in Seq(S) /\ Once(Picked(s, P))
         /\ \A i \in P : s[i] \in Range(Picked(s, P))
         /\ \A x \in Range(Picked(s, P)) : \E i \in P : x = s[i]
<1> DEFINE t == Picked(s, P)
<1>1. /\ t \in Seq(S) /\ (\A i \in P : s[i] \in Range(t))
      /\ (\A x \in Range(t) : \E i \in P : x = s[i])
      /\ \A k, l \in DOMAIN t : k # l => \E i, j \in P : i # j /\ t[k] = s[i] /\ t[l] = s[j]
  BY PickedFrom
<1> HIDE DEF t
<1>2. Once(t)
  BY <1>1 DEF Once
<1> QED BY <1>1, <1>2 DEF t

\* A list that one element is put at the end of.
LEMMA Appended ==
  ASSUME NEW S, NEW s \in Seq(S), NEW x \in S
  PROVE  /\ Append(s, x) \in Seq(S) /\ Range(Append(s, x)) = Range(s) \cup {x}
         /\ Len(s) \in Nat /\ Len(Append(s, x)) = Len(s) + 1
         /\ DOMAIN s = 1..Len(s) /\ DOMAIN Append(s, x) = 1..Len(s) + 1
         /\ \A i \in DOMAIN s : Append(s, x)[i] = s[i]
         /\ Append(s, x)[Len(s) + 1] = x
<1> DEFINE t == Append(s, x)
<1>1. /\ t \in Seq(S) /\ Len(t) = Len(s) + 1 /\ t[Len(s) + 1] = x
      /\ \A i \in 1..Len(s) : t[i] = s[i]
  BY AppendProperties
<1> HIDE DEF t
<1>2. /\ DOMAIN s = 1..Len(s) /\ Len(s) \in Nat /\ DOMAIN t = 1..Len(s) + 1
  <2>1. DOMAIN t = 1..Len(t)
    BY <1>1, RangeIs
  <2> QED BY <1>1, <2>1, RangeIs
<1>3. \A y : y \in Range(t) <=> y \in Range(s) \cup {x}
  BY <1>1, <1>2 DEF Range
<1> QED BY <1>1, <1>2, <1>3 DEF t

LEMMA EmptyOnce == Once(<<>>) /\ Range(<<>>) = {}
BY DEF Once, Range

LEMMA SingleOnce ==
  ASSUME NEW S, NEW x \in S
  PROVE  <<x>> \in Seq(S) /\ Once(<<x>>) /\ Range(<<x>>) = {x}
<1>1. <<x>> \in Seq(S) /\ DOMAIN <<x>> = 1..1 /\ <<x>>[1] = x
  OBVIOUS
<1> QED BY <1>1 DEF Once, Range

\* The elements of a list are finitely many.
LEMMA RangeFinite ==
  ASSUME NEW S, NEW s \in Seq(S)
  PROVE  IsFiniteSet(Range(s))
<1>1. Len(s) \in Nat /\ DOMAIN s = 1..Len(s) /\ s \in [1..Len(s) -> S]
  BY RangeIs, LenProperties
<1>2. s \in Surjection(1..Len(s), Range(s))
  BY <1>1 DEF Surjection, Range
<1>3. IsFiniteSet(1..Len(s))
  BY <1>1, FS_Interval
<1> QED BY <1>2, <1>3, FS_Surjection

LEMMA Narrowed ==
  ASSUME NEW S, NEW C, NEW s \in Seq(S), Range(s) \subseteq C
  PROVE  s \in Seq(C)
<1>1. Len(s) \in Nat /\ DOMAIN s = 1..Len(s) /\ s \in [1..Len(s) -> S]
      /\ \A i \in DOMAIN s : s[i] \in Range(s)
  BY RangeIs, LenProperties
<1>2. s \in [1..Len(s) -> C]
  BY <1>1
<1> QED BY <1>1, <1>2

LEMMA SeqMonotone ==
  ASSUME NEW S, NEW C, C \subseteq S, NEW s \in Seq(C)
  PROVE  s \in Seq(S)
<1>1. Len(s) \in Nat /\ s \in [1..Len(s) -> C]
  BY LenProperties
<1>2. s \in [1..Len(s) -> S]
  BY <1>1
<1> QED BY <1>1, <1>2
=============================================================================
