------------------------------ MODULE Counting ------------------------------
(***************************************************************************)
(* Facts about natural numbers and about how many there are of something   *)
(* among the first positions of a list, which the proofs about the         *)
(* invitees need.  Induction is over a set, not over a predicate.          *)
(***************************************************************************)
EXTENDS FiniteSetTheorems, TLAPS

LEMMA LeastNatural ==
  ASSUME NEW S \in SUBSET Nat, S # {}
  PROVE  \E m \in S : \A n \in S : m <= n
<1> DEFINE R == OpToRel(<, Nat)
<1>1. IsWellFoundedOn(R, Nat)
  BY NatLessThanWellFounded, Zenon
<1>2. \A x, y \in Nat : y < x => <<y, x>> \in R
  BY DEF OpToRel
<1> HIDE DEF R
<1>3. PICK m \in S : \A n \in S : ~(<<n, m>> \in R)
  BY <1>1, WFMin
<1>4. \A n \in S : ~(n < m)
  BY <1>2, <1>3
<1> QED
  BY <1>4

\* A set with 0, and with the successors of its members, has every number.
LEMMA SetInduction ==
  ASSUME NEW S, 0 \in S, \A n \in Nat : n \in S => n + 1 \in S
  PROVE  \A n \in Nat : n \in S
<1> SUFFICES ASSUME NEW n \in Nat, n \notin S
             PROVE  FALSE
  OBVIOUS
<1> DEFINE T == Nat \ S
<1>1. PICK m \in T : \A k \in T : m <= k
  BY LeastNatural
<1>2. m # 0
  OBVIOUS
<1>3. m - 1 \in Nat /\ m - 1 \notin T
  BY <1>1, <1>2
<1> QED
  BY <1>3

-----------------------------------------------------------------------------
(* Counting *)

\* How many members of S are among the first n.
Upto(S, n) == Cardinality(S \cap (1..n))

LEMMA UptoType ==
  ASSUME NEW S, NEW n \in Nat
  PROVE  Upto(S, n) \in Nat /\ IsFiniteSet(S \cap (1..n))
<1>1. IsFiniteSet(1..n)
  BY FS_Interval
<1> QED
  BY <1>1, FS_Intersection, FS_CardinalityType DEF Upto

LEMMA UptoZero ==
  ASSUME NEW S
  PROVE  Upto(S, 0) = 0
<1>1. S \cap (1..0) = {}
  OBVIOUS
<1> QED
  BY <1>1, FS_EmptySet DEF Upto

LEMMA UptoNext ==
  ASSUME NEW S, NEW n \in Nat
  PROVE  Upto(S, n + 1) = IF n + 1 \in S THEN Upto(S, n) + 1 ELSE Upto(S, n)
<1> DEFINE A == S \cap (1..n)
<1>1. IsFiniteSet(A)
  BY UptoType
<1>2. n + 1 \notin A
  OBVIOUS
<1>3. CASE n + 1 \in S
  <2>1. S \cap (1..(n + 1)) = A \cup {n + 1}
    BY <1>3
  <2> QED
    BY <2>1, <1>1, <1>2, <1>3, FS_AddElement DEF Upto
<1>4. CASE n + 1 \notin S
  <2>1. S \cap (1..(n + 1)) = A
    BY <1>4
  <2> QED
    BY <2>1, <1>4 DEF Upto
<1> QED
  BY <1>3, <1>4

LEMMA UptoAll ==
  ASSUME NEW n \in Nat, NEW S \in SUBSET (1..n)
  PROVE  Upto(S, n) = Cardinality(S) /\ IsFiniteSet(S) /\ Cardinality(S) \in Nat
<1>1. S \cap (1..n) = S
  OBVIOUS
<1> QED
  BY <1>1, UptoType DEF Upto

\* Of the members of S, those that come after the first m of them.
Beyond(S, m) == {k \in S : Upto(S, k) > m}

LEMMA UptoBeyond ==
  ASSUME NEW S, NEW m \in Nat, NEW n \in Nat
  PROVE  Upto(Beyond(S, m), n) = IF Upto(S, n) > m THEN Upto(S, n) - m ELSE 0
<1> DEFINE P(k) == Upto(Beyond(S, m), k) = IF Upto(S, k) > m THEN Upto(S, k) - m ELSE 0
           T == {k \in Nat : P(k)}
<1>1. 0 \in T
  BY UptoZero
<1>2. ASSUME NEW k \in Nat, k \in T
      PROVE  k + 1 \in T
  <2>1. P(k) /\ Upto(S, k) \in Nat
    BY <1>2, UptoType
  <2>2. Upto(S, k + 1) = IF k + 1 \in S THEN Upto(S, k) + 1 ELSE Upto(S, k)
    BY UptoNext
  <2>3. Upto(Beyond(S, m), k + 1)
          = IF k + 1 \in Beyond(S, m) THEN Upto(Beyond(S, m), k) + 1 ELSE Upto(Beyond(S, m), k)
    BY UptoNext
  <2>4. k + 1 \in Beyond(S, m) <=> k + 1 \in S /\ Upto(S, k + 1) > m
    BY DEF Beyond
  <2>5. P(k + 1)
    BY <2>1, <2>2, <2>3, <2>4
  <2> QED
    BY <2>5
<1> HIDE DEF T
<1>3. n \in T
  BY <1>1, <1>2, SetInduction
<1> QED
  BY <1>3 DEF T

-----------------------------------------------------------------------------
(* Lists that are joined, and lists that lose an element *)

\* A has those of the first n positions, B those of the m that follow.
Joins(C, n, A, m, B) ==
  /\ C \in SUBSET (1..(n + m)) /\ A \in SUBSET (1..n) /\ B \in SUBSET (1..m)
  /\ \A j \in 1..n : j \in C <=> j \in A
  /\ \A j \in 1..m : n + j \in C <=> j \in B

LEMMA JoinedCount ==
  ASSUME NEW n \in Nat, NEW m \in Nat, NEW A, NEW B, NEW C, Joins(C, n, A, m, B)
  PROVE  Cardinality(C) = Cardinality(A) + Cardinality(B)
<1> DEFINE D == C \ A
           g == [j \in B |-> n + j]
<1>0. /\ C \in SUBSET (1..(n + m)) /\ A \in SUBSET (1..n) /\ B \in SUBSET (1..m)
      /\ \A j \in 1..n : j \in C <=> j \in A
      /\ \A j \in 1..m : n + j \in C <=> j \in B
  BY DEF Joins
<1>1. IsFiniteSet(A) /\ IsFiniteSet(B) /\ IsFiniteSet(C) /\ Cardinality(A) \in Nat /\ Cardinality(B) \in Nat
  <2>1. n + m \in Nat
    OBVIOUS
  <2> QED
    BY <1>0, <2>1, UptoAll
<1>2. \A k \in 1..(n + m) : k \notin 1..n => k - n \in 1..m /\ n + (k - n) = k
  OBVIOUS
<1>3. \A k \in D : k \notin 1..n /\ k - n \in B /\ g[k - n] = k
  BY <1>0, <1>2
<1>4. \A j \in B : n + j \in D
  BY <1>0
<1>5. g \in [B -> D]
  BY <1>4
<1>6. g \in Bijection(B, D)
  <2>1. \A i, j \in B : g[i] = g[j] => i = j
    BY <1>0
  <2>2. \A k \in D : \E j \in B : g[j] = k
    BY <1>3
  <2> QED
    BY <1>5, <2>1, <2>2 DEF Bijection, Injection, Surjection, IsInjective
<1>7. IsFiniteSet(D) /\ Cardinality(D) = Cardinality(B)
  BY <1>1, <1>6, FS_Bijection DEF ExistsBijection
<1>8. C = A \cup D /\ A \cap D = {}
  BY <1>0
<1>9. Cardinality(A \cup D) = Cardinality(A) + Cardinality(D) - Cardinality({})
  BY <1>1, <1>7, <1>8, FS_Union
<1>10. Cardinality({}) = 0
  BY FS_EmptySet
<1> HIDE DEF D
<1>11. Cardinality(C) = Cardinality(A) + Cardinality(B) - 0
  BY <1>7, <1>8, <1>9, <1>10
<1> QED
  BY <1>1, <1>11

\* B has the positions of A once position p is taken out and those after it
\* have moved up.
LEMMA WithoutCount ==
  ASSUME NEW n \in Nat, NEW p \in 1..n, NEW A \in SUBSET (1..n), NEW B \in SUBSET (1..(n - 1)),
         \A k \in 1..(n - 1) : k \in B <=> (IF k < p THEN k ELSE k + 1) \in A
  PROVE  Cardinality(B) = IF p \in A THEN Cardinality(A) - 1 ELSE Cardinality(A)
<1> DEFINE C == A \ {p}
           g == [k \in B |-> IF k < p THEN k ELSE k + 1]
           h == [k \in C |-> IF k < p THEN k ELSE k - 1]
<1>1. IsFiniteSet(A) /\ IsFiniteSet(B) /\ Cardinality(A) \in Nat
  BY UptoAll
<1>2. \A k \in B : g[k] \in C
  OBVIOUS
<1>3. \A k \in C : h[k] \in B /\ g[h[k]] = k
  <2> SUFFICES ASSUME NEW k \in C
               PROVE  h[k] \in B /\ g[h[k]] = k
    OBVIOUS
  <2> DEFINE j == IF k < p THEN k ELSE k - 1
  <2>1. k \in A /\ k \in 1..n /\ k # p
    OBVIOUS
  <2>2. j \in 1..(n - 1) /\ (IF j < p THEN j ELSE j + 1) = k
    BY <2>1
  <2>3. h[k] = j
    OBVIOUS
  <2> HIDE DEF j, h
  <2>4. j \in B
    BY <2>1, <2>2
  <2> QED
    BY <2>2, <2>3, <2>4
<1>4. g \in Bijection(B, C)
  <2>1. \A i, j \in B : g[i] = g[j] => i = j
    OBVIOUS
  <2>2. \A k \in C : \E j \in B : g[j] = k
    BY <1>3
  <2>3. g \in [B -> C]
    BY <1>2
  <2> QED
    BY <2>1, <2>2, <2>3 DEF Bijection, Injection, Surjection, IsInjective
<1>5. Cardinality(C) = Cardinality(B)
  BY <1>1, <1>4, FS_Bijection DEF ExistsBijection
<1> QED
  BY <1>1, <1>5, FS_RemoveElement

\* The members of A of kind x, by f.
OfKind(A, f, x) == {k \in A : f[k] = x}

\* As many of each kind in E, and none of another kind.
AlikeByKind(E, A, f, B, g) ==
  /\ \A k \in A : f[k] \in E
  /\ \A k \in B : g[k] \in E
  /\ \A x \in E : Cardinality(OfKind(A, f, x)) = Cardinality(OfKind(B, g, x))

LEMMA SameKinds ==
  ASSUME NEW E, NEW f, NEW g, NEW A, NEW B, IsFiniteSet(A), IsFiniteSet(B), AlikeByKind(E, A, f, B, g)
  PROVE  Cardinality(A) = Cardinality(B)
<1> DEFINE Same(C, D) == \A x \in E : Cardinality({k \in C : f[k] = x}) = Cardinality({k \in D : g[k] = x})
           P(n) == \A C \in SUBSET A, D \in SUBSET B :
                     Cardinality(C) = n /\ Same(C, D) => Cardinality(D) = n
           T == {n \in Nat : P(n)}
<1>0. (\A k \in A : f[k] \in E) /\ (\A k \in B : g[k] \in E)
  BY DEF AlikeByKind
<1>1. \A C \in SUBSET A : IsFiniteSet(C) /\ Cardinality(C) \in Nat
  BY FS_Subset, FS_CardinalityType
<1>2. \A D \in SUBSET B : IsFiniteSet(D) /\ Cardinality(D) \in Nat
  BY FS_Subset, FS_CardinalityType
<1>3. 0 \in T
  <2> SUFFICES ASSUME NEW C \in SUBSET A, NEW D \in SUBSET B, Cardinality(C) = 0, Same(C, D)
               PROVE  D = {}
    BY FS_EmptySet
  <2>1. C = {}
    BY <1>1, FS_EmptySet
  <2>2. SUFFICES ASSUME NEW d \in D
                 PROVE  FALSE
    OBVIOUS
  <2>3. Cardinality({k \in D : g[k] = g[d]}) = Cardinality({k \in C : f[k] = g[d]})
    BY <1>0
  <2>4. {k \in C : f[k] = g[d]} = {}
    BY <2>1
  <2>5. {k \in D : g[k] = g[d]} \in SUBSET B /\ d \in {k \in D : g[k] = g[d]}
    OBVIOUS
  <2> QED
    BY <2>3, <2>4, <2>5, <1>2, FS_EmptySet
<1>4. ASSUME NEW n \in Nat, n \in T
      PROVE  n + 1 \in T
  <2> SUFFICES ASSUME NEW C \in SUBSET A, NEW D \in SUBSET B, Cardinality(C) = n + 1, Same(C, D)
               PROVE  Cardinality(D) = n + 1
    OBVIOUS
  <2>0. C # {}
    <3>1. n + 1 # 0
      OBVIOUS
    <3> QED
      BY <3>1, FS_EmptySet
  <2>1. PICK c \in C : TRUE
    BY <2>0
  <2>2. PICK d \in D : g[d] = f[c]
    <3> DEFINE Cc == {k \in C : f[k] = f[c]}
               Dc == {k \in D : g[k] = f[c]}
    <3>1. c \in Cc /\ Cc \in SUBSET A /\ Dc \in SUBSET B
      BY <2>1
    <3>2. Cardinality(Cc) = Cardinality(Dc)
      BY <1>0, <2>1
    <3>3. Dc # {}
      BY <3>1, <3>2, <1>1, <1>2, FS_EmptySet
    <3> QED
      BY <3>3
  <2> DEFINE C1 == C \ {c}
             D1 == D \ {d}
  <2>3. Cardinality(C1) = n /\ Cardinality(D1) = Cardinality(D) - 1 /\ Cardinality(D) \in Nat
    <3>1. IsFiniteSet(C) /\ IsFiniteSet(D) /\ Cardinality(D) \in Nat
      BY <1>1, <1>2
    <3>2. Cardinality(C1) = Cardinality(C) - 1 /\ Cardinality(D1) = Cardinality(D) - 1
      BY <3>1, <2>1, <2>2, FS_RemoveElement
    <3> QED
      BY <3>1, <3>2
  <2>4. Same(C1, D1)
    <3> SUFFICES ASSUME NEW x \in E
                 PROVE  Cardinality({k \in C1 : f[k] = x}) = Cardinality({k \in D1 : g[k] = x})
      OBVIOUS
    <3> DEFINE Cx == {k \in C : f[k] = x}
               Dx == {k \in D : g[k] = x}
    <3>1. Cardinality(Cx) = Cardinality(Dx) /\ Cx \in SUBSET A /\ Dx \in SUBSET B
      OBVIOUS
    <3>2. {k \in C1 : f[k] = x} = Cx \ {c} /\ {k \in D1 : g[k] = x} = Dx \ {d}
      OBVIOUS
    <3>3. c \in Cx <=> d \in Dx
      BY <2>1, <2>2
    <3>4. IsFiniteSet(Cx) /\ IsFiniteSet(Dx)
      BY <3>1, <1>1, <1>2
    <3>5. /\ Cardinality(Cx \ {c}) = IF c \in Cx THEN Cardinality(Cx) - 1 ELSE Cardinality(Cx)
          /\ Cardinality(Dx \ {d}) = IF d \in Dx THEN Cardinality(Dx) - 1 ELSE Cardinality(Dx)
      BY <3>4, FS_RemoveElement
    <3> HIDE DEF Cx, Dx, C1, D1
    <3> QED
      BY <3>1, <3>2, <3>3, <3>5
  <2>5. C1 \in SUBSET A /\ D1 \in SUBSET B
    OBVIOUS
  <2>6. P(n)
    BY <1>4
  <2> HIDE DEF C1, D1, Same
  <2>7. Cardinality(D1) = n
    BY <2>3, <2>4, <2>5, <2>6
  <2> QED
    BY <2>3, <2>7
<1> HIDE DEF T
<1>5. Cardinality(A) \in T
  BY <1>1, <1>3, <1>4, SetInduction
<1>6. Same(A, B)
  BY DEF AlikeByKind, OfKind
<1> HIDE DEF Same
<1> QED
  BY <1>5, <1>6 DEF T
=============================================================================
