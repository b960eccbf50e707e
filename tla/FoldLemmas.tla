------------------------------- MODULE FoldLemmas -------------------------------
(***************************************************************************)
(* Induction over numbers and finite sets, and what the recursions behind  *)
(* FoldLeft, MapThenSumSet and FlattenSeq of the community modules compute.*)
(* A property that is proved by induction is given as the set of the       *)
(* numbers, or of the subsets, that have it, and what a recursion does as  *)
(* a function: so every lemma is about sets, and none about operators.     *)
(***************************************************************************)
EXTENDS Integers, SequencesExt, FiniteSetTheorems, TLAPS

-----------------------------------------------------------------------------
(* Induction.                                                              *)

\* A set of numbers with 0, and with the successor of each of its numbers, is
\* that of all numbers: otherwise there is a least one it leaves out.
LEMMA NatSetInduction ==
  ASSUME NEW T \in SUBSET Nat, 0 \in T, \A n \in T : n + 1 \in T
  PROVE  T = Nat
<1> DEFINE R == OpToRel(<, Nat)
<1>1. IsWellFoundedOn(R, Nat)
  BY NatLessThanWellFounded
<1>2. SUFFICES ASSUME Nat \ T # {} PROVE FALSE
  OBVIOUS
<1>3. PICK x \in Nat \ T : \A y \in Nat \ T : ~(<<y, x>> \in R)
  <2> HIDE DEF R
  <2> QED BY <1>1, <1>2, WFMin
<1>4. x # 0 /\ x - 1 \in Nat
  OBVIOUS
<1>5. x - 1 \notin T
  OBVIOUS
<1>6. <<x - 1, x>> \in R
  BY <1>4 DEF OpToRel
<1> QED BY <1>3, <1>4, <1>5, <1>6

\* A set of subsets of S with {}, and with each of its members enlarged by one
\* element of S, has all subsets of S.
LEMMA SubsetInduction ==
  ASSUME NEW S, IsFiniteSet(S), NEW P \in SUBSET SUBSET S, {} \in P,
         \A t \in P : \A x \in S \ t : t \cup {x} \in P
  PROVE  P = SUBSET S
<1> DEFINE T == {n \in Nat : \A t \in SUBSET S : Cardinality(t) = n => t \in P}
<1>0. \A t \in SUBSET S : IsFiniteSet(t) /\ Cardinality(t) \in Nat
  BY FS_Subset, FS_CardinalityType
<1>1. 0 \in T
  BY <1>0, FS_EmptySet
<1>2. ASSUME NEW n \in T PROVE n + 1 \in T
  <2> SUFFICES ASSUME NEW t \in SUBSET S, Cardinality(t) = n + 1 PROVE t \in P
    OBVIOUS
  <2>1. t # {}
    BY <1>0, FS_EmptySet
  <2>2. PICK x \in t : TRUE
    BY <2>1
  <2>3. Cardinality(t \ {x}) = n
    BY <1>0, FS_RemoveElement
  <2>4. t \ {x} \in P /\ x \in S \ (t \ {x}) /\ t = (t \ {x}) \cup {x}
    BY <2>3
  <2> QED BY <2>4
<1>3. T = Nat
  <2> HIDE DEF T
  <2>1. T \in SUBSET Nat
    BY DEF T
  <2> QED BY <1>1, <1>2, <2>1, NatSetInduction
<1> QED BY <1>0, <1>3

-----------------------------------------------------------------------------
(* Recursion over the subsets of a finite set, as in MapThenFoldSet.       *)

\* C picks an element of each subset of S that is not empty.
Picks(C, S) == \A s \in SUBSET S : s # {} => C[s] \in s

\* g is what the recursion computes that takes C[s] from a set s that is not
\* empty, computes the rest and applies W[C[s]] to the result.
Folds(g, S, base, C, W) ==
  \A s \in SUBSET S :
    g[s] = IF s = {} THEN base ELSE W[C[s]][g[s \ {C[s]}]]

\* There is such a function, and its values have the type of the base.
LEMMA FoldExists ==
  ASSUME NEW S, IsFiniteSet(S), NEW V, NEW base \in V,
         NEW C, Picks(C, S),
         NEW W \in [S -> [V -> V]]
  PROVE  \E g \in [SUBSET S -> V] : Folds(g, S, base, C, W)
<1> USE DEF Picks
<1> DEFINE D(n) == {s \in SUBSET S : Cardinality(s) <= n}
           Up(g, n) == \A s \in D(n) :
                         g[s] = IF s = {} THEN base ELSE W[C[s]][g[s \ {C[s]}]]
           T == {n \in Nat : \E g \in [D(n) -> V] : Up(g, n)}
<1>0. \A s \in SUBSET S : IsFiniteSet(s) /\ Cardinality(s) \in Nat
  BY FS_Subset, FS_CardinalityType
<1>1. 0 \in T
  <2> DEFINE g == [s \in D(0) |-> base]
  <2>1. \A s \in D(0) : s = {}
    BY <1>0, FS_EmptySet
  <2>2. g \in [D(0) -> V] /\ Up(g, 0)
    BY <2>1
  <2> QED BY <2>2
<1>2. ASSUME NEW n \in T PROVE n + 1 \in T
  <2>1. PICK g \in [D(n) -> V] : Up(g, n)
    OBVIOUS
  <2> DEFINE h == [s \in D(n + 1) |->
                     IF s = {} THEN base ELSE W[C[s]][g[s \ {C[s]}]]]
  <2>2. ASSUME NEW s \in D(n + 1), s # {}
        PROVE  C[s] \in S /\ s \ {C[s]} \in D(n)
    <3>1. Cardinality(s \ {C[s]}) = Cardinality(s) - 1
      BY <1>0, <2>2, FS_RemoveElement
    <3> QED BY <1>0, <2>2, <3>1
  <2>3. h \in [D(n + 1) -> V]
    BY <2>2
  <2>4. ASSUME NEW s \in D(n) PROVE s \in D(n + 1) /\ h[s] = g[s]
    <3>1. s \in D(n + 1)
      BY <1>0
    <3>2. h[s] = IF s = {} THEN base ELSE W[C[s]][g[s \ {C[s]}]]
      BY <3>1
    <3>3. g[s] = IF s = {} THEN base ELSE W[C[s]][g[s \ {C[s]}]]
      BY <2>1
    <3> QED BY <3>1, <3>2, <3>3
  <2>5. Up(h, n + 1)
    <3> SUFFICES ASSUME NEW s \in D(n + 1), s # {}
                 PROVE  h[s] = W[C[s]][h[s \ {C[s]}]]
      OBVIOUS
    <3> QED BY <2>2, <2>4
  <2> HIDE DEF h, D, Up
  <2> QED BY <2>3, <2>5
<1>3. T = Nat
  <2> HIDE DEF T
  <2>1. T \in SUBSET Nat
    BY DEF T
  <2> QED BY <1>1, <1>2, <2>1, NatSetInduction
<1>4. PICK g \in [D(Cardinality(S)) -> V] : Up(g, Cardinality(S))
  BY <1>0, <1>3
<1>5. D(Cardinality(S)) = SUBSET S
  BY <1>0, FS_Subset
<1> QED BY <1>4, <1>5 DEF Folds

-----------------------------------------------------------------------------
(* Recursion over an interval, as in FlattenSeq.                           *)

\* f starts with base and computes each value from the one before it.
Recurs(f, n, base, W) ==
  \A i \in 1 .. n : f[i] = IF i = 1 THEN base ELSE W[i][f[i - 1]]

LEMMA RecursionExists ==
  ASSUME NEW n \in Nat, NEW V, NEW base \in V, NEW W \in [1 .. n -> [V -> V]]
  PROVE  \E f \in [1 .. n -> V] : Recurs(f, n, base, W)
<1> DEFINE Up(f, m) == \A i \in 1 .. m : f[i] = IF i = 1 THEN base ELSE W[i][f[i - 1]]
           T == {m \in Nat : m <= n => \E f \in [1 .. m -> V] : Up(f, m)}
<1>1. 0 \in T
  <2>1. [i \in 1 .. 0 |-> base] \in [1 .. 0 -> V] /\ Up([i \in 1 .. 0 |-> base], 0)
    OBVIOUS
  <2> HIDE DEF Up
  <2> QED BY <2>1
<1>2. ASSUME NEW m \in T PROVE m + 1 \in T
  <2> SUFFICES ASSUME m + 1 <= n PROVE \E f \in [1 .. (m + 1) -> V] : Up(f, m + 1)
    OBVIOUS
  <2>1. PICK f \in [1 .. m -> V] : Up(f, m)
    OBVIOUS
  <2> DEFINE h == [i \in 1 .. (m + 1) |->
                     IF i = 1 THEN base ELSE W[i][f[i - 1]]]
  <2>2. h \in [1 .. (m + 1) -> V]
    OBVIOUS
  <2>3. ASSUME NEW i \in 1 .. m PROVE h[i] = f[i]
    <3>1. i \in 1 .. (m + 1)
      OBVIOUS
    <3>2. h[i] = IF i = 1 THEN base ELSE W[i][f[i - 1]]
      BY <3>1
    <3> QED BY <2>1, <3>2
  <2>4. ASSUME NEW i \in 1 .. (m + 1)
        PROVE  h[i] = IF i = 1 THEN base ELSE W[i][h[i - 1]]
    <3>1. i # 1 => i - 1 \in 1 .. m
      OBVIOUS
    <3>2. h[i] = IF i = 1 THEN base ELSE W[i][f[i - 1]]
      OBVIOUS
    <3> QED BY <2>3, <3>1, <3>2
  <2>5. Up(h, m + 1)
    BY <2>4
  <2> HIDE DEF h, Up
  <2> QED BY <2>2, <2>5
<1>3. T = Nat
  <2> HIDE DEF T
  <2>1. T \in SUBSET Nat
    BY DEF T
  <2> QED BY <1>1, <1>2, <2>1, NatSetInduction
<1>4. n \in T
  <2> HIDE DEF T
  <2> QED BY <1>3
<1>5. PICK f \in [1 .. n -> V] : Up(f, n)
  <2> HIDE DEF Up
  <2> QED BY <1>4
<1> QED BY <1>5 DEF Recurs

\* FlattenSeq appends one sequence after another.
LEMMA FlattenSteps ==
  ASSUME NEW A, NEW seqs \in Seq(Seq(A)), seqs # <<>>
  PROVE  \E f \in [1 .. Len(seqs) -> Seq(A)] :
           /\ f[1] = seqs[1]
           /\ \A i \in 2 .. Len(seqs) : f[i] = f[i - 1] \o seqs[i]
           /\ FlattenSeq(seqs) = f[Len(seqs)]
<1> DEFINE n == Len(seqs)
           V == Seq(A)
           W == [i \in 1 .. n |-> [s \in V |-> s \o seqs[i]]]
           Is(f) == f = [i \in 1 .. n |->
                           IF i = 1 THEN seqs[i] ELSE f[i - 1] \o seqs[i]]
<1>1. n \in Nat /\ n >= 1 /\ \A i \in 1 .. n : seqs[i] \in V
  OBVIOUS
<1>2. W \in [1 .. n -> [V -> V]]
  <2>1. \A s \in V, t \in V : s \o t \in V
    OBVIOUS
  <2> HIDE DEF V, n
  <2> QED BY <1>1, <2>1
<1>3. PICK f \in [1 .. n -> V] : Recurs(f, n, seqs[1], W)
  <2>1. seqs[1] \in V
    BY <1>1
  <2> HIDE DEF V, n, W
  <2> QED BY ONLY <1>1, <1>2, <2>1, RecursionExists
<1>4. ASSUME NEW i \in 2 .. n
      PROVE  i \in 1 .. n /\ i - 1 \in 1 .. n /\ i # 1 /\ f[i] = f[i - 1] \o seqs[i]
  <2>1. i \in 1 .. n /\ i - 1 \in 1 .. n /\ i # 1
    BY <1>1
  <2>2. f[i - 1] \in V /\ f[i] = W[i][f[i - 1]]
    BY <1>3, <2>1 DEF Recurs
  <2>3. W[i] = [s \in V |-> s \o seqs[i]]
    BY <2>1
  <2> HIDE DEF V, n, W
  <2> QED BY <2>1, <2>2, <2>3
<1>5. f[1] = seqs[1]
  <2> HIDE DEF V, n, W
  <2> QED BY <1>1, <1>3 DEF Recurs
<1>6. Is(f)
  <2>1. \A i \in 1 .. n : f[i] = IF i = 1 THEN seqs[i] ELSE f[i - 1] \o seqs[i]
    <3> SUFFICES ASSUME NEW i \in 1 .. n
                 PROVE  f[i] = IF i = 1 THEN seqs[i] ELSE f[i - 1] \o seqs[i]
      OBVIOUS
    <3>1. i # 1 => i \in 2 .. n
      BY <1>1
    <3> HIDE DEF V, n, W
    <3> QED BY <1>4, <1>5, <3>1
  <2> HIDE DEF V, n, W
  <2> QED BY <2>1
<1>7. FlattenSeq(seqs) = (CHOOSE g : Is(g))[n]
  BY <1>1 DEF FlattenSeq
<1>8. PICK g : g = (CHOOSE h : Is(h))
  OBVIOUS
<1>9. Is(g)
  <2> HIDE DEF Is
  <2> QED BY <1>6, <1>8
<1>10. \A i \in 1 .. n : g[i] = IF i = 1 THEN seqs[i] ELSE g[i - 1] \o seqs[i]
  <2> HIDE DEF n
  <2> QED BY <1>9
<1>11. \A i \in 1 .. n : g[i] = f[i]
  <2> DEFINE T == {m \in Nat : m + 1 <= n => g[m + 1] = f[m + 1]}
  <2>1. 0 \in T
    <3> HIDE DEF n, V, W, Is
    <3> QED BY <1>1, <1>5, <1>10
  <2>2. ASSUME NEW m \in T PROVE m + 1 \in T
    <3> SUFFICES ASSUME (m + 1) + 1 <= n PROVE g[(m + 1) + 1] = f[(m + 1) + 1]
      OBVIOUS
    <3> DEFINE i == (m + 1) + 1
    <3>1. i \in 2 .. n /\ i \in 1 .. n /\ i # 1 /\ i - 1 = m + 1 /\ g[m + 1] = f[m + 1]
      BY <1>1
    <3> HIDE DEF i, n, V, W, Is
    <3>2. g[i] = g[i - 1] \o seqs[i]
      BY <1>10, <3>1
    <3>3. f[i] = f[i - 1] \o seqs[i]
      BY <1>4, <3>1
    <3>4. g[i] = f[i]
      BY <3>1, <3>2, <3>3
    <3> QED BY <3>4 DEF i
  <2>3. T = Nat
    <3> HIDE DEF T
    <3>1. T \in SUBSET Nat
      BY DEF T
    <3> QED BY <2>1, <2>2, <3>1, NatSetInduction
  <2> SUFFICES ASSUME NEW i \in 1 .. n PROVE g[i] = f[i]
    OBVIOUS
  <2>4. i - 1 \in T /\ i - 1 \in Nat /\ (i - 1) + 1 = i /\ i <= n
    <3> HIDE DEF T, n
    <3> QED BY <1>1, <2>3
  <2> HIDE DEF n
  <2> QED BY <2>4
<1>12. FlattenSeq(seqs) = f[n]
  <2>1. n \in 1 .. n
    BY <1>1
  <2> HIDE DEF n, Is
  <2> QED BY <1>7, <1>8, <1>11, <2>1
<1> QED BY <1>4, <1>5, <1>12

LEMMA FlattenSeqType ==
  ASSUME NEW A, NEW seqs \in Seq(Seq(A))
  PROVE  FlattenSeq(seqs) \in Seq(A)
<1>1. CASE seqs = <<>>
  BY <1>1 DEF FlattenSeq
<1>2. CASE seqs # <<>>
  <2>1. Len(seqs) \in 1 .. Len(seqs)
    BY <1>2
  <2>2. PICK f \in [1 .. Len(seqs) -> Seq(A)] : FlattenSeq(seqs) = f[Len(seqs)]
    BY <1>2, FlattenSteps
  <2> QED BY <2>1, <2>2
<1> QED BY <1>1, <1>2

-----------------------------------------------------------------------------
(* The choices FoldLeft and MapThenSumSet make.                            *)

\* FoldLeft goes through its sequence from behind: Max picks the last place.
LEMMA MaxIsLast ==
  ASSUME NEW n \in Nat
  PROVE  /\ \A s \in SUBSET (1 .. n) : s # {} => Max(s) \in s
         /\ \A k \in 1 .. n : Max(1 .. k) = k /\ (1 .. k) \ {k} = 1 .. (k - 1)
<1> DEFINE S == 1 .. n
           Top(s) == \E x \in s : \A y \in s : x >= y
           P == {s \in SUBSET S : s = {} \/ Top(s)}
<1>1. IsFiniteSet(S)
  BY FS_Interval
<1>2. ASSUME NEW t \in P, NEW x \in S \ t PROVE t \cup {x} \in P
  <2>1. CASE t = {}
    BY <2>1
  <2>2. CASE Top(t)
    <3>1. PICK y \in t : \A z \in t : y >= z
      BY <2>2
    <3>2. CASE x >= y
      <4>1. \A z \in t \cup {x} : x >= z
        BY <3>1, <3>2
      <4> QED BY <4>1
    <3>3. CASE ~(x >= y)
      <4>1. \A z \in t \cup {x} : y >= z
        BY <3>1, <3>3
      <4> QED BY <4>1
    <3> QED BY <3>2, <3>3
  <2> QED BY <2>1, <2>2
<1>3. P = SUBSET S
  <2> HIDE DEF S, P
  <2>1. P \in SUBSET SUBSET S /\ {} \in P
    BY DEF P
  <2> QED BY <1>1, <1>2, <2>1, SubsetInduction
<1>4. \A s \in SUBSET S : s # {} => Max(s) \in s
  <2> SUFFICES ASSUME NEW s \in SUBSET S, s # {} PROVE Max(s) \in s
    OBVIOUS
  <2>1. Top(s)
    BY <1>3
  <2> QED BY <2>1 DEF Max
<1>5. ASSUME NEW k \in 1 .. n PROVE Max(1 .. k) = k /\ (1 .. k) \ {k} = 1 .. (k - 1)
  <2>1. k \in 1 .. k /\ \A y \in 1 .. k : k >= y
    OBVIOUS
  <2>2. Max(1 .. k) \in 1 .. k /\ \A y \in 1 .. k : Max(1 .. k) >= y
    BY <2>1 DEF Max
  <2> QED BY <2>1, <2>2
<1> QED BY <1>4, <1>5

\* g sums up f, taking C[s] from a set s that is not empty.
Sums(g, S, f, C) ==
  \A s \in SUBSET S : g[s] = IF s = {} THEN 0 ELSE f[C[s]] + g[s \ {C[s]}]

\* g sums up f in whatever order.
SumsAny(g, S, f) ==
  \A s \in SUBSET S : \A x \in s : g[s] = f[x] + g[s \ {x}]

\* A sum over a set does not depend on which element is taken first.
LEMMA SumTakesAny ==
  ASSUME NEW S, IsFiniteSet(S), NEW f \in [S -> Nat], NEW g \in [SUBSET S -> Nat],
         NEW C, Picks(C, S),
         Sums(g, S, f, C)
  PROVE  SumsAny(g, S, f)
<1> USE DEF Picks, Sums, SumsAny
<1> DEFINE T == {n \in Nat : \A s \in SUBSET S : Cardinality(s) = n =>
                               \A x \in s : g[s] = f[x] + g[s \ {x}]}
<1>0. \A s \in SUBSET S : IsFiniteSet(s) /\ Cardinality(s) \in Nat
  BY FS_Subset, FS_CardinalityType
<1>1. 0 \in T
  BY <1>0, FS_EmptySet
<1>2. ASSUME NEW n \in T PROVE n + 1 \in T
  <2> SUFFICES ASSUME NEW s \in SUBSET S, Cardinality(s) = n + 1, NEW x \in s
               PROVE  g[s] = f[x] + g[s \ {x}]
    OBVIOUS
  <2>0. /\ \A t \in SUBSET S : Cardinality(t) = n =>
             \A y \in t : g[t] = f[y] + g[t \ {y}]
        /\ n \in Nat
    OBVIOUS
  <2>1. PICK c \in s : c = C[s]
    OBVIOUS
  <2>2. g[s] = f[c] + g[s \ {c}]
    BY <2>1
  <2>3. CASE c = x
    BY <2>2, <2>3
  <2>4. CASE c # x
    <3> DEFINE r == s \ {c, x}
    <3>1. /\ s \ {c} \in SUBSET S /\ s \ {x} \in SUBSET S /\ r \in SUBSET S
          /\ x \in s \ {c} /\ c \in s \ {x}
          /\ (s \ {c}) \ {x} = r /\ (s \ {x}) \ {c} = r
      BY <2>4
    <3>2. Cardinality(s \ {c}) = n /\ Cardinality(s \ {x}) = n
      <4> HIDE DEF T, r
      <4>1. IsFiniteSet(s)
        BY <1>0
      <4>2. /\ Cardinality(s \ {c}) = Cardinality(s) - 1
            /\ Cardinality(s \ {x}) = Cardinality(s) - 1
        BY <4>1, FS_RemoveElement
      <4> QED BY <2>0, <4>2
    <3>3. g[s \ {c}] = f[x] + g[r] /\ g[s \ {x}] = f[c] + g[r]
      <4> HIDE DEF T, r
      <4> QED BY <2>0, <3>1, <3>2
    <3>4. f[x] \in Nat /\ f[c] \in Nat /\ g[r] \in Nat
      BY <3>1
    <3> HIDE DEF r
    <3> QED BY <2>2, <3>3, <3>4
  <2> QED BY <2>3, <2>4
<1>3. T = Nat
  <2> HIDE DEF T
  <2>1. T \in SUBSET Nat
    BY DEF T
  <2> QED BY <1>1, <1>2, <2>1, NatSetInduction
<1> QED BY <1>0, <1>3
-----------------------------------------------------------------------------
(* Recursion over all numbers.                                             *)

\* f starts with base and goes on with W.
Iterates(f, base, W) ==
  f[0] = base /\ \A n \in Nat : f[n + 1] = W[f[n]]

LEMMA IterationExists ==
  ASSUME NEW V, NEW base \in V, NEW W \in [V -> V]
  PROVE  \E f \in [Nat -> V] : Iterates(f, base, W)
<1> DEFINE Up(f, m) == f[0] = base /\ \A i \in 1 .. m : f[i] = W[f[i - 1]]
           T == {m \in Nat : \E f \in [0 .. m -> V] : Up(f, m)}
           F == [m \in Nat |-> CHOOSE f \in [0 .. m -> V] : Up(f, m)]
           g == [m \in Nat |-> F[m][m]]
<1>1. 0 \in T
  <2>1. [i \in 0 .. 0 |-> base] \in [0 .. 0 -> V] /\ Up([i \in 0 .. 0 |-> base], 0)
    OBVIOUS
  <2> HIDE DEF Up
  <2> QED BY <2>1
<1>2. ASSUME NEW m \in T PROVE m + 1 \in T
  <2>1. PICK f \in [0 .. m -> V] : Up(f, m)
    OBVIOUS
  <2> DEFINE h == [i \in 0 .. (m + 1) |-> IF i = m + 1 THEN W[f[m]] ELSE f[i]]
  <2>2. h \in [0 .. (m + 1) -> V]
    OBVIOUS
  <2>3. h[0] = base /\ \A i \in 1 .. (m + 1) : h[i] = W[h[i - 1]]
    <3>1. h[0] = base
      BY <2>1
    <3>2. ASSUME NEW i \in 1 .. (m + 1) PROVE h[i] = W[h[i - 1]]
      <4>1. i - 1 \in 0 .. m /\ h[i - 1] = f[i - 1]
        OBVIOUS
      <4>2. CASE i = m + 1
        BY <4>1, <4>2
      <4>3. CASE i # m + 1
        BY <2>1, <4>1, <4>3
      <4> QED BY <4>2, <4>3
    <3> QED BY <3>1, <3>2
  <2> HIDE DEF h
  <2> QED BY <2>2, <2>3
<1>3. T = Nat
  <2> HIDE DEF T
  <2>1. T \in SUBSET Nat
    BY DEF T
  <2> QED BY <1>1, <1>2, <2>1, NatSetInduction
<1>4. \A m \in Nat : F[m] \in [0 .. m -> V] /\ Up(F[m], m)
  <2> TAKE m \in Nat
  <2>1. \E f \in [0 .. m -> V] : Up(f, m)
    BY <1>3
  <2> HIDE DEF Up
  <2> QED BY <2>1
<1>5. ASSUME NEW n \in Nat PROVE \A i \in 0 .. n : F[n + 1][i] = F[n][i]
  <2> DEFINE S == {i \in Nat : i <= n => F[n + 1][i] = F[n][i]}
  <2> HIDE DEF F
  <2>1. /\ F[n][0] = base /\ \A i \in 1 .. n : F[n][i] = W[F[n][i - 1]]
        /\ F[n + 1][0] = base /\ \A i \in 1 .. n : F[n + 1][i] = W[F[n + 1][i - 1]]
    <3>1. n + 1 \in Nat /\ \A i \in 1 .. n : i \in 1 .. (n + 1)
      OBVIOUS
    <3> QED BY <1>4, <3>1
  <2>2. 0 \in S
    BY <2>1
  <2>3. ASSUME NEW i \in S PROVE i + 1 \in S
    <3> SUFFICES ASSUME i + 1 <= n PROVE F[n + 1][i + 1] = F[n][i + 1]
      OBVIOUS
    <3>1. i + 1 \in 1 .. n /\ (i + 1) - 1 = i /\ F[n + 1][i] = F[n][i]
      OBVIOUS
    <3> QED BY <2>1, <3>1
  <2>4. S = Nat
    <3> HIDE DEF S
    <3>1. S \in SUBSET Nat
      BY DEF S
    <3> QED BY <2>2, <2>3, <3>1, NatSetInduction
  <2> QED BY <2>4
<1>6. g \in [Nat -> V] /\ g[0] = base
  <2> HIDE DEF F
  <2> QED BY <1>4
<1>7. ASSUME NEW n \in Nat PROVE g[n + 1] = W[g[n]]
  <2> HIDE DEF F
  <2>1. g[n + 1] = F[n + 1][n + 1] /\ g[n] = F[n][n]
    OBVIOUS
  <2>2. n + 1 \in Nat /\ n + 1 \in 1 .. (n + 1) /\ (n + 1) - 1 = n /\ n \in 0 .. n
    OBVIOUS
  <2>3. F[n + 1][n + 1] = W[F[n + 1][n]]
    BY <1>4, <2>2
  <2> HIDE DEF g
  <2> QED BY <1>5, <2>1, <2>2, <2>3
<1> HIDE DEF g
<1> QED BY <1>6, <1>7 DEF Iterates

-----------------------------------------------------------------------------
(* Sequences that are put together from a sequence for each element.       *)

\* A sequence with one element more.
LEMMA AppendOne ==
  ASSUME NEW A, NEW r \in Seq(A), NEW a \in A
  PROVE  /\ Append(r, a) \in Seq(A) /\ Len(Append(r, a)) = Len(r) + 1
         /\ Append(r, a)[Len(r) + 1] = a
         /\ \A i \in 1 .. Len(r) : Append(r, a)[i] = r[i]
OBVIOUS

\* A set of sequences with the empty one, and with each of its members with one
\* element more, is that of all sequences.
LEMMA SeqSetInduction ==
  ASSUME NEW A, NEW T \in SUBSET Seq(A), <<>> \in T,
         \A s \in T : \A a \in A : Append(s, a) \in T
  PROVE  T = Seq(A)
<1> DEFINE N == {n \in Nat : \A s \in Seq(A) : Len(s) = n => s \in T}
<1>1. 0 \in N
  <2>1. \A s \in Seq(A) : Len(s) = 0 => s = <<>>
    OBVIOUS
  <2> QED BY <2>1
<1>2. ASSUME NEW n \in N PROVE n + 1 \in N
  <2> SUFFICES ASSUME NEW s \in Seq(A), Len(s) = n + 1 PROVE s \in T
    OBVIOUS
  <2> DEFINE r == SubSeq(s, 1, n)
  <2>1. /\ r \in Seq(A) /\ Len(r) = n /\ \A i \in 1 .. n : r[i] = s[i]
        /\ s[n + 1] \in A /\ n \in Nat
    OBVIOUS
  <2>2. r \in T
    BY <2>1
  <2> HIDE DEF r, N
  <2> DEFINE t == Append(r, s[n + 1])
  <2>3. t \in Seq(A) /\ Len(t) = n + 1 /\ \A i \in 1 .. n + 1 : t[i] = s[i]
    <3>1. /\ t \in Seq(A) /\ Len(t) = n + 1 /\ t[n + 1] = s[n + 1]
          /\ \A i \in 1 .. n : t[i] = r[i]
      BY ONLY <2>1, AppendOne
    <3>2. \A i \in 1 .. n + 1 : i = n + 1 \/ i \in 1 .. n
      BY ONLY <2>1
    <3> HIDE DEF t
    <3> QED BY ONLY <2>1, <3>1, <3>2
  <2>4. t \in T
    BY <2>1, <2>2
  <2> HIDE DEF t
  <2>5. t = s
    BY <2>1, <2>3
  <2> QED BY <2>4, <2>5
<1>3. N = Nat
  <2> HIDE DEF N
  <2>1. N \in SUBSET Nat
    BY DEF N
  <2> QED BY <1>1, <1>2, <2>1, NatSetInduction
<1>4. ASSUME NEW s \in Seq(A) PROVE s \in T
  <2>1. Len(s) \in N
    <3> HIDE DEF N
    <3> QED BY <1>3
  <2> QED BY <2>1
<1> QED BY <1>4

LEMMA FlattenAppend ==
  ASSUME NEW A, NEW ss \in Seq(Seq(A)), NEW s \in Seq(A)
  PROVE  FlattenSeq(Append(ss, s)) = FlattenSeq(ss) \o s
<1> DEFINE V == Seq(A)
           tt == Append(ss, s)
           n == Len(ss)
<1>1. /\ tt \in Seq(V) /\ Len(tt) = n + 1 /\ tt # <<>> /\ tt[n + 1] = s /\ n \in Nat
      /\ \A i \in 1 .. n : tt[i] = ss[i]
  <2> HIDE DEF V
  <2>1. ss \in Seq(V) /\ s \in V
    BY DEF V
  <2> QED BY <2>1
<1>2. PICK g \in [1 .. n + 1 -> V] :
        /\ g[1] = tt[1]
        /\ \A i \in 2 .. n + 1 : g[i] = g[i - 1] \o tt[i]
        /\ FlattenSeq(tt) = g[n + 1]
  <2>1. tt \in Seq(Seq(A))
    BY <1>1
  <2> HIDE DEF tt, V
  <2>2. \E g \in [1 .. Len(tt) -> Seq(A)] :
          /\ g[1] = tt[1]
          /\ \A i \in 2 .. Len(tt) : g[i] = g[i - 1] \o tt[i]
          /\ FlattenSeq(tt) = g[Len(tt)]
    BY <1>1, <2>1, FlattenSteps
  <2> QED BY <1>1, <2>2 DEF V
<1>3. CASE ss = <<>>
  <2>1. n = 0 /\ FlattenSeq(ss) = <<>>
    BY <1>3 DEF FlattenSeq
  <2> HIDE DEF tt, n
  <2>2. FlattenSeq(tt) = s
    BY <1>1, <1>2, <2>1
  <2>3. <<>> \o s = s
    OBVIOUS
  <2> QED BY <2>1, <2>2, <2>3 DEF tt
<1>4. CASE ss # <<>>
  <2>1. n >= 1
    BY <1>4
  <2>2. PICK f \in [1 .. n -> V] :
          /\ f[1] = ss[1]
          /\ \A i \in 2 .. n : f[i] = f[i - 1] \o ss[i]
          /\ FlattenSeq(ss) = f[n]
    BY <1>4, FlattenSteps
  <2> DEFINE T == {m \in Nat : m + 1 <= n => g[m + 1] = f[m + 1]}
  <2> HIDE DEF tt, n, V
  <2>3. 0 \in T
    BY <1>1, <1>2, <2>1, <2>2
  <2>4. ASSUME NEW m \in T PROVE m + 1 \in T
    <3> SUFFICES ASSUME (m + 1) + 1 <= n PROVE g[(m + 1) + 1] = f[(m + 1) + 1]
      OBVIOUS
    <3> DEFINE i == (m + 1) + 1
    <3>1. i \in 2 .. n /\ i \in 2 .. n + 1 /\ i \in 1 .. n /\ i - 1 = m + 1 /\ g[m + 1] = f[m + 1]
      BY <1>1
    <3> HIDE DEF i
    <3>2. g[i] = g[i - 1] \o tt[i] /\ f[i] = f[i - 1] \o ss[i] /\ tt[i] = ss[i]
      BY <1>1, <1>2, <2>2, <3>1
    <3>3. g[i] = f[i]
      BY <3>1, <3>2
    <3> QED BY <3>3 DEF i
  <2>5. T = Nat
    <3> HIDE DEF T
    <3>1. T \in SUBSET Nat
      BY DEF T
    <3> QED BY <2>3, <2>4, <3>1, NatSetInduction
  <2>6. g[n] = f[n]
    <3>1. n - 1 \in Nat /\ (n - 1) + 1 = n
      BY <1>1, <2>1
    <3>2. n - 1 \in T
      BY <2>5, <3>1
    <3> QED BY <3>1, <3>2
  <2>7. n + 1 \in 2 .. n + 1 /\ (n + 1) - 1 = n
    BY <1>1, <2>1
  <2>8. g[n + 1] = g[n] \o s
    BY <1>1, <1>2, <2>7
  <2> QED BY <1>2, <2>2, <2>6, <2>8 DEF tt
<1> QED BY <1>3, <1>4

LEMMA ToSetElements ==
  /\ \A b : ToSet(<<b>>) = {b}
  /\ \A s, b : b \in ToSet(s) <=> \E i \in DOMAIN s : b = s[i]
BY DEF ToSet

\* F says for each element what stands for it.
Spread(F, q) == FlattenSeq([i \in DOMAIN q |-> F[q[i]]])

LEMMA SpreadSteps ==
  ASSUME NEW A, NEW B, NEW F \in [A -> Seq(B)]
  PROVE  /\ Spread(F, <<>>) = <<>>
         /\ \A q \in Seq(A) : Spread(F, q) \in Seq(B)
         /\ \A q \in Seq(A), a \in A : Spread(F, Append(q, a)) = Spread(F, q) \o F[a]
         /\ \A a \in A : Spread(F, <<a>>) = F[a]
<1> DEFINE V == Seq(B)
           M(q) == [i \in DOMAIN q |-> F[q[i]]]
<1>1. Spread(F, <<>>) = <<>>
  <2>1. M(<<>>) = <<>>
    OBVIOUS
  <2> QED BY <2>1 DEF Spread, FlattenSeq
<1>2. ASSUME NEW q \in Seq(A) PROVE M(q) \in Seq(V)
  <2> HIDE DEF V
  <2>1. F \in [A -> V]
    BY DEF V
  <2> QED BY <2>1
<1>3. ASSUME NEW q \in Seq(A), NEW a \in A
      PROVE  Spread(F, Append(q, a)) = Spread(F, q) \o F[a]
  <2>1. M(Append(q, a)) = Append(M(q), F[a])
    <3> HIDE DEF V
    <3>1. F \in [A -> V]
      BY DEF V
    <3> QED BY <3>1
  <2>2. F[a] \in V
    OBVIOUS
  <2> HIDE DEF M
  <2>3. FlattenSeq(Append(M(q), F[a])) = FlattenSeq(M(q)) \o F[a]
    BY <1>2, <2>2, FlattenAppend
  <2> QED BY <2>1, <2>3 DEF Spread, M
<1>4. \A q \in Seq(A) : Spread(F, q) \in Seq(B)
  <2> HIDE DEF M
  <2>1. \A q \in Seq(A) : FlattenSeq(M(q)) \in Seq(B)
    BY <1>2, FlattenSeqType
  <2> QED BY <2>1 DEF Spread, M
<1>5. ASSUME NEW a \in A PROVE Spread(F, <<a>>) = F[a]
  <2>1. <<a>> = Append(<<>>, a) /\ <<>> \in Seq(A)
    OBVIOUS
  <2>2. Spread(F, <<a>>) = <<>> \o F[a]
    BY <1>1, <1>3, <2>1
  <2>3. <<>> \o F[a] = F[a]
    OBVIOUS
  <2> QED BY <2>2, <2>3
<1> QED BY <1>1, <1>3, <1>4, <1>5

LEMMA SpreadConcat ==
  ASSUME NEW A, NEW B, NEW F \in [A -> Seq(B)]
  PROVE  \A q \in Seq(A), r \in Seq(A) : Spread(F, q \o r) = Spread(F, q) \o Spread(F, r)
<1> TAKE q \in Seq(A), r \in Seq(A)
<1> DEFINE T == {t \in Seq(A) : Spread(F, q \o t) = Spread(F, q) \o Spread(F, t)}
<1>0. /\ Spread(F, <<>>) = <<>>
      /\ \A s \in Seq(A) : Spread(F, s) \in Seq(B)
      /\ \A s \in Seq(A), a \in A : Spread(F, Append(s, a)) = Spread(F, s) \o F[a]
  BY ONLY F \in [A -> Seq(B)], SpreadSteps
<1>1. \A t \in Seq(A) : Spread(F, t) \in Seq(B)
  BY <1>0
<1>2. <<>> \in T
  <2>1. q \o <<>> = q /\ Spread(F, q) \o <<>> = Spread(F, q)
    BY <1>1
  <2> QED BY <1>0, <2>1
<1>3. ASSUME NEW t \in T, NEW a \in A PROVE Append(t, a) \in T
  <2>1. /\ t \in Seq(A) /\ Append(t, a) \in Seq(A) /\ q \o t \in Seq(A)
        /\ q \o Append(t, a) = Append(q \o t, a)
        /\ Spread(F, q \o t) = Spread(F, q) \o Spread(F, t)
    OBVIOUS
  <2> HIDE DEF T
  <2>2. Spread(F, Append(q \o t, a)) = Spread(F, q \o t) \o F[a]
    BY <1>0, <2>1
  <2>3. Spread(F, Append(t, a)) = Spread(F, t) \o F[a]
    BY <1>0, <2>1
  <2> DEFINE u == Spread(F, q)
             v == Spread(F, t)
             w == F[a]
  <2>4. u \in Seq(B) /\ v \in Seq(B) /\ w \in Seq(B)
    BY <1>1, <2>1
  <2>5. Spread(F, q \o Append(t, a)) = (u \o v) \o w
    BY <2>1, <2>2
  <2> HIDE DEF u, v, w
  <2>6. (u \o v) \o w = u \o (v \o w)
    BY <2>4
  <2> QED BY <2>1, <2>3, <2>5, <2>6 DEF T, u, v, w
<1>4. T = Seq(A)
  <2> HIDE DEF T
  <2>1. T \in SUBSET Seq(A)
    BY DEF T
  <2> QED BY <1>2, <1>3, <2>1, SeqSetInduction
<1> QED BY <1>4

\* For each element of A, elements of B.
Spreads(A, B) == [A -> Seq(B)]

\* D, and then F for what D says.
Twice(A, D, F) == [a \in A |-> Spread(F, D[a])]

\* Twice is once.
LEMMA SpreadTwice ==
  ASSUME NEW A, NEW B, NEW C, NEW D \in Spreads(A, B), NEW F \in Spreads(B, C)
  PROVE  \A q \in Seq(A) : Spread(F, Spread(D, q)) = Spread(Twice(A, D, F), q)
<1> TAKE q \in Seq(A)
<1>. D \in [A -> Seq(B)] /\ F \in [B -> Seq(C)]
  BY DEF Spreads
<1>0. /\ Spread(F, <<>>) = <<>>
      /\ \A u \in Seq(B), v \in Seq(B) : Spread(F, u \o v) = Spread(F, u) \o Spread(F, v)
  <2>1. Spread(F, <<>>) = <<>>
    BY ONLY F \in [B -> Seq(C)], SpreadSteps
  <2>2. \A u \in Seq(B), v \in Seq(B) : Spread(F, u \o v) = Spread(F, u) \o Spread(F, v)
    BY ONLY F \in [B -> Seq(C)], SpreadConcat
  <2> QED BY <2>1, <2>2
<1> DEFINE G == Twice(A, D, F)
<1>1. G \in [A -> Seq(C)] /\ \A a \in A : G[a] = Spread(F, D[a])
  <2>1. \A u \in Seq(B) : Spread(F, u) \in Seq(C)
    BY ONLY F \in [B -> Seq(C)], SpreadSteps
  <2> QED BY <2>1 DEF Twice
<1> HIDE DEF G
<1> DEFINE T == {t \in Seq(A) : Spread(F, Spread(D, t)) = Spread(G, t)}
<1>2. /\ Spread(D, <<>>) = <<>>
      /\ \A s \in Seq(A) : Spread(D, s) \in Seq(B)
      /\ \A s \in Seq(A), a \in A : Spread(D, Append(s, a)) = Spread(D, s) \o D[a]
  BY ONLY D \in [A -> Seq(B)], SpreadSteps
<1>3. /\ Spread(G, <<>>) = <<>>
       /\ \A s \in Seq(A), a \in A : Spread(G, Append(s, a)) = Spread(G, s) \o G[a]
  BY ONLY <1>1, SpreadSteps
<1>5. <<>> \in T
  BY <1>2, <1>3, <1>0
<1>6. ASSUME NEW t \in T, NEW a \in A PROVE Append(t, a) \in T
  <2>1. /\ t \in Seq(A) /\ Append(t, a) \in Seq(A) /\ D[a] \in Seq(B)
        /\ Spread(F, Spread(D, t)) = Spread(G, t)
    OBVIOUS
  <2> HIDE DEF T
  <2>2. Spread(D, Append(t, a)) = Spread(D, t) \o D[a] /\ Spread(D, t) \in Seq(B)
    BY <1>2, <2>1
  <2>3. Spread(G, Append(t, a)) = Spread(G, t) \o G[a]
    BY <1>3, <2>1
  <2>4. G[a] = Spread(F, D[a])
    BY <1>1
  <2>5. Spread(F, Spread(D, t) \o D[a]) = Spread(F, Spread(D, t)) \o Spread(F, D[a])
    BY <1>0, <2>1, <2>2
  <2> QED BY <2>1, <2>2, <2>3, <2>4, <2>5 DEF T
<1>7. T = Seq(A)
  <2> HIDE DEF T
  <2>1. T \in SUBSET Seq(A)
    BY DEF T
  <2> QED BY <1>5, <1>6, <2>1, SeqSetInduction
<1> QED BY <1>7 DEF G

\* What it is made of.
LEMMA SpreadElements ==
  ASSUME NEW A, NEW B, NEW F \in [A -> Seq(B)], NEW q \in Seq(A), NEW b
  PROVE  b \in ToSet(Spread(F, q)) <=> \E i \in 1 .. Len(q) : b \in ToSet(F[q[i]])
<1> DEFINE Some(t) == \E i \in 1 .. Len(t) : b \in ToSet(F[t[i]])
           T == {t \in Seq(A) : b \in ToSet(Spread(F, t)) <=> Some(t)}
<1>0. \A s \in Seq(B) : b \in ToSet(s) <=> \E i \in 1 .. Len(s) : b = s[i]
  BY DEF ToSet
<1>1. /\ Spread(F, <<>>) = <<>>
      /\ \A s \in Seq(A) : Spread(F, s) \in Seq(B)
      /\ \A s \in Seq(A), a \in A : Spread(F, Append(s, a)) = Spread(F, s) \o F[a]
  BY ONLY F \in [A -> Seq(B)], SpreadSteps
<1>2. <<>> \in T
  <2>1. Spread(F, <<>>) = <<>> /\ <<>> \in Seq(B) /\ <<>> \in Seq(A)
    BY <1>1
  <2>2. ~(b \in ToSet(<<>>))
    BY DEF ToSet
  <2> QED BY <2>1, <2>2
<1>3. ASSUME NEW t \in T, NEW a \in A PROVE Append(t, a) \in T
  <2>1. /\ t \in Seq(A) /\ Append(t, a) \in Seq(A) /\ F[a] \in Seq(B)
        /\ b \in ToSet(Spread(F, t)) <=> Some(t)
    OBVIOUS
  <2>2. Some(Append(t, a)) <=> Some(t) \/ b \in ToSet(F[a])
    <3>1. /\ Len(Append(t, a)) = Len(t) + 1 /\ Len(t) \in Nat
          /\ Append(t, a)[Len(t) + 1] = a
          /\ \A i \in 1 .. Len(t) : Append(t, a)[i] = t[i]
      BY <2>1
    <3>2. \A i \in 1 .. Len(t) + 1 : i \in 1 .. Len(t) \/ i = Len(t) + 1
      BY <3>1
    <3>3. Len(t) + 1 \in 1 .. Len(t) + 1 /\ \A i \in 1 .. Len(t) : i \in 1 .. Len(t) + 1
      BY <3>1
    <3> DEFINE u == Append(t, a)
    <3> HIDE DEF u
    <3> QED BY <3>1, <3>2, <3>3 DEF u
  <2> HIDE DEF T, Some
  <2>3. Spread(F, Append(t, a)) = Spread(F, t) \o F[a] /\ Spread(F, t) \in Seq(B)
    BY <1>1, <2>1
  <2> DEFINE u == Spread(F, t)
             v == F[a]
  <2>4. b \in ToSet(u \o v) <=> b \in ToSet(u) \/ b \in ToSet(v)
    <3>1. u \in Seq(B) /\ v \in Seq(B)
      BY <2>1, <2>3
    <3> HIDE DEF u, v
    <3>2. /\ u \o v \in Seq(B) /\ Len(u \o v) = Len(u) + Len(v)
          /\ \A i \in 1 .. Len(u) : i \in 1 .. Len(u \o v) /\ (u \o v)[i] = u[i]
          /\ \A i \in 1 .. Len(v) : Len(u) + i \in 1 .. Len(u \o v) /\ (u \o v)[Len(u) + i] = v[i]
      BY <3>1
    <3>3. ASSUME NEW i \in 1 .. Len(u \o v), ~(i \in 1 .. Len(u))
          PROVE  i - Len(u) \in 1 .. Len(v) /\ Len(u) + (i - Len(u)) = i
      BY <3>1, <3>2, <3>3
    <3>4. b \in ToSet(u) => b \in ToSet(u \o v)
      BY <1>0, <3>1, <3>2
    <3>5. b \in ToSet(v) => b \in ToSet(u \o v)
      BY <1>0, <3>1, <3>2
    <3>6. ASSUME b \in ToSet(u \o v) PROVE b \in ToSet(u) \/ b \in ToSet(v)
      <4>1. PICK i \in 1 .. Len(u \o v) : b = (u \o v)[i]
        BY <1>0, <3>2, <3>6
      <4>2. CASE i \in 1 .. Len(u)
        BY <1>0, <3>1, <3>2, <4>1, <4>2
      <4>3. CASE ~(i \in 1 .. Len(u))
        BY <1>0, <3>1, <3>2, <3>3, <4>1, <4>3
      <4> QED BY <4>2, <4>3
    <3> QED BY <3>4, <3>5, <3>6
  <2> QED BY <2>1, <2>2, <2>3, <2>4 DEF T
<1>4. T = Seq(A)
  <2> HIDE DEF T
  <2>1. T \in SUBSET Seq(A)
    BY DEF T
  <2> QED BY <1>2, <1>3, <2>1, SeqSetInduction
<1> QED BY <1>4
-----------------------------------------------------------------------------
(* Sets that grow.                                                         *)

Grows(R, V, P) ==
  /\ IsFiniteSet(R) /\ V \in [Nat -> SUBSET R] /\ V[0] = {}
  /\ P \in [SUBSET R -> SUBSET R]
  /\ \A S, U \in SUBSET R : S \subseteq U => P[S] \subseteq P[U]
  /\ \A n \in Nat : V[n + 1] = P[V[n]]

\* A set that grows from step to step as long as it changes, and depends on the
\* one before it only, has stopped after as many steps as it can have elements.
LEMMA GrowthEnds ==
  ASSUME NEW R, NEW V, NEW P, Grows(R, V, P)
  PROVE  \A N \in Nat : Cardinality(R) <= N => V[N + 1] = V[N]
<1> SUFFICES ASSUME NEW N \in Nat, Cardinality(R) <= N PROVE V[N + 1] = V[N]
  OBVIOUS
<1>. /\ IsFiniteSet(R) /\ V \in [Nat -> SUBSET R] /\ V[0] = {}
     /\ P \in [SUBSET R -> SUBSET R]
     /\ \A S, U \in SUBSET R : S \subseteq U => P[S] \subseteq P[U]
     /\ \A n \in Nat : V[n + 1] = P[V[n]]
  BY DEF Grows
<1> DEFINE T == {n \in Nat : V[n] \subseteq V[n + 1]}
           U == {n \in Nat : V[n + 1] = V[n] \/ Cardinality(V[n]) >= n}
<1>0. \A S \in SUBSET R : IsFiniteSet(S) /\ Cardinality(S) \in Nat
  BY FS_Subset, FS_CardinalityType
<1>1. \A n \in Nat : V[n] \in SUBSET R /\ V[n + 1] \in SUBSET R /\ n + 1 \in Nat
  OBVIOUS
<1>2. 0 \in T
  OBVIOUS
<1>3. ASSUME NEW n \in T PROVE n + 1 \in T
  <2>1. n \in Nat /\ V[n] \subseteq V[n + 1]
    OBVIOUS
  <2> HIDE DEF T
  <2>2. P[V[n]] \subseteq P[V[n + 1]]
    BY <1>1, <2>1
  <2>3. V[n + 1] = P[V[n]] /\ V[(n + 1) + 1] = P[V[n + 1]]
    BY <1>1, <2>1
  <2> QED BY <2>1, <2>2, <2>3 DEF T
<1>4. T = Nat
  <2> HIDE DEF T
  <2>1. T \in SUBSET Nat
    BY DEF T
  <2> QED BY <1>2, <1>3, <2>1, NatSetInduction
<1>5. 0 \in U
  <2>1. Cardinality(V[0]) = 0
    BY FS_EmptySet
  <2>2. Cardinality(V[0]) >= 0
    BY ONLY <2>1
  <2> QED BY <2>2
<1>6. ASSUME NEW n \in U PROVE n + 1 \in U
  <2>1. n \in Nat /\ (V[n + 1] = V[n] \/ Cardinality(V[n]) >= n) /\ V[n] \subseteq V[n + 1]
    BY <1>4
  <2> HIDE DEF U, T
  <2>2. CASE V[n + 1] = V[n]
    <3>1. V[(n + 1) + 1] = P[V[n + 1]] /\ V[n + 1] = P[V[n]]
      BY <1>1, <2>1
    <3> QED BY <2>1, <2>2, <3>1 DEF U
  <2>3. CASE V[n + 1] # V[n]
    <3>1. /\ Cardinality(V[n]) <= Cardinality(V[n + 1])
          /\ Cardinality(V[n + 1]) = Cardinality(V[n]) => V[n + 1] = V[n]
      <4>1. IsFiniteSet(V[n + 1]) /\ V[n] \in SUBSET V[n + 1]
        BY <1>0, <1>1, <2>1
      <4> QED BY ONLY <4>1, FS_Subset
    <3>2. Cardinality(V[n]) \in Nat /\ Cardinality(V[n + 1]) \in Nat
      BY <1>0, <1>1, <2>1
    <3>3. Cardinality(V[n + 1]) >= n + 1
      <4> DEFINE c == Cardinality(V[n])
                 d == Cardinality(V[n + 1])
      <4>1. c \in Nat /\ d \in Nat /\ c <= d /\ d # c /\ c >= n /\ n \in Nat
        BY <2>1, <2>3, <3>1, <3>2
      <4> HIDE DEF c, d
      <4>2. d >= n + 1
        BY ONLY <4>1
      <4> QED BY <4>2 DEF d
    <3> QED BY <2>1, <3>3 DEF U
  <2> QED BY <2>2, <2>3
<1>7. U = Nat
  <2> HIDE DEF U
  <2>1. U \in SUBSET Nat
    BY DEF U
  <2> QED BY <1>5, <1>6, <2>1, NatSetInduction
<1>8. V[N + 1] = V[N] \/ Cardinality(V[N]) >= N
  BY <1>7
<1>9. CASE Cardinality(V[N]) >= N
  <2> HIDE DEF U, T
  <2>1. V[N] \subseteq R /\ Cardinality(V[N]) \in Nat /\ Cardinality(R) \in Nat
    BY <1>0, <1>1
  <2>2. Cardinality(V[N]) >= Cardinality(R)
    BY <1>9, <2>1
  <2>3. V[N] = R
    <3>1. /\ Cardinality(V[N]) <= Cardinality(R)
          /\ Cardinality(R) = Cardinality(V[N]) => R = V[N]
      BY <2>1, FS_Subset
    <3> DEFINE c == Cardinality(R)
               d == Cardinality(V[N])
    <3>2. c \in Nat /\ d \in Nat /\ d >= c /\ d <= c
      BY <2>1, <2>2, <3>1
    <3> HIDE DEF c, d
    <3>3. c = d
      BY ONLY <3>2
    <3> QED BY <3>1, <3>3 DEF c, d
  <2>4. V[N] \subseteq V[N + 1] /\ V[N + 1] \subseteq R
    <3>1. N \in T
      BY <1>4
    <3> QED BY <1>1, <3>1 DEF T
  <2> QED BY <2>3, <2>4
<1> QED BY <1>8, <1>9
===============================================================================
