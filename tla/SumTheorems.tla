---------------------------- MODULE SumTheorems -----------------------------
(***************************************************************************)
(* What the proofs about money need of sums over a finite set.  The code   *)
(* adds rows up in SQL (SUM over the ledger, the holds and the month) and  *)
(* keeps running counters beside them; the models say both with            *)
(* SumFunctionOnSet, and the proofs compare the two.                       *)
(*                                                                         *)
(* A sum is defined by recursion on the set.  That the recursion defines   *)
(* a function at all, and that the order in which rows are added does not  *)
(* matter, is shown by induction over the subsets of the set, ordered by   *)
(* strict inclusion.                                                       *)
(***************************************************************************)
EXTENDS Functions, FiniteSetTheorems, WellFoundedInduction, TLAPS

\* The row a recursion over s takes out first.
Pick(s) == CHOOSE x \in s : TRUE

\* g adds f up over every subset of S.
Adds(f, S, g) ==
    g = [s \in SUBSET S |-> IF s = {} THEN 0 ELSE f[Pick(s)] + g[s \ {Pick(s)}]]

\* The sum of f over S.
Total(f, S) == (CHOOSE g : Adds(f, S, g))[S]

\* The sum of the community module, unfolded: what SUM over the rows S adds up.
LEMMA SumIsTotal ==
    ASSUME NEW f, NEW S
    PROVE  SumFunctionOnSet(f, S) = Total(f, S)
  BY DEF SumFunctionOnSet, FoldFunctionOnSet, MapThenFoldSet, Adds, Pick, Total

\* The row that is added next is one of the rows.
LEMMA PickIn ==
    ASSUME NEW s, s # {}
    PROVE  Pick(s) \in s
  BY DEF Pick

\* Induction over the subsets of a finite set of rows: P holds of all of them if it
\* holds of each whose proper subsets it holds of.
LEMMA SubsetInduction ==
    ASSUME NEW U, IsFiniteSet(U), NEW P,
           \A T \in SUBSET U : (\A R \in SUBSET T : R # T => R \in P) => T \in P
    PROVE  SUBSET U \subseteq P
  <1> DEFINE Bad == (SUBSET U) \ P
  <1> SUFFICES ASSUME Bad # {} PROVE FALSE
    OBVIOUS
  <1>1. FiniteSubsetsOf(U) = SUBSET U
    BY FS_FiniteSubsetsOfFinite
  <1>2. IsWellFoundedOn(StrictSubsetOrdering(U), FiniteSubsetsOf(U))
    BY FS_StrictSubsetOrderingWellFounded
  <1>3. IsWellFoundedOn(StrictSubsetOrdering(U), SUBSET U)
    BY <1>1, <1>2
  <1>4. Bad \subseteq SUBSET U
    OBVIOUS
  <1>5. \E T \in Bad : \A R \in Bad : ~ (<<R, T>> \in StrictSubsetOrdering(U))
    <2> HIDE DEF Bad
    <2> QED BY <1>3, <1>4, WFMin
  <1>6. PICK T \in Bad : \A R \in Bad : ~ (<<R, T>> \in StrictSubsetOrdering(U))
    BY <1>5
  <1>7. \A R \in SUBSET T : R # T => R \in P
    BY <1>4, <1>6 DEF StrictSubsetOrdering
  <1> QED BY <1>7

\* Two ways to add the same rows up agree on the rows they have in common.
LEMMA AddsUnique ==
    ASSUME NEW f, NEW S, NEW g, NEW S2, NEW h, IsFiniteSet(S),
           Adds(f, S, g), Adds(f, S2, h)
    PROVE  \A T \in SUBSET (S \cap S2) : g[T] = h[T]
  <1> DEFINE U == S \cap S2
             P == {T \in SUBSET U : g[T] = h[T]}
  <1>1. IsFiniteSet(U)
    BY FS_Subset
  <1>2. ASSUME NEW T \in SUBSET U, \A R \in SUBSET T : R # T => R \in P
        PROVE  T \in P
    <2>1. CASE T = {}
      BY <2>1 DEF Adds
    <2>2. CASE T # {}
      <3>1. Pick(T) \in T
        BY <2>2, PickIn
      <3>2. g[T \ {Pick(T)}] = h[T \ {Pick(T)}]
        BY <1>2, <3>1
      <3>3. g[T] = f[Pick(T)] + g[T \ {Pick(T)}]
        BY <2>2 DEF Adds
      <3>4. h[T] = f[Pick(T)] + h[T \ {Pick(T)}]
        BY <2>2 DEF Adds
      <3> QED BY <3>2, <3>3, <3>4
    <2> QED BY <2>1, <2>2
  <1> HIDE DEF P, U
  <1>3. SUBSET U \subseteq P
    BY <1>1, <1>2, SubsetInduction
  <1> QED BY <1>3 DEF P, U

\* Finitely many rows can be added up.
LEMMA AddsExists ==
    ASSUME NEW f, NEW S, IsFiniteSet(S)
    PROVE  \E g : Adds(f, S, g)
  <1> DEFINE P == {T \in SUBSET S : \E g : Adds(f, T, g)}
  <1>2. ASSUME NEW T \in SUBSET S, \A R \in SUBSET T : R # T => R \in P
        PROVE  T \in P
    <2> DEFINE g == [s \in SUBSET T |-> IF s = {} THEN 0 ELSE f[Pick(s)] + Total(f, s \ {Pick(s)})]
    <2>1. ASSUME NEW R \in SUBSET T, R # T
          PROVE  g[R] = Total(f, R)
      <3> DEFINE h == CHOOSE k : Adds(f, R, k)
      <3>1. Adds(f, R, h)
        <4>1. \E k : Adds(f, R, k)
          BY <1>2, <2>1
        <4> QED BY <4>1
      <3>2. Total(f, R) = h[R]
        BY DEF Total
      <3> HIDE DEF h
      <3>3. CASE R = {}
        BY <3>1, <3>2, <3>3 DEF Adds
      <3>4. CASE R # {}
        <4> DEFINE r == R \ {Pick(R)}
        <4>1. Pick(R) \in R
          BY <3>4, PickIn
        <4>2. h[R] = f[Pick(R)] + h[r]
          BY <3>1, <3>4 DEF Adds
        <4>3. \E k : Adds(f, r, k)
          BY <1>2, <4>1
        <4> DEFINE k == CHOOSE j : Adds(f, r, j)
        <4>4. Adds(f, r, k)
          BY <4>3
        <4>5. Total(f, r) = k[r]
          BY DEF Total
        <4> HIDE DEF k
        <4>6. IsFiniteSet(R)
          BY FS_Subset
        <4>7. h[r] = k[r]
          <5>1. \A X \in SUBSET (R \cap r) : h[X] = k[X]
            BY <3>1, <4>4, <4>6, AddsUnique
          <5> QED BY <5>1
        <4>8. g[R] = f[Pick(R)] + Total(f, r)
          BY <3>4
        <4> QED BY <3>2, <4>2, <4>5, <4>7, <4>8
      <3> QED BY <3>3, <3>4
    <2>2. Adds(f, T, g)
      <3>1. \A s \in SUBSET T : s # {} => Total(f, s \ {Pick(s)}) = g[s \ {Pick(s)}]
        <4> TAKE s \in SUBSET T
        <4> HAVE s # {}
        <4>1. Pick(s) \in s
          BY PickIn
        <4> QED BY <2>1, <4>1
      <3> QED BY <3>1 DEF Adds
    <2> HIDE DEF g
    <2> QED BY <2>2
  <1> HIDE DEF P
  <1>3. SUBSET S \subseteq P
    BY <1>2, SubsetInduction
  <1> QED BY <1>3 DEF P

\* The recursion that defines the sum of the rows holds.
LEMMA TotalRec ==
    ASSUME NEW f, NEW S, IsFiniteSet(S)
    PROVE  /\ S = {} => Total(f, S) = 0
           /\ S # {} => Total(f, S) = f[Pick(S)] + Total(f, S \ {Pick(S)})
  <1> DEFINE g == CHOOSE k : Adds(f, S, k)
  <1>1. Adds(f, S, g)
    BY AddsExists
  <1>2. Total(f, S) = g[S]
    BY DEF Total
  <1> HIDE DEF g
  <1>3. ASSUME S = {} PROVE Total(f, S) = 0
    BY <1>1, <1>2, <1>3 DEF Adds
  <1>4. ASSUME S # {} PROVE Total(f, S) = f[Pick(S)] + Total(f, S \ {Pick(S)})
    <2> DEFINE r == S \ {Pick(S)}
               h == CHOOSE k : Adds(f, r, k)
    <2>1. IsFiniteSet(r)
      BY FS_Subset
    <2>2. Adds(f, r, h)
      BY <2>1, AddsExists
    <2>3. Total(f, r) = h[r]
      BY DEF Total
    <2> HIDE DEF h
    <2>4. \A X \in SUBSET (S \cap r) : g[X] = h[X]
      BY <1>1, <2>2, AddsUnique
    <2>5. g[S] = f[Pick(S)] + g[r]
      BY <1>1, <1>4 DEF Adds
    <2> QED BY <1>2, <2>3, <2>4, <2>5
  <1> QED BY <1>3, <1>4

\* No rows, no amount: the counters start at zero.
LEMMA SumEmpty ==
    ASSUME NEW f
    PROVE  SumFunctionOnSet(f, {}) = 0
  BY SumIsTotal, TotalRec, FS_EmptySet

\* A sum of integer amounts is an integer.
LEMMA SumInt ==
    ASSUME NEW f, NEW S, IsFiniteSet(S), \A x \in S : f[x] \in Int
    PROVE  SumFunctionOnSet(f, S) \in Int
  <1> DEFINE P == {T \in SUBSET S : Total(f, T) \in Int}
  <1>1. ASSUME NEW T \in SUBSET S, \A R \in SUBSET T : R # T => R \in P
        PROVE  T \in P
    <2>1. IsFiniteSet(T)
      BY FS_Subset
    <2>2. CASE T = {}
      BY <2>1, <2>2, TotalRec
    <2>3. CASE T # {}
      <3>1. Pick(T) \in T
        BY <2>3, PickIn
      <3>2. Total(f, T \ {Pick(T)}) \in Int
        BY <1>1, <3>1
      <3>3. Total(f, T) = f[Pick(T)] + Total(f, T \ {Pick(T)})
        BY <2>1, <2>3, TotalRec
      <3> QED BY <3>1, <3>2, <3>3
    <2> QED BY <2>2, <2>3
  <1> HIDE DEF P
  <1>2. SUBSET S \subseteq P
    BY <1>1, SubsetInduction
  <1> QED BY <1>2, SumIsTotal DEF P

\* Any row may be taken out of the sum: the order of the rows does not matter.
LEMMA SumRemove ==
    ASSUME NEW f, NEW S, IsFiniteSet(S), \A x \in S : f[x] \in Int, NEW a \in S
    PROVE  SumFunctionOnSet(f, S) = f[a] + SumFunctionOnSet(f, S \ {a})
  <1> DEFINE P == {T \in SUBSET S : \A x \in T : Total(f, T) = f[x] + Total(f, T \ {x})}
  <1>1. ASSUME NEW T \in SUBSET S, \A R \in SUBSET T : R # T => R \in P
        PROVE  T \in P
    <2> SUFFICES ASSUME NEW x \in T PROVE Total(f, T) = f[x] + Total(f, T \ {x})
      OBVIOUS
    <2> DEFINE c == Pick(T)
    <2>1. IsFiniteSet(T)
      BY FS_Subset
    <2>2. Total(f, T) = f[c] + Total(f, T \ {c})
      BY <2>1, TotalRec
    <2>3. c \in T
      BY PickIn
    <2> HIDE DEF c
    <2>4. CASE x = c
      BY <2>2, <2>4
    <2>5. CASE x # c
      <3>1. T \ {c} \in P /\ T \ {x} \in P
        BY <1>1, <2>3
      <3>2. Total(f, T \ {c}) = f[x] + Total(f, (T \ {c}) \ {x})
        BY <2>5, <3>1
      <3>3. Total(f, T \ {x}) = f[c] + Total(f, (T \ {x}) \ {c})
        BY <2>3, <2>5, <3>1
      <3>4. (T \ {c}) \ {x} = (T \ {x}) \ {c}
        OBVIOUS
      <3>5. Total(f, (T \ {c}) \ {x}) \in Int
        <4>1. IsFiniteSet((T \ {c}) \ {x})
          BY <2>1, FS_Subset
        <4> QED BY <4>1, SumInt, SumIsTotal
      <3>6. f[x] \in Int /\ f[c] \in Int
        BY <2>3
      <3> DEFINE v == Total(f, (T \ {c}) \ {x})
      <3>7. Total(f, T) = f[c] + (f[x] + v)
        BY <2>2, <3>2
      <3>8. Total(f, T \ {x}) = f[c] + v
        BY <3>3, <3>4
      <3>9. v \in Int
        BY <3>5
      <3> HIDE DEF v, P
      <3> QED BY <3>6, <3>7, <3>8, <3>9
    <2> QED BY <2>4, <2>5
  <1> HIDE DEF P
  <1>2. SUBSET S \subseteq P
    BY <1>1, SubsetInduction
  <1> QED BY <1>2, SumIsTotal DEF P

\* A row that is inserted adds its amount.
LEMMA SumAdd ==
    ASSUME NEW f, NEW S, IsFiniteSet(S), \A x \in S : f[x] \in Int,
           NEW a, a \notin S, f[a] \in Int
    PROVE  SumFunctionOnSet(f, S \cup {a}) = SumFunctionOnSet(f, S) + f[a]
  <1>1. IsFiniteSet(S \cup {a})
    BY FS_AddElement
  <1>2. SumFunctionOnSet(f, S \cup {a}) = f[a] + SumFunctionOnSet(f, (S \cup {a}) \ {a})
    BY <1>1, SumRemove
  <1>3. (S \cup {a}) \ {a} = S
    OBVIOUS
  <1>4. SumFunctionOnSet(f, S) \in Int
    BY SumInt
  <1>5. SumFunctionOnSet(f, S \cup {a}) = f[a] + SumFunctionOnSet(f, S)
    BY <1>2, <1>3
  <1> DEFINE v == SumFunctionOnSet(f, S)
  <1>6. f[a] + v = v + f[a]
    <2> HIDE DEF v
    <2>1. v \in Int
      BY <1>4 DEF v
    <2> QED BY <2>1
  <1> QED BY <1>5, <1>6

\* The sum only depends on the amounts of the rows in it.
LEMMA SumCong ==
    ASSUME NEW f, NEW g, NEW S, IsFiniteSet(S), \A x \in S : f[x] = g[x]
    PROVE  SumFunctionOnSet(f, S) = SumFunctionOnSet(g, S)
  <1> DEFINE P == {T \in SUBSET S : Total(f, T) = Total(g, T)}
  <1>1. ASSUME NEW T \in SUBSET S, \A R \in SUBSET T : R # T => R \in P
        PROVE  T \in P
    <2>1. IsFiniteSet(T)
      BY FS_Subset
    <2>2. CASE T = {}
      BY <2>1, <2>2, TotalRec
    <2>3. CASE T # {}
      <3>1. Pick(T) \in T
        BY <2>3, PickIn
      <3>2. Total(f, T \ {Pick(T)}) = Total(g, T \ {Pick(T)})
        BY <1>1, <3>1
      <3> QED BY <2>1, <2>3, <3>1, <3>2, TotalRec
    <2> QED BY <2>2, <2>3
  <1> HIDE DEF P
  <1>2. SUBSET S \subseteq P
    BY <1>1, SubsetInduction
  <1> QED BY <1>2, SumIsTotal DEF P

\* A row is inserted by a step that leaves the amounts of the others alone.
LEMMA SumGrow ==
    ASSUME NEW f, NEW g, NEW S, IsFiniteSet(S), NEW a, a \notin S,
           \A x \in S : f[x] \in Int /\ g[x] = f[x], g[a] \in Int
    PROVE  SumFunctionOnSet(g, S \cup {a}) = SumFunctionOnSet(f, S) + g[a]
  <1>1. SumFunctionOnSet(g, S) = SumFunctionOnSet(f, S)
    BY SumCong
  <1>2. SumFunctionOnSet(g, S \cup {a}) = SumFunctionOnSet(g, S) + g[a]
    BY SumAdd
  <1> QED BY <1>1, <1>2

\* A row leaves the sum in a step that leaves the amounts of the others alone.
LEMMA SumShrink ==
    ASSUME NEW f, NEW g, NEW S, IsFiniteSet(S), NEW a \in S,
           \A x \in S : f[x] \in Int, NEW T, T = S \ {a}, \A x \in T : g[x] = f[x]
    PROVE  SumFunctionOnSet(g, T) = SumFunctionOnSet(f, S) - f[a]
  <1>1. IsFiniteSet(S \ {a})
    BY FS_Subset
  <1>2. SumFunctionOnSet(f, S \ {a}) \in Int
    BY <1>1, SumInt
  <1>3. SumFunctionOnSet(f, S) = f[a] + SumFunctionOnSet(f, S \ {a})
    BY SumRemove
  <1>4. SumFunctionOnSet(g, S \ {a}) = SumFunctionOnSet(f, S \ {a})
    BY <1>1, SumCong
  <1> DEFINE v == SumFunctionOnSet(f, S \ {a})
  <1>5. v = (f[a] + v) - f[a]
    <2> HIDE DEF v
    <2>1. v \in Int
      BY <1>2 DEF v
    <2> QED BY <2>1
  <1> QED BY <1>3, <1>4, <1>5

\* A sum of amounts that are not negative is not negative.
LEMMA SumNat ==
    ASSUME NEW f, NEW S, IsFiniteSet(S), \A x \in S : f[x] \in Nat
    PROVE  SumFunctionOnSet(f, S) \in Nat
  <1> DEFINE P == {T \in SUBSET S : Total(f, T) \in Nat}
  <1>1. ASSUME NEW T \in SUBSET S, \A R \in SUBSET T : R # T => R \in P
        PROVE  T \in P
    <2>1. IsFiniteSet(T)
      BY FS_Subset
    <2>2. CASE T = {}
      <3>1. Total(f, T) = 0
        BY <2>1, <2>2, TotalRec
      <3> QED BY <3>1
    <2>3. CASE T # {}
      <3>1. Pick(T) \in T
        BY <2>3, PickIn
      <3>2. Total(f, T \ {Pick(T)}) \in Nat
        BY <1>1, <3>1
      <3>3. Total(f, T) = f[Pick(T)] + Total(f, T \ {Pick(T)})
        BY <2>1, <2>3, TotalRec
      <3> QED BY <3>1, <3>2, <3>3
    <2> QED BY <2>2, <2>3
  <1> HIDE DEF P
  <1>2. SUBSET S \subseteq P
    BY <1>1, SubsetInduction
  <1> QED BY <1>2, SumIsTotal DEF P

\* A sum of amounts that are not negative is at least each of them.
LEMMA SumAtLeast ==
    ASSUME NEW f, NEW S, IsFiniteSet(S), \A x \in S : f[x] \in Nat, NEW a \in S
    PROVE  SumFunctionOnSet(f, S) >= f[a]
  <1>1. IsFiniteSet(S \ {a})
    BY FS_Subset
  <1>2. SumFunctionOnSet(f, S \ {a}) \in Nat
    BY <1>1, SumNat
  <1>3. SumFunctionOnSet(f, S) = f[a] + SumFunctionOnSet(f, S \ {a})
    BY SumRemove
  <1> DEFINE v == SumFunctionOnSet(f, S \ {a})
  <1>4. f[a] + v >= f[a]
    <2> HIDE DEF v
    <2>1. v \in Nat
      BY <1>2 DEF v
    <2> QED BY <2>1
  <1> QED BY <1>3, <1>4
=============================================================================
