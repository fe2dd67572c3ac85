--------------------------- MODULE FoldTheory ---------------------------
(***************************************************************************)
(* MapThenFoldSet of the community modules, for reasoning.  It is defined  *)
(* with CHOOSE over the tables of results of all subsets; here such a      *)
(* table is shown to exist and to be the only one, which gives the two     *)
(* equations a proof needs: the empty fold, and one step of a fold.        *)
(* The operation has a context, for what else a use of it depends on.      *)
(***************************************************************************)
EXTENDS Folds, FiniteSetTheorems, TLAPS

CONSTANTS
    op(_, _, _),    \* context, next value, result so far |-> new result
    pick(_)         \* the element a set is taken apart at

\* The values f has on S, folded into base.
Fold(ctx, base, f, S) ==
    MapThenFoldSet(LAMBDA x, y : op(ctx, x, y), base, LAMBDA i : f[i], pick, S)

\* pick takes elements of the sets it is given.
Picks(S) == \A T \in SUBSET S : T # {} => pick(T) \in T

\* The equation of the fold, at one set, for a table of results g.
Step(ctx, base, f, g, T) ==
    IF T = {} THEN base ELSE op(ctx, f[pick(T)], g[T \ {pick(T)}])

\* The table g of the results of every subset of S.
IsFold(ctx, base, f, S, g) == g = [T \in SUBSET S |-> Step(ctx, base, f, g, T)]

\* A set of naturals that holds 0 and every successor is all of them.
LEMMA AllNaturals ==
    ASSUME NEW N, 0 \in N, \A n \in Nat : n \in N => n + 1 \in N
    PROVE  \A n \in Nat : n \in N
<1> DEFINE Bad == {n \in Nat : n \notin N}
<1>1. SUFFICES ASSUME Bad # {} PROVE FALSE
  OBVIOUS
<1>2. PICK n \in Bad : \A m \in Bad : <<m, n>> \notin OpToRel(<, Nat)
  BY <1>1, NatLessThanWellFounded, WFMin
<1>3. n \in Nat \ {0} /\ n - 1 \in Nat /\ n - 1 < n
  OBVIOUS
<1>4. n - 1 \notin Bad
  BY <1>2, <1>3 DEF OpToRel
<1> QED
  BY <1>3, <1>4

\* A finite set has a table of results: by induction on the size of the subsets.
LEMMA FoldExists ==
    ASSUME NEW ctx, NEW base, NEW f, NEW S, IsFiniteSet(S), Picks(S)
    PROVE  \E g : IsFold(ctx, base, f, S, g)
<1> DEFINE Small(n) == {T \in SUBSET S : Cardinality(T) <= n}
           Good == {n \in Nat : \E g : g = [T \in Small(n) |-> Step(ctx, base, f, g, T)]}
<1>1. \A T \in SUBSET S : IsFiniteSet(T) /\ Cardinality(T) \in Nat
                          /\ Cardinality(T) <= Cardinality(S)
  BY FS_Subset, FS_CardinalityType
<1>2. 0 \in Good
  <2> DEFINE g == [T \in Small(0) |-> base]
  <2>1. \A T \in Small(0) : T = {}
    BY <1>1, FS_EmptySet
  <2>2. g = [T \in Small(0) |-> Step(ctx, base, f, g, T)]
    BY <2>1 DEF Step
  <2> QED
    BY <2>2
<1>3. ASSUME NEW n \in Nat, n \in Good
      PROVE  n + 1 \in Good
  <2>1. PICK g : g = [T \in Small(n) |-> Step(ctx, base, f, g, T)]
    BY <1>3
  <2> DEFINE h == [T \in Small(n + 1) |-> Step(ctx, base, f, g, T)]
  <2>2. \A T \in Small(n + 1) : T # {} => T \ {pick(T)} \in Small(n)
    <3>1. SUFFICES ASSUME NEW T \in Small(n + 1), T # {}
                   PROVE  T \ {pick(T)} \in Small(n)
      OBVIOUS
    <3>2. pick(T) \in T
      BY <3>1 DEF Picks
    <3>3. Cardinality(T \ {pick(T)}) = Cardinality(T) - 1
      BY <3>2, <1>1, FS_RemoveElement
    <3> QED
      BY <3>3, <1>1
  <2>3. \A T \in Small(n) : T \in Small(n + 1) /\ h[T] = g[T]
    BY <2>1, <1>1
  <2>4. h = [T \in Small(n + 1) |-> Step(ctx, base, f, h, T)]
    <3>1. \A T \in Small(n + 1) : Step(ctx, base, f, h, T) = Step(ctx, base, f, g, T)
      BY <2>2, <2>3 DEF Step
    <3> HIDE DEF Small
    <3> QED
      BY <3>1
  <2> HIDE DEF h
  <2> QED
    BY <2>4
<1>4. Cardinality(S) \in Good
  <2> HIDE DEF Good
  <2>1. \A n \in Nat : n \in Good
    BY <1>2, <1>3, AllNaturals
  <2> QED
    BY <2>1, <1>1
<1>5. Small(Cardinality(S)) = SUBSET S
  BY <1>1
<1> QED
  BY <1>4, <1>5 DEF IsFold

\* The fold is an entry of such a table.
LEMMA FoldIsTable ==
    ASSUME NEW ctx, NEW base, NEW f, NEW S, IsFiniteSet(S), Picks(S)
    PROVE  \E g : IsFold(ctx, base, f, S, g) /\ Fold(ctx, base, f, S) = g[S]
<1> DEFINE g == CHOOSE g : IsFold(ctx, base, f, S, g)
<1>1. IsFold(ctx, base, f, S, g)
  BY FoldExists
<1>2. Fold(ctx, base, f, S) = g[S]
  BY DEF Fold, MapThenFoldSet, IsFold, Step
<1> QED
  BY <1>1, <1>2

\* Two tables of results agree where both have an entry.
LEMMA TablesAgree ==
    ASSUME NEW ctx, NEW base, NEW f, NEW S, IsFiniteSet(S), Picks(S),
           NEW R \in SUBSET S,
           NEW g, IsFold(ctx, base, f, S, g), NEW h, IsFold(ctx, base, f, R, h)
    PROVE  \A T \in SUBSET R : h[T] = g[T]
<1> DEFINE N == {n \in Nat : \A T \in SUBSET R : Cardinality(T) = n => h[T] = g[T]}
<1>1. \A T \in SUBSET R : IsFiniteSet(T) /\ Cardinality(T) \in Nat
  BY FS_Subset, FS_CardinalityType
<1>2. \A T \in SUBSET R : /\ h[T] = Step(ctx, base, f, h, T)
                          /\ g[T] = Step(ctx, base, f, g, T)
  BY DEF IsFold
<1>3. 0 \in N
  BY <1>1, <1>2, FS_EmptySet DEF Step
<1>4. ASSUME NEW n \in Nat, n \in N
      PROVE  n + 1 \in N
  <2>1. SUFFICES ASSUME NEW T \in SUBSET R, Cardinality(T) = n + 1
                 PROVE  h[T] = g[T]
    OBVIOUS
  <2>2. T # {} /\ pick(T) \in T
    BY <2>1, FS_EmptySet DEF Picks
  <2>3. Cardinality(T \ {pick(T)}) = n
    BY <1>1, <2>1, <2>2, FS_RemoveElement
  <2>4. h[T \ {pick(T)}] = g[T \ {pick(T)}]
    BY <1>4, <2>3
  <2> QED
    BY <1>2, <2>2, <2>4 DEF Step
<1> QED
  <2> HIDE DEF N
  <2>1. \A n \in Nat : n \in N
    BY <1>3, <1>4, AllNaturals
  <2> QED
    BY <1>1, <2>1 DEF N

\* The fold over nothing is its base.
LEMMA FoldEmpty ==
    ASSUME NEW ctx, NEW base, NEW f
    PROVE  Fold(ctx, base, f, {}) = base
<1>1. IsFiniteSet({}) /\ Picks({})
  BY FS_EmptySet DEF Picks
<1>2. PICK g : IsFold(ctx, base, f, {}, g) /\ Fold(ctx, base, f, {}) = g[{}]
  BY <1>1, FoldIsTable
<1> QED
  BY <1>2 DEF IsFold, Step

\* The fold over a set is one operation on the fold over the rest of it.
LEMMA FoldStep ==
    ASSUME NEW ctx, NEW base, NEW f, NEW S, IsFiniteSet(S), Picks(S), S # {}
    PROVE  /\ pick(S) \in S
           /\ Fold(ctx, base, f, S)
                 = op(ctx, f[pick(S)], Fold(ctx, base, f, S \ {pick(S)}))
<1> DEFINE R == S \ {pick(S)}
<1>1. pick(S) \in S
  BY DEF Picks
<1>2. R \in SUBSET S /\ IsFiniteSet(R) /\ Picks(R)
  BY FS_Subset DEF Picks
<1>3. PICK g : IsFold(ctx, base, f, S, g) /\ Fold(ctx, base, f, S) = g[S]
  BY FoldIsTable
<1>4. PICK h : IsFold(ctx, base, f, R, h) /\ Fold(ctx, base, f, R) = h[R]
  BY <1>2, FoldIsTable
<1>5. g[R] = h[R]
  BY <1>2, <1>3, <1>4, TablesAgree
<1>6. g[S] = op(ctx, f[pick(S)], g[R])
  BY <1>3 DEF IsFold, Step
<1> QED
  BY <1>1, <1>3, <1>4, <1>5, <1>6

\* Functions that agree on a set have the same fold over it.
LEMMA FoldSame ==
    ASSUME NEW ctx, NEW base, NEW S, IsFiniteSet(S), Picks(S),
           NEW f, NEW g, \A i \in S : f[i] = g[i]
    PROVE  Fold(ctx, base, f, S) = Fold(ctx, base, g, S)
<1>1. PICK h : IsFold(ctx, base, f, S, h) /\ Fold(ctx, base, f, S) = h[S]
  BY FoldIsTable
<1>2. PICK k : IsFold(ctx, base, g, S, k) /\ Fold(ctx, base, g, S) = k[S]
  BY FoldIsTable
<1>3. IsFold(ctx, base, f, S, k)
  BY <1>2 DEF IsFold, Step, Picks
<1> QED
  BY <1>1, <1>2, <1>3, TablesAgree

\* pick takes the last index of a sequence, the largest.
TakesLast(n) ==
    \A T \in SUBSET (1 .. n) : T # {} => pick(T) \in T /\ \A i \in T : pick(T) >= i

\* What a fold that takes the last index first has after each element of a sequence.
Runs(ctx, base, f, n, acc) ==
    /\ acc[0] = base
    /\ \A i \in 1 .. n : acc[i] = op(ctx, f[i], acc[i - 1])
    /\ \A i \in 0 .. n : acc[i] = Fold(ctx, base, f, 1 .. i)
    /\ acc[n] = Fold(ctx, base, f, 1 .. n)

\* Such a fold goes through the sequence from its first element on.
LEMMA FoldOfSequence ==
    ASSUME NEW ctx, NEW base, NEW f, NEW n \in Nat, TakesLast(n)
    PROVE  \E acc : Runs(ctx, base, f, n, acc)
<1> DEFINE acc == [i \in 0 .. n |-> Fold(ctx, base, f, 1 .. i)]
<1>1. acc[0] = base
  <2>1. 1 .. 0 = {}
    OBVIOUS
  <2> QED
    BY <2>1, FoldEmpty
<1>2. ASSUME NEW i \in 1 .. n
      PROVE  acc[i] = op(ctx, f[i], acc[i - 1])
  <2>1. /\ i \in Int /\ 1 .. i # {} /\ 1 .. i \in SUBSET (1 .. n)
        /\ \A T \in SUBSET (1 .. i) : T \in SUBSET (1 .. n)
    OBVIOUS
  <2>2. IsFiniteSet(1 .. i) /\ Picks(1 .. i)
    <3>1. IsFiniteSet(1 .. i)
      BY <2>1, FS_Interval
    <3>2. Picks(1 .. i)
      BY <2>1 DEF Picks, TakesLast
    <3> QED
      BY <3>1, <3>2
  <2>3. pick(1 .. i) = i
    BY <2>1 DEF TakesLast
  <2>4. (1 .. i) \ {i} = 1 .. (i - 1)
    OBVIOUS
  <2>5. Fold(ctx, base, f, 1 .. i)
            = op(ctx, f[i], Fold(ctx, base, f, 1 .. (i - 1)))
    <3> HIDE DEF acc
    <3>1. Fold(ctx, base, f, 1 .. i)
              = op(ctx, f[pick(1 .. i)], Fold(ctx, base, f, (1 .. i) \ {pick(1 .. i)}))
      BY <2>1, <2>2, FoldStep
    <3> QED
      BY <2>3, <2>4, <3>1
  <2> QED
    BY <2>5
<1>3. \A i \in 0 .. n : acc[i] = Fold(ctx, base, f, 1 .. i)
  OBVIOUS
<1>4. n \in 0 .. n
  OBVIOUS
<1> HIDE DEF acc
<1>5. Runs(ctx, base, f, n, acc)
  BY <1>1, <1>2, <1>3, <1>4 DEF Runs
<1> QED
  BY <1>5

\* Two sequences that agree up to an index.
Agree(f, g, n) == \A i \in 1 .. n : f[i] = g[i]

\* Such sequences have the same fold up to there.
LEMMA FoldOfPrefix ==
    ASSUME NEW ctx, NEW base, NEW n \in Nat, TakesLast(n),
           NEW f, NEW g, Agree(f, g, n)
    PROVE  Fold(ctx, base, f, 1 .. n) = Fold(ctx, base, g, 1 .. n)
<1>1. IsFiniteSet(1 .. n)
  <2>1. n \in Int /\ 1 \in Int
    OBVIOUS
  <2> QED
    BY <2>1, FS_Interval
<1>2. Picks(1 .. n)
  BY DEF Picks, TakesLast
<1>3. \A i \in 1 .. n : f[i] = g[i]
  BY DEF Agree
<1> DEFINE S == 1 .. n
<1> HIDE DEF S
<1>4. Fold(ctx, base, f, S) = Fold(ctx, base, g, S)
  BY <1>1, <1>2, <1>3, FoldSame DEF S
<1> QED
  BY <1>4 DEF S
=========================================================================
