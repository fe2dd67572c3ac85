--------------------------- MODULE SumTheory ---------------------------
(***************************************************************************)
(* SumFunctionOnSet of the community modules, for reasoning: the sum over  *)
(* a finite set, what one entry more or one other value does to it, and    *)
(* the same for sums and entries that wrap, as the counters of store.rs do *)
(* (wrapping u64 additions of a release build).                            *)
(***************************************************************************)
EXTENDS Functions, FiniteSetTheorems, TLAPS

\* A sum is a fold of + that takes any element next.
Plus(ctx, x, y) == x + y
Any(S) == CHOOSE x \in S : TRUE

Sums == INSTANCE FoldTheory WITH op <- Plus, pick <- Any

\* The sum is the fold of FoldTheory.
LEMMA SumIsFold ==
    ASSUME NEW f, NEW S
    PROVE  SumFunctionOnSet(f, S) = Sums!Fold(0, 0, f, S)
BY DEF SumFunctionOnSet, FoldFunctionOnSet, Sums!Fold, Plus, Any, MapThenFoldSet, Sums!MapThenFoldSet

\* Any takes an element of the set.
LEMMA AnyPicks == ASSUME NEW S PROVE Sums!Picks(S)
BY DEF Sums!Picks, Any

\* The instance speaks of the same finite sets.
LEMMA Finite == ASSUME NEW S, IsFiniteSet(S) PROVE Sums!IsFiniteSet(S)
BY DEF IsFiniteSet, Sums!IsFiniteSet

\* The sum over nothing is 0.
LEMMA SumEmpty == ASSUME NEW f PROVE SumFunctionOnSet(f, {}) = 0
BY SumIsFold, Sums!FoldEmpty

\* Functions that agree on a set have the same sum over it.
LEMMA SumSame ==
    ASSUME NEW S, IsFiniteSet(S), NEW f, NEW g, \A x \in S : f[x] = g[x]
    PROVE  SumFunctionOnSet(f, S) = SumFunctionOnSet(g, S)
BY SumIsFold, AnyPicks, Finite, Sums!FoldSame

\* Some element can be taken out of a sum: the one the fold takes.
LEMMA SumStep ==
    ASSUME NEW f, NEW S, IsFiniteSet(S), S # {}
    PROVE  \E x \in S :
               SumFunctionOnSet(f, S) = f[x] + SumFunctionOnSet(f, S \ {x})
<1>1. Sums!Picks(S) /\ Sums!IsFiniteSet(S)
  BY AnyPicks, Finite
<1>2. Any(S) \in S /\ Sums!Fold(0, 0, f, S) = Plus(0, f[Any(S)], Sums!Fold(0, 0, f, S \ {Any(S)}))
  BY <1>1, Sums!FoldStep
<1> QED
  BY <1>2, SumIsFold DEF Plus

\* A sum of integers is one, and any element can be taken out of it.
LEMMA SumOfAny ==
    ASSUME NEW f, NEW S, IsFiniteSet(S), \A x \in S : f[x] \in Int
    PROVE  /\ SumFunctionOnSet(f, S) \in Int
           /\ \A x \in S : SumFunctionOnSet(f, S)
                               = f[x] + SumFunctionOnSet(f, S \ {x})
<1> DEFINE Total(T) == SumFunctionOnSet(f, T)
           Splits(T) == Total(T) \in Int /\ \A x \in T : Total(T) = f[x] + Total(T \ {x})
           N == {n \in Nat : \A T \in SUBSET S : Cardinality(T) <= n => Splits(T)}
<1>1. \A T \in SUBSET S : IsFiniteSet(T) /\ Cardinality(T) \in Nat
  BY FS_Subset, FS_CardinalityType
<1>2. 0 \in N
  <2>1. Splits({})
    BY SumEmpty
  <2> HIDE DEF Splits
  <2> QED
    BY <1>1, <2>1, FS_EmptySet
<1>3. ASSUME NEW n \in Nat, n \in N
      PROVE  n + 1 \in N
  <2>1. SUFFICES ASSUME NEW T \in SUBSET S, Cardinality(T) = n + 1
                 PROVE  Splits(T)
    <3>1. \A T \in SUBSET S :
              Cardinality(T) <= n + 1 => Cardinality(T) <= n \/ Cardinality(T) = n + 1
      BY <1>1
    <3> HIDE DEF Splits
    <3> QED
      BY <1>3, <2>1, <3>1
  <2>2. ASSUME NEW R \in SUBSET T, R # T
        PROVE  Splits(R)
    <3>1. Cardinality(R) <= n
      BY <1>1, <2>1, <2>2, FS_Subset
    <3> HIDE DEF Splits
    <3> QED
      BY <1>3, <2>2, <3>1
  <2>3. PICK y \in T : Total(T) = f[y] + Total(T \ {y})
    <3>1. T # {}
      BY <2>1, FS_EmptySet
    <3> QED
      BY <1>1, <3>1, SumStep
  <2>4. Total(T) \in Int
    BY <2>2, <2>3
  <2>5. ASSUME NEW x \in T, x # y
        PROVE  Total(T) = f[x] + Total(T \ {x})
    <3> DEFINE R == T \ {x, y}
    <3>1. (T \ {y}) \ {x} = R /\ (T \ {x}) \ {y} = R
      OBVIOUS
    <3>2. Total(T \ {y}) = f[x] + Total(R)
      BY <2>2, <2>5, <3>1
    <3>3. Total(T \ {x}) = f[y] + Total(R)
      BY <2>2, <2>5, <3>1
    <3>4. Total(R) \in Int
      BY <2>2, <2>5
    <3> HIDE DEF Total
    <3> QED
      BY <2>3, <3>2, <3>3, <3>4
  <2> QED
    BY <2>3, <2>4, <2>5
<1>4. Splits(S)
  <2> HIDE DEF N, Splits
  <2>1. \A n \in Nat : n \in N
    BY <1>2, <1>3, Sums!AllNaturals
  <2>2. Cardinality(S) \in N
    BY <1>1, <2>1
  <2> QED
    BY <2>2 DEF N
<1> QED
  BY <1>4

\* g is f with one entry changed or added; an entry that was not there counts 0.
Replaces(f, g, S, x, old) ==
    /\ IsFiniteSet(S)
    /\ old \in Int /\ g[x] \in Int
    /\ \A y \in S : f[y] \in Int
    /\ \A y \in S : y # x => g[y] = f[y]
    /\ x \in S => old = f[x]
    /\ x \notin S => old = 0

\* A total after one of its parts went from old to new.
Moved(total, old, new) == total + (new - old)

\* The sum moves by the difference.
LEMMA SumPut ==
    ASSUME NEW f, NEW g, NEW S, NEW x, NEW old, Replaces(f, g, S, x, old)
    PROVE  SumFunctionOnSet(g, S \cup {x})
               = Moved(SumFunctionOnSet(f, S), old, g[x])
<1> DEFINE R == S \ {x}
<1>0. /\ IsFiniteSet(S) /\ old \in Int /\ g[x] \in Int
      /\ \A y \in S : f[y] \in Int
      /\ \A y \in S : y # x => g[y] = f[y]
      /\ (x \in S => old = f[x]) /\ (x \notin S => old = 0)
  BY DEF Replaces
<1>1. IsFiniteSet(R) /\ IsFiniteSet(S \cup {x})
  BY <1>0, FS_Subset, FS_AddElement
<1>2. SumFunctionOnSet(f, R) \in Int /\ SumFunctionOnSet(f, R) = SumFunctionOnSet(g, R)
  BY <1>0, <1>1, SumOfAny, SumSame
<1>3. SumFunctionOnSet(g, S \cup {x}) = g[x] + SumFunctionOnSet(g, R)
  <2>1. (S \cup {x}) \ {x} = R
    OBVIOUS
  <2>2. \A y \in S \cup {x} : g[y] \in Int
    BY <1>0
  <2> QED
    BY <1>1, <2>1, <2>2, SumOfAny
<1>4. SumFunctionOnSet(f, S) = old + SumFunctionOnSet(f, R)
  <2>1. CASE x \in S
    BY <1>0, <2>1, SumOfAny
  <2>2. CASE x \notin S
    <3>1. R = S
      BY <2>2
    <3> HIDE DEF R
    <3> QED
      BY <1>0, <1>2, <2>2, <3>1
  <2> QED
    BY <2>1, <2>2
<1> HIDE DEF R
<1> QED
  BY <1>0, <1>2, <1>3, <1>4 DEF Moved

\* Quotient and remainder.
LEMMA Division ==
    ASSUME NEW U \in Nat \ {0}, NEW a \in Int
    PROVE  /\ a \div U \in Int
           /\ a % U \in 0 .. U - 1
           /\ a = U * (a \div U) + (a % U)
OBVIOUS

\* Of the multiples of U only 0 lies strictly between -U and U.
LEMMA Multiple ==
    ASSUME NEW U \in Nat \ {0}, NEW d \in Int, -U < U * d, U * d < U
    PROVE  d = 0
<1>1. CASE d >= 1
  <2>1. U * d >= U
    BY <1>1
  <2> QED
    BY <2>1
<1>2. CASE d <= -1
  <2>1. U * d <= -U
    BY <1>2
  <2> QED
    BY <2>1
<1> QED
  BY <1>1, <1>2

\* Numbers that differ by a multiple of U have the same remainder.
LEMMA SameRemainder ==
    ASSUME NEW U \in Nat \ {0}, NEW a \in Int, NEW b \in Int, NEW k \in Int,
           a = b + U * k
    PROVE  a % U = b % U
<1> DEFINE p == a \div U
           q == b \div U
           r == a % U
           s == b % U
<1>1. /\ p \in Int /\ q \in Int /\ r \in 0 .. U - 1 /\ s \in 0 .. U - 1
      /\ a = U * p + r /\ b = U * q + s
  BY Division
<1> HIDE DEF p, q, r, s
<1>2. U * (p - q - k) = s - r
  BY <1>1
<1>3. p - q - k = 0
  BY <1>1, <1>2, Multiple
<1>4. r = s
  BY <1>1, <1>2, <1>3
<1> QED
  BY <1>4 DEF r, s

\* It does not matter whether a summand wraps before the sum does.
LEMMA WrapLate ==
    ASSUME NEW U \in Nat \ {0}, NEW a \in Int, NEW b \in Int
    PROVE  ((a % U) + b) % U = (a + b) % U
<1> DEFINE p == a \div U
           r == a % U
<1>1. p \in Int /\ r \in 0 .. U - 1 /\ a = U * p + r
  BY Division
<1> SUFFICES (r + b) % U = (a + b) % U
  OBVIOUS
<1> HIDE DEF p, r
<1>2. a + b = (r + b) + U * p
  BY <1>1
<1>3. a + b \in Int /\ r + b \in Int
  BY <1>1
<1>4. \A x, y \in Int : x = y + U * p => x % U = y % U
  BY <1>1, SameRemainder
<1> QED
  BY <1>2, <1>3, <1>4

\* A counter wraps, and the total it is part of wraps too: both moved by amount.
LEMMA WrapDifference ==
    ASSUME NEW U \in Nat \ {0}, NEW total \in Int, NEW old \in Int, NEW amount \in Int
    PROVE  /\ (old + amount) % U \in Int
           /\ (total + (((old + amount) % U) - old)) % U
                  = ((total % U) + amount) % U
<1> DEFINE sum == old + amount
           new == sum % U
           rest == total - old
<1>1. sum \in Int /\ rest \in Int
  OBVIOUS
<1> HIDE DEF sum
<1>2. new \in Int
  BY <1>1, Division
<1>3. (new + rest) % U = (sum + rest) % U
  BY <1>1, WrapLate
<1>4. ((total % U) + amount) % U = (total + amount) % U
  BY WrapLate
<1> HIDE DEF new
<1>5. new + rest = total + (new - old) /\ sum + rest = total + amount
  BY <1>2 DEF sum
<1>6. (total + (new - old)) % U = ((total % U) + amount) % U
  BY <1>3, <1>4, <1>5
<1> QED
  BY <1>2, <1>6 DEF new, sum

\* One entry, old or still 0, grows by amount and wraps; g is f with that change.
Grows(f, g, S, x, old, amount, U) ==
    /\ IsFiniteSet(S)
    /\ U \in Nat \ {0}
    /\ old \in Int /\ amount \in Int
    /\ \A y \in S : f[y] \in Int
    /\ \A y \in S : y # x => g[y] = f[y]
    /\ x \in S => old = f[x]
    /\ x \notin S => old = 0
    /\ g[x] = (old + amount) % U

\* So does the sum of all entries.
LEMMA SumPutWraps ==
    ASSUME NEW f, NEW g, NEW S, NEW x, NEW old, NEW amount, NEW U,
           Grows(f, g, S, x, old, amount, U)
    PROVE  SumFunctionOnSet(g, S \cup {x}) % U
               = ((SumFunctionOnSet(f, S) % U) + amount) % U
<1>0. /\ IsFiniteSet(S) /\ U \in Nat \ {0} /\ old \in Int /\ amount \in Int
      /\ \A y \in S : f[y] \in Int
      /\ \A y \in S : y # x => g[y] = f[y]
      /\ (x \in S => old = f[x]) /\ (x \notin S => old = 0)
      /\ g[x] = (old + amount) % U
  BY DEF Grows
<1> DEFINE A == SumFunctionOnSet(f, S)
           new == (old + amount) % U
<1>1. A \in Int
  BY <1>0, SumOfAny
<1>2. new \in Int /\ (A + (new - old)) % U = ((A % U) + amount) % U
  BY <1>0, <1>1, WrapDifference
<1>3. g[x] = new
  BY <1>0
<1> HIDE DEF new
<1>4. SumFunctionOnSet(g, S \cup {x}) = A + (new - old)
  <2>1. Replaces(f, g, S, x, old)
    BY <1>0, <1>2, <1>3 DEF Replaces
  <2>2. SumFunctionOnSet(g, S \cup {x}) = Moved(SumFunctionOnSet(f, S), old, g[x])
    BY <2>1, SumPut
  <2> QED
    BY <1>3, <2>2 DEF Moved
<1> QED
  BY <1>2, <1>4
=========================================================================
