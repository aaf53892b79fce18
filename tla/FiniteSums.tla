------------------------------ MODULE FiniteSums ------------------------------
(***************************************************************************)
(* What the proofs need to know of sums over finite sets                   *)
(* (SumFunctionOnSet of the community modules): a sum does not depend on   *)
(* the order in which the fold takes the elements, and what becomes of it  *)
(* when one summand changes or the set is split.                           *)
(*                                                                         *)
(* The induction is by least counterexample: a set of numbers that is not  *)
(* empty has a least one (LeastNumber), so a set of subsets that holds the *)
(* empty set and, with a set, the set with one more element, holds all of  *)
(* them (SubsetInduction).                                                 *)
(***************************************************************************)
EXTENDS FiniteSetsExt, FiniteSetTheorems, WellFoundedInduction, TLAPS

\* A set of numbers that is not empty has a least one.
LEMMA LeastNumber ==
  ASSUME NEW S \in SUBSET Nat, S # {}
  PROVE  \E x \in S : \A y \in S : x <= y
<1>1. PICK R : R = OpToRel(<, Nat)
  OBVIOUS
<1>2. IsWellFoundedOn(R, Nat)
  BY <1>1, NatLessThanWellFounded
<1>3. PICK x \in S : \A y \in S : ~(<<y, x>> \in R)
  BY <1>2, WFMin
<1>4. \A y \in S : y < x => <<y, x>> \in R
  BY <1>1 DEF OpToRel
<1>5. \A y \in S : x \in Nat /\ y \in Nat /\ ~(y < x)
  BY ONLY <1>3, <1>4, S \in SUBSET Nat, x \in S
<1> QED BY <1>5

\* A set of numbers that holds 0 and with a number the next one holds them all.
LEMMA NumberInduction ==
  ASSUME NEW Good, 0 \in Good, \A n \in Nat : n \in Good => n + 1 \in Good
  PROVE  Nat \subseteq Good
<1> SUFFICES ASSUME Nat \ Good # {} PROVE FALSE
  OBVIOUS
<1>1. PICK n \in Nat \ Good : \A m \in Nat \ Good : n <= m
  BY LeastNumber
<1>2. n # 0 /\ n - 1 \in Nat /\ n - 1 \in Good
  BY <1>1
<1>3. (n - 1) + 1 \in Good
  BY <1>2
<1> QED BY <1>1, <1>3

\* A set of subsets that holds the empty set, and with a subset the subset with one more element,
\* holds them all.
LEMMA SubsetInduction ==
  ASSUME NEW S, IsFiniteSet(S), NEW Good, {} \in Good,
         \A T \in SUBSET S : \A x \in S \ T : T \in Good => T \cup {x} \in Good
  PROVE  SUBSET S \subseteq Good
<1> DEFINE Bad == (SUBSET S) \ Good
           Sizes == {Cardinality(T) : T \in Bad}
<1> SUFFICES ASSUME Bad # {} PROVE FALSE
  OBVIOUS
<1>1. \A T \in SUBSET S : IsFiniteSet(T) /\ Cardinality(T) \in Nat
  BY FS_Subset, FS_CardinalityType
<1>2. PICK n \in Sizes : \A m \in Sizes : n <= m
  <2>1. Sizes \in SUBSET Nat /\ Sizes # {}
    BY <1>1
  <2> HIDE DEF Sizes
  <2> QED BY <2>1, LeastNumber
<1>3. PICK T \in Bad : n = Cardinality(T)
  BY <1>2
<1>4. PICK x : x \in T
  BY <1>3
<1>5. T \ {x} \in SUBSET S /\ Cardinality(T \ {x}) = Cardinality(T) - 1
  BY <1>1, <1>3, <1>4, FS_RemoveElement
<1>6. T \ {x} \in Good
  <2> SUFFICES ASSUME T \ {x} \in Bad PROVE FALSE
    BY <1>5
  <2>1. n <= Cardinality(T \ {x})
    BY <1>2
  <2> QED BY <2>1, <1>1, <1>3, <1>5
<1>7. (T \ {x}) \cup {x} \in Good
  BY <1>3, <1>4, <1>5, <1>6
<1>8. (T \ {x}) \cup {x} = T
  BY <1>4
<1> QED BY <1>3, <1>7, <1>8

\* Among finitely many things with numbers one has the greatest.
LEMMA Greatest ==
  ASSUME NEW S, IsFiniteSet(S), S # {}, NEW v, \A x \in S : v[x] \in Nat
  PROVE  \E x \in S : \A y \in S : v[y] <= v[x]
<1> DEFINE Good == {T \in SUBSET S : T = {} \/ \E x \in T : \A y \in T : v[y] <= v[x]}
<1>1. {} \in Good
  OBVIOUS
<1>2. ASSUME NEW T \in SUBSET S, NEW z \in S \ T, T \in Good PROVE T \cup {z} \in Good
  <2>1. CASE T = {}
    <3>1. \A y \in T \cup {z} : v[y] <= v[z]
      BY <2>1
    <3> QED BY <3>1
  <2>2. CASE \E x \in T : \A y \in T : v[y] <= v[x]
    <3>1. PICK x \in T : \A y \in T : v[y] <= v[x]
      BY <2>2
    <3>2. CASE v[z] <= v[x]
      <4>1. \A y \in T \cup {z} : v[y] <= v[x]
        BY <3>1, <3>2
      <4> QED BY <4>1
    <3>3. CASE ~(v[z] <= v[x])
      <4>1. \A y \in T \cup {z} : v[y] <= v[z]
        BY <3>1, <3>3
      <4> QED BY <4>1
    <3> QED BY <3>2, <3>3
  <2> QED BY <1>2, <2>1, <2>2
<1>3. S \in Good
  <2> HIDE DEF Good
  <2> QED BY <1>1, <1>2, SubsetInduction
<1> QED BY <1>3

-----------------------------------------------------------------------------
(* The fold. *)

Chosen(S) == CHOOSE x \in S : TRUE

\* g is the function that the fold defines by recursion on the subsets of S.
IsFold(g, f, S) ==
  g = [T \in SUBSET S |-> IF T = {} THEN 0 ELSE f[Chosen(T)] + g[T \ {Chosen(T)}]]

\* What g defines for the subsets of at most n elements.
IsFoldUpTo(n, g, f, S) ==
  g = [T \in SUBSET S |-> IF T = {} \/ Cardinality(T) > n THEN 0
                          ELSE f[Chosen(T)] + g[T \ {Chosen(T)}]]

\* The choice from a set that is not empty is one of its elements.
LEMMA ChosenIs == ASSUME NEW S, S # {} PROVE Chosen(S) \in S
  BY DEF Chosen

\* The sum as the community modules define it is the fold over the whole set.
LEMMA SumIsFold ==
  ASSUME NEW f, NEW S
  PROVE  SumFunctionOnSet(f, S) = (CHOOSE g : IsFold(g, f, S))[S]
  BY DEF SumFunctionOnSet, FoldFunctionOnSet, MapThenFoldSet, IsFold, Chosen

\* The recursion defines a function.
LEMMA FoldExists ==
  ASSUME NEW f, NEW S, IsFiniteSet(S)
  PROVE  \E g : IsFold(g, f, S)
<1> DEFINE Good == {n \in Nat : \E g : IsFoldUpTo(n, g, f, S)}
<1>1. \A T \in SUBSET S : IsFiniteSet(T) /\ Cardinality(T) \in Nat /\ Cardinality(T) <= Cardinality(S)
  BY FS_Subset, FS_CardinalityType
<1>2. \A T \in SUBSET S : Cardinality(T) = 0 <=> T = {}
  BY <1>1, FS_EmptySet
<1>3. \A T \in SUBSET S : T # {} =>
        T \ {Chosen(T)} \in SUBSET S /\ Cardinality(T \ {Chosen(T)}) = Cardinality(T) - 1
  BY <1>1, ChosenIs, FS_RemoveElement
<1>4. 0 \in Good
  <2>1. IsFoldUpTo(0, [T \in SUBSET S |-> 0], f, S)
    BY <1>1, <1>2 DEF IsFoldUpTo
  <2> QED BY <2>1
<1>5. ASSUME NEW n \in Nat, n \in Good PROVE n + 1 \in Good
  <2>1. PICK g : IsFoldUpTo(n, g, f, S)
    BY <1>5
  <2> DEFINE h == [T \in SUBSET S |-> IF Cardinality(T) <= n THEN g[T]
                                      ELSE IF Cardinality(T) > n + 1 THEN 0
                                      ELSE f[Chosen(T)] + g[T \ {Chosen(T)}]]
  <2>2. ASSUME NEW T \in SUBSET S
        PROVE  h[T] = IF T = {} \/ Cardinality(T) > n + 1 THEN 0
                      ELSE f[Chosen(T)] + h[T \ {Chosen(T)}]
    <3> DEFINE rest == T \ {Chosen(T)}
    <3>1. CASE T = {}
      <4>1. Cardinality(T) <= n /\ g[T] = 0
        BY <3>1, <2>1, <1>2 DEF IsFoldUpTo
      <4> QED BY <3>1, <4>1
    <3>2. CASE T # {} /\ Cardinality(T) <= n + 1
      <4>1. rest \in SUBSET S /\ Cardinality(rest) <= n /\ h[rest] = g[rest]
        BY <1>1, <1>3, <3>2
      <4>2. g[T] = IF T = {} \/ Cardinality(T) > n THEN 0 ELSE f[Chosen(T)] + g[rest]
        BY <2>1 DEF IsFoldUpTo
      <4>3. Cardinality(T) <= n => ~(Cardinality(T) > n)
        BY <1>1
      <4>4. Cardinality(T) <= n => g[T] = f[Chosen(T)] + g[rest]
        BY <3>2, <4>2, <4>3
      <4> QED BY <1>1, <3>2, <4>1, <4>4
    <3>3. CASE T # {} /\ Cardinality(T) > n + 1
      BY <1>1, <3>3
    <3> QED BY <1>1, <3>1, <3>2, <3>3
  <2>3. IsFoldUpTo(n + 1, h, f, S)
    <3>1. h = [T \in SUBSET S |-> h[T]]
      OBVIOUS
    <3> HIDE DEF h
    <3> QED BY <2>2, <3>1 DEF IsFoldUpTo
  <2> QED BY <2>3
<1>6. Cardinality(S) \in Good
  <2> HIDE DEF Good
  <2>1. Nat \subseteq Good
    BY <1>4, <1>5, NumberInduction
  <2> QED BY <2>1, <1>1
<1>7. PICK g : IsFoldUpTo(Cardinality(S), g, f, S)
  BY <1>6
<1>8. IsFold(g, f, S)
  <2>1. \A T \in SUBSET S : ~(Cardinality(T) > Cardinality(S))
    BY <1>1
  <2>2. g = [T \in SUBSET S |-> IF T = {} \/ Cardinality(T) > Cardinality(S) THEN 0
                               ELSE f[Chosen(T)] + g[T \ {Chosen(T)}]]
    BY <1>7 DEF IsFoldUpTo
  <2>3. g = [T \in SUBSET S |-> IF T = {} THEN 0 ELSE f[Chosen(T)] + g[T \ {Chosen(T)}]]
    BY ONLY <2>1, <2>2, Zenon
  <2> QED BY <2>3 DEF IsFold
<1> QED BY <1>8

\* Two folds of the same values agree on the sets both know.
LEMMA FoldsAgree ==
  ASSUME NEW f, NEW g, NEW h, NEW S, NEW T \in SUBSET S, IsFiniteSet(S),
         IsFold(g, f, S), IsFold(h, f, T)
  PROVE  g[T] = h[T]
<1> DEFINE Bad == {U \in SUBSET T : g[U] # h[U]}
           Sizes == {Cardinality(U) : U \in Bad}
<1> SUFFICES ASSUME Bad # {} PROVE FALSE
  OBVIOUS
<1>1. \A U \in SUBSET T : IsFiniteSet(U) /\ Cardinality(U) \in Nat
  BY FS_Subset, FS_CardinalityType
<1>2. PICK n \in Sizes : \A m \in Sizes : n <= m
  <2>1. Sizes \in SUBSET Nat /\ Sizes # {}
    BY <1>1
  <2> HIDE DEF Sizes
  <2> QED BY <2>1, LeastNumber
<1>3. PICK U \in Bad : n = Cardinality(U)
  BY <1>2
<1>4. U # {}
  BY <1>3 DEF IsFold
<1> DEFINE V == U \ {Chosen(U)}
<1>5. V \in SUBSET T /\ Cardinality(V) = Cardinality(U) - 1
  BY <1>1, <1>3, <1>4, ChosenIs, FS_RemoveElement
<1>6. V \notin Bad
  <2> SUFFICES ASSUME V \in Bad PROVE FALSE
    OBVIOUS
  <2>1. n <= Cardinality(V)
    BY <1>2
  <2> QED BY <2>1, <1>1, <1>3, <1>5
<1>7. g[U] = f[Chosen(U)] + g[V] /\ h[U] = f[Chosen(U)] + h[V]
  BY <1>3, <1>4 DEF IsFold
<1> QED BY <1>3, <1>5, <1>6, <1>7

\* The recursion that the definition of the sum means.
LEMMA SumStep ==
  ASSUME NEW f, NEW S, IsFiniteSet(S)
  PROVE  SumFunctionOnSet(f, S)
           = IF S = {} THEN 0 ELSE f[Chosen(S)] + SumFunctionOnSet(f, S \ {Chosen(S)})
<1> DEFINE g == CHOOSE g : IsFold(g, f, S)
           R == S \ {Chosen(S)}
           h == CHOOSE h : IsFold(h, f, R)
<1>1. IsFold(g, f, S)
  BY FoldExists
<1>2. R \in SUBSET S /\ IsFiniteSet(R)
  BY FS_Subset
<1>3. IsFold(h, f, R)
  BY <1>2, FoldExists
<1>4. SumFunctionOnSet(f, S) = g[S] /\ SumFunctionOnSet(f, R) = h[R]
  BY SumIsFold
<1> HIDE DEF g, h
<1>5. g[R] = h[R]
  BY <1>1, <1>2, <1>3, FoldsAgree
<1>6. g[S] = IF S = {} THEN 0 ELSE f[Chosen(S)] + g[R]
  BY <1>1 DEF IsFold
<1> QED BY <1>4, <1>5, <1>6

-----------------------------------------------------------------------------
(* What there is to know of a sum. *)

\* The sum over nothing is 0.
LEMMA SumEmpty == ASSUME NEW f PROVE SumFunctionOnSet(f, {}) = 0
  BY SumStep, FS_EmptySet

\* A sum of integers is one.
LEMMA SumType ==
  ASSUME NEW S, IsFiniteSet(S), NEW f, \A x \in S : f[x] \in Int
  PROVE  SumFunctionOnSet(f, S) \in Int
<1> DEFINE Good == {T \in SUBSET S : SumFunctionOnSet(f, T) \in Int}
<1>1. \A T \in SUBSET S : IsFiniteSet(T)
  BY FS_Subset
<1> DEFINE Sizes == {Cardinality(T) : T \in (SUBSET S) \ Good}
<1> SUFFICES ASSUME S \notin Good PROVE FALSE
  OBVIOUS
<1>2. \A T \in SUBSET S : Cardinality(T) \in Nat
  BY <1>1, FS_CardinalityType
<1>3. PICK n \in Sizes : \A m \in Sizes : n <= m
  <2>1. Sizes \in SUBSET Nat /\ Sizes # {}
    BY <1>2
  <2> HIDE DEF Sizes
  <2> QED BY <2>1, LeastNumber
<1>4. PICK T \in (SUBSET S) \ Good : n = Cardinality(T)
  BY <1>3
<1>5. T # {}
  BY <1>4, SumEmpty
<1> DEFINE R == T \ {Chosen(T)}
<1>6. Chosen(T) \in S /\ R \in SUBSET S /\ Cardinality(R) = Cardinality(T) - 1
  BY <1>1, <1>4, <1>5, ChosenIs, FS_RemoveElement
<1>7. R \in Good
  <2> SUFFICES ASSUME R \in (SUBSET S) \ Good PROVE FALSE
    BY <1>6
  <2>1. n <= Cardinality(R)
    BY <1>3
  <2> QED BY <2>1, <1>2, <1>4, <1>6
<1>8. SumFunctionOnSet(f, T) = f[Chosen(T)] + SumFunctionOnSet(f, R)
  BY <1>1, <1>4, <1>5, SumStep
<1>9. SumFunctionOnSet(f, T) \in Int
  BY <1>6, <1>7, <1>8
<1> QED BY <1>4, <1>9

\* The fold may take any element first.
LEMMA SumTake ==
  ASSUME NEW S, IsFiniteSet(S), NEW f, \A x \in S : f[x] \in Int, NEW x \in S
  PROVE  SumFunctionOnSet(f, S) = f[x] + SumFunctionOnSet(f, S \ {x})
<1> DEFINE Sum(T) == SumFunctionOnSet(f, T)
           Free(T) == \A y \in T : Sum(T) = f[y] + Sum(T \ {y})
           Bad == {T \in SUBSET S : ~Free(T)}
           Sizes == {Cardinality(T) : T \in Bad}
<1> SUFFICES ASSUME Bad # {} PROVE FALSE
  OBVIOUS
<1>1. \A T \in SUBSET S : IsFiniteSet(T) /\ Cardinality(T) \in Nat /\ Sum(T) \in Int
  BY FS_Subset, FS_CardinalityType, SumType
<1>2. PICK n \in Sizes : \A m \in Sizes : n <= m
  <2>1. Sizes \in SUBSET Nat /\ Sizes # {}
    BY <1>1
  <2> HIDE DEF Sizes
  <2> QED BY <2>1, LeastNumber
<1>3. PICK T \in Bad : n = Cardinality(T)
  BY <1>2
<1>4. PICK y \in T : Sum(T) # f[y] + Sum(T \ {y})
  BY <1>3
<1> DEFINE c == Chosen(T)
<1>5. c \in T /\ Sum(T) = f[c] + Sum(T \ {c})
  BY <1>1, <1>3, <1>4, ChosenIs, SumStep
<1>6. y # c
  BY <1>4, <1>5
<1> HIDE DEF c
<1>7. ASSUME NEW z \in T PROVE Free(T \ {z})
  <2>1. T \ {z} \in SUBSET S /\ Cardinality(T \ {z}) = Cardinality(T) - 1
    BY <1>1, <1>3, FS_RemoveElement
  <2>2. T \ {z} \notin Bad
    <3> SUFFICES ASSUME T \ {z} \in Bad PROVE FALSE
      OBVIOUS
    <3>1. n <= Cardinality(T \ {z})
      BY <1>2
    <3> QED BY <3>1, <1>1, <1>3, <2>1
  <2> QED BY <2>1, <2>2
<1>8. Sum(T \ {c}) = f[y] + Sum((T \ {c}) \ {y}) /\ Sum(T \ {y}) = f[c] + Sum((T \ {y}) \ {c})
  BY <1>4, <1>5, <1>6, <1>7
<1>9. (T \ {c}) \ {y} = (T \ {y}) \ {c}
  OBVIOUS
<1>10. f[y] \in Int /\ f[c] \in Int /\ Sum((T \ {c}) \ {y}) \in Int
  BY <1>1, <1>3, <1>4, <1>5
<1>11. Sum(T \ {y}) = f[c] + Sum((T \ {c}) \ {y})
  BY <1>8, <1>9
<1>12. Sum(T) = f[c] + (f[y] + Sum((T \ {c}) \ {y}))
  BY <1>5, <1>8
<1> HIDE DEF Sum
<1>13. Sum(T) = f[y] + (f[c] + Sum((T \ {c}) \ {y}))
  BY ONLY <1>10, <1>12
<1> QED BY <1>4, <1>11, <1>13

\* The sum over one element is that.
LEMMA SumOne ==
  ASSUME NEW f, NEW x, f[x] \in Int
  PROVE  SumFunctionOnSet(f, {x}) = f[x]
<1>1. SumFunctionOnSet(f, {x}) = f[x] + SumFunctionOnSet(f, {x} \ {x})
  BY SumTake, FS_Singleton
<1>2. {x} \ {x} = {}
  OBVIOUS
<1> QED BY <1>1, <1>2, SumEmpty

\* Sums of equal summands are equal.
LEMMA SumSame ==
  ASSUME NEW S, IsFiniteSet(S), NEW f, NEW g, \A x \in S : f[x] \in Int /\ g[x] = f[x]
  PROVE  SumFunctionOnSet(g, S) = SumFunctionOnSet(f, S)
<1> DEFINE Good == {T \in SUBSET S : SumFunctionOnSet(g, T) = SumFunctionOnSet(f, T)}
<1>1. {} \in Good
  BY SumEmpty
<1>2. ASSUME NEW T \in SUBSET S, NEW x \in S \ T, T \in Good PROVE T \cup {x} \in Good
  <2> DEFINE U == T \cup {x}
  <2>1. IsFiniteSet(U) /\ U \in SUBSET S /\ U \ {x} = T /\ x \in U
    BY FS_Subset
  <2>2. \A y \in U : f[y] \in Int /\ g[y] \in Int
    BY <2>1
  <2> HIDE DEF U
  <2>3. /\ SumFunctionOnSet(f, U) = f[x] + SumFunctionOnSet(f, U \ {x})
        /\ SumFunctionOnSet(g, U) = g[x] + SumFunctionOnSet(g, U \ {x})
    BY <2>1, <2>2, SumTake
  <2> QED BY <1>2, <2>1, <2>3 DEF U
<1> HIDE DEF Good
<1>3. SUBSET S \subseteq Good
  BY <1>1, <1>2, SubsetInduction
<1> QED BY <1>3 DEF Good

\* A sum of which one summand changes.
LEMMA SumChange ==
  ASSUME NEW S, IsFiniteSet(S), NEW f, NEW g, NEW a \in S,
         \A x \in S : f[x] \in Int /\ g[x] \in Int,
         \A x \in S \ {a} : g[x] = f[x]
  PROVE  SumFunctionOnSet(g, S) = SumFunctionOnSet(f, S) - f[a] + g[a]
<1>1. SumFunctionOnSet(f, S) = f[a] + SumFunctionOnSet(f, S \ {a})
  BY SumTake
<1>2. SumFunctionOnSet(g, S) = g[a] + SumFunctionOnSet(g, S \ {a})
  BY SumTake
<1>3. IsFiniteSet(S \ {a})
  BY FS_Subset
<1>4. SumFunctionOnSet(g, S \ {a}) = SumFunctionOnSet(f, S \ {a}) /\ SumFunctionOnSet(f, S \ {a}) \in Int
  BY <1>3, SumSame, SumType
<1> QED BY <1>1, <1>2, <1>4

\* A sum of natural numbers is one, and is not less than any of them.
LEMMA SumNat ==
  ASSUME NEW S, IsFiniteSet(S), NEW f, \A x \in S : f[x] \in Nat
  PROVE  SumFunctionOnSet(f, S) \in Nat /\ \A x \in S : f[x] <= SumFunctionOnSet(f, S)
<1> DEFINE Good == {T \in SUBSET S : SumFunctionOnSet(f, T) \in Nat}
<1>1. {} \in Good
  BY SumEmpty
<1>2. ASSUME NEW T \in SUBSET S, NEW x \in S \ T, T \in Good PROVE T \cup {x} \in Good
  <2> DEFINE U == T \cup {x}
  <2>1. IsFiniteSet(U) /\ U \in SUBSET S /\ U \ {x} = T /\ x \in U
    BY FS_Subset
  <2>2. \A y \in U : f[y] \in Int
    BY <2>1
  <2> HIDE DEF U
  <2>3. SumFunctionOnSet(f, U) = f[x] + SumFunctionOnSet(f, U \ {x})
    BY <2>1, <2>2, SumTake
  <2>4. f[x] \in Nat /\ SumFunctionOnSet(f, U \ {x}) \in Nat
    BY <1>2, <2>1
  <2>5. SumFunctionOnSet(f, U) \in Nat
    BY ONLY <2>3, <2>4
  <2> QED BY <2>1, <2>5 DEF U
<1> HIDE DEF Good
<1>3. SUBSET S \subseteq Good
  BY <1>1, <1>2, SubsetInduction
<1>4. ASSUME NEW x \in S PROVE f[x] <= SumFunctionOnSet(f, S)
  <2>1. SumFunctionOnSet(f, S) = f[x] + SumFunctionOnSet(f, S \ {x})
    BY SumTake
  <2>2. SumFunctionOnSet(f, S \ {x}) \in Nat
    BY <1>3 DEF Good
  <2> QED BY <2>1, <2>2
<1> QED BY <1>3, <1>4 DEF Good

\* A sum of zeros.
LEMMA SumZero ==
  ASSUME NEW S, IsFiniteSet(S), NEW f, \A x \in S : f[x] = 0
  PROVE  SumFunctionOnSet(f, S) = 0
<1> DEFINE Good == {T \in SUBSET S : SumFunctionOnSet(f, T) = 0}
<1>1. {} \in Good
  BY SumEmpty
<1>2. ASSUME NEW T \in SUBSET S, NEW x \in S \ T, T \in Good PROVE T \cup {x} \in Good
  <2> DEFINE U == T \cup {x}
  <2>1. IsFiniteSet(U) /\ U \in SUBSET S /\ U \ {x} = T /\ x \in U
    BY FS_Subset
  <2>2. \A y \in U : f[y] \in Int
    BY <2>1
  <2> HIDE DEF U
  <2>3. SumFunctionOnSet(f, U) = f[x] + SumFunctionOnSet(f, U \ {x})
    BY <2>1, <2>2, SumTake
  <2> QED BY <1>2, <2>1, <2>3 DEF U
<1> HIDE DEF Good
<1>3. SUBSET S \subseteq Good
  BY <1>1, <1>2, SubsetInduction
<1> QED BY <1>3 DEF Good

\* A sum over two sets that have nothing in common.
LEMMA SumSplit ==
  ASSUME NEW S, IsFiniteSet(S), NEW A \in SUBSET S, NEW f, \A x \in S : f[x] \in Int
  PROVE  SumFunctionOnSet(f, S) = SumFunctionOnSet(f, A) + SumFunctionOnSet(f, S \ A)
<1> DEFINE R == S \ A
           Good == {T \in SUBSET A : SumFunctionOnSet(f, T \cup R)
                                       = SumFunctionOnSet(f, T) + SumFunctionOnSet(f, R)}
<1>1. IsFiniteSet(A) /\ IsFiniteSet(R)
  BY FS_Subset
<1>2. \A T \in SUBSET S : IsFiniteSet(T) /\ SumFunctionOnSet(f, T) \in Int
  BY FS_Subset, SumType
<1>3. {} \in Good
  <2>1. {} \cup R = R /\ SumFunctionOnSet(f, R) \in Int
    BY <1>2
  <2> HIDE DEF R
  <2> QED BY <2>1, SumEmpty
<1>4. ASSUME NEW T \in SUBSET A, NEW x \in A \ T, T \in Good PROVE T \cup {x} \in Good
  <2> DEFINE U == T \cup {x}
             W == U \cup R
  <2>1. U \in SUBSET S /\ U \ {x} = T /\ x \in U /\ W \in SUBSET S /\ W \ {x} = T \cup R /\ x \in W
    OBVIOUS
  <2>2. T \in SUBSET S /\ R \in SUBSET S /\ f[x] \in Int
    OBVIOUS
  <2>3. SumFunctionOnSet(f, T \cup R) = SumFunctionOnSet(f, T) + SumFunctionOnSet(f, R)
    BY <1>4
  <2> HIDE DEF U, W, R
  <2>4. SumFunctionOnSet(f, U) = f[x] + SumFunctionOnSet(f, U \ {x})
    BY <1>2, <2>1, SumTake
  <2>5. SumFunctionOnSet(f, W) = f[x] + SumFunctionOnSet(f, W \ {x})
    BY <1>2, <2>1, SumTake
  <2>6. /\ SumFunctionOnSet(f, W) = f[x] + (SumFunctionOnSet(f, T) + SumFunctionOnSet(f, R))
        /\ SumFunctionOnSet(f, U) = f[x] + SumFunctionOnSet(f, T)
    BY <2>1, <2>3, <2>4, <2>5
  <2>7. f[x] \in Int /\ SumFunctionOnSet(f, T) \in Int /\ SumFunctionOnSet(f, R) \in Int
    BY <1>2, <2>2
  <2>8. SumFunctionOnSet(f, W) = SumFunctionOnSet(f, U) + SumFunctionOnSet(f, R)
    BY ONLY <2>6, <2>7
  <2> QED BY <2>1, <2>8 DEF U, W, R
<1>5. SUBSET A \subseteq Good
  <2> HIDE DEF Good
  <2> QED BY <1>1, <1>3, <1>4, SubsetInduction
<1>6. A \cup R = S
  OBVIOUS
<1> QED BY <1>5, <1>6

\* Sums of smaller summands are smaller.
LEMMA SumLeq ==
  ASSUME NEW S, IsFiniteSet(S), NEW f, NEW g, \A x \in S : f[x] \in Int /\ g[x] \in Int /\ f[x] <= g[x]
  PROVE  SumFunctionOnSet(f, S) <= SumFunctionOnSet(g, S)
<1> DEFINE Good == {T \in SUBSET S : SumFunctionOnSet(f, T) <= SumFunctionOnSet(g, T)}
<1>1. {} \in Good
  BY SumEmpty
<1>2. ASSUME NEW T \in SUBSET S, NEW x \in S \ T, T \in Good PROVE T \cup {x} \in Good
  <2> DEFINE U == T \cup {x}
  <2>1. IsFiniteSet(U) /\ U \in SUBSET S /\ U \ {x} = T /\ x \in U /\ IsFiniteSet(T)
    BY FS_Subset
  <2>2. \A y \in U : f[y] \in Int /\ g[y] \in Int
    BY <2>1
  <2> HIDE DEF U
  <2>3. /\ SumFunctionOnSet(f, U) = f[x] + SumFunctionOnSet(f, U \ {x})
        /\ SumFunctionOnSet(g, U) = g[x] + SumFunctionOnSet(g, U \ {x})
    BY <2>1, <2>2, SumTake
  <2>4. SumFunctionOnSet(f, T) \in Int /\ SumFunctionOnSet(g, T) \in Int
    BY <2>1, SumType
  <2> QED BY <1>2, <2>1, <2>2, <2>3, <2>4 DEF U
<1> HIDE DEF Good
<1>3. SUBSET S \subseteq Good
  BY <1>1, <1>2, SubsetInduction
<1> QED BY <1>3 DEF Good

\* The sum of sums.
LEMMA SumPlus ==
  ASSUME NEW S, IsFiniteSet(S), NEW f, NEW g, NEW h,
         \A x \in S : f[x] \in Int /\ g[x] \in Int /\ h[x] = f[x] + g[x]
  PROVE  SumFunctionOnSet(h, S) = SumFunctionOnSet(f, S) + SumFunctionOnSet(g, S)
<1> DEFINE Good == {T \in SUBSET S : SumFunctionOnSet(h, T)
                                       = SumFunctionOnSet(f, T) + SumFunctionOnSet(g, T)}
<1>1. {} \in Good
  BY SumEmpty
<1>2. ASSUME NEW T \in SUBSET S, NEW x \in S \ T, T \in Good PROVE T \cup {x} \in Good
  <2> DEFINE U == T \cup {x}
  <2>1. IsFiniteSet(U) /\ U \in SUBSET S /\ U \ {x} = T /\ x \in U /\ IsFiniteSet(T)
    BY FS_Subset
  <2>2. \A y \in U : f[y] \in Int /\ g[y] \in Int /\ h[y] \in Int /\ h[y] = f[y] + g[y]
    BY <2>1
  <2> HIDE DEF U
  <2>3. /\ SumFunctionOnSet(f, U) = f[x] + SumFunctionOnSet(f, U \ {x})
        /\ SumFunctionOnSet(g, U) = g[x] + SumFunctionOnSet(g, U \ {x})
        /\ SumFunctionOnSet(h, U) = h[x] + SumFunctionOnSet(h, U \ {x})
    BY <2>1, <2>2, SumTake
  <2>4. SumFunctionOnSet(f, T) \in Int /\ SumFunctionOnSet(g, T) \in Int
    BY <2>1, SumType
  <2>5. /\ SumFunctionOnSet(f, U) = f[x] + SumFunctionOnSet(f, T)
        /\ SumFunctionOnSet(g, U) = g[x] + SumFunctionOnSet(g, T)
        /\ SumFunctionOnSet(h, U) = (f[x] + g[x]) + (SumFunctionOnSet(f, T) + SumFunctionOnSet(g, T))
        /\ f[x] \in Int /\ g[x] \in Int
    BY <1>2, <2>1, <2>2, <2>3
  <2>6. SumFunctionOnSet(h, U) = SumFunctionOnSet(f, U) + SumFunctionOnSet(g, U)
    BY ONLY <2>4, <2>5
  <2> QED BY <2>1, <2>6 DEF U
<1> HIDE DEF Good
<1>3. SUBSET S \subseteq Good
  BY <1>1, <1>2, SubsetInduction
<1> QED BY <1>3 DEF Good

\* The sum of equal summands.
LEMMA SumConst ==
  ASSUME NEW S, IsFiniteSet(S), NEW c \in Int, NEW f, \A x \in S : f[x] = c
  PROVE  SumFunctionOnSet(f, S) = c * Cardinality(S)
<1> DEFINE Good == {T \in SUBSET S : SumFunctionOnSet(f, T) = c * Cardinality(T)}
<1>1. {} \in Good
  BY SumEmpty, FS_EmptySet
<1>2. ASSUME NEW T \in SUBSET S, NEW x \in S \ T, T \in Good PROVE T \cup {x} \in Good
  <2> DEFINE U == T \cup {x}
  <2>1. IsFiniteSet(U) /\ U \in SUBSET S /\ U \ {x} = T /\ x \in U /\ IsFiniteSet(T)
    BY FS_Subset
  <2>2. \A y \in U : f[y] \in Int
    BY <2>1
  <2>3. Cardinality(U) = Cardinality(T) + 1
    BY <2>1, FS_AddElement
  <2> HIDE DEF U
  <2>4. SumFunctionOnSet(f, U) = f[x] + SumFunctionOnSet(f, U \ {x})
    BY <2>1, <2>2, SumTake
  <2>5. SumFunctionOnSet(f, U) = c + c * Cardinality(T)
    BY <1>2, <2>1, <2>4
  <2>6. c + c * Cardinality(T) = c * (Cardinality(T) + 1)
    <3>1. Cardinality(T) \in Nat
      BY <2>1, FS_CardinalityType
    <3> QED BY ONLY <3>1, c \in Int
  <2>7. SumFunctionOnSet(f, U) = c * Cardinality(U)
    BY ONLY <2>3, <2>5, <2>6
  <2> QED BY <2>1, <2>7 DEF U
<1> HIDE DEF Good
<1>3. SUBSET S \subseteq Good
  BY <1>1, <1>2, SubsetInduction
<1> QED BY <1>3 DEF Good

\* A sum falls by at least what falls on a part of the set.
LEMMA SumDrop ==
  ASSUME NEW S, IsFiniteSet(S), NEW T \in SUBSET S, NEW f, NEW g, NEW h,
         \A x \in S : f[x] \in Int /\ g[x] \in Int,
         \A x \in T : h[x] \in Int /\ g[x] + h[x] <= f[x],
         \A x \in S \ T : g[x] = f[x]
  PROVE  SumFunctionOnSet(g, S) + SumFunctionOnSet(h, T) <= SumFunctionOnSet(f, S)
<1> DEFINE k == [x \in T |-> g[x] + h[x]]
           R == S \ T
<1>1. IsFiniteSet(T) /\ IsFiniteSet(R)
  BY FS_Subset
<1>2. \A x \in T : g[x] \in Int /\ h[x] \in Int /\ k[x] = g[x] + h[x] /\ k[x] \in Int /\ k[x] <= f[x] /\ f[x] \in Int
  OBVIOUS
<1>3. \A x \in R : f[x] \in Int /\ g[x] = f[x]
  OBVIOUS
<1>4. SumFunctionOnSet(f, S) = SumFunctionOnSet(f, T) + SumFunctionOnSet(f, R)
  BY SumSplit
<1>5. SumFunctionOnSet(g, S) = SumFunctionOnSet(g, T) + SumFunctionOnSet(g, R)
  BY SumSplit
<1> HIDE DEF k, R
<1>6. SumFunctionOnSet(k, T) = SumFunctionOnSet(g, T) + SumFunctionOnSet(h, T)
  BY <1>1, <1>2, SumPlus
<1>7. SumFunctionOnSet(k, T) <= SumFunctionOnSet(f, T)
  BY <1>1, <1>2, SumLeq
<1>8. SumFunctionOnSet(g, R) = SumFunctionOnSet(f, R)
  BY <1>1, <1>3, SumSame
<1>9. /\ SumFunctionOnSet(f, T) \in Int /\ SumFunctionOnSet(g, T) \in Int /\ SumFunctionOnSet(h, T) \in Int
      /\ SumFunctionOnSet(f, R) \in Int
  BY <1>1, <1>2, <1>3, SumType
<1> QED BY <1>4, <1>5, <1>6, <1>7, <1>8, <1>9
=============================================================================
