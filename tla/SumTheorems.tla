---------------------------- MODULE SumTheorems -----------------------------
(***************************************************************************)
(* Sums over finite sets: what SumFunctionOnSet of the community module    *)
(* Functions computes.  It is a fold that removes one chosen element after *)
(* the other; the lemmas show that the sum exists, does not depend on that *)
(* order, and changes by d when one of its terms does.                     *)
(*                                                                         *)
(* Every induction is a proof by a smallest counterexample, which needs no *)
(* induction rule with an operator as its parameter.                       *)
(***************************************************************************)
EXTENDS Integers, FiniteSets, Functions, FiniteSetTheorems, WellFoundedInduction, TLAPS

-----------------------------------------------------------------------------
(* Smallest counterexamples *)

\* A non-empty set of naturals has a least element.
LEMMA LeastNumber ==
    ASSUME NEW T, T \subseteq Nat, T # {}
    PROVE  \E n \in T : \A m \in T : n <= m
  <1> DEFINE R == OpToRel(<, Nat)
  <1>1. IsWellFoundedOn(R, Nat)
    BY NatLessThanWellFounded
  <1>2. \A m, n \in Nat : m < n => <<m, n>> \in R
    BY DEF OpToRel
  <1> HIDE DEF R
  <1>3. PICK n \in T : \A m \in T : ~(<<m, n>> \in R)
    BY <1>1, WFMin
  <1>4. ASSUME NEW m \in T PROVE n <= m
    <2>1. ~(m < n)
      BY <1>2, <1>3
    <2> QED
      BY <2>1
  <1> QED
    BY <1>4

\* A non-empty set of finite sets has an element with no strict subset in it.
LEMMA SmallestSet ==
    ASSUME NEW C, C # {}, \A T \in C : IsFiniteSet(T)
    PROVE  \E T \in C : \A x \in T : T \ {x} \notin C
  <1> DEFINE sizes == {Cardinality(T) : T \in C}
  <1>1. sizes \subseteq Nat /\ sizes # {}
    BY FS_CardinalityType
  <1>2. PICK n \in sizes : \A m \in sizes : n <= m
    <2> HIDE DEF sizes
    <2> QED
      BY <1>1, LeastNumber
  <1>3. PICK T \in C : Cardinality(T) = n
    OBVIOUS
  <1>4. ASSUME NEW x \in T, T \ {x} \in C PROVE FALSE
    <2>1. Cardinality(T \ {x}) = Cardinality(T) - 1
      BY FS_RemoveElement
    <2>2. n <= Cardinality(T \ {x})
      BY <1>2, <1>4
    <2> QED
      BY <1>1, <1>3, <2>1, <2>2
  <1> QED
    BY <1>4

-----------------------------------------------------------------------------
(* The recursive function behind the sum *)

\* The element the fold takes next.
Pick(T) == CHOOSE x \in T : TRUE

\* One step of the recursion, for the terms f.
Unfold(g, f, S) ==
    [T \in SUBSET S |-> IF T = {} THEN 0 ELSE f[Pick(T)] + g[T \ {Pick(T)}]]

Unfolds(g, f, S) == g = Unfold(g, f, S)

IntegerOn(f, S) == \A x \in S : f[x] \in Int

SameOn(f, e, S) == \A x \in S : f[x] = e[x]

\* The choice is an element of the set.
LEMMA PickIsMember == ASSUME NEW T, T # {} PROVE Pick(T) \in T
  BY DEF Pick

\* SumFunctionOnSet is the value at S of a function that satisfies the recursion,
\* if there is one.
LEMMA SumIsChosen ==
    ASSUME NEW f, NEW S
    PROVE  SumFunctionOnSet(f, S) = (CHOOSE g : Unfolds(g, f, S))[S]
  BY DEF SumFunctionOnSet, FoldFunctionOnSet, MapThenFoldSet, Unfolds, Unfold, Pick

\* There is one: n applications of the step are right for all sets of at most n
\* elements.
LEMMA UnfoldingExists ==
    ASSUME NEW S, IsFiniteSet(S), NEW f, IntegerOn(f, S)
    PROVE  \E g : Unfolds(g, f, S)
  <1> DEFINE Small(n) == {T \in SUBSET S : Cardinality(T) <= n}
             Good(g, n) == /\ g \in [SUBSET S -> Int]
                           /\ \A T \in Small(n) : g[T] = Unfold(g, f, S)[T]
  <1>0. \A T \in SUBSET S : IsFiniteSet(T) /\ Cardinality(T) \in Nat
    BY FS_Subset, FS_CardinalityType
  <1>1. ASSUME NEW g \in [SUBSET S -> Int] PROVE Unfold(g, f, S) \in [SUBSET S -> Int]
    <2>1. \A T \in SUBSET S : T # {} =>
              f[Pick(T)] \in Int /\ g[T \ {Pick(T)}] \in Int
      BY PickIsMember DEF IntegerOn
    <2> QED
      BY <2>1 DEF Unfold
  <1>2. Good([T \in SUBSET S |-> 0], 0)
    <2>1. \A T \in Small(0) : T = {}
      BY <1>0, FS_EmptySet
    <2> QED
      BY <2>1 DEF Unfold
  <1>3. ASSUME NEW n \in Nat, NEW g, Good(g, n) PROVE Good(Unfold(g, f, S), n + 1)
    <2>1. SUFFICES ASSUME NEW T \in Small(n + 1)
                   PROVE  Unfold(g, f, S)[T] = Unfold(Unfold(g, f, S), f, S)[T]
      BY <1>1, <1>3
    <2>2. CASE T = {}
      BY <2>2 DEF Unfold
    <2>3. CASE T # {}
      <3>1. Pick(T) \in T
        BY <2>3, PickIsMember
      <3>2. Cardinality(T \ {Pick(T)}) = Cardinality(T) - 1
        BY <1>0, <3>1, FS_RemoveElement
      <3>3. T \ {Pick(T)} \in Small(n)
        BY <1>0, <3>2
      <3>4. Unfold(g, f, S)[T \ {Pick(T)}] = g[T \ {Pick(T)}]
        BY <1>3, <3>3
      <3> QED
        BY <2>3, <3>4 DEF Unfold
    <2> QED
      BY <2>2, <2>3
  <1>4. \A n \in Nat : \E g : Good(g, n)
    <2> DEFINE Bad == {n \in Nat : ~ \E g : Good(g, n)}
    <2> HIDE DEF Good
    <2>1. SUFFICES ASSUME Bad # {} PROVE FALSE
      OBVIOUS
    <2>2. PICK n \in Bad : \A m \in Bad : n <= m
      BY <2>1, LeastNumber
    <2>3. n # 0
      BY <1>2
    <2>4. n - 1 \in Nat /\ n - 1 \notin Bad
      BY <2>2, <2>3
    <2>5. PICK g : Good(g, n - 1)
      BY <2>4
    <2>6. Good(Unfold(g, f, S), (n - 1) + 1)
      BY <1>3, <2>4, <2>5
    <2>7. (n - 1) + 1 = n
      OBVIOUS
    <2> QED
      BY <2>6, <2>7
  <1>5. PICK g : Good(g, Cardinality(S))
    BY <1>0, <1>4
  <1>6. Small(Cardinality(S)) = SUBSET S
    BY FS_Subset
  <1>7. g = Unfold(g, f, S)
    BY <1>5, <1>6 DEF Unfold
  <1> QED
    BY <1>7 DEF Unfolds

\* Its values are integers,
LEMMA UnfoldingType ==
    ASSUME NEW S, IsFiniteSet(S), NEW f, IntegerOn(f, S), NEW g, Unfolds(g, f, S)
    PROVE  \A T \in SUBSET S : g[T] \in Int
  <1> DEFINE Bad == {T \in SUBSET S : g[T] \notin Int}
  <1>1. SUFFICES ASSUME Bad # {} PROVE FALSE
    OBVIOUS
  <1>2. \A T \in Bad : IsFiniteSet(T)
    BY FS_Subset
  <1>3. PICK T \in Bad : \A x \in T : T \ {x} \notin Bad
    <2> HIDE DEF Bad
    <2> QED
      BY <1>1, <1>2, SmallestSet
  <1>4. g[T] = IF T = {} THEN 0 ELSE f[Pick(T)] + g[T \ {Pick(T)}]
    BY DEF Unfolds, Unfold
  <1>5. CASE T = {}
    BY <1>4, <1>5
  <1>6. CASE T # {}
    <2>1. Pick(T) \in T
      BY <1>6, PickIsMember
    <2>2. g[T \ {Pick(T)}] \in Int /\ f[Pick(T)] \in Int
      BY <1>3, <2>1 DEF IntegerOn
    <2> QED
      BY <1>4, <1>6, <2>2
  <1> QED
    BY <1>5, <1>6

\* and depend on the terms of the set only.
LEMMA UnfoldingUnique ==
    ASSUME NEW S, NEW R, NEW T \in SUBSET S, T \in SUBSET R, IsFiniteSet(T),
           NEW f, NEW e, SameOn(f, e, T),
           NEW g, Unfolds(g, f, S), NEW h, Unfolds(h, e, R)
    PROVE  g[T] = h[T]
  <1> DEFINE Bad == {U \in SUBSET T : g[U] # h[U]}
  <1>1. SUFFICES ASSUME Bad # {} PROVE FALSE
    OBVIOUS
  <1>2. \A U \in Bad : IsFiniteSet(U)
    BY FS_Subset
  <1>3. PICK U \in Bad : \A x \in U : U \ {x} \notin Bad
    <2> HIDE DEF Bad
    <2> QED
      BY <1>1, <1>2, SmallestSet
  <1>4. /\ g[U] = IF U = {} THEN 0 ELSE f[Pick(U)] + g[U \ {Pick(U)}]
        /\ h[U] = IF U = {} THEN 0 ELSE e[Pick(U)] + h[U \ {Pick(U)}]
    <2>1. U \in SUBSET S /\ U \in SUBSET R
      OBVIOUS
    <2> QED
      BY <2>1 DEF Unfolds, Unfold
  <1>5. CASE U = {}
    BY <1>4, <1>5
  <1>6. CASE U # {}
    <2>1. Pick(U) \in U
      BY <1>6, PickIsMember
    <2>2. g[U \ {Pick(U)}] = h[U \ {Pick(U)}] /\ f[Pick(U)] = e[Pick(U)]
      BY <1>3, <2>1 DEF SameOn
    <2> QED
      BY <1>4, <1>6, <2>2
  <1> QED
    BY <1>5, <1>6

-----------------------------------------------------------------------------
(* Sums *)

\* The sum over the subsets of S satisfies the recursion.
LEMMA SumUnfolding ==
    ASSUME NEW S, IsFiniteSet(S), NEW f, IntegerOn(f, S)
    PROVE  \E g : /\ Unfolds(g, f, S)
                  /\ \A T \in SUBSET S : g[T] = SumFunctionOnSet(f, T)
  <1>1. PICK g : Unfolds(g, f, S)
    BY UnfoldingExists
  <1>2. ASSUME NEW T \in SUBSET S PROVE g[T] = SumFunctionOnSet(f, T)
    <2>1. IsFiniteSet(T) /\ IntegerOn(f, T)
      BY FS_Subset DEF IntegerOn
    <2> DEFINE h == CHOOSE h : Unfolds(h, f, T)
    <2>2. Unfolds(h, f, T)
      BY <2>1, UnfoldingExists
    <2>3. h[T] = SumFunctionOnSet(f, T)
      BY SumIsChosen
    <2> HIDE DEF h
    <2>4. T \in SUBSET T /\ SameOn(f, f, T)
      BY DEF SameOn
    <2>5. g[T] = h[T]
      BY <1>1, <2>1, <2>2, <2>4, UnfoldingUnique
    <2> QED
      BY <2>3, <2>5
  <1> QED
    BY <1>1, <1>2

\* The sum of no terms is 0.
LEMMA SumEmpty == ASSUME NEW f PROVE SumFunctionOnSet(f, {}) = 0
  <1>1. IsFiniteSet({}) /\ IntegerOn(f, {})
    BY FS_EmptySet DEF IntegerOn
  <1>2. PICK g : Unfolds(g, f, {}) /\ \A T \in SUBSET {} : g[T] = SumFunctionOnSet(f, T)
    BY <1>1, SumUnfolding
  <1>3. g[{}] = 0
    BY <1>2 DEF Unfolds, Unfold
  <1> QED
    BY <1>2, <1>3

\* The sum of integers is an integer.
LEMMA SumType ==
    ASSUME NEW S, IsFiniteSet(S), NEW f, IntegerOn(f, S)
    PROVE  SumFunctionOnSet(f, S) \in Int
  <1>1. PICK g : Unfolds(g, f, S) /\ \A T \in SUBSET S : g[T] = SumFunctionOnSet(f, T)
    BY SumUnfolding
  <1>2. g[S] \in Int
    BY <1>1, UnfoldingType
  <1> QED
    BY <1>1, <1>2

\* Functions with the same values on S have the same sum over it.
LEMMA SumSame ==
    ASSUME NEW S, IsFiniteSet(S), NEW f, NEW e, IntegerOn(f, S), SameOn(f, e, S)
    PROVE  SumFunctionOnSet(f, S) = SumFunctionOnSet(e, S)
  <1>0. IntegerOn(e, S)
    BY DEF IntegerOn, SameOn
  <1>1. PICK g : Unfolds(g, f, S) /\ \A T \in SUBSET S : g[T] = SumFunctionOnSet(f, T)
    BY SumUnfolding
  <1>2. PICK h : Unfolds(h, e, S) /\ \A T \in SUBSET S : h[T] = SumFunctionOnSet(e, T)
    BY <1>0, SumUnfolding
  <1>3. S \in SUBSET S
    OBVIOUS
  <1>4. g[S] = h[S]
    BY <1>1, <1>2, <1>3, UnfoldingUnique
  <1> QED
    BY <1>1, <1>2, <1>4

\* The fold takes the chosen element off first.
LEMMA SumPick ==
    ASSUME NEW S, IsFiniteSet(S), NEW f, IntegerOn(f, S), S # {}
    PROVE  SumFunctionOnSet(f, S) = f[Pick(S)] + SumFunctionOnSet(f, S \ {Pick(S)})
  <1>1. PICK g : Unfolds(g, f, S) /\ \A T \in SUBSET S : g[T] = SumFunctionOnSet(f, T)
    BY SumUnfolding
  <1>2. g[S] = f[Pick(S)] + g[S \ {Pick(S)}]
    BY <1>1 DEF Unfolds, Unfold
  <1> QED
    BY <1>1, <1>2

\* Any element may be taken off: the order of the fold does not matter.
LEMMA SumRemove ==
    ASSUME NEW S, IsFiniteSet(S), NEW f, IntegerOn(f, S), NEW x \in S
    PROVE  SumFunctionOnSet(f, S) = f[x] + SumFunctionOnSet(f, S \ {x})
  <1> DEFINE Sum(T) == SumFunctionOnSet(f, T)
             Bad == {T \in SUBSET S : \E y \in T : Sum(T) # f[y] + Sum(T \ {y})}
  <1>0. ASSUME NEW T \in SUBSET S PROVE IsFiniteSet(T) /\ IntegerOn(f, T) /\ Sum(T) \in Int
    <2>1. IsFiniteSet(T) /\ IntegerOn(f, T)
      BY FS_Subset DEF IntegerOn
    <2> QED
      BY <2>1, SumType
  <1>1. SUFFICES ASSUME Bad # {} PROVE FALSE
    OBVIOUS
  <1>2. \A T \in Bad : IsFiniteSet(T)
    BY <1>0
  <1>3. PICK T \in Bad : \A y \in T : T \ {y} \notin Bad
    <2> HIDE DEF Bad
    <2> QED
      BY <1>1, <1>2, SmallestSet
  <1>4. PICK y \in T : Sum(T) # f[y] + Sum(T \ {y})
    OBVIOUS
  <1> DEFINE p == Pick(T)
  <1>5. p \in T /\ Sum(T) = f[p] + Sum(T \ {p})
    BY <1>0, SumPick, PickIsMember
  <1> HIDE DEF p, Sum
  <1>6. y # p
    BY <1>4, <1>5
  <1>7. Sum(T \ {p}) = f[y] + Sum((T \ {p}) \ {y})
    BY <1>3, <1>5, <1>6
  <1>8. Sum(T \ {y}) = f[p] + Sum((T \ {y}) \ {p})
    BY <1>3, <1>5, <1>6
  <1>9. (T \ {y}) \ {p} = (T \ {p}) \ {y}
    OBVIOUS
  <1>10. f[y] \in Int /\ f[p] \in Int /\ Sum((T \ {p}) \ {y}) \in Int
    BY <1>0, <1>5 DEF IntegerOn
  <1>11. Sum(T \ {y}) = f[p] + Sum((T \ {p}) \ {y})
    BY <1>8, <1>9
  <1>12. ASSUME NEW a \in Int, NEW b \in Int, NEW c \in Int,
                NEW t, NEW u, NEW v, t = b + u, u = a + c, v = b + c
         PROVE  t = a + v
    BY <1>12
  <1>13. Sum(T) = f[y] + Sum(T \ {y})
    BY <1>5, <1>7, <1>10, <1>11, <1>12
  <1> QED
    BY <1>4, <1>13

\* Adding one element adds its term.
LEMMA SumAdd ==
    ASSUME NEW S, IsFiniteSet(S), NEW f, NEW x, x \notin S, IntegerOn(f, S \cup {x})
    PROVE  SumFunctionOnSet(f, S \cup {x}) = f[x] + SumFunctionOnSet(f, S)
  <1> DEFINE T == S \cup {x}
  <1>1. T \ {x} = S /\ x \in T
    OBVIOUS
  <1>2. IsFiniteSet(T)
    BY FS_AddElement
  <1> HIDE DEF T
  <1>3. SumFunctionOnSet(f, T) = f[x] + SumFunctionOnSet(f, T \ {x})
    BY <1>1, <1>2, SumRemove DEF T
  <1> QED
    BY <1>1, <1>3 DEF T

\* When one term changes by d, so does the sum.
LEMMA SumChange ==
    ASSUME NEW S, IsFiniteSet(S), NEW f, NEW e, IntegerOn(f, S), IntegerOn(e, S), NEW x \in S,
           SameOn(f, e, S \ {x})
    PROVE  SumFunctionOnSet(e, S) = SumFunctionOnSet(f, S) + (e[x] - f[x])
  <1>1. IsFiniteSet(S \ {x}) /\ IntegerOn(f, S \ {x})
    BY FS_RemoveElement DEF IntegerOn
  <1>2. SumFunctionOnSet(f, S \ {x}) = SumFunctionOnSet(e, S \ {x})
    BY <1>1, SumSame
  <1>3. SumFunctionOnSet(f, S \ {x}) \in Int /\ f[x] \in Int /\ e[x] \in Int
    BY <1>1, SumType DEF IntegerOn
  <1>4. /\ SumFunctionOnSet(f, S) = f[x] + SumFunctionOnSet(f, S \ {x})
        /\ SumFunctionOnSet(e, S) = e[x] + SumFunctionOnSet(e, S \ {x})
    BY SumRemove
  <1> QED
    BY <1>2, <1>3, <1>4

\* The sum of zeros is 0.
LEMMA SumZeros ==
    ASSUME NEW S, IsFiniteSet(S), NEW f, \A x \in S : f[x] = 0
    PROVE  SumFunctionOnSet(f, S) = 0
  <1> DEFINE Bad == {T \in SUBSET S : SumFunctionOnSet(f, T) # 0}
  <1>1. SUFFICES ASSUME Bad # {} PROVE FALSE
    OBVIOUS
  <1>2. \A T \in Bad : IsFiniteSet(T)
    BY FS_Subset
  <1>3. PICK T \in Bad : \A x \in T : T \ {x} \notin Bad
    <2> HIDE DEF Bad
    <2> QED
      BY <1>1, <1>2, SmallestSet
  <1>4. PICK x \in T : TRUE
    BY SumEmpty
  <1>5. SumFunctionOnSet(f, T) = f[x] + SumFunctionOnSet(f, T \ {x})
    BY <1>2, <1>4, SumRemove DEF IntegerOn
  <1> QED
    BY <1>3, <1>4, <1>5

\* A sum of naturals is a natural.
LEMMA SumNat ==
    ASSUME NEW S, IsFiniteSet(S), NEW f, \A x \in S : f[x] \in Nat
    PROVE  SumFunctionOnSet(f, S) \in Nat
  <1> DEFINE Bad == {T \in SUBSET S : SumFunctionOnSet(f, T) \notin Nat}
  <1>1. SUFFICES ASSUME Bad # {} PROVE FALSE
    OBVIOUS
  <1>2. \A T \in Bad : IsFiniteSet(T)
    BY FS_Subset
  <1>3. PICK T \in Bad : \A x \in T : T \ {x} \notin Bad
    <2> HIDE DEF Bad
    <2> QED
      BY <1>1, <1>2, SmallestSet
  <1>4. PICK x \in T : TRUE
    BY SumEmpty
  <1>5. SumFunctionOnSet(f, T) = f[x] + SumFunctionOnSet(f, T \ {x})
    BY <1>2, <1>4, SumRemove DEF IntegerOn
  <1>6. SumFunctionOnSet(f, T \ {x}) \in Nat
    BY <1>3, <1>4
  <1> QED
    BY <1>4, <1>5, <1>6

\* ... and is at least each of its terms.
LEMMA SumBounds ==
    ASSUME NEW S, IsFiniteSet(S), NEW f, \A x \in S : f[x] \in Nat, NEW x \in S
    PROVE  f[x] <= SumFunctionOnSet(f, S)
  <1>1. SumFunctionOnSet(f, S \ {x}) \in Nat
    BY SumNat, FS_RemoveElement
  <1>2. SumFunctionOnSet(f, S) = f[x] + SumFunctionOnSet(f, S \ {x})
    BY SumRemove DEF IntegerOn
  <1> QED
    BY <1>1, <1>2
=============================================================================
