------------------------------ MODULE SumTheorems ------------------------------
(***************************************************************************)
(* Facts about SumFunctionOnSet(F, S), the sum of F[x] over a finite set   *)
(* S, which the modules of the money use: what the requests in flight      *)
(* reserve, what captured jobs cost, what open holds add up to.            *)
(*                                                                         *)
(* The community modules define the sum by a function on the subsets of S  *)
(* that takes out a chosen element.  The lemmas first show that there is   *)
(* such a function and that it is the same for every S, and then that the  *)
(* chosen element does not matter.                                         *)
(***************************************************************************)
EXTENDS Integers, FiniteSetsExt, FiniteSetTheorems, TLAPS

Pick(s) == CHOOSE x \in s : TRUE

\* g is the function by which the sum of F over S is defined
Sums(F, S, g) ==
    g = [s \in SUBSET S |-> IF s = {} THEN 0 ELSE F[Pick(s)] + g[s \ {Pick(s)}]]

-----------------------------------------------------------------------------
\* What every set of subsets has that grows with its members holds of a
\* finite set: induction without an operator as a parameter.
LEMMA SubsetInduction ==
  ASSUME NEW S, IsFiniteSet(S), NEW Good,
         ASSUME NEW U \in SUBSET S, \A V \in SUBSET U : V # U => V \in Good
         PROVE  U \in Good
  PROVE  \A U \in SUBSET S : U \in Good
<1>. DEFINE Bad == {U \in SUBSET S : U \notin Good}
<1>. SUFFICES ASSUME Bad # {} PROVE FALSE
  OBVIOUS
<1>1. IsWellFoundedOn(StrictSubsetOrdering(S), SUBSET S)
  <2>1. IsWellFoundedOn(StrictSubsetOrdering(S), FiniteSubsetsOf(S))
    BY FS_StrictSubsetOrderingWellFounded, Zenon
  <2>2. FiniteSubsetsOf(S) = SUBSET S
    BY FS_FiniteSubsetsOfFinite, Zenon
  <2>. QED BY <2>1, <2>2, Zenon
<1>2. Bad \subseteq SUBSET S
  OBVIOUS
<1>. HIDE DEF Bad
<1>3. PICK U \in Bad : \A V \in Bad : ~(<<V, U>> \in StrictSubsetOrdering(S))
  BY <1>1, <1>2, WFMin
<1>. USE DEF Bad
<1>4. ASSUME NEW V \in SUBSET U, V # U PROVE V \in Good
  <2>1. U \in SUBSET S /\ V \in SUBSET S
    OBVIOUS
  <2>2. <<V, U>> \in StrictSubsetOrdering(S)
    BY <2>1, <1>4 DEF StrictSubsetOrdering
  <2>. QED BY <1>3, <2>1, <2>2
<1>. QED BY <1>4

LEMMA PickIn ==
  ASSUME NEW s, s # {}
  PROVE  Pick(s) \in s
  BY DEF Pick

\* The function is determined on the subsets of a smaller set.
LEMMA SumsUnique ==
  ASSUME NEW F, NEW S, IsFiniteSet(S), NEW T \in SUBSET S, NEW g, NEW h,
         Sums(F, S, g), Sums(F, T, h)
  PROVE  \A U \in SUBSET T : h[U] = g[U]
<1>. DEFINE Good == {U \in SUBSET T : h[U] = g[U]}
<1>0. IsFiniteSet(T)
  BY FS_Subset
<1>1. ASSUME NEW U \in SUBSET T, \A V \in SUBSET U : V # U => V \in Good
      PROVE  U \in Good
  <2>1. /\ h[U] = IF U = {} THEN 0 ELSE F[Pick(U)] + h[U \ {Pick(U)}]
        /\ g[U] = IF U = {} THEN 0 ELSE F[Pick(U)] + g[U \ {Pick(U)}]
    BY DEF Sums
  <2>2. ASSUME U # {} PROVE h[U \ {Pick(U)}] = g[U \ {Pick(U)}]
    <3>1. Pick(U) \in U
      BY <2>2, PickIn
    <3>. QED BY <1>1, <3>1
  <2>. QED BY <2>1, <2>2
<1>. HIDE DEF Good
<1>2. \A U \in SUBSET T : U \in Good
  BY <1>0, <1>1, SubsetInduction
<1>. QED BY <1>2 DEF Good

\* the value the definition gives a set
Value(F, S) == (CHOOSE g : Sums(F, S, g))[S]

LEMMA SumIsValue ==
  ASSUME NEW F, NEW S
  PROVE  SumFunctionOnSet(F, S) = Value(F, S)
  BY DEF SumFunctionOnSet, FoldFunctionOnSet, MapThenFoldSet, Value, Sums, Pick

\* Every finite set has such a function: it gives each subset its value.
LEMMA SumsExists ==
  ASSUME NEW F, NEW S, IsFiniteSet(S)
  PROVE  Sums(F, S, CHOOSE g : Sums(F, S, g))
<1>. DEFINE Good == {U \in SUBSET S : \E g : Sums(F, U, g)}
<1>1. ASSUME NEW U \in SUBSET S, \A V \in SUBSET U : V # U => V \in Good
      PROVE  U \in Good
  <2>. DEFINE Next(s) == IF s = {} THEN 0 ELSE F[Pick(s)] + Value(F, s \ {Pick(s)})
              h == [s \in SUBSET U |-> Next(s)]
  <2>1. ASSUME NEW V \in SUBSET U, V # U
        PROVE  Sums(F, V, CHOOSE g : Sums(F, V, g))
    <3>1. \E g : Sums(F, V, g)
      BY <1>1, <2>1
    <3>. QED BY <3>1
  <2>2. ASSUME NEW V \in SUBSET U, V # U
        PROVE  Value(F, V) = Next(V)
    <3>. DEFINE v == CHOOSE g : Sums(F, V, g)
    <3>1. Sums(F, V, v)
      BY <2>1, <2>2
    <3>. HIDE DEF v
    <3>2. v[V] = IF V = {} THEN 0 ELSE F[Pick(V)] + v[V \ {Pick(V)}]
      BY <3>1 DEF Sums
    <3>3. ASSUME V # {} PROVE v[V \ {Pick(V)}] = Value(F, V \ {Pick(V)})
      <4>. DEFINE W == V \ {Pick(V)}
                  w == CHOOSE g : Sums(F, W, g)
      <4>1. W \in SUBSET V /\ W \in SUBSET U /\ W # U
        BY <2>2
      <4>2. Sums(F, W, w)
        BY <2>1, <4>1
      <4>3. IsFiniteSet(V)
        <5>1. V \in SUBSET S
          OBVIOUS
        <5>. QED BY <5>1, FS_Subset
      <4>. HIDE DEF w, W
      <4>4. w[W] = v[W]
        BY <3>1, <4>1, <4>2, <4>3, SumsUnique
      <4>. USE DEF w, W
      <4>. QED BY <4>4 DEF Value
    <3>4. Value(F, V) = v[V]
      BY DEF Value, v
    <3>. QED BY <3>2, <3>3, <3>4
  <2>3. ASSUME NEW s \in SUBSET U, s # {}
        PROVE  Value(F, s \ {Pick(s)}) = h[s \ {Pick(s)}]
    <3>1. Pick(s) \in s
      BY <2>3, PickIn
    <3>2. s \ {Pick(s)} \in SUBSET U /\ s \ {Pick(s)} # U
      BY <3>1
    <3>. HIDE DEF Next
    <3>. QED BY <2>2, <3>2
  <2>. HIDE DEF h
  <2>4. \A s \in SUBSET U :
          Next(s) = IF s = {} THEN 0 ELSE F[Pick(s)] + h[s \ {Pick(s)}]
    BY <2>3
  <2>5. h = [s \in SUBSET U |-> IF s = {} THEN 0 ELSE F[Pick(s)] + h[s \ {Pick(s)}]]
    <3>1. h = [s \in SUBSET U |-> Next(s)]
      BY DEF h
    <3>. HIDE DEF Next
    <3>. QED BY <2>4, <3>1
  <2>6. Sums(F, U, h)
    BY <2>5 DEF Sums
  <2>. QED BY <2>6
<1>. HIDE DEF Good
<1>2. \A U \in SUBSET S : U \in Good
  BY <1>1, SubsetInduction
<1>3. S \in Good
  BY <1>2
<1>4. \E g : Sums(F, S, g)
  BY <1>3 DEF Good
<1>. QED BY <1>4

-----------------------------------------------------------------------------
\* The sum over no elements.
LEMMA SumEmpty ==
  ASSUME NEW F
  PROVE  SumFunctionOnSet(F, {}) = 0
<1>. DEFINE g == CHOOSE g : Sums(F, {}, g)
<1>1. Sums(F, {}, g)
  BY SumsExists, FS_EmptySet
<1>. HIDE DEF g
<1>2. g[{}] = 0
  BY <1>1 DEF Sums
<1>. QED BY <1>2, SumIsValue DEF Value, g

\* The sum takes out the element that the definition chooses.
LEMMA SumPick ==
  ASSUME NEW F, NEW S, IsFiniteSet(S), S # {}
  PROVE  SumFunctionOnSet(F, S) = F[Pick(S)] + SumFunctionOnSet(F, S \ {Pick(S)})
<1>. DEFINE T == S \ {Pick(S)}
            g == CHOOSE f : Sums(F, S, f)
            h == CHOOSE f : Sums(F, T, f)
<1>1. T \in SUBSET S /\ IsFiniteSet(T)
  BY FS_Subset
<1>2. Sums(F, S, g) /\ Sums(F, T, h)
  BY <1>1, SumsExists
<1>. HIDE DEF g, h, T
<1>3. h[T] = g[T]
  BY <1>1, <1>2, SumsUnique
<1>4. g[S] = F[Pick(S)] + g[T]
  BY <1>2 DEF Sums, T
<1>. QED BY <1>3, <1>4, SumIsValue DEF Value, g, h, T

\* It does not matter which element is taken out.
LEMMA SumInductive ==
  ASSUME NEW S, IsFiniteSet(S), NEW F, \A x \in S : F[x] \in Int
  PROVE  \A U \in SUBSET S :
           /\ SumFunctionOnSet(F, U) \in Int
           /\ \A x \in U : SumFunctionOnSet(F, U) = F[x] + SumFunctionOnSet(F, U \ {x})
<1>. DEFINE Sum(U) == SumFunctionOnSet(F, U)
            Fact(U) == Sum(U) \in Int /\ \A x \in U : Sum(U) = F[x] + Sum(U \ {x})
            Good == {U \in SUBSET S : Fact(U)}
<1>1. ASSUME NEW U \in SUBSET S, \A V \in SUBSET U : V # U => V \in Good
      PROVE  U \in Good
  <2>. HIDE DEF Sum
  <2>1. CASE U = {}
    <3>1. Sum({}) = 0
      BY SumEmpty DEF Sum
    <3>. QED BY <2>1, <3>1
  <2>2. CASE U # {}
    <3>. DEFINE y == Pick(U)
    <3>1. y \in U
      BY <2>2, PickIn
    <3>2. Sum(U) = F[y] + Sum(U \ {y})
      <4>1. IsFiniteSet(U)
        BY FS_Subset
      <4>. QED BY <2>2, <4>1, SumPick DEF Sum
    <3>. HIDE DEF y
    <3>3. ASSUME NEW x \in U PROVE Fact(U \ {x})
      BY <1>1
    <3>. HIDE DEF Good
    <3>4. Sum(U) \in Int
      BY <3>1, <3>2, <3>3
    <3>5. ASSUME NEW x \in U, x # y PROVE Sum(U) = F[x] + Sum(U \ {x})
      <4>1. Sum(U \ {y}) = F[x] + Sum((U \ {y}) \ {x})
        BY <3>1, <3>3, <3>5
      <4>2. Sum(U \ {x}) = F[y] + Sum((U \ {x}) \ {y})
        BY <3>1, <3>3, <3>5
      <4>3. (U \ {y}) \ {x} = (U \ {x}) \ {y}
        OBVIOUS
      <4>4. Sum((U \ {x}) \ {y}) \in Int
        <5>1. (U \ {x}) \ {y} \in Good
          BY <1>1, <3>1
        <5>. QED BY <5>1 DEF Good
      <4>5. F[x] \in Int /\ F[y] \in Int
        BY <3>1
      <4>6. \A a, b, c \in Int : a + (b + c) = b + (a + c)
        OBVIOUS
      <4>. DEFINE rest == Sum((U \ {x}) \ {y})
      <4>7. Sum(U) = F[y] + (F[x] + rest)
        BY <3>2, <4>1, <4>3, Zenon
      <4>8. Sum(U \ {x}) = F[y] + rest
        BY <4>2
      <4>. HIDE DEF rest
      <4>9. rest \in Int
        BY <4>4 DEF rest
      <4>10. Sum(U) = F[x] + (F[y] + rest)
        BY <4>5, <4>6, <4>7, <4>9
      <4>. QED BY <4>8, <4>10, Zenon
    <3>6. \A x \in U : Sum(U) = F[x] + Sum(U \ {x})
      BY <3>2, <3>5
    <3>. QED BY <3>4, <3>6 DEF Good
  <2>. QED BY <2>1, <2>2
<1>. HIDE DEF Good
<1>2. \A U \in SUBSET S : U \in Good
  BY <1>1, SubsetInduction
<1>. QED BY <1>2 DEF Good

-----------------------------------------------------------------------------
(* What the proofs cite. *)

\* A sum of integers is an integer.
LEMMA SumInt ==
  ASSUME NEW S, IsFiniteSet(S), NEW F, \A x \in S : F[x] \in Int
  PROVE  SumFunctionOnSet(F, S) \in Int
  BY SumInductive

\* An element that is taken out leaves the rest of the sum.
LEMMA SumRemove ==
  ASSUME NEW S, IsFiniteSet(S), NEW F, \A x \in S : F[x] \in Int, NEW x \in S
  PROVE  SumFunctionOnSet(F, S \ {x}) = SumFunctionOnSet(F, S) - F[x]
<1>1. SumFunctionOnSet(F, S) = F[x] + SumFunctionOnSet(F, S \ {x})
  BY SumInductive
<1>2. SumFunctionOnSet(F, S \ {x}) \in Int /\ F[x] \in Int
  BY SumInductive
<1>. QED BY <1>1, <1>2

\* A new element adds its value.
LEMMA SumAdd ==
  ASSUME NEW S, IsFiniteSet(S), NEW x, x \notin S,
         NEW F, \A y \in S \cup {x} : F[y] \in Int
  PROVE  SumFunctionOnSet(F, S \cup {x}) = SumFunctionOnSet(F, S) + F[x]
<1>. DEFINE T == S \cup {x}
<1>1. IsFiniteSet(T) /\ x \in T /\ T \ {x} = S
  BY FS_AddElement
<1>. HIDE DEF T
<1>2. \A y \in T : F[y] \in Int
  BY DEF T
<1>3. SumFunctionOnSet(F, S) = SumFunctionOnSet(F, T) - F[x]
  BY <1>1, <1>2, SumRemove
<1>4. SumFunctionOnSet(F, T) \in Int /\ F[x] \in Int
  BY <1>1, <1>2, SumInt
<1>. QED BY <1>3, <1>4 DEF T

\* Functions that agree on the set have the same sum.
LEMMA SumSame ==
  ASSUME NEW S, IsFiniteSet(S), NEW F, NEW G,
         \A x \in S : F[x] \in Int /\ G[x] = F[x]
  PROVE  SumFunctionOnSet(G, S) = SumFunctionOnSet(F, S)
<1>. DEFINE Good == {U \in SUBSET S : SumFunctionOnSet(G, U) = SumFunctionOnSet(F, U)}
<1>1. ASSUME NEW U \in SUBSET S, \A V \in SUBSET U : V # U => V \in Good
      PROVE  U \in Good
  <2>1. CASE U = {}
    BY <2>1, SumEmpty
  <2>2. CASE U # {}
    <3>1. PICK x \in U : TRUE
      BY <2>2
    <3>2. U \ {x} \in Good
      BY <1>1, <3>1
    <3>3. IsFiniteSet(U)
      BY FS_Subset
    <3>4. SumFunctionOnSet(F, U \ {x}) = SumFunctionOnSet(F, U) - F[x]
      BY <3>1, <3>3, SumRemove
    <3>5. SumFunctionOnSet(G, U \ {x}) = SumFunctionOnSet(G, U) - G[x]
      BY <3>1, <3>3, SumRemove
    <3>6. SumFunctionOnSet(F, U) \in Int /\ SumFunctionOnSet(G, U) \in Int
      BY <3>3, SumInt
    <3>7. SumFunctionOnSet(G, U) = SumFunctionOnSet(F, U)
      BY <3>1, <3>2, <3>4, <3>5, <3>6
    <3>. QED BY <3>7
  <2>. QED BY <2>1, <2>2
<1>. HIDE DEF Good
<1>2. \A U \in SUBSET S : U \in Good
  BY <1>1, SubsetInduction
<1>. QED BY <1>2 DEF Good

\* A sum of natural numbers is one, and is at least each of them.
LEMMA SumNat ==
  ASSUME NEW S, IsFiniteSet(S), NEW F, \A x \in S : F[x] \in Nat
  PROVE  SumFunctionOnSet(F, S) \in Nat
<1>. DEFINE Good == {U \in SUBSET S : SumFunctionOnSet(F, U) \in Nat}
<1>1. ASSUME NEW U \in SUBSET S, \A V \in SUBSET U : V # U => V \in Good
      PROVE  U \in Good
  <2>1. CASE U = {}
    BY <2>1, SumEmpty
  <2>2. CASE U # {}
    <3>1. PICK x \in U : TRUE
      BY <2>2
    <3>2. SumFunctionOnSet(F, U \ {x}) \in Nat
      BY <1>1, <3>1
    <3>3. IsFiniteSet(U)
      BY FS_Subset
    <3>4. SumFunctionOnSet(F, U \ {x}) = SumFunctionOnSet(F, U) - F[x]
      BY <3>1, <3>3, SumRemove
    <3>5. SumFunctionOnSet(F, U) \in Int
      BY <3>3, SumInt
    <3>. QED BY <3>1, <3>2, <3>4, <3>5
  <2>. QED BY <2>1, <2>2
<1>. HIDE DEF Good
<1>2. \A U \in SUBSET S : U \in Good
  BY <1>1, SubsetInduction
<1>. QED BY <1>2 DEF Good

\* The sum over fewer natural numbers is not larger.
LEMMA SumSubset ==
  ASSUME NEW S, IsFiniteSet(S), NEW F, \A x \in S : F[x] \in Nat, NEW T \in SUBSET S
  PROVE  SumFunctionOnSet(F, T) <= SumFunctionOnSet(F, S)
<1>. DEFINE Good == {D \in SUBSET S :
                       SumFunctionOnSet(F, S \ D) <= SumFunctionOnSet(F, S)}
<1>0. \A U \in SUBSET S : SumFunctionOnSet(F, U) \in Nat
  BY SumNat, FS_Subset
<1>1. ASSUME NEW D \in SUBSET S, \A V \in SUBSET D : V # D => V \in Good
      PROVE  D \in Good
  <2>1. CASE D = {}
    <3>1. S \ D = S
      BY <2>1
    <3>2. SumFunctionOnSet(F, S) \in Nat
      BY <1>0
    <3>. QED BY <3>1, <3>2
  <2>2. CASE D # {}
    <3>1. PICK x \in D : TRUE
      BY <2>2
    <3>. DEFINE U == S \ (D \ {x})
    <3>2. SumFunctionOnSet(F, U) <= SumFunctionOnSet(F, S)
      BY <1>1, <3>1
    <3>3. IsFiniteSet(U) /\ U \in SUBSET S /\ x \in U /\ U \ {x} = S \ D
      BY <3>1, FS_Subset
    <3>. HIDE DEF U
    <3>4. SumFunctionOnSet(F, U \ {x}) = SumFunctionOnSet(F, U) - F[x]
      BY <3>3, SumRemove
    <3>5. SumFunctionOnSet(F, U) \in Nat /\ SumFunctionOnSet(F, S) \in Nat /\ F[x] \in Nat
      BY <1>0, <3>1, <3>3
    <3>6. SumFunctionOnSet(F, S \ D) <= SumFunctionOnSet(F, S)
      BY <3>2, <3>3, <3>4, <3>5
    <3>. QED BY <3>6
  <2>. QED BY <2>1, <2>2
<1>. HIDE DEF Good
<1>2. \A D \in SUBSET S : D \in Good
  BY <1>1, SubsetInduction
<1>3. S \ T \in Good
  BY <1>2
<1>4. S \ (S \ T) = T
  OBVIOUS
<1>. QED BY <1>3, <1>4 DEF Good

\* The sum over one element.
LEMMA SumOne ==
  ASSUME NEW F, NEW x, F[x] \in Int
  PROVE  SumFunctionOnSet(F, {x}) = F[x]
<1>1. SumFunctionOnSet(F, {} \cup {x}) = SumFunctionOnSet(F, {}) + F[x]
  BY SumAdd, FS_EmptySet
<1>2. {} \cup {x} = {x}
  OBVIOUS
<1>. QED BY <1>1, <1>2, SumEmpty
=============================================================================
