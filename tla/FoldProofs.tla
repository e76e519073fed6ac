------------------------------ MODULE FoldProofs ------------------------------
(***************************************************************************)
(* Functions defined by recursion over the subsets of a finite set: that   *)
(* they exist, and what follows for the sums of the community modules.     *)
(* Induction is by a smallest counterexample: the strict-subset order on   *)
(* the finite subsets of a set is well founded.                            *)
(***************************************************************************)
EXTENDS Integers, FiniteSets, Functions, FiniteSetTheorems, WellFoundedInduction, TLAPS

\* A set T of sets that contains U whenever it contains every smaller subset of U
\* contains every subset of a finite set.
LEMMA SubsetInduction ==
  ASSUME NEW S, IsFiniteSet(S), NEW T,
         ASSUME NEW U \in SUBSET S, \A V \in SUBSET U : V # U => V \in T
         PROVE  U \in T
  PROVE  \A U \in SUBSET S : U \in T
<1> DEFINE Bad == {U \in SUBSET S : U \notin T}
<1>1. SUFFICES ASSUME Bad # {} PROVE FALSE
  OBVIOUS
<1>2. IsWellFoundedOn(StrictSubsetOrdering(S), FiniteSubsetsOf(S))
  BY FS_StrictSubsetOrderingWellFounded
<1>3. Bad \subseteq FiniteSubsetsOf(S)
  BY FS_FiniteSubsetsOfFinite
<1>4. PICK U \in Bad : \A V \in Bad : <<V, U>> \notin StrictSubsetOrdering(S)
  <2> HIDE DEF Bad
  <2> QED BY <1>1, <1>2, <1>3, WFMin
<1>5. ASSUME NEW V \in SUBSET U, V # U PROVE V \in T
  BY <1>4, <1>5 DEF StrictSubsetOrdering
<1> QED BY <1>4, <1>5

-------------------------------------------------------------------------------
(* Recursion that takes one element at a time: last[U] is the element of U *)
(* taken last, step[U] what it does to the value for the others.           *)

IsRecursive(g, S, base, step, last) ==
  g = [U \in SUBSET S |-> IF U = {} THEN base ELSE step[U][g[U \ {last[U]}]]]

\* Its values.
LEMMA RecursionAt ==
  ASSUME NEW S, NEW base, NEW step, NEW last, NEW g,
         IsRecursive(g, S, base, step, last), NEW U \in SUBSET S
  PROVE  g[U] = IF U = {} THEN base ELSE step[U][g[U \ {last[U]}]]
  BY DEF IsRecursive

LEMMA RecursionEmpty ==
  ASSUME NEW S, NEW base, NEW step, NEW last, NEW g, IsRecursive(g, S, base, step, last)
  PROVE  g[{}] = base
<1>1. {} \in SUBSET S
  OBVIOUS
<1> QED BY <1>1 DEF IsRecursive

\* Two such functions, on a set and on a larger one, agree where both are defined.
LEMMA RecursionUnique ==
  ASSUME NEW S, IsFiniteSet(S), NEW T, S \subseteq T, NEW base, NEW step, NEW last,
         \A U \in SUBSET S : U # {} => last[U] \in U,
         NEW h, IsRecursive(h, S, base, step, last),
         NEW k, IsRecursive(k, T, base, step, last)
  PROVE  \A U \in SUBSET S : h[U] = k[U]
<1> DEFINE G == {U \in SUBSET S : h[U] = k[U]}
<1>1. ASSUME NEW U \in SUBSET S, \A V \in SUBSET U : V # U => V \in G
      PROVE  U \in G
  <2>1. h[U] = IF U = {} THEN base ELSE step[U][h[U \ {last[U]}]]
    BY RecursionAt
  <2>2. k[U] = IF U = {} THEN base ELSE step[U][k[U \ {last[U]}]]
    BY RecursionAt
  <2>3. U # {} => U \ {last[U]} \in G
    BY <1>1
  <2> QED BY <2>1, <2>2, <2>3
<1> HIDE DEF G
<1>2. \A U \in SUBSET S : U \in G
  BY <1>1, SubsetInduction
<1> QED BY <1>2 DEF G

\* There is such a function on every finite set.
LEMMA RecursionExists ==
  ASSUME NEW S, IsFiniteSet(S), NEW base, NEW step, NEW last,
         \A U \in SUBSET S : U # {} => last[U] \in U
  PROVE  \E g : IsRecursive(g, S, base, step, last)
<1> DEFINE G == {U \in SUBSET S : \E g : IsRecursive(g, U, base, step, last)}
<1>1. ASSUME NEW U \in SUBSET S, \A V \in SUBSET U : V # U => V \in G
      PROVE  U \in G
  <2> DEFINE part(V) == CHOOSE g : IsRecursive(g, V, base, step, last)
             rest(V) == V \ {last[V]}
             val(V) == IF V = {} THEN base ELSE step[V][part(rest(V))[rest(V)]]
             g == [V \in SUBSET U |-> val(V)]
  <2>1. ASSUME NEW V \in SUBSET U, V # U
        PROVE  IsRecursive(part(V), V, base, step, last)
    BY <1>1, <2>1
  <2>2. ASSUME NEW V \in SUBSET U, V # U
        PROVE  part(V)[V] = val(V)
    <3>1. part(V)[V] = IF V = {} THEN base ELSE step[V][part(V)[rest(V)]]
      <4>1. V \in SUBSET V
        OBVIOUS
      <4> HIDE DEF part
      <4> QED BY <2>1, <2>2, <4>1, RecursionAt
    <3>2. ASSUME V # {} PROVE part(V)[rest(V)] = part(rest(V))[rest(V)]
      <4> DEFINE W == rest(V)
      <4>1. W \subseteq V /\ W # U /\ W \in SUBSET U
        BY <3>2
      <4>2. /\ IsRecursive(part(W), W, base, step, last)
            /\ IsRecursive(part(V), V, base, step, last)
        BY <2>1, <4>1, <2>2
      <4>3. IsFiniteSet(W) /\ \A X \in SUBSET W : X # {} => last[X] \in X
        BY <4>1, FS_Subset
      <4> HIDE DEF W, part
      <4>4. part(W)[W] = part(V)[W]
        BY <4>1, <4>2, <4>3, RecursionUnique
      <4> QED BY <4>4 DEF W
    <3> HIDE DEF part
    <3> QED BY <3>1, <3>2
  <2>3. IsRecursive(g, U, base, step, last)
    <3> HIDE DEF part
    <3>1. ASSUME NEW V \in SUBSET U, V # {}
          PROVE  g[rest(V)] = part(rest(V))[rest(V)]
      <4>1. rest(V) \in SUBSET U /\ rest(V) # U
        BY <3>1
      <4> QED BY <4>1, <2>2
    <3>2. g = [V \in SUBSET U |-> IF V = {} THEN base ELSE step[V][g[V \ {last[V]}]]]
      BY <3>1
    <3> HIDE DEF g
    <3> QED BY <3>2 DEF IsRecursive
  <2> QED BY <2>3
<1> HIDE DEF G
<1>2. \A U \in SUBSET S : U \in G
  BY <1>1, SubsetInduction
<1> QED BY <1>2 DEF G

-------------------------------------------------------------------------------
(* Sums.                                                                   *)

Pick(s) == CHOOSE x \in s : TRUE

IsSum(g, f, S) ==
  g = [s \in SUBSET S |-> IF s = {} THEN 0 ELSE f[Pick(s)] + g[s \ {Pick(s)}]]

LEMMA PickIn == ASSUME NEW s, s # {} PROVE Pick(s) \in s
  BY DEF Pick

\* The sum of the library is the value at S of a function chosen to satisfy IsSum.
LEMMA SumIsChosen ==
  ASSUME NEW f, NEW S
  PROVE  SumFunctionOnSet(f, S) = (CHOOSE g : IsSum(g, f, S))[S]
  BY DEF SumFunctionOnSet, FoldFunctionOnSet, MapThenFoldSet, IsSum, Pick

IntStep(f, S) == [U \in SUBSET S |-> [v \in Int |-> f[Pick(U)] + v]]
PickOf(S) == [U \in SUBSET S |-> Pick(U)]

LEMMA SumExists ==
  ASSUME NEW S, IsFiniteSet(S), NEW f, \A x \in S : f[x] \in Int
  PROVE  \E g \in [SUBSET S -> Int] : IsSum(g, f, S)
<1> DEFINE step == IntStep(f, S)
           last == PickOf(S)
<1>1. \A U \in SUBSET S : U # {} => last[U] \in U
  BY PickIn DEF PickOf
<1> HIDE DEF step, last
<1>2. PICK g : IsRecursive(g, S, 0, step, last)
  BY <1>1, RecursionExists
<1> DEFINE G == {U \in SUBSET S : g[U] \in Int}
<1>3. ASSUME NEW U \in SUBSET S, U # {}, g[U \ {last[U]}] \in Int
      PROVE  /\ g[U] = f[Pick(U)] + g[U \ {Pick(U)}]
             /\ g[U] \in Int
  <2>1. g[U] = step[U][g[U \ {last[U]}]]
    BY <1>2, <1>3, RecursionAt
  <2>2. last[U] = Pick(U) /\ f[Pick(U)] \in Int
    BY <1>3, PickIn DEF last, PickOf
  <2>3. step[U][g[U \ {last[U]}]] = f[Pick(U)] + g[U \ {last[U]}]
    BY <1>3 DEF step, IntStep
  <2> QED BY <2>1, <2>2, <2>3, <1>3
<1>4. g[{}] = 0
  BY <1>2, RecursionEmpty
<1>5. ASSUME NEW U \in SUBSET S, \A V \in SUBSET U : V # U => V \in G
      PROVE  U \in G
  <2>1. CASE U = {}
    BY <1>4, <2>1
  <2>2. CASE U # {}
    <3>1. U \ {last[U]} \in G
      BY <1>1, <1>5, <2>2
    <3> QED BY <1>3, <2>2, <3>1
  <2> QED BY <2>1, <2>2
<1>6. \A U \in SUBSET S : g[U] \in Int
  <2> HIDE DEF G
  <2>1. \A U \in SUBSET S : U \in G
    BY <1>5, SubsetInduction
  <2> QED BY <2>1 DEF G
<1>7. \A U \in SUBSET S :
        g[U] = IF U = {} THEN 0 ELSE f[Pick(U)] + g[U \ {Pick(U)}]
  BY <1>1, <1>3, <1>4, <1>6
<1>8. g = [U \in SUBSET S |-> g[U]]
  BY <1>2 DEF IsRecursive
<1>9. g = [U \in SUBSET S |-> IF U = {} THEN 0 ELSE f[Pick(U)] + g[U \ {Pick(U)}]]
  BY <1>7, <1>8
<1> QED BY <1>6, <1>8, <1>9 DEF IsSum

\* Any two of them agree, on a set and on a larger one.
LEMMA SumUnique ==
  ASSUME NEW S, IsFiniteSet(S), NEW T, NEW f, S \subseteq T,
         NEW h, IsSum(h, f, S), NEW k, IsSum(k, f, T)
  PROVE  \A U \in SUBSET S : h[U] = k[U]
<1> DEFINE G == {U \in SUBSET S : h[U] = k[U]}
<1>1. ASSUME NEW U \in SUBSET S, \A V \in SUBSET U : V # U => V \in G
      PROVE  U \in G
  <2>1. h[U] = IF U = {} THEN 0 ELSE f[Pick(U)] + h[U \ {Pick(U)}]
    BY DEF IsSum
  <2>2. k[U] = IF U = {} THEN 0 ELSE f[Pick(U)] + k[U \ {Pick(U)}]
    BY DEF IsSum
  <2>3. U # {} => U \ {Pick(U)} \in G
    BY <1>1, PickIn
  <2> QED BY <2>1, <2>2, <2>3
<1> HIDE DEF G
<1>2. \A U \in SUBSET S : U \in G
  BY <1>1, SubsetInduction
<1> QED BY <1>2 DEF G

\* The sum over any part of a set is what one such function says.
LEMMA SumAt ==
  ASSUME NEW S, IsFiniteSet(S), NEW f, \A x \in S : f[x] \in Int,
         NEW h, IsSum(h, f, S), NEW U \in SUBSET S
  PROVE  h[U] = SumFunctionOnSet(f, U)
<1>1. IsFiniteSet(U) /\ \A x \in U : f[x] \in Int
  BY FS_Subset
<1> DEFINE k == CHOOSE g : IsSum(g, f, U)
<1>2. IsSum(k, f, U)
  BY <1>1, SumExists
<1>3. SumFunctionOnSet(f, U) = k[U]
  BY SumIsChosen
<1> HIDE DEF k
<1>4. k[U] = h[U]
  BY <1>1, <1>2, SumUnique
<1> QED BY <1>3, <1>4

\* A sum of integers is an integer.
THEOREM SumType ==
  ASSUME NEW S, IsFiniteSet(S), NEW f, \A x \in S : f[x] \in Int
  PROVE  SumFunctionOnSet(f, S) \in Int
<1>1. PICK h \in [SUBSET S -> Int] : IsSum(h, f, S)
  BY SumExists
<1>2. S \in SUBSET S
  OBVIOUS
<1>3. h[S] = SumFunctionOnSet(f, S)
  BY <1>1, <1>2, SumAt
<1> QED BY <1>1, <1>2, <1>3

LEMMA SumUnfold ==
  ASSUME NEW S, IsFiniteSet(S), NEW f, \A x \in S : f[x] \in Int
  PROVE  SumFunctionOnSet(f, S) = IF S = {} THEN 0
           ELSE f[Pick(S)] + SumFunctionOnSet(f, S \ {Pick(S)})
<1>1. PICK h : IsSum(h, f, S)
  BY SumExists
<1>2. S \in SUBSET S /\ S \ {Pick(S)} \in SUBSET S
  OBVIOUS
<1>3. h[S] = IF S = {} THEN 0 ELSE f[Pick(S)] + h[S \ {Pick(S)}]
  BY <1>1, <1>2 DEF IsSum
<1>4. h[S] = SumFunctionOnSet(f, S)
  BY <1>1, <1>2, SumAt
<1>5. h[S \ {Pick(S)}] = SumFunctionOnSet(f, S \ {Pick(S)})
  BY <1>1, <1>2, SumAt
<1> QED BY <1>3, <1>4, <1>5

\* The sum over nothing.
THEOREM SumEmpty == ASSUME NEW f PROVE SumFunctionOnSet(f, {}) = 0
<1>1. IsFiniteSet({})
  BY FS_EmptySet
<1> QED BY <1>1, SumUnfold

\* Any element of the set can be taken out first.
THEOREM SumRemove ==
  ASSUME NEW S, IsFiniteSet(S), NEW f, \A x \in S : f[x] \in Int, NEW y \in S
  PROVE  SumFunctionOnSet(f, S) = f[y] + SumFunctionOnSet(f, S \ {y})
<1> DEFINE G == {U \in SUBSET S : \A x \in U :
                   SumFunctionOnSet(f, U) = f[x] + SumFunctionOnSet(f, U \ {x})}
<1>1. ASSUME NEW U \in SUBSET S, \A V \in SUBSET U : V # U => V \in G
      PROVE  U \in G
  <2>1. SUFFICES ASSUME NEW x \in U
                 PROVE  SumFunctionOnSet(f, U) = f[x] + SumFunctionOnSet(f, U \ {x})
    OBVIOUS
  <2> DEFINE p == Pick(U)
             W == (U \ {p}) \ {x}
  <2>2. p \in U /\ p \in S /\ x \in S /\ f[p] \in Int /\ f[x] \in Int
    BY PickIn
  <2>3. /\ IsFiniteSet(U) /\ \A z \in U : f[z] \in Int
        /\ IsFiniteSet(W) /\ \A z \in W : f[z] \in Int
    BY FS_Subset
  <2>4. SumFunctionOnSet(f, U) = f[p] + SumFunctionOnSet(f, U \ {p})
    BY <2>2, <2>3, SumUnfold
  <2>5. SumFunctionOnSet(f, W) \in Int
    <3> HIDE DEF W
    <3> QED BY <2>3, SumType
  <2>6. W = (U \ {x}) \ {p}
    OBVIOUS
  <2> HIDE DEF p
  <2>7. CASE p = x
    BY <2>4, <2>7
  <2>8. CASE p # x
    <3>1. U \ {p} \in G /\ U \ {x} \in G
      BY <1>1, <2>2
    <3>2. SumFunctionOnSet(f, U \ {p}) = f[x] + SumFunctionOnSet(f, W)
      BY <3>1, <2>8, <2>2
    <3>3. SumFunctionOnSet(f, U \ {x}) = f[p] + SumFunctionOnSet(f, W)
      BY <3>1, <2>8, <2>2, <2>6
    <3> DEFINE s == SumFunctionOnSet(f, W)
               a == f[p]
               b == f[x]
    <3>6. SumFunctionOnSet(f, U) = a + (b + s) /\ SumFunctionOnSet(f, U \ {x}) = a + s
      BY <2>4, <3>2, <3>3
    <3>7. s \in Int /\ a \in Int /\ b \in Int
      BY <2>5, <2>2
    <3> HIDE DEF s, a, b
    <3>8. a + (b + s) = b + (a + s)
      BY <3>7
    <3> QED BY <3>6, <3>8 DEF b
  <2> QED BY <2>7, <2>8
<1> HIDE DEF G
<1>2. \A U \in SUBSET S : U \in G
  BY <1>1, SubsetInduction
<1>3. S \in G
  BY <1>2
<1> QED BY <1>3 DEF G

\* A sum depends on nothing but the values it adds.
THEOREM SumSame ==
  ASSUME NEW S, IsFiniteSet(S), NEW f, NEW h,
         \A x \in S : f[x] \in Int /\ h[x] = f[x]
  PROVE  SumFunctionOnSet(f, S) = SumFunctionOnSet(h, S)
<1> DEFINE G == {U \in SUBSET S : SumFunctionOnSet(f, U) = SumFunctionOnSet(h, U)}
<1>1. ASSUME NEW U \in SUBSET S, \A V \in SUBSET U : V # U => V \in G
      PROVE  U \in G
  <2>1. IsFiniteSet(U) /\ (\A x \in U : f[x] \in Int) /\ (\A x \in U : h[x] \in Int)
    BY FS_Subset
  <2>2. U # {} => Pick(U) \in S /\ U \ {Pick(U)} \in G
    BY <1>1, PickIn
  <2>3. SumFunctionOnSet(f, U) = IF U = {} THEN 0
           ELSE f[Pick(U)] + SumFunctionOnSet(f, U \ {Pick(U)})
    BY <2>1, SumUnfold
  <2>4. SumFunctionOnSet(h, U) = IF U = {} THEN 0
           ELSE h[Pick(U)] + SumFunctionOnSet(h, U \ {Pick(U)})
    BY <2>1, SumUnfold
  <2> QED BY <2>2, <2>3, <2>4
<1> HIDE DEF G
<1>2. \A U \in SUBSET S : U \in G
  BY <1>1, SubsetInduction
<1>3. S \in G
  BY <1>2
<1> QED BY <1>3 DEF G

\* Adding an element to the set adds its value to the sum.
THEOREM SumAdd ==
  ASSUME NEW S, IsFiniteSet(S), NEW f, NEW x, x \notin S,
         f[x] \in Int, \A y \in S : f[y] \in Int
  PROVE  SumFunctionOnSet(f, S \union {x}) = f[x] + SumFunctionOnSet(f, S)
<1>1. IsFiniteSet(S \union {x})
  BY FS_AddElement
<1>2. (S \union {x}) \ {x} = S
  OBVIOUS
<1>3. \A y \in S \union {x} : f[y] \in Int
  OBVIOUS
<1> QED BY <1>1, <1>2, <1>3, SumRemove
===============================================================================
