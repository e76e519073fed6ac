---------------------------- MODULE StatusProofs ----------------------------
(***************************************************************************)
(* The missed cycles of the status page, for every cadence and window: the *)
(* gaps it adds up are compared with the cycles that left no row.  Between *)
(* two rows it is exact, and at each end of the window it is short by one  *)
(* at most.                                                                *)
(***************************************************************************)
EXTENDS RefreshProofs, FoldProofs

-----------------------------------------------------------------------------
(* Multiples of the cadence.                                               *)

Cycle(k) == Cadence * k

LEMMA CadenceType == Cadence \in Nat \ {0}
  BY StatusAssumption

LEMMA Division ==
  ASSUME NEW d \in Nat \ {0}, NEW n \in Nat
  PROVE  \E q \in Int : n \div d = q /\ \E r \in 0..d - 1 : n = d * q + r
  OBVIOUS

\* The times at which a cycle is due are the multiples of the cadence.
LEMMA CyclesAre ==
  /\ \A k \in Int : Cycle(k) \in Int /\ Cycle(k) % Cadence = 0
  /\ \A t \in Int : t % Cadence = 0 => \E k \in Int : t = Cycle(k)
  <1>1. ASSUME NEW k \in Int PROVE Cycle(k) \in Int /\ Cycle(k) % Cadence = 0
    BY CadenceType DEF Cycle
  <1>2. ASSUME NEW t \in Int, t % Cadence = 0 PROVE \E k \in Int : t = Cycle(k)
    BY CadenceType, <1>2 DEF Cycle
  <1> QED BY <1>1, <1>2

\* Cycles follow each other as their numbers do.
LEMMA CyclesOrdered ==
  /\ \A k, n \in Int : (Cycle(k) <= Cycle(n)) = (k <= n)
  /\ \A k, n \in Int : (Cycle(k) = Cycle(n)) = (k = n)
  /\ \A k, n \in Int : Cycle(k + n) = Cycle(k) + Cycle(n)
  /\ Cycle(1) = Cadence /\ Cycle(0) = 0
  <1>1. ASSUME NEW k \in Int, NEW n \in Int PROVE (Cycle(k) <= Cycle(n)) = (k <= n)
    BY CadenceType DEF Cycle
  <1>2. ASSUME NEW k \in Int, NEW n \in Int PROVE Cycle(k + n) = Cycle(k) + Cycle(n)
    BY CadenceType DEF Cycle
  <1>3. ASSUME NEW k \in Int, NEW n \in Int PROVE (Cycle(k) = Cycle(n)) = (k = n)
    BY <1>1, CyclesAre
  <1>4. Cycle(1) = Cadence /\ Cycle(0) = 0
    BY CadenceType DEF Cycle
  <1> QED BY <1>1, <1>2, <1>3, <1>4

LEMMA NextCycle ==
  ASSUME NEW k \in Int, NEW n \in Int, k + 1 <= n
  PROVE  Cycle(k) + Cadence <= Cycle(n)
  <1>1. 1 \in Int /\ k + 1 \in Int
    OBVIOUS
  <1>2. Cycle(k + 1) = Cycle(k) + Cycle(1)
    BY <1>1, CyclesOrdered
  <1>3. (Cycle(k + 1) <= Cycle(n)) = (k + 1 <= n)
    BY <1>1, CyclesOrdered
  <1> QED BY <1>2, <1>3, CyclesOrdered

\* The whole cycles of a span.
LEMMA WholeCycles ==
  ASSUME NEW span \in Nat
  PROVE  /\ span \div Cadence \in Nat
         /\ Cycle(span \div Cadence) <= span /\ span < Cycle(span \div Cadence) + Cadence
  <1>1. PICK q \in Int : span \div Cadence = q /\ \E r \in 0..Cadence - 1 : span = Cadence * q + r
    BY CadenceType, Division
  <1>2. PICK r \in 0..Cadence - 1 : span = Cadence * q + r
    BY <1>1
  <1>3. Cycle(q) \in Int /\ Cycle(q) = Cadence * q
    BY CyclesAre DEF Cycle
  <1>4. Cycle(q) <= span /\ span < Cycle(q) + Cadence
    BY <1>2, <1>3, CadenceType
  <1>5. q >= 0
    <2>1. SUFFICES ASSUME q <= -1 PROVE FALSE
      OBVIOUS
    <2>2. Cycle(q) + Cadence <= Cycle(0) /\ Cycle(0) = 0
      BY <2>1, NextCycle, CyclesOrdered
    <2> QED BY <1>3, <1>4, <2>2, CadenceType
  <1> QED BY <1>1, <1>4, <1>5

\* A gap of whole cycles is counted exactly: one cycle is no gap, and Math.round has
\* nothing to round.
LEMMA GapExact ==
  ASSUME NEW k \in Nat \ {0}
  PROVE  Between(Cycle(k)) = k - 1
  <1>1. Cycle(k) \in Int /\ Cycle(k) = Cadence * k
    BY CyclesAre DEF Cycle
  <1>2. CASE k = 1
    <2>1. Cycle(k) = Cadence
      BY <1>2, CyclesOrdered
    <2> QED BY <1>2, <2>1, CadenceType DEF Between, Overdue
  <1>3. CASE k >= 2
    <2>1. Cycle(2) <= Cycle(k) /\ Cycle(2) = 2 * Cadence
      BY <1>3, CyclesOrdered, CadenceType DEF Cycle
    <2>2. Overdue(Cycle(k))
      BY <1>1, <2>1, CadenceType DEF Overdue
    <2>3. (2 * Cycle(k) + Cadence) \div (2 * Cadence) = k
      BY <1>1, CadenceType
    <2> QED BY <2>2, <2>3 DEF Between, Cycles
  <1> QED BY <1>2, <1>3

\* The gap at the beginning of the window is short by one at most.
LEMMA GapNear ==
  ASSUME NEW span \in Nat
  PROVE  /\ Between(span) \in Int
         /\ Between(span) <= span \div Cadence /\ span \div Cadence <= Between(span) + 1
  <1> DEFINE q == span \div Cadence
  <1>1. q \in Nat /\ Cycle(q) <= span /\ span < Cycle(q) + Cadence /\ Cycle(q) \in Int
    BY WholeCycles, CyclesAre
  <1> HIDE DEF q
  <1>2. CASE ~Overdue(span)
    <2>1. Cycle(q) < 2 * Cadence
      BY <1>1, <1>2, CadenceType DEF Overdue
    <2>2. ~(2 <= q)
      <3>1. Cycle(2) = 2 * Cadence
        BY CadenceType DEF Cycle
      <3> QED BY <2>1, <3>1, <1>1, CyclesOrdered, CadenceType
    <2> QED BY <1>1, <1>2, <2>2 DEF Between, q
  <1>3. CASE Overdue(span)
    <2>1. PICK r \in Int : /\ (2 * span + Cadence) \div (2 * Cadence) = r
                           /\ \E d \in 0..2 * Cadence - 1 : 2 * span + Cadence = (2 * Cadence) * r + d
      <3>1. 2 * Cadence \in Nat \ {0} /\ 2 * span + Cadence \in Nat
        BY CadenceType
      <3> QED BY <3>1, Division
    <2>2. (2 * Cadence) * r = 2 * Cycle(r) /\ Cycle(r) \in Int
      BY CyclesAre, CadenceType DEF Cycle
    <2>3. 2 * Cycle(r) <= 2 * span + Cadence /\ 2 * span + Cadence < 2 * Cycle(r) + 2 * Cadence
      BY <2>1, <2>2, CadenceType
    <2>4. q <= r
      <3>1. SUFFICES ASSUME r + 1 <= q PROVE FALSE
        BY <1>1
      <3>2. Cycle(r) + Cadence <= Cycle(q)
        BY <3>1, <1>1, NextCycle
      <3> QED BY <1>1, <2>2, <2>3, <3>2, CadenceType
    <2>5. r <= q + 1
      <3>1. SUFFICES ASSUME q + 2 <= r PROVE FALSE
        BY <1>1
      <3>2. Cycle(q) + 2 * Cadence <= Cycle(r)
        <4>1. Cycle(q + 2) = Cycle(q) + 2 * Cadence
          BY <1>1, CyclesOrdered, CadenceType DEF Cycle
        <4> QED BY <3>1, <4>1, <1>1, CyclesOrdered
      <3> QED BY <1>1, <2>2, <2>3, <3>2, CadenceType
    <2>6. Between(span) = r - 1
      BY <1>3, <2>1 DEF Between, Cycles
    <2> QED BY <1>1, <2>4, <2>5, <2>6 DEF q
  <1> QED BY <1>2, <1>3

\* The gap up to now is short by one at most.
LEMMA GapOpen ==
  ASSUME NEW span \in Nat
  PROVE  /\ SinceLast(span) \in Int
         /\ SinceLast(span) <= span \div Cadence /\ span \div Cadence <= SinceLast(span) + 1
  <1> DEFINE q == span \div Cadence
  <1>1. q \in Nat /\ Cycle(q) <= span /\ Cycle(q) \in Int
    BY WholeCycles, CyclesAre
  <1> HIDE DEF q
  <1>2. CASE ~Overdue(span)
    <2>1. Cycle(q) < 2 * Cadence
      BY <1>1, <1>2, CadenceType DEF Overdue
    <2>2. ~(2 <= q)
      <3>1. Cycle(2) = 2 * Cadence
        BY CadenceType DEF Cycle
      <3> QED BY <2>1, <3>1, <1>1, CyclesOrdered, CadenceType
    <2> QED BY <1>1, <1>2, <2>2 DEF SinceLast, q
  <1>3. CASE Overdue(span)
    BY <1>1, <1>3 DEF SinceLast, q
  <1> QED BY <1>2, <1>3

-----------------------------------------------------------------------------
(* The time axis: a finite set of cycles.                                  *)

\* A finite set of times has a first and a last one.
LEMMA MaxExists ==
  ASSUME NEW S, IsFiniteSet(S), S \subseteq Int, S # {}
  PROVE  Max(S) \in S /\ \A t \in S : t <= Max(S)
  <1> DEFINE G == {U \in SUBSET S : U # {} => \E x \in U : \A y \in U : x >= y}
  <1>1. ASSUME NEW U \in SUBSET S, \A V \in SUBSET U : V # U => V \in G
        PROVE  U \in G
    <2> SUFFICES ASSUME U # {} PROVE \E x \in U : \A y \in U : x >= y
      OBVIOUS
    <2>1. PICK z \in U : TRUE
      OBVIOUS
    <2>2. U \ {z} \in G
      BY <1>1, <2>1
    <2>3. CASE U \ {z} = {}
      <3>1. \A y \in U : z >= y
        BY <2>1, <2>3
      <3> QED BY <2>1, <3>1
    <2>4. CASE U \ {z} # {}
      <3>1. PICK x \in U \ {z} : \A y \in U \ {z} : x >= y
        BY <2>2, <2>4
      <3>2. CASE x >= z
        BY <3>1, <3>2
      <3>3. CASE ~(x >= z)
        <4>1. \A y \in U : z >= y
          BY <2>1, <3>1, <3>3
        <4> QED BY <2>1, <4>1
      <3> QED BY <3>2, <3>3
    <2> QED BY <2>3, <2>4
  <1> HIDE DEF G
  <1>2. \A U \in SUBSET S : U \in G
    BY <1>1, SubsetInduction
  <1>3. S \in G
    BY <1>2
  <1>4. \E x \in S : \A y \in S : x >= y
    BY <1>3 DEF G
  <1>5. /\ Max(S) \in S
        /\ \A y \in S : Max(S) >= y
    BY <1>4 DEF Max
  <1> QED BY <1>5

LEMMA MinExists ==
  ASSUME NEW S, IsFiniteSet(S), S \subseteq Int, S # {}
  PROVE  Min(S) \in S /\ \A t \in S : Min(S) <= t
  <1> DEFINE G == {U \in SUBSET S : U # {} => \E x \in U : \A y \in U : x <= y}
  <1>1. ASSUME NEW U \in SUBSET S, \A V \in SUBSET U : V # U => V \in G
        PROVE  U \in G
    <2> SUFFICES ASSUME U # {} PROVE \E x \in U : \A y \in U : x <= y
      OBVIOUS
    <2>1. PICK z \in U : TRUE
      OBVIOUS
    <2>2. U \ {z} \in G
      BY <1>1, <2>1
    <2>3. CASE U \ {z} = {}
      <3>1. \A y \in U : z <= y
        BY <2>1, <2>3
      <3> QED BY <2>1, <3>1
    <2>4. CASE U \ {z} # {}
      <3>1. PICK x \in U \ {z} : \A y \in U \ {z} : x <= y
        BY <2>2, <2>4
      <3>2. CASE x <= z
        BY <3>1, <3>2
      <3>3. CASE ~(x <= z)
        <4>1. \A y \in U : z <= y
          BY <2>1, <3>1, <3>3
        <4> QED BY <2>1, <4>1
      <3> QED BY <3>2, <3>3
    <2> QED BY <2>3, <2>4
  <1> HIDE DEF G
  <1>2. \A U \in SUBSET S : U \in G
    BY <1>1, SubsetInduction
  <1>3. S \in G
    BY <1>2
  <1>4. \E x \in S : \A y \in S : x <= y
    BY <1>3 DEF G
  <1>5. /\ Min(S) \in S
        /\ \A y \in S : Min(S) <= y
    BY <1>4 DEF Min
  <1> QED BY <1>5

LEMMA MinIs ==
  ASSUME NEW S \in SUBSET Int, NEW m \in S, \A t \in S : m <= t
  PROVE  Min(S) = m
  <1>1. /\ Min(S) \in S
        /\ \A y \in S : Min(S) <= y
    BY DEF Min
  <1>2. Min(S) <= m /\ m <= Min(S) /\ m \in Int /\ Min(S) \in Int
    BY <1>1
  <1> QED BY <1>2

\* What Inner adds up for a point of the axis, and the sum.
GapOf(axis, t) ==
  Between(IF t = Min(axis) THEN 0 ELSE t - Max({s \in axis : s < t}))
GapSum(axis, over) == SumFunctionOnSet([t \in axis |-> GapOf(axis, t)], over)

LEMMA InnerIsSum == \A rows, time : Inner(rows, time) = GapSum(Axis(rows, time), Axis(rows, time))
  <1> SUFFICES ASSUME NEW rows, NEW time
               PROVE  Inner(rows, time) = GapSum(Axis(rows, time), Axis(rows, time))
    OBVIOUS
  <1> DEFINE axis == Axis(rows, time)
             gap == [t \in axis |-> IF t = Min(axis) THEN 0 ELSE t - Max({s \in axis : s < t})]
  <1>1. [t \in axis |-> Between(gap[t])] = [t \in axis |-> GapOf(axis, t)]
    <2>1. \A t \in axis : gap[t] = IF t = Min(axis) THEN 0 ELSE t - Max({s \in axis : s < t})
      OBVIOUS
    <2> HIDE DEF gap, axis
    <2> QED BY <2>1 DEF GapOf
  <1>2. Inner(rows, time) = SumFunctionOnSet([t \in axis |-> Between(gap[t])], axis)
    BY DEF Inner
  <1> HIDE DEF gap
  <1> QED BY <1>1, <1>2 DEF GapSum

\* A finite set of cycles.
IsAxis(S) == IsFiniteSet(S) /\ S \subseteq Int /\ \A t \in S : t % Cadence = 0

\* A gap within the axis is one cycle more than the cycles missing in it.
LEMMA GapType ==
  ASSUME NEW S, IsAxis(S), NEW t \in S, t # Min(S)
  PROVE  LET before == Max({s \in S : s < t})
         IN /\ before \in S /\ before < t /\ GapOf(S, t) \in Int
            /\ Cycle(GapOf(S, t) + 1) = t - before
  <1> DEFINE B == {s \in S : s < t}
             b == Max(B)
  <1>1. B \subseteq Int /\ IsFiniteSet(B)
    BY FS_Subset DEF IsAxis
  <1>2. B # {}
    <2>1. Min(S) \in S /\ Min(S) <= t
      BY MinExists DEF IsAxis
    <2>2. Min(S) \in Int /\ t \in Int
      BY <2>1 DEF IsAxis
    <2>3. Min(S) < t
      BY <2>1, <2>2
    <2>4. Min(S) \in B
      BY <2>1, <2>3
    <2> QED BY <2>4
  <1>3. b \in B
    <2> HIDE DEF B
    <2> QED BY <1>1, <1>2, MaxExists
  <1>4. b \in S /\ b < t /\ b \in Int /\ t \in Int /\ b % Cadence = 0 /\ t % Cadence = 0
    BY <1>3 DEF IsAxis
  <1> HIDE DEF b
  <1>5. PICK k \in Int, n \in Int : b = Cycle(k) /\ t = Cycle(n)
    BY <1>4, CyclesAre
  <1>6. k < n
    BY <1>4, <1>5, CyclesOrdered
  <1>7. Cycle(n - k) = t - b /\ n - k \in Nat \ {0}
    <2>1. Cycle(k + (n - k)) = Cycle(k) + Cycle(n - k)
      BY CyclesOrdered, <1>5
    <2>2. k + (n - k) = n
      OBVIOUS
    <2>3. Cycle(n - k) \in Int
      BY CyclesAre, <1>5
    <2> QED BY <1>4, <1>5, <1>6, <2>1, <2>2, <2>3
  <1>8. GapOf(S, t) = n - k - 1
    BY <1>7, GapExact DEF GapOf, b
  <1>9. GapOf(S, t) + 1 = n - k
    BY <1>8
  <1> QED BY <1>4, <1>7, <1>8, <1>9 DEF b

LEMMA GapIsInt ==
  ASSUME NEW S, IsAxis(S), NEW t \in S
  PROVE  GapOf(S, t) \in Int /\ (t = Min(S) => GapOf(S, t) = 0)
  <1>1. Between(0) = 0
    BY CadenceType DEF Between, Overdue
  <1>2. CASE t = Min(S)
    BY <1>1, <1>2 DEF GapOf
  <1>3. CASE t # Min(S)
    BY <1>3, GapType
  <1> QED BY <1>2, <1>3

\* The gaps of an axis without its last point are the gaps of the axis.
LEMMA GapsBefore ==
  ASSUME NEW U, IsAxis(U), U # {}, U \ {Max(U)} # {}
  PROVE  LET V == U \ {Max(U)}
         IN /\ IsAxis(V) /\ Min(V) = Min(U) /\ Max(U) # Min(U)
            /\ Max({s \in U : s < Max(U)}) = Max(V)
            /\ \A t \in V : GapOf(U, t) = GapOf(V, t)
  <1>0. PICK m \in U : m = Max(U) /\ \A t \in U : t <= m
    BY MaxExists DEF IsAxis
  <1> DEFINE V == U \ {m}
  <1>1. U \subseteq Int /\ IsFiniteSet(U) /\ m \in Int
    BY DEF IsAxis
  <1>2. IsAxis(V) /\ V # {} /\ V \subseteq Int
    BY <1>0, <1>1, FS_Subset DEF IsAxis
  <1>3. \A t \in V : t < m
    <2> SUFFICES ASSUME NEW t \in V PROVE t < m
      OBVIOUS
    <2>1. t <= m /\ t # m /\ t \in Int
      BY <1>0, <1>1
    <2> QED BY <1>1, <2>1
  <1>4. Min(V) \in V /\ \A t \in V : Min(V) <= t
    <2> HIDE DEF V
    <2> QED BY <1>2, MinExists DEF IsAxis
  <1>5. \A t \in U : Min(V) <= t
    <2>1. Min(V) < m /\ Min(V) \in Int
      BY <1>2, <1>3, <1>4
    <2>2. Min(V) <= m
      BY <1>1, <2>1
    <2> QED BY <1>4, <2>2
  <1>6. Min(U) = Min(V)
    <2>1. Min(V) \in U
      BY <1>4
    <2> QED BY <1>1, <1>5, <2>1, MinIs
  <1>7. m # Min(U)
    BY <1>4, <1>6
  <1>8. {s \in U : s < m} = V
    <2>1. ~(m < m)
      BY <1>1
    <2> QED BY <1>3, <2>1
  <1>9. ASSUME NEW t \in V PROVE GapOf(U, t) = GapOf(V, t)
    <2>1. ~(m < t)
      <3>1. t < m /\ t \in Int
        BY <1>2, <1>3
      <3> QED BY <1>1, <3>1
    <2>2. {s \in U : s < t} = {s \in V : s < t}
      BY <2>1
    <2> QED BY <1>6, <2>2 DEF GapOf
  <1> QED BY <1>0, <1>2, <1>6, <1>7, <1>8, <1>9

\* The gaps and the points of an axis are the cycles from its first to its last.
LEMMA InnerExact ==
  ASSUME NEW S, IsAxis(S), S # {}
  PROVE  /\ GapSum(S, S) \in Int
         /\ Cycle(GapSum(S, S) + Cardinality(S) - 1) = Max(S) - Min(S)
  <1> DEFINE G == {U \in SUBSET S : U # {} =>
                     Cycle(GapSum(U, U) + Cardinality(U) - 1) = Max(U) - Min(U)}
  <1>0. ASSUME NEW U \in SUBSET S
        PROVE  IsAxis(U) /\ GapSum(U, U) \in Int /\ Cardinality(U) \in Nat
    <2>1. IsAxis(U) /\ IsFiniteSet(U)
      BY FS_Subset DEF IsAxis
    <2>2. \A t \in U : [s \in U |-> GapOf(U, s)][t] \in Int
      BY <2>1, GapIsInt
    <2> QED BY <2>1, <2>2, SumType, FS_CardinalityType DEF GapSum
  <1>1. ASSUME NEW U \in SUBSET S, \A V \in SUBSET U : V # U => V \in G
        PROVE  U \in G
    <2> SUFFICES ASSUME U # {}
                 PROVE  Cycle(GapSum(U, U) + Cardinality(U) - 1) = Max(U) - Min(U)
      OBVIOUS
    <2> DEFINE m == Max(U)
               V == U \ {m}
               f == [t \in U |-> GapOf(U, t)]
               h == [t \in V |-> GapOf(V, t)]
    <2>1. IsAxis(U) /\ IsFiniteSet(U) /\ m \in U /\ U \subseteq Int
      BY <1>0, MaxExists DEF IsAxis
    <2>2. IsFiniteSet(V) /\ Cardinality(V) = Cardinality(U) - 1 /\ V \in SUBSET S
      BY <2>1, FS_RemoveElement
    <2>3. \A t \in U : f[t] = GapOf(U, t) /\ f[t] \in Int
      BY <2>1, GapIsInt
    <2>4. GapSum(U, U) = GapOf(U, m) + SumFunctionOnSet(f, V)
      <3>1. SumFunctionOnSet(f, U) = f[m] + SumFunctionOnSet(f, U \ {m})
        <4> HIDE DEF f, m
        <4> QED BY <2>1, <2>3, SumRemove
      <3> QED BY <3>1, <2>1, <2>3 DEF GapSum
    <2>5. CASE V = {}
      <3>1. U = {m}
        BY <2>1, <2>5
      <3>2. Min(U) = m
        <4>1. m \in Int /\ m <= m
          <5>1. m \in Int
            BY <2>1
          <5> HIDE DEF m
          <5> QED BY <5>1
        <4>2. \A t \in U : m <= t
          BY <3>1, <4>1
        <4> HIDE DEF m
        <4> QED BY <2>1, <4>2, MinIs
      <3>3. SumFunctionOnSet(f, V) = 0
        BY <2>5, SumEmpty
      <3>4. Cardinality(U) = 1
        BY <3>1, FS_Singleton
      <3>5. GapOf(U, m) = 0
        BY <2>1, <3>2, GapIsInt
      <3>6. GapSum(U, U) + Cardinality(U) - 1 = 0
        BY <2>4, <3>3, <3>4, <3>5
      <3>7. m - m = 0
        <4>1. m \in Int
          BY <2>1
        <4> HIDE DEF m
        <4> QED BY <4>1
      <3> QED BY <3>2, <3>6, <3>7, CyclesOrdered
    <2>6. CASE V # {}
      <3>1. /\ IsAxis(V) /\ Min(V) = Min(U) /\ m # Min(U)
            /\ Max({s \in U : s < m}) = Max(V)
            /\ \A t \in V : GapOf(U, t) = GapOf(V, t)
        BY <2>1, <2>6, GapsBefore
      <3>2. SumFunctionOnSet(f, V) = GapSum(V, V)
        <4>1. \A t \in V : f[t] \in Int /\ h[t] = f[t]
          BY <2>3, <3>1
        <4>2. SumFunctionOnSet(f, V) = SumFunctionOnSet(h, V)
          <5> HIDE DEF f, h, V
          <5> QED BY <4>1, <2>2, SumSame
        <4> QED BY <4>2 DEF GapSum
      <3>3. GapOf(U, m) \in Int /\ Cycle(GapOf(U, m) + 1) = m - Max(V)
        BY <2>1, <3>1, GapType
      <3>4. V \in G
        <4>1. V \in SUBSET U /\ V # U
          BY <2>1
        <4> QED BY <1>1, <4>1
      <3>5. Cycle(GapSum(V, V) + Cardinality(V) - 1) = Max(V) - Min(V)
        BY <2>6, <3>4
      <3>6. GapSum(V, V) \in Int /\ Cardinality(V) \in Nat
        BY <1>0, <2>2
      <3>7. Max(V) \in Int /\ Min(V) \in Int
        BY <2>2, <2>6, <3>1, MaxExists, MinExists DEF IsAxis
      <3> DEFINE x == GapSum(V, V) + Cardinality(V) - 1
                 y == GapOf(U, m) + 1
      <3>8. x \in Int /\ y \in Int /\ GapSum(U, U) + Cardinality(U) - 1 = x + y
        <4>1. Cardinality(U) \in Nat /\ Cardinality(V) = Cardinality(U) - 1
          BY <2>1, <2>2, FS_CardinalityType
        <4> HIDE DEF m, V, f
        <4> QED BY <2>4, <3>2, <3>3, <3>6, <4>1
      <3>9. Cycle(x + y) = Cycle(x) + Cycle(y)
        <4> HIDE DEF x, y
        <4> QED BY <3>8, CyclesOrdered
      <3>10. Cycle(x) = Max(V) - Min(U) /\ Cycle(y) = m - Max(V)
        BY <3>1, <3>3, <3>5
      <3> HIDE DEF x, y, m, V
      <3>11. m \in Int /\ Min(U) \in Int
        BY <2>1, <3>1, <3>7
      <3>12. Cycle(x + y) = m - Min(U)
        BY <3>7, <3>9, <3>10, <3>11
      <3> QED BY <3>8, <3>12 DEF m
    <2> QED BY <2>5, <2>6
  <1> HIDE DEF G
  <1>2. \A U \in SUBSET S : U \in G
    BY <1>1, SubsetInduction DEF IsAxis
  <1>3. S \in G
    BY <1>2
  <1> QED BY <1>0, <1>3 DEF G

-----------------------------------------------------------------------------
(* The rows, and the count of the page.                                    *)

\* A run begins when a cycle is due, and its rows bear that time.
RunsOnCycles ==
  /\ Running => run.at \in Int /\ run.at % Cadence = 0
  /\ \A r \in ops : r.at \in Int /\ r.at <= now /\ r.at % Cadence = 0

LEMMA CyclesInit == Init => RunsOnCycles
  BY DEF Init, PoolInit, NoRun, Running, RunsOnCycles

LEMMA CyclesNext == TypeOK /\ RunsOnCycles /\ [Next]_vars => RunsOnCycles'
  <1> SUFFICES ASSUME TypeOK, RunsOnCycles, [Next]_vars PROVE RunsOnCycles'
    OBVIOUS
  <1>1. now \in Nat /\ run \in Run /\ (Running => run.at \in 0..now)
    BY DEF TypeOK
  <1>2. ASSUME now' = now, ops' = ops, run'.at = run.at, Running
        PROVE  RunsOnCycles'
    BY <1>1, <1>2 DEF RunsOnCycles, Running
  <1>3. \A i, j, k, l, m, n : [run EXCEPT !.stage = i, !.found = j, !.results = k, !.todo = l,
                                        !.attempt = m, !.bad = n].at = run.at
    BY <1>1 DEF Run
  <1>4. \A stage, found, results : Enter(stage, found, results) => run'.at = run.at
    BY <1>3 DEF Enter
  <1>5. \A ok : Ends(ok) => run'.at = run.at
    BY <1>1 DEF Ends, AttemptFailed, NextItem, Run
  <1>6. InSteps => Running
    BY StageTable DEF InSteps, Running
  <1>7. child.pc # "idle" => Running
    <2>1. child.pc # "idle" => child # Idle
      BY DEF Idle
    <2> QED BY <1>6, <2>1 DEF TypeOK, Working
  <1>8. CASE Start
    <2>1. now' = now /\ ops' = ops /\ now % Cadence = 0
      BY <1>8 DEF Start, Due, poolVars
    <2>2. run'.at = now
      BY <1>8 DEF Start, NoRun
    <2> QED BY <1>1, <2>1, <2>2 DEF RunsOnCycles
  <1>9. CASE Discover \/ StepOver
    <2>1. now' = now /\ ops' = ops /\ Running
      BY <1>6, <1>9 DEF Discover, StepOver, poolVars
    <2>2. run'.at = run.at
      BY <1>4, <1>9 DEF Discover, StepOver
    <2> QED BY <1>2, <2>1, <2>2
  <1>10. CASE OtherScript \/ ReferencePrices \/ Rollup
    <2>1. now' = now /\ ops' = ops /\ Running
      BY <1>6, <1>10 DEF OtherScript, ReferencePrices, Rollup, Working, poolVars
    <2>2. run'.at = run.at
      BY <1>5, <1>10 DEF OtherScript, ReferencePrices, Rollup
    <2> QED BY <1>2, <2>1, <2>2
  <1>11. CASE PoolDone \/ PoolFails
    <2>1. child.pc # "idle"
      BY <1>11 DEF PoolDone, PoolFails
    <2>2. now' = now /\ ops' = ops /\ Running
      BY <1>7, <1>11, <2>1 DEF PoolDone, PoolFails
    <2>3. run'.at = run.at
      BY <1>5, <1>11 DEF PoolDone, PoolFails
    <2> QED BY <1>2, <2>2, <2>3
  <1>12. CASE StartPool \/ PoolStep \/ UNCHANGED vars
    <2>1. now' = now /\ ops' = ops /\ run' = run
      BY <1>12 DEF StartPool, PoolStep, Script, jobVars, vars, poolVars
    <2> QED BY <2>1 DEF RunsOnCycles, Running
  <1>13. CASE Persist
    <2>1. run'.stage = 0 /\ now' = now /\ Running
      BY <1>13, StageTable DEF Persist, NoRun, poolVars, Running
    <2>2. ASSUME NEW r \in ops' PROVE r \in ops \/ r.at = run.at
      BY <1>13, <2>2 DEF Persist
    <2> QED BY <1>1, <2>1, <2>2 DEF RunsOnCycles, Running
  <1>14. CASE Kill
    <2>1. run'.stage = 0 /\ now' = now /\ ops' = ops
      BY <1>14 DEF Kill, NoRun
    <2> QED BY <2>1 DEF RunsOnCycles, Running
  <1>15. CASE Tick
    <2>1. now' = now + 1 /\ ops' = ops /\ run' = run
      BY <1>15 DEF Tick, Close, jobVars
    <2>2. ASSUME NEW r \in ops PROVE r.at <= now + 1
      BY <1>1 DEF RunsOnCycles
    <2> QED BY <2>1, <2>2 DEF RunsOnCycles, Running
  <1> QED
    BY <1>8, <1>9, <1>10, <1>11, <1>12, <1>13, <1>14, <1>15 DEF Next

\* The cycles due from one time to another, by their numbers.
LEMMA DueCycles ==
  ASSUME NEW low \in Int, NEW high \in Int, NEW from \in Int, NEW to \in Int, low <= high + 1,
         from <= Cycle(low), Cycle(low) < from + Cadence,
         Cycle(high) <= to, to < Cycle(high) + Cadence
  PROVE  /\ IsFiniteSet({t \in from..to : t % Cadence = 0})
         /\ Cardinality({t \in from..to : t % Cadence = 0}) = high - low + 1
  <1> DEFINE D == {t \in from..to : t % Cadence = 0}
             f == [k \in low..high |-> Cycle(k)]
  <1>1. ASSUME NEW k \in low..high PROVE f[k] \in D
    <2>0. k \in Int /\ low <= k /\ k <= high
      OBVIOUS
    <2>1. Cycle(low) <= Cycle(k) /\ Cycle(k) <= Cycle(high)
      <3>1. (Cycle(low) <= Cycle(k)) = (low <= k)
        BY <2>0, CyclesOrdered
      <3>2. (Cycle(k) <= Cycle(high)) = (k <= high)
        BY <2>0, CyclesOrdered
      <3> QED BY <2>0, <3>1, <3>2
    <2>2. Cycle(k) \in Int /\ Cycle(low) \in Int /\ Cycle(high) \in Int /\ Cycle(k) % Cadence = 0
      BY <2>0, CyclesAre
    <2> QED BY <2>1, <2>2
  <1>2. \A k, n \in low..high : f[k] = f[n] => k = n
    BY CyclesOrdered
  <1>3. ASSUME NEW t \in D PROVE \E k \in low..high : f[k] = t
    <2>1. PICK k \in Int : t = Cycle(k)
      BY CyclesAre
    <2>2. /\ Cycle(k) \in Int /\ Cycle(low) \in Int /\ Cycle(high) \in Int
          /\ from <= t /\ t <= to
      BY CyclesAre, <2>1
    <2>3. low <= k
      <3>1. SUFFICES ASSUME k + 1 <= low PROVE FALSE
        OBVIOUS
      <3>2. Cycle(k) + Cadence <= Cycle(low)
        BY <3>1, NextCycle
      <3> QED BY <2>1, <2>2, <3>2, CadenceType
    <2>4. k <= high
      <3>1. SUFFICES ASSUME high + 1 <= k PROVE FALSE
        OBVIOUS
      <3>2. Cycle(high) + Cadence <= Cycle(k)
        BY <3>1, NextCycle
      <3> QED BY <2>1, <2>2, <3>2, CadenceType
    <2> QED BY <2>1, <2>3, <2>4
  <1>4. f \in Bijection(low..high, D)
    <2>1. f \in [low..high -> D] /\ IsInjective(f)
      BY <1>1, <1>2 DEF IsInjective
    <2>2. \A t \in D : \E k \in low..high : f[k] = t
      BY <1>3
    <2> HIDE DEF f, D
    <2> QED BY <2>1, <2>2 DEF Bijection, Injection, Surjection
  <1>5. ExistsBijection(low..high, D)
    BY <1>4 DEF ExistsBijection
  <1>6. IsFiniteSet(low..high) /\ Cardinality(low..high) = high - low + 1
    BY FS_Interval
  <1> HIDE DEF D, f
  <1>7. IsFiniteSet(D) /\ Cardinality(D) = Cardinality(low..high)
    BY <1>5, <1>6, FS_Bijection
  <1> QED BY <1>6, <1>7 DEF D

\* What the page shows against what is missing, for rows that runs wrote.
LEMMA PageTrue ==
  ASSUME TypeOK, RunsOnCycles, Axis(ops, now) # {}
  PROVE  LET since  == HistorySince(ops)
             from   == IF since > now - Window THEN since ELSE now - Window
             missed == Cardinality({t \in from..now : t % Cadence = 0 /\ t \notin Axis(ops, now)})
         IN MissedCycles(ops, now) <= missed /\ missed <= MissedCycles(ops, now) + 2
  <1> DEFINE ats   == {r.at : r \in ops}
             since == HistorySince(ops)
             from  == IF since > now - Window THEN since ELSE now - Window
             A     == Axis(ops, now)
  <1>1. now \in Nat /\ Window \in Nat /\ \A t \in ats : t \in 0..now /\ t % Cadence = 0
    BY StatusAssumption DEF TypeOK, RunsOnCycles
  <1>2. A \subseteq ats /\ (\A t \in A : t >= now - Window) /\ \A t \in ats : t >= now - Window => t \in A
    BY DEF Axis, InWindow
  <1> HIDE DEF ats, A
  <1>3. IsFiniteSet(ats) /\ ats \subseteq Int /\ ats # {} /\ IsFiniteSet(A) /\ IsAxis(A) /\ A # {}
    <2>1. IsFiniteSet(0..now) /\ ats \in SUBSET (0..now) /\ A \in SUBSET (0..now)
      BY <1>1, <1>2, FS_Interval
    <2>2. IsFiniteSet(ats) /\ IsFiniteSet(A)
      BY <2>1, FS_Subset
    <2>3. A # {}
      BY DEF A
    <2>4. ats \subseteq Int /\ A \subseteq Int /\ ats # {}
      <3>1. 0..now \subseteq Int
        OBVIOUS
      <3> QED BY <1>2, <2>1, <2>3, <3>1
    <2>5. \A t \in A : t % Cadence = 0
      BY <1>1, <1>2
    <2> QED BY <2>2, <2>3, <2>4, <2>5 DEF IsAxis
  <1>4. since \in ats /\ (\A t \in ats : since <= t) /\ since \in Int
    <2>1. ops # {}
      BY <1>3 DEF ats
    <2>2. since = Min(ats)
      BY <2>1 DEF HistorySince, ats
    <2> QED BY <1>3, <2>2, MinExists
  <1> HIDE DEF since
  <1>5. PICK a \in A : a = Min(A) /\ \A t \in A : a <= t
    BY <1>3, MinExists DEF IsAxis
  <1>6. PICK b \in A : b = Max(A) /\ \A t \in A : t <= b
    BY <1>3, MaxExists DEF IsAxis
  <1>7. /\ a \in 0..now /\ b \in 0..now /\ a >= now - Window
        /\ a % Cadence = 0 /\ b % Cadence = 0
    BY <1>1, <1>2, <1>5, <1>6
  <1>8. PICK first \in Int, last \in Int : a = Cycle(first) /\ b = Cycle(last)
    BY <1>7, CyclesAre
  <1>9. PICK inner \in Int : /\ inner = Inner(ops, now)
                             /\ inner + Cardinality(A) - 1 = last - first
    <2>1. /\ GapSum(A, A) \in Int /\ Cardinality(A) \in Nat
          /\ Cycle(GapSum(A, A) + Cardinality(A) - 1) = b - a
      BY <1>3, <1>5, <1>6, InnerExact, FS_CardinalityType
    <2>2. Cycle(last) = Cycle(first) + Cycle(last - first)
      <3>1. first + (last - first) = last /\ last - first \in Int
        OBVIOUS
      <3> QED BY <3>1, CyclesOrdered
    <2>3. Cycle(last - first) = b - a
      <3>1. Cycle(last - first) \in Int
        BY CyclesAre
      <3> QED BY <1>7, <1>8, <2>2, <3>1
    <2>4. GapSum(A, A) + Cardinality(A) - 1 = last - first
      <3> DEFINE x == GapSum(A, A) + Cardinality(A) - 1
                 y == last - first
      <3>1. x \in Int /\ y \in Int /\ Cycle(x) = Cycle(y)
        BY <2>1, <2>3
      <3> HIDE DEF x, y
      <3>2. x = y
        BY <3>1, CyclesOrdered
      <3> QED BY <3>2 DEF x, y
    <2>5. Inner(ops, now) = GapSum(A, A)
      BY InnerIsSum DEF A
    <2> QED BY <2>1, <2>4, <2>5
  \* The cycles before the first row of the axis.
  <1>10. PICK early \in Nat :
           /\ Leading(ops, now) \in Int
           /\ Leading(ops, now) <= early /\ early <= Leading(ops, now) + 1
           /\ from \in Int /\ from <= a /\ from <= a - Cycle(early) /\ a - Cycle(early) < from + Cadence
    <2>1. CASE since > now - Window
      <3>1. a = since
        <4>1. since \in A
          BY <1>1, <1>2, <1>4, <2>1
        <4>2. a <= since /\ since <= a
          BY <1>2, <1>4, <1>5, <4>1
        <4> QED BY <1>4, <1>7, <4>2
      <3>2. Leading(ops, now) = 0
        <4>1. ~(since <= now - Window)
          BY <1>1, <1>4, <2>1
        <4> QED BY <4>1 DEF Leading, since
      <3>3. from = a
        BY <2>1, <3>1
      <3>4. Cycle(0) = 0 /\ a \in Int
        BY CyclesOrdered, <1>7
      <3>5. 0 \in Nat /\ from \in Int /\ from <= a - Cycle(0) /\ a - Cycle(0) < from + Cadence /\ from <= a
        BY <3>3, <3>4, CadenceType
      <3> QED BY <3>2, <3>5
    <2>2. CASE ~(since > now - Window)
      <3> DEFINE span == a - (now - Window)
                 q    == span \div Cadence
      <3>1. span \in Nat /\ from = now - Window /\ from \in Int
        BY <1>1, <1>7, <2>2
      <3>2. q \in Nat /\ Cycle(q) <= span /\ span < Cycle(q) + Cadence /\ Cycle(q) \in Int
        <4> HIDE DEF span
        <4>1. q \in Nat /\ Cycle(q) <= span /\ span < Cycle(q) + Cadence
          BY <3>1, WholeCycles
        <4> QED BY <4>1, CyclesAre
      <3>3. Between(span) \in Int /\ Between(span) <= q /\ q <= Between(span) + 1
        <4> HIDE DEF span
        <4> QED BY <3>1, GapNear
      <3>4. Leading(ops, now) = Between(span)
        <4>1. since <= now - Window
          BY <1>1, <1>4, <2>2
        <4>2. Axis(ops, now) # {} /\ HistorySince(ops) <= now - Window /\ Min(Axis(ops, now)) = a
          BY <1>3, <1>5, <4>1 DEF since, A
        <4> QED BY <4>2 DEF Leading
      <3> HIDE DEF q
      <3>5. from <= a /\ from <= a - Cycle(q) /\ a - Cycle(q) < from + Cadence
        BY <1>1, <1>7, <3>1, <3>2, CadenceType
      <3> QED BY <3>1, <3>2, <3>3, <3>4, <3>5
    <2> QED BY <2>1, <2>2
  <1> HIDE DEF from
  \* The cycles after the last row.
  <1>11. PICK late \in Nat :
           /\ Trailing(ops, now) \in Int
           /\ Trailing(ops, now) <= late /\ late <= Trailing(ops, now) + 1
           /\ b + Cycle(late) <= now /\ now < b + Cycle(late) + Cadence
    <2> DEFINE span == now - b
               q    == span \div Cadence
    <2>1. span \in Nat
      BY <1>1, <1>7
    <2>2. q \in Nat /\ Cycle(q) <= span /\ span < Cycle(q) + Cadence /\ Cycle(q) \in Int
      <3> HIDE DEF span
      <3>1. q \in Nat /\ Cycle(q) <= span /\ span < Cycle(q) + Cadence
        BY <2>1, WholeCycles
      <3> QED BY <3>1, CyclesAre
    <2>3. SinceLast(span) \in Int /\ SinceLast(span) <= q /\ q <= SinceLast(span) + 1
      <3> HIDE DEF span
      <3> QED BY <2>1, GapOpen
    <2>4. Trailing(ops, now) = SinceLast(span)
      BY <1>3, <1>6 DEF Trailing, A
    <2> HIDE DEF q
    <2>5. b + Cycle(q) <= now /\ now < b + Cycle(q) + Cadence
      BY <1>1, <1>7, <2>2, CadenceType
    <2> QED BY <2>2, <2>3, <2>4, <2>5
  <1> DEFINE D == {t \in from..now : t % Cadence = 0}
             low == first - early
             high == last + late
  <1>12. IsFiniteSet(D) /\ Cardinality(D) = high - low + 1
    <2>1. low \in Int /\ high \in Int /\ low + early = first
      OBVIOUS
    <2> HIDE DEF low, high, D
    <2>2. Cycle(low) + Cycle(early) = a /\ Cycle(high) = b + Cycle(late)
      <3>1. Cycle(low + early) = Cycle(low) + Cycle(early)
        BY <2>1, CyclesOrdered
      <3>2. Cycle(last + late) = Cycle(last) + Cycle(late)
        BY CyclesOrdered
      <3> QED BY <1>8, <2>1, <3>1, <3>2 DEF high
    <2>3. Cycle(low) \in Int /\ Cycle(high) \in Int /\ Cycle(early) \in Int /\ Cycle(late) \in Int
      BY <2>1, CyclesAre
    <2>4. from <= Cycle(low) /\ Cycle(low) < from + Cadence
      BY <1>7, <1>10, <2>2, <2>3
    <2>5. Cycle(high) <= now /\ now < Cycle(high) + Cadence
      BY <1>11, <2>2
    <2>6. low <= high + 1
      <3>1. first <= last
        <4>1. a <= b
          BY <1>5
        <4> QED BY <1>8, <4>1, CyclesOrdered
      <3> QED BY <3>1 DEF low, high
    <2>7. now \in Int /\ from \in Int
      BY <1>1, <1>10
    <2> QED BY <2>1, <2>4, <2>5, <2>6, <2>7, DueCycles DEF D
  <1>13. A \subseteq D
    <2> SUFFICES ASSUME NEW t \in A PROVE t \in D
      OBVIOUS
    <2>1. t \in 0..now /\ t % Cadence = 0 /\ a <= t
      BY <1>1, <1>2, <1>5
    <2>2. from <= t
      BY <1>7, <1>10, <2>1
    <2> QED BY <1>1, <1>10, <2>1, <2>2
  <1>14. Cardinality(D \ A) = high - low + 1 - Cardinality(A)
    <2>1. D \cap A = A
      BY <1>13
    <2> HIDE DEF D, low, high
    <2>2. Cardinality(D \ A) = Cardinality(D) - Cardinality(D \cap A)
      BY <1>12, FS_Difference
    <2>3. Cardinality(D \ A) = Cardinality(D) - Cardinality(A)
      BY <2>1, <2>2, Zenon
    <2>4. Cardinality(D) = high - low + 1 /\ high \in Int /\ low \in Int
      BY <1>12 DEF high, low
    <2>5. Cardinality(A) \in Nat
      BY <1>3, FS_CardinalityType
    <2> QED BY <2>3, <2>4, <2>5
  <1>15. {t \in from..now : t % Cadence = 0 /\ t \notin Axis(ops, now)} = D \ A
    BY DEF A
  <1>16. Cardinality(A) \in Nat
    BY <1>3, FS_CardinalityType
  <1>17. Cardinality(D \ A) = inner + early + late
    <2> HIDE DEF D
    <2> QED BY <1>9, <1>14, <1>16
  <1>18. MissedCycles(ops, now) = Leading(ops, now) + inner + Trailing(ops, now)
    BY <1>9 DEF MissedCycles
  <1> HIDE DEF D
  <1>19. MissedCycles(ops, now) <= Cardinality(D \ A) /\ Cardinality(D \ A) <= MissedCycles(ops, now) + 2
    BY <1>9, <1>10, <1>11, <1>17, <1>18
  <1> QED BY <1>15, <1>19 DEF from, since

\* The missed cycles of the page (status.ts:279-321), for every cadence and window and
\* whatever cycles are late or missed: never one too many, and at most two too few, one
\* at each end of the window.
THEOREM MissedAreTrue == Spec => []MissedCyclesTrue
  <1>1. TypeOK /\ RunsOnCycles => MissedCyclesTrue
    BY PageTrue DEF MissedCyclesTrue
  <1>2. TypeOK /\ RunsOnCycles /\ [Next]_vars => RunsOnCycles'
    BY CyclesNext
  <1> QED BY <1>1, <1>2, CyclesInit, RefreshTypeCorrect, PTL DEF Spec

=============================================================================
