------------------------------ MODULE NatOrder ------------------------------
(***************************************************************************)
(* Sets of naturals in their order: least and greatest elements, and the   *)
(* position of an element.  The proofs use them for rows in the order of   *)
(* their ids and for tasks in the order of their indices.                  *)
(***************************************************************************)
EXTENDS Naturals, FiniteSetTheorems, WellFoundedInduction, TLAPS

\* Any set of numbers has a least element.
LEMMA LeastNat ==
  ASSUME NEW S \in SUBSET Nat, S # {}
  PROVE  \E m \in S : \A n \in S : m <= n
<1>1. PICK m \in S : \A n \in S : ~(<<n, m>> \in OpToRel(<, Nat))
  BY NatLessThanWellFounded, WFMin
<1>2. \A n \in S : ~(n < m)
  BY <1>1 DEF OpToRel
<1>3. QED BY <1>2

\* A set of numbers with an upper bound has a greatest element.
LEMMA GreatestNat ==
  ASSUME NEW S \in SUBSET Nat, S # {}, NEW b \in Nat, \A n \in S : n <= b
  PROVE  \E m \in S : \A n \in S : n <= m
<1> DEFINE U == {u \in Nat : \A n \in S : n <= u}
<1>1. PICK u \in U : \A v \in U : u <= v
  <2>1. b \in U OBVIOUS
  <2>2. QED BY <2>1, LeastNat
<1>2. u \in S
  <2>1. SUFFICES ASSUME u \notin S PROVE FALSE OBVIOUS
  <2>2. \A n \in S : n < u
    BY <2>1
  <2>3. u - 1 \in U
    <3>1. PICK n \in S : n < u
      BY <2>2
    <3>2. u - 1 \in Nat
      BY <3>1
    <3>3. \A l \in S : l <= u - 1
      BY <2>2, <3>2
    <3>4. QED BY <3>2, <3>3
  <2>4. QED BY <2>3, <1>1
<1>3. QED BY <1>1, <1>2

(***************************************************************************)
(* The position of i in S, which may be infinite as the elements before i  *)
(* are finitely many.                                                      *)
(***************************************************************************)
Smaller(S, i) == {j \in S : j < i}
Position(S, i) == Cardinality(Smaller(S, i))

LEMMA PositionIsNat ==
  ASSUME NEW S \in SUBSET Nat, NEW i \in Nat
  PROVE  IsFiniteSet(Smaller(S, i)) /\ Position(S, i) \in Nat
<1>1. Smaller(S, i) \subseteq 0 .. i
  <2>1. \A j \in Nat : j < i => j \in 0 .. i
    OBVIOUS
  <2>2. QED BY <2>1 DEF Smaller
<1>2. IsFiniteSet(0 .. i)
  BY FS_Interval
<1>3. IsFiniteSet(Smaller(S, i))
  BY <1>1, <1>2, FS_Subset
<1>4. QED BY <1>3, FS_CardinalityType DEF Position

\* Positions follow the order of the ids.
LEMMA PositionGrows ==
  ASSUME NEW S \in SUBSET Nat, NEW i \in S, NEW j \in Nat, i < j
  PROVE  Position(S, i) + 1 <= Position(S, j)
<1>1. /\ IsFiniteSet(Smaller(S, i)) /\ Position(S, i) \in Nat
      /\ IsFiniteSet(Smaller(S, j)) /\ Position(S, j) \in Nat
  BY PositionIsNat
<1>2. Smaller(S, i) \cup {i} \subseteq Smaller(S, j)
  <2>1. \A k \in Nat : k < i => k < j
    OBVIOUS
  <2>2. QED BY <2>1 DEF Smaller
<1>3. i \notin Smaller(S, i)
  BY DEF Smaller
<1>4. Cardinality(Smaller(S, i) \cup {i}) = Position(S, i) + 1
  BY <1>1, <1>3, FS_AddElement DEF Position
<1>5. Cardinality(Smaller(S, i) \cup {i}) <= Position(S, j)
  BY <1>1, <1>2, FS_Subset DEF Position
<1>6. QED BY <1>1, <1>4, <1>5

\* There is no gap: a row at position n or later means a row at position n.
LEMMA PositionReached ==
  ASSUME NEW S \in SUBSET Nat, NEW i \in S, NEW n \in Nat, Position(S, i) >= n
  PROVE  \E j \in S : Position(S, j) = n
<1> DEFINE late == {j \in S : Position(S, j) >= n}
<1>1. late \in SUBSET Nat /\ late # {}
  OBVIOUS
<1>2. PICK j \in late : \A k \in late : j <= k
  BY <1>1, LeastNat
<1>3. j \in S /\ j \in Nat /\ Position(S, j) \in Nat /\ Position(S, j) >= n
  BY <1>2, PositionIsNat
<1>4. CASE Smaller(S, j) = {}
  <2>1. Position(S, j) = 0
    BY <1>4, FS_EmptySet DEF Position
  <2>2. QED BY <1>3, <2>1
<1>5. CASE Smaller(S, j) # {}
  <2>1. Smaller(S, j) \in SUBSET Nat /\ \A k \in Smaller(S, j) : k <= j
    <3>1. \A k \in Nat : k < j => k <= j
      BY <1>3
    <3>2. QED BY <3>1 DEF Smaller
  <2>2. PICK k \in Smaller(S, j) : \A l \in Smaller(S, j) : l <= k
    BY <1>3, <1>5, <2>1, GreatestNat
  <2>3. k \in S /\ k \in Nat /\ k < j
    BY <2>2 DEF Smaller
  <2>4. IsFiniteSet(Smaller(S, k)) /\ Position(S, k) \in Nat
    BY <2>3, PositionIsNat
  <2>5. ~(Position(S, k) >= n)
    BY <1>2, <1>3, <2>3
  <2>6. Smaller(S, j) = Smaller(S, k) \cup {k}
    <3>1. \A l \in Nat : l <= k => l = k \/ l < k
      BY <2>3
    <3>2. \A l \in Nat : l < k => l < j
      BY <1>3, <2>3
    <3>3. QED BY <2>2, <2>3, <3>1, <3>2 DEF Smaller
  <2>7. k \notin Smaller(S, k)
    BY <2>3 DEF Smaller
  <2>8. Position(S, j) = Position(S, k) + 1
    BY <2>4, <2>6, <2>7, FS_AddElement DEF Position
  <2>9. QED BY <1>3, <2>4, <2>5, <2>8
<1>6. QED BY <1>4, <1>5

\* A row more moves no row up.
LEMMA PositionAfterInsert ==
  ASSUME NEW S \in SUBSET Nat, NEW T \in SUBSET Nat, S \subseteq T, NEW i \in Nat
  PROVE  Position(S, i) <= Position(T, i)
<1>1. IsFiniteSet(Smaller(T, i))
  BY PositionIsNat
<1>2. Smaller(S, i) \subseteq Smaller(T, i)
  BY DEF Smaller
<1>3. QED BY <1>1, <1>2, FS_Subset DEF Position

\* A row less, at position n or later, leaves the rows from n on from n on.
LEMMA PositionAfterDelete ==
  ASSUME NEW S \in SUBSET Nat, NEW k \in S, NEW i \in S, i # k,
         NEW n \in Nat, Position(S, k) >= n, Position(S, i) >= n
  PROVE  Position(S \ {k}, i) >= n
<1>1. /\ Position(S, i) \in Nat /\ Position(S, k) \in Nat
      /\ IsFiniteSet(Smaller(S \ {k}, i)) /\ Position(S \ {k}, i) \in Nat
  BY PositionIsNat
<1>2. CASE i < k
  <2>1. ~(k < i)
    BY <1>2
  <2>2. Smaller(S \ {k}, i) = Smaller(S, i)
    BY <2>1 DEF Smaller
  <2>3. QED BY <2>2 DEF Position
<1>3. CASE k < i
  <2>1. Smaller(S, i) = Smaller(S \ {k}, i) \cup {k} /\ k \notin Smaller(S \ {k}, i)
    BY <1>3 DEF Smaller
  <2>2. Position(S, i) = Position(S \ {k}, i) + 1
    BY <1>1, <2>1, FS_AddElement DEF Position
  <2>3. Position(S, k) + 1 <= Position(S, i)
    BY <1>3, PositionGrows
  <2>4. QED BY <1>1, <2>2, <2>3
<1>4. QED BY <1>2, <1>3

\* The position of the last element of a finite set.
LEMMA PositionOfLast ==
  ASSUME NEW S \in SUBSET Nat, IsFiniteSet(S), NEW m \in S, \A i \in S : i <= m
  PROVE  Position(S, m) = Cardinality(S) - 1
<1>1. Smaller(S, m) = S \ {m}
  <2>1. \A i \in Nat : i <= m /\ i # m => i < m
    OBVIOUS
  <2>2. ~(m < m)
    OBVIOUS
  <2>3. QED BY <2>1, <2>2 DEF Smaller
<1>2. QED BY <1>1, FS_RemoveElement DEF Position

=============================================================================
