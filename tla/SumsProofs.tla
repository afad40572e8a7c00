----------------------------- MODULE SumsProofs -----------------------------
(***************************************************************************)
(* Sums of natural numbers: what the proofs about balances rest on.        *)
(***************************************************************************)
EXTENDS Sums, FiniteSetTheorems, TLAPS

\* A number has as many units as it says.
LEMMA UnitsCounted ==
  ASSUME NEW D, NEW f \in [D -> Nat], NEW x \in D
  PROVE  IsFiniteSet(Units(f, x)) /\ Cardinality(Units(f, x)) = f[x]
<1> DEFINE A == {x}
           B == 1 .. f[x]
<1>1. IsFiniteSet(A) /\ Cardinality(A) = 1
  BY FS_Singleton
<1>2. IsFiniteSet(B) /\ Cardinality(B) = f[x]
  BY FS_Interval
<1>3. Units(f, x) = A \X B
  BY DEF Units
<1> HIDE DEF A, B
<1>4. IsFiniteSet(A \X B) /\ Cardinality(A \X B) = Cardinality(A) * Cardinality(B)
  BY <1>1, <1>2, FS_Product
<1>5. QED
  BY <1>1, <1>2, <1>3, <1>4

LEMMA UnitsFinite ==
  ASSUME NEW D, NEW f \in [D -> Nat], NEW S \in SUBSET D, IsFiniteSet(S)
  PROVE  IsFiniteSet(UNION {Units(f, x) : x \in S})
<1>1. IsFiniteSet({Units(f, x) : x \in S})
  <2> DEFINE g == [x \in S |-> Units(f, x)]
  <2>1. {Units(f, x) : x \in S} = {g[x] : x \in S}
    OBVIOUS
  <2>2. g \in Surjection(S, {Units(f, x) : x \in S})
    BY <2>1 DEF Surjection
  <2>3. QED
    BY <2>2, FS_Surjection
<1>2. \A U \in {Units(f, x) : x \in S} : IsFiniteSet(U)
  BY UnitsCounted
<1>3. QED
  BY <1>1, <1>2, FS_UNION

LEMMA SumType ==
  ASSUME NEW D, NEW f \in [D -> Nat], NEW S \in SUBSET D, IsFiniteSet(S)
  PROVE  SumOver(f, S) \in Nat
  BY UnitsFinite, FS_CardinalityType DEF SumOver

LEMMA SumEmpty ==
  ASSUME NEW f PROVE SumOver(f, {}) = 0
  BY FS_EmptySet DEF SumOver

LEMMA SumAdd ==
  ASSUME NEW D, NEW f \in [D -> Nat], NEW S \in SUBSET D, IsFiniteSet(S),
         NEW x \in D, x \notin S
  PROVE  SumOver(f, S \cup {x}) = SumOver(f, S) + f[x]
<1> DEFINE A == UNION {Units(f, y) : y \in S}
           B == Units(f, x)
<1>1. IsFiniteSet(A) /\ IsFiniteSet(B) /\ Cardinality(B) = f[x]
  BY UnitsFinite, UnitsCounted
<1>2. A \cap B = {}
  BY DEF Units
<1>3. UNION {Units(f, y) : y \in S \cup {x}} = A \cup B
  OBVIOUS
<1>4. Cardinality(A \cup B) = Cardinality(A) + Cardinality(B) - Cardinality(A \cap B)
  BY <1>1, FS_Union
<1>5. Cardinality(A \cap B) = 0
  BY <1>2, FS_EmptySet
<1>6. Cardinality(A) \in Nat /\ Cardinality(B) \in Nat
  BY <1>1, FS_CardinalityType
<1>7. QED
  BY <1>1, <1>3, <1>4, <1>5, <1>6 DEF SumOver

LEMMA SumSplits ==
  ASSUME NEW D, NEW f \in [D -> Nat], NEW T \in SUBSET D, IsFiniteSet(T),
         NEW S \in SUBSET T
  PROVE  SumOver(f, T) = SumOver(f, T \ S) + SumOver(f, S)
<1> DEFINE A == UNION {Units(f, y) : y \in T \ S}
           B == UNION {Units(f, y) : y \in S}
<1>1. S \in SUBSET D /\ T \ S \in SUBSET D /\ IsFiniteSet(S) /\ IsFiniteSet(T \ S)
  BY FS_Subset
<1>2. IsFiniteSet(A) /\ IsFiniteSet(B)
  BY <1>1, UnitsFinite
<1>3. A \cap B = {}
  BY DEF Units
<1>4. UNION {Units(f, y) : y \in T} = A \cup B
  OBVIOUS
<1>5. Cardinality(A \cup B) = Cardinality(A) + Cardinality(B) - Cardinality(A \cap B)
  BY <1>2, FS_Union
<1>6. Cardinality(A \cap B) = 0
  BY <1>3, FS_EmptySet
<1>7. Cardinality(A) \in Nat /\ Cardinality(B) \in Nat
  BY <1>2, FS_CardinalityType
<1>8. /\ SumOver(f, T) = Cardinality(A \cup B)
      /\ SumOver(f, T \ S) = Cardinality(A)
      /\ SumOver(f, S) = Cardinality(B)
  BY <1>4 DEF SumOver
<1> HIDE DEF A, B
<1>9. QED
  BY <1>5, <1>6, <1>7, <1>8

LEMMA SumGrows ==
  ASSUME NEW D, NEW f \in [D -> Nat], NEW T \in SUBSET D, IsFiniteSet(T),
         NEW S \in SUBSET T
  PROVE  SumOver(f, S) <= SumOver(f, T)
<1> DEFINE A == UNION {Units(f, y) : y \in S}
           B == UNION {Units(f, y) : y \in T}
<1>1. IsFiniteSet(B) /\ A \subseteq B
  BY UnitsFinite
<1>2. QED
  BY <1>1, FS_Subset DEF SumOver

\* Only the numbers that are added up count.
LEMMA SumSame ==
  ASSUME NEW f, NEW g, NEW S, \A x \in S : f[x] = g[x]
  PROVE  SumOver(f, S) = SumOver(g, S)
<1>1. \A x \in S : Units(f, x) = Units(g, x)
  BY DEF Units
<1>2. {Units(f, x) : x \in S} = {Units(g, x) : x \in S}
  BY <1>1
<1>3. QED
  BY <1>2 DEF SumOver
=============================================================================
