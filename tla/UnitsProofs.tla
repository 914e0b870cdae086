----------------------------- MODULE UnitsProofs -----------------------------
(***************************************************************************)
(* The arithmetic that the escrows and the subscription share: how a sum   *)
(* changes when one of its terms does, and what a share of an amount is.   *)
(***************************************************************************)
EXTENDS Units, TLAPS, FiniteSetTheorems

-----------------------------------------------------------------------------
(* Shares of an amount.                                                    *)

\* Multiplication is monotonic, which the arithmetic prover does not find alone.
LEMMA ProductMonotonic ==
  ASSUME NEW a \in Nat, NEW b \in Nat, NEW c \in Nat, b <= c
  PROVE  a * b <= a * c
<1>1. PICK d \in Nat : c = b + d  BY c - b \in Nat
<1>2. a * c = a * b + a * d  BY <1>1
<1>3. a * d \in Nat  OBVIOUS
<1> QED  BY <1>2, <1>3

\* A factor of a product that stays below a multiple of it stays below too.
LEMMA FactorCancels ==
  ASSUME NEW a \in Nat, NEW b \in Nat, NEW d \in Nat \ {0}, d * a <= d * b
  PROVE  a <= b
<1>1. SUFFICES ASSUME b + 1 <= a PROVE FALSE  OBVIOUS
<1>2. d * (b + 1) <= d * a  BY <1>1, ProductMonotonic
<1>3. d * (b + 1) = d * b + d  OBVIOUS
<1> QED  BY <1>2, <1>3

\* The share of an amount at a rate of at most the whole: rounded down, and
\* never more than the amount.
LEMMA RoundedShare ==
  ASSUME NEW n \in Nat, NEW whole \in Nat \ {0}, NEW rate \in 0..whole
  PROVE  LET c == (n * rate) \div whole
         IN  c \in 0..n /\ c * whole <= n * rate /\ n * rate < (c + 1) * whole
<1> DEFINE c == (n * rate) \div whole
<1>1. n * rate \in Nat  OBVIOUS
<1>2. c \in Nat /\ whole * c <= n * rate /\ n * rate < whole * (c + 1)
  BY <1>1
<1>3. n * rate <= n * whole  BY ProductMonotonic
<1>4. whole * c <= whole * n  BY <1>1, <1>2, <1>3
<1>5. c <= n  BY <1>2, <1>4, FactorCancels
<1> HIDE DEF c
<1>6. c * whole = whole * c /\ (c + 1) * whole = whole * (c + 1)  BY <1>2
<1>7. c \in 0..n  BY <1>2, <1>5
<1>8. c * whole <= n * rate /\ n * rate < (c + 1) * whole  BY <1>2, <1>6
<1> QED  BY <1>7, <1>8 DEF c

-----------------------------------------------------------------------------
(* Sums.                                                                   *)

\* The sum of the values of f is finite, and is n.
SumIs(f, n) == IsFiniteSet(UnitsOf(f)) /\ Cardinality(UnitsOf(f)) = n

\* The units of one value are as many as it says.
LEMMA UnitsOfOne ==
  ASSUME NEW x, NEW n \in Nat
  PROVE  IsFiniteSet({x} \X (1..n)) /\ Cardinality({x} \X (1..n)) = n
<1>1. IsFiniteSet({x}) /\ Cardinality({x}) = 1  BY FS_Singleton
<1>2. IsFiniteSet(1..n) /\ Cardinality(1..n) = n
  <2>1. IsFiniteSet(1..n) /\ Cardinality(1..n) = IF 1 > n THEN 0 ELSE n - 1 + 1
    BY FS_Interval
  <2> QED  BY <2>1
<1>3. /\ IsFiniteSet({x} \X (1..n))
      /\ Cardinality({x} \X (1..n)) = Cardinality({x}) * Cardinality(1..n)
  BY <1>1, <1>2, FS_Product
<1> QED  BY <1>1, <1>2, <1>3

\* A sum of zeros is zero.
LEMMA SumOfZeros ==
  ASSUME NEW S, NEW f \in [S -> Nat], \A x \in S : f[x] = 0
  PROVE  SumIs(f, 0)
<1>1. UnitsOf(f) = {}
  <2> SUFFICES ASSUME NEW x \in S, NEW u, u \in {x} \X (1..f[x]) PROVE FALSE
    BY DEF UnitsOf
  <2>1. f[x] = 0  OBVIOUS
  <2> QED  BY <2>1
<1> QED  BY <1>1, FS_EmptySet DEF SumIs

\* A term that becomes m changes the sum by the difference.
LEMMA SumChanges ==
  ASSUME NEW S, NEW f \in [S -> Nat], NEW n \in Nat, SumIs(f, n),
         NEW x \in S, NEW m \in Nat, NEW g, g = [f EXCEPT ![x] = m]
  PROVE  f[x] <= n /\ SumIs(g, n - f[x] + m)
<1> DEFINE all == UnitsOf(f)
           old == {x} \X (1..f[x])
           new == {x} \X (1..m)
<1>0. f[x] \in Nat  OBVIOUS
<1>1. IsFiniteSet(all) /\ Cardinality(all) = n  BY DEF SumIs
<1>2. IsFiniteSet(old) /\ Cardinality(old) = f[x]  BY <1>0, UnitsOfOne
<1>3. IsFiniteSet(new) /\ Cardinality(new) = m  BY UnitsOfOne
<1>4. UnitsOf(g) = (all \ old) \cup new
  <2>1. DOMAIN g = S /\ DOMAIN f = S  OBVIOUS
  <2>2. ASSUME NEW u PROVE u \in UnitsOf(g) <=> \E y \in S : u \in {y} \X (1..g[y])
    BY <2>1 DEF UnitsOf
  <2>3. ASSUME NEW u PROVE u \in all <=> \E y \in S : u \in {y} \X (1..f[y])
    BY <2>1 DEF UnitsOf
  <2>4. \A y \in S : y # x => g[y] = f[y]  OBVIOUS
  <2>5. g[x] = m  OBVIOUS
  <2>6. \A y, z, u : \A i, j \in Nat :
          (u \in {y} \X (1..i) /\ u \in {z} \X (1..j)) => y = z
    OBVIOUS
  <2> HIDE DEF all
  <2>7. ASSUME NEW u PROVE u \in UnitsOf(g) <=> u \in (all \ old) \cup new
    <3>1. CASE u \in new
      BY <3>1, <2>2, <2>5
    <3>2. CASE u \notin new
      <4>1. u \in UnitsOf(g) <=> \E y \in S : y # x /\ u \in {y} \X (1..f[y])
        BY <3>2, <2>2, <2>4, <2>5
      <4>2. (\E y \in S : y # x /\ u \in {y} \X (1..f[y])) => u \notin old
        OBVIOUS
      <4> QED  BY <3>2, <4>1, <4>2, <2>3
    <3> QED  BY <3>1, <3>2
  <2> QED  BY <2>7
<1>5. old \subseteq all  BY DEF UnitsOf
<1>6. (all \ old) \cap new = {}
  <2>1. ASSUME NEW u, u \in all, u \in new PROVE u \in old
    <3>1. PICK y \in S : u \in {y} \X (1..f[y])  BY <2>1 DEF UnitsOf
    <3>2. y = x  BY <2>1, <3>1
    <3> QED  BY <3>1, <3>2
  <2> HIDE DEF all, old, new
  <2> QED  BY <2>1
<1> HIDE DEF all, old, new
<1>7. IsFiniteSet(all \ old) /\ Cardinality(all \ old) = n - f[x] /\ f[x] <= n
  <2>1. /\ IsFiniteSet(all \ old)
        /\ Cardinality(all \ old) = Cardinality(all) - Cardinality(all \cap old)
    BY <1>1, FS_Difference, Zenon
  <2>2. all \cap old = old  BY <1>5
  <2>3. Cardinality(all \ old) \in Nat  BY <2>1, FS_CardinalityType
  <2>4. Cardinality(all \ old) = n - f[x]  BY <1>1, <1>2, <2>1, <2>2, Zenon
  <2>5. n - f[x] \in Nat  BY <2>3, <2>4, Zenon
  <2>6. f[x] <= n  BY <1>0, <2>5
  <2> QED  BY <2>1, <2>4, <2>6
<1>8. /\ IsFiniteSet((all \ old) \cup new)
      /\ Cardinality((all \ old) \cup new) = (n - f[x]) + m - Cardinality({})
  BY <1>3, <1>6, <1>7, FS_Union
<1>9. Cardinality({}) = 0  BY FS_EmptySet
<1>10. (n - f[x]) + m - 0 = n - f[x] + m  BY <1>0
<1>11. Cardinality(UnitsOf(g)) = n - f[x] + m
  BY <1>4, <1>8, <1>9, <1>10, Zenon
<1> QED  BY <1>4, <1>7, <1>8, <1>11 DEF SumIs

=============================================================================
