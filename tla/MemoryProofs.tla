---------------------------- MODULE MemoryProofs ----------------------------
(***************************************************************************)
(* Lemmas about the address arithmetic of module Memory that the proofs    *)
(* about the components rest on: sums that do not wrap around, and what    *)
(* ROUND_DOWN and ROUND_UP do for every size, a power of two or not; and   *)
(* an induction that the provers can use.                                  *)
(***************************************************************************)
EXTENDS Memory, FiniteSetTheorems, TLAPS

(* An unsigned sum is a number, whatever was added. *)
LEMMA AddType ==
  ASSUME NEW a \in Int, NEW b \in Int
  PROVE  Add(a, b) \in Nat
BY WordAssumption DEF Add

(* A sum below Word does not wrap around. *)
LEMMA AddSmall ==
  ASSUME NEW a \in Nat, NEW b \in Nat, a + b < Word
  PROVE  Add(a, b) = a + b
BY WordAssumption DEF Add

(* Rounding up moves by less than the size it rounds to. *)
LEMMA RoundUp ==
  ASSUME NEW n \in Nat, NEW d \in Nat, d > 0, n + d < Word
  PROVE  /\ ROUND_UP(n, d) \in Nat
         /\ n <= ROUND_UP(n, d) /\ ROUND_UP(n, d) < n + d
<1>1. Add(n, d - 1) = n + d - 1
  BY AddSmall, WordAssumption
<1>2. ROUND_UP(n, d) = (n + d - 1) - ((n + d - 1) % d)
  BY <1>1 DEF ROUND_UP, ROUND_DOWN
<1>3. (n + d - 1) % d \in 0 .. d - 1
  OBVIOUS
<1> QED
  BY <1>2, <1>3

(* ROUND_UP gives a number, also when its sum wraps around. *)
LEMMA RoundUpType ==
  ASSUME NEW n \in Nat, NEW d \in Nat, d > 0
  PROVE  ROUND_UP(n, d) \in Nat
<1> DEFINE x == Add(n, d - 1)
<1>1. x \in Nat
  BY AddType
<1>2. x % d \in 0 .. d - 1 /\ (x < d => x % d = x)
  BY <1>1
<1> HIDE DEF x
<1>3. x - (x % d) \in Nat
  BY <1>1, <1>2
<1> QED
  BY <1>3 DEF ROUND_UP, ROUND_DOWN, x

(* A multiple of d between 0 and d - 1 is 0. *)
LEMMA SmallMultiple ==
  ASSUME NEW d \in Nat, d > 0, NEW q \in Int, 0 <= d * q, d * q < d
  PROVE  q = 0
<1>1. CASE q >= 1
  BY <1>1
<1>2. CASE q <= -1
  BY <1>2
<1> QED
  BY <1>1, <1>2

(* What the operators \div and % of the integers are. *)
LEMMA DivMod ==
  ASSUME NEW n \in Nat, NEW d \in Nat, d > 0
  PROVE  /\ n \div d \in Nat /\ n % d \in Nat /\ n % d < d
         /\ n = d * (n \div d) + (n % d)
OBVIOUS

(* A multiple leaves no remainder. *)
LEMMA MultipleMod ==
  ASSUME NEW d \in Nat, d > 0, NEW q \in Nat
  PROVE  (d * q) % d = 0
<1> DEFINE x == d * q
<1>1. x \in Nat
  OBVIOUS
<1>2. /\ x \div d \in Nat /\ x % d \in Nat /\ x % d < d
      /\ x = d * (x \div d) + (x % d)
  <2> HIDE DEF x
  <2> QED
    BY <1>1, DivMod
<1>3. d * (q - (x \div d)) = x % d
  BY <1>2
<1>4. q - (x \div d) = 0
  BY <1>2, <1>3, SmallMultiple
<1> QED
  BY <1>2, <1>3, <1>4

(* Rounding down gives a multiple. *)
LEMMA RoundDownAligned ==
  ASSUME NEW n \in Nat, NEW d \in Nat, d > 0
  PROVE  ROUND_DOWN(n, d) % d = 0
<1>1. ROUND_DOWN(n, d) = d * (n \div d) /\ n \div d \in Nat
  BY DivMod DEF ROUND_DOWN
<1> QED
  BY <1>1, MultipleMod

(* So does rounding up, also when its sum wraps around. *)
LEMMA RoundUpAligned ==
  ASSUME NEW n \in Nat, NEW d \in Nat, d > 0
  PROVE  ROUND_UP(n, d) % d = 0
BY AddType, RoundDownAligned DEF ROUND_UP

(* Rounding up does not pass a multiple that is not below. *)
LEMMA RoundUpLeast ==
  ASSUME NEW n \in Nat, NEW d \in Nat, d > 0, NEW j \in Int,
         n <= d * j, d * j + d <= Word
  PROVE  ROUND_UP(n, d) \in Nat /\ ROUND_UP(n, d) <= d * j
<1> DEFINE y == n + d - 1
           q == y \div d
<1>1. y \in Nat /\ y < Word /\ Add(n, d - 1) = y
  BY AddSmall, WordAssumption
<1>2. ROUND_UP(n, d) = d * q /\ q \in Nat /\ d * q <= y
  <2> HIDE DEF y
  <2> QED
    BY <1>1, DivMod DEF ROUND_UP, ROUND_DOWN
<1> HIDE DEF q
<1>3. d * (q - j) < d
  BY <1>1, <1>2
<1>4. q <= j
  <2>1. CASE q - j >= 1
    <3>1. d * (q - j) >= d
      BY <1>2, <2>1
    <3> QED
      BY <1>2, <1>3, <3>1
  <2> QED
    BY <1>2, <2>1
<1>5. d * q <= d * j
  BY <1>2, <1>4
<1> QED
  BY <1>2, <1>5

(* An end that is a multiple is not passed by what starts below it. *)
LEMMA RoundUpWithin ==
  ASSUME NEW n \in Nat, NEW d \in Nat, d > 0, NEW e \in Nat,
         n <= e, e % d = 0, e + d < Word
  PROVE  /\ ROUND_UP(n, d) \in Nat
         /\ n <= ROUND_UP(n, d) /\ ROUND_UP(n, d) <= e
<1> DEFINE q == e \div d
<1>1. q \in Nat /\ e = d * q
  BY DivMod
<1> HIDE DEF q
<1>2. n + d < Word /\ n <= d * q /\ d * q + d <= Word
  BY <1>1, WordAssumption
<1>3. ROUND_UP(n, d) \in Nat /\ n <= ROUND_UP(n, d)
  BY <1>2, RoundUp
<1>4. ROUND_UP(n, d) <= d * q
  <2>1. q \in Int
    BY <1>1
  <2> QED
    BY <1>2, <2>1, RoundUpLeast, Zenon
<1> QED
  BY <1>1, <1>3, <1>4

(* Adding Word - b is a subtraction. *)
LEMMA AddBack ==
  ASSUME NEW a \in Nat, NEW b \in Nat, b <= a, a < b + Word
  PROVE  Add(a, Word - b) = a - b
<1> DEFINE x == a + (Word - b)
           q == x \div Word
<1>1. x \in Nat /\ x >= Word /\ x < Word + Word
  BY WordAssumption
<1>2. q \in Nat /\ x % Word \in Nat /\ x % Word < Word /\ x = Word * q + (x % Word)
  <2> HIDE DEF x
  <2> QED
    BY <1>1, DivMod, WordAssumption
<1> HIDE DEF q
<1>3. q = 1
  <2>1. CASE q = 0
    BY <1>1, <1>2, <2>1, WordAssumption
  <2>2. CASE q >= 2
    <3>1. Word * q >= Word + Word
      BY <1>2, <2>2, WordAssumption
    <3> QED
      BY <1>1, <1>2, <3>1, WordAssumption
  <2> QED
    BY <1>2, <2>1, <2>2
<1>4. x % Word = x - Word
  BY <1>2, <1>3, WordAssumption
<1> QED
  BY <1>4, WordAssumption DEF Add
-----------------------------------------------------------------------------
(***************************************************************************)
(* Induction over an interval, for sets: what contains 0 and with every    *)
(* number below n the next contains all of 0 .. n.  (Were u missing, the   *)
(* missing numbers up to u could be moved down by one into themselves      *)
(* without u, which is one too few.)                                       *)
(***************************************************************************)
LEMMA IntervalInduction ==
  ASSUME NEW n \in Nat, NEW T, 0 \in T, \A k \in 0 .. n - 1 : k \in T => k + 1 \in T
  PROVE  \A k \in 0 .. n : k \in T
<1> SUFFICES ASSUME NEW u \in 0 .. n, u \notin T PROVE FALSE
  OBVIOUS
<1> DEFINE U == {k \in 0 .. u : k \notin T}
           V == U \ {u}
           f == [k \in U |-> k - 1]
<1>1. u \in U /\ U \in SUBSET (0 .. u)
  OBVIOUS
<1>2. IsFiniteSet(0 .. u)
  BY FS_Interval
<1>3. IsFiniteSet(U)
  BY <1>1, <1>2, FS_Subset
<1>4. Cardinality(U) \in Nat
  BY <1>3, FS_CardinalityType
<1>5. IsFiniteSet(V) /\ Cardinality(V) = Cardinality(U) - 1
  BY <1>1, <1>3, FS_RemoveElement
<1>6. ASSUME NEW k \in U PROVE k - 1 \in V
  <2>1. k \in 0 .. u /\ k \notin T /\ k # 0
    OBVIOUS
  <2>2. k - 1 \in 0 .. n - 1 /\ k - 1 \in 0 .. u /\ (k - 1) + 1 = k /\ k - 1 # u
    BY <2>1
  <2>3. k - 1 \notin T
    BY <2>1, <2>2
  <2> QED
    BY <2>2, <2>3
<1>7. f \in [U -> V]
  BY <1>6
<1>8. Cardinality(V) < Cardinality(U)
  BY <1>4, <1>5
<1> HIDE DEF V, f
<1>9. PICK x \in U, y \in U : x # y /\ f[x] = f[y]
  BY <1>3, <1>5, <1>7, <1>8, FS_PigeonHole
<1>10. x \in Int /\ y \in Int
  OBVIOUS
<1> QED
  BY <1>9, <1>10 DEF f

(* A set of numbers up to n has a least one. *)
LEMMA LeastExists ==
  ASSUME NEW n \in Nat, NEW S, S \subseteq 0 .. n, S # {}
  PROVE  \E x \in S : \A y \in S : x <= y
<1> SUFFICES ASSUME \A x \in S : \E y \in S : ~ (x <= y) PROVE FALSE
  OBVIOUS
<1> DEFINE T == {k \in 0 .. n : \A y \in S : k < y}
<1>1. 0 \in T
  <2>1. ASSUME NEW y \in S, y = 0 PROVE FALSE
    <3>1. PICK z \in S : ~ (y <= z)
      OBVIOUS
    <3>2. z \in 0 .. n
      OBVIOUS
    <3> QED
      BY <2>1, <3>1, <3>2
  <2>2. ASSUME NEW y \in S PROVE 0 < y
    <3>1. y \in 0 .. n
      OBVIOUS
    <3> QED
      BY <2>1, <3>1
  <2> QED
    BY <2>2
<1>2. ASSUME NEW k \in 0 .. n - 1, k \in T PROVE k + 1 \in T
  <2>1. k + 1 \in 0 .. n /\ \A y \in S : y \in 0 .. n /\ k < y
    BY <1>2
  <2>2. k + 1 \notin S
    <3>1. SUFFICES ASSUME k + 1 \in S PROVE FALSE
      OBVIOUS
    <3>2. PICK z \in S : ~ (k + 1 <= z)
      BY <3>1
    <3> QED
      BY <2>1, <3>2
  <2>3. ASSUME NEW y \in S PROVE k + 1 < y
    <3>1. y # k + 1 /\ y \in 0 .. n /\ k < y
      BY <2>1, <2>2
    <3> QED
      BY <3>1
  <2> QED
    BY <2>1, <2>3
<1> HIDE DEF T
<1>3. \A k \in 0 .. n : k \in T
  BY <1>1, <1>2, IntervalInduction
<1>4. PICK y \in S : TRUE
  OBVIOUS
<1>5. y \in 0 .. n /\ y \in T
  BY <1>3
<1> QED
  BY <1>5 DEF T
=============================================================================
