--------------------------- MODULE HuffmanProofs ---------------------------
(***************************************************************************)
(* Proofs about Huffman: decode() and bits() on every code and every       *)
(* stream.                                                                 *)
(***************************************************************************)
EXTENDS Huffman, MemoryProofs, SequenceTheorems, TLAPS

(***************************************************************************)
(* A recursive function over 0 .. n, as the sums here are, exists, ...     *)
(***************************************************************************)
Computed(n, z, m, A) ==
    \E g \in [0 .. n -> Int] : g[0] = z /\ \A k \in 1 .. n : g[k] = m * g[k - 1] + A[k]

LEMMA Linear ==
  ASSUME NEW n \in Nat, NEW z \in Int, NEW m \in Int, NEW A, \A k \in 1 .. n : A[k] \in Int
  PROVE  Computed(n, z, m, A)
<1> DEFINE Good(i) == \E g \in [0 .. n -> Int] : g[0] = z /\ \A k \in 1 .. i : g[k] = m * g[k - 1] + A[k]
           T == {i \in 0 .. n : Good(i)}
<1>1. 0 \in T
  <2> DEFINE g == [k \in 0 .. n |-> z]
  <2>1. g \in [0 .. n -> Int] /\ g[0] = z
    OBVIOUS
  <2> HIDE DEF g
  <2>2. \A k \in 1 .. 0 : g[k] = m * g[k - 1] + A[k]
    OBVIOUS
  <2>3. Good(0)
    BY <2>1, <2>2
  <2> HIDE DEF Good
  <2> QED
    BY <2>3
<1>2. ASSUME NEW i \in 0 .. n - 1, i \in T
      PROVE  i + 1 \in T
  <2>1. PICK g \in [0 .. n -> Int] : g[0] = z /\ \A k \in 1 .. i : g[k] = m * g[k - 1] + A[k]
    BY <1>2
  <2> DEFINE x == m * g[i] + A[i + 1]
             h == [g EXCEPT ![i + 1] = x]
  <2>2. i \in 0 .. n /\ i + 1 \in 1 .. n /\ i + 1 \in 0 .. n /\ A[i + 1] \in Int /\ g[i] \in Int
    BY <1>2
  <2>3. x \in Int
    BY <2>2
  <2>4. h \in [0 .. n -> Int] /\ h[0] = z
    BY <2>1, <2>2, <2>3
  <2>5. ASSUME NEW k \in 1 .. i + 1
        PROVE  h[k] = m * h[k - 1] + A[k]
    <3>1. CASE k = i + 1
      <4>1. k - 1 = i /\ i # i + 1
        BY <1>2, <3>1
      <4> QED
        BY <2>2, <3>1, <4>1
    <3>2. CASE k # i + 1
      <4>1. k \in 1 .. i /\ k - 1 # i + 1 /\ k \in 0 .. n /\ k - 1 \in 0 .. n
        BY <1>2, <2>5, <3>2
      <4> QED
        BY <2>1, <3>2, <4>1
    <3> QED
      BY <3>1, <3>2
  <2>6. Good(i + 1)
    <3> HIDE DEF h
    <3> QED
      BY <2>4, <2>5
  <2> QED
    BY <2>2, <2>6
<1> HIDE DEF Good
<1>3. \A i \in 0 .. n : i \in T
  <2> HIDE DEF T
  <2> QED
    BY <1>1, <1>2, IntervalInduction
<1>4. Good(n)
  BY <1>3
<1> QED
  BY <1>4 DEF Good, Computed

(* ... and what holds at 0 and passes from each value to the next holds    *)
(* for all.                                                                *)
LEMMA Along ==
  ASSUME NEW n \in Nat, NEW f, NEW S, f[0] \in S, \A k \in 1 .. n : f[k - 1] \in S => f[k] \in S
  PROVE  \A k \in 0 .. n : f[k] \in S
<1> DEFINE T == {k \in 0 .. n : f[k] \in S}
<1>1. 0 \in T
  OBVIOUS
<1>2. ASSUME NEW k \in 0 .. n - 1, k \in T
      PROVE  k + 1 \in T
  <2>1. k + 1 \in 1 .. n /\ (k + 1) - 1 = k /\ f[k] \in S
    BY <1>2
  <2>2. f[k + 1] \in S
    BY <2>1
  <2> QED
    BY <2>1, <2>2
<1>3. \A k \in 0 .. n : k \in T
  <2> HIDE DEF T
  <2> QED
    BY <1>1, <1>2, IntervalInduction
<1> QED
  BY <1>3

(* The powers of two. *)
LEMMA Powers ==
  /\ Pow2[0] = 1
  /\ \A k \in 1 .. MAXBITS : Pow2[k] = 2 * Pow2[k - 1]
  /\ \A k \in 0 .. MAXBITS : Pow2[k] \in Nat /\ Pow2[k] > 0
<1>1. MAXBITS \in Nat
  BY HuffmanAssumption DEF MaxBitsAssumption
<1>2. PICK g \in [0 .. MAXBITS -> Int] :
         g[0] = 1 /\ \A k \in 1 .. MAXBITS : g[k] = 2 * g[k - 1]
  <2> DEFINE A == [i \in 1 .. MAXBITS |-> 0]
  <2>1. \A k \in 1 .. MAXBITS : A[k] = 0
    OBVIOUS
  <2> HIDE DEF A
  <2>2. \A k \in 1 .. MAXBITS : A[k] \in Int
    BY <2>1
  <2>3. PICK g \in [0 .. MAXBITS -> Int] :
          g[0] = 1 /\ \A k \in 1 .. MAXBITS : g[k] = 2 * g[k - 1] + A[k]
    <3>1. Computed(MAXBITS, 1, 2, A)
      BY <1>1, <2>2, Linear
    <3> QED
      BY <3>1 DEF Computed
  <2>4. ASSUME NEW k \in 1 .. MAXBITS PROVE g[k] = 2 * g[k - 1]
    <3>1. A[k] = 0 /\ g[k] = 2 * g[k - 1] + A[k] /\ g[k - 1] \in Int
      <4>1. k - 1 \in 0 .. MAXBITS
        BY <1>1
      <4> QED
        BY <2>1, <2>3, <4>1
    <3> QED
      BY <3>1
  <2> QED
    BY <2>3, <2>4
<1>3. g = [k \in 0 .. MAXBITS |-> IF k = 0 THEN 1 ELSE 2 * g[k - 1]]
  <2> DEFINE h == [k \in 0 .. MAXBITS |-> IF k = 0 THEN 1 ELSE 2 * g[k - 1]]
  <2>1. ASSUME NEW k \in 0 .. MAXBITS PROVE g[k] = h[k]
    <3>1. CASE k = 0
      BY <1>2, <3>1
    <3>2. CASE k # 0
      <4>1. k \in 1 .. MAXBITS /\ k - 1 \in 0 .. MAXBITS
        BY <1>1, <3>2
      <4> QED
        BY <1>2, <3>2, <4>1
    <3> QED
      BY <3>1, <3>2
  <2> QED
    BY <2>1
<1>4. Pow2 = [k \in 0 .. MAXBITS |-> IF k = 0 THEN 1 ELSE 2 * Pow2[k - 1]]
  BY <1>3 DEF Pow2
<1> HIDE DEF Pow2
<1>5. Pow2[0] = 1
  <2>1. 0 \in 0 .. MAXBITS
    BY <1>1
  <2> QED
    BY <1>4, <2>1
<1>6. ASSUME NEW k \in 1 .. MAXBITS PROVE Pow2[k] = 2 * Pow2[k - 1]
  <2>1. k \in 0 .. MAXBITS /\ k # 0
    BY <1>1
  <2> QED
    BY <1>4, <2>1
<1>7. \A k \in 0 .. MAXBITS : Pow2[k] \in Nat \ {0}
  <2>1. Pow2[0] \in Nat \ {0} /\ \A k \in 1 .. MAXBITS : Pow2[k - 1] \in Nat \ {0} => Pow2[k] \in Nat \ {0}
    BY <1>5, <1>6
  <2> QED
    BY <1>1, <2>1, Along
<1> QED
  BY <1>5, <1>6, <1>7

(***************************************************************************)
(* A code has finitely many symbols; those of a length can be counted.     *)
(***************************************************************************)
LEMMA SomeSymbols ==
  ASSUME NEW lens \in Codes, NEW S, S \subseteq DOMAIN lens
  PROVE  IsFiniteSet(S) /\ Cardinality(S) \in Nat
<1>1. DOMAIN lens = 0 .. Symbols - 1 /\ Symbols \in Int
  BY HuffmanAssumption DEF Codes
<1>2. IsFiniteSet(0 .. Symbols - 1)
  <2>1. 0 \in Int /\ Symbols - 1 \in Int
    BY <1>1
  <2> QED
    BY <2>1, FS_Interval
<1>3. IsFiniteSet(S)
  BY <1>1, <1>2, FS_Subset
<1> QED
  BY <1>3, FS_CardinalityType

LEMMA CountType ==
  ASSUME NEW lens \in Codes, NEW l \in 0 .. MAXBITS
  PROVE  /\ count(lens)[l] = Cardinality({s \in DOMAIN lens : lens[s] = l})
         /\ count(lens)[l] \in Nat
<1> DEFINE S == {s \in DOMAIN lens : lens[s] = l}
<1>1. count(lens)[l] = Cardinality(S)
  BY DEF count
<1>2. Cardinality(S) \in Nat
  <2>1. S \subseteq DOMAIN lens
    OBVIOUS
  <2> HIDE DEF S
  <2> QED
    BY <2>1, SomeSymbols
<1> QED
  BY <1>1, <1>2

(* What is left of each length. *)
LEMMA Lefts ==
  ASSUME NEW lens \in Codes
  PROVE  /\ left(lens)[0] = 1
         /\ \A l \in 1 .. MAXBITS : left(lens)[l] = 2 * left(lens)[l - 1] - count(lens)[l]
         /\ \A l \in 0 .. MAXBITS : left(lens)[l] \in Int
<1> DEFINE c == count(lens)
<1>1. MAXBITS \in Nat /\ \A l \in 0 .. MAXBITS : c[l] \in Nat
  BY CountType, HuffmanAssumption DEF MaxBitsAssumption
<1> HIDE DEF c
<1>2. PICK g \in [0 .. MAXBITS -> Int] :
         g[0] = 1 /\ \A l \in 1 .. MAXBITS : g[l] = 2 * g[l - 1] - c[l]
  <2> DEFINE A == [l \in 1 .. MAXBITS |-> 0 - c[l]]
  <2>1. \A l \in 1 .. MAXBITS : A[l] = 0 - c[l]
    OBVIOUS
  <2> HIDE DEF A
  <2>2. \A l \in 1 .. MAXBITS : A[l] \in Int
    BY <1>1, <2>1
  <2>3. PICK g \in [0 .. MAXBITS -> Int] :
          g[0] = 1 /\ \A l \in 1 .. MAXBITS : g[l] = 2 * g[l - 1] + A[l]
    <3>1. Computed(MAXBITS, 1, 2, A)
      BY <1>1, <2>2, Linear
    <3> QED
      BY <3>1 DEF Computed
  <2>4. ASSUME NEW l \in 1 .. MAXBITS PROVE g[l] = 2 * g[l - 1] - c[l]
    <3>1. A[l] = 0 - c[l] /\ g[l] = 2 * g[l - 1] + A[l] /\ g[l - 1] \in Int /\ c[l] \in Nat
      <4>1. l - 1 \in 0 .. MAXBITS /\ l \in 0 .. MAXBITS
        BY <1>1
      <4> QED
        BY <1>1, <2>1, <2>3, <4>1
    <3> QED
      BY <3>1
  <2> QED
    BY <2>3, <2>4
<1>3. g = [l \in 0 .. MAXBITS |-> IF l = 0 THEN 1 ELSE 2 * g[l - 1] - c[l]]
  <2> DEFINE h == [l \in 0 .. MAXBITS |-> IF l = 0 THEN 1 ELSE 2 * g[l - 1] - c[l]]
  <2>1. ASSUME NEW l \in 0 .. MAXBITS PROVE g[l] = h[l]
    <3>1. CASE l = 0
      BY <1>2, <3>1
    <3>2. CASE l # 0
      <4>1. l \in 1 .. MAXBITS
        BY <1>1, <3>2
      <4> QED
        BY <1>2, <3>2, <4>1
    <3> QED
      BY <3>1, <3>2
  <2> QED
    BY <2>1
<1> DEFINE f == left(lens)
<1>4. f = [l \in 0 .. MAXBITS |-> IF l = 0 THEN 1 ELSE 2 * f[l - 1] - c[l]]
  BY <1>3 DEF left, c
<1> HIDE DEF f
<1>5. f[0] = 1
  <2>1. 0 \in 0 .. MAXBITS
    BY <1>1
  <2> QED
    BY <1>4, <2>1
<1>6. ASSUME NEW l \in 1 .. MAXBITS PROVE f[l] = 2 * f[l - 1] - c[l]
  <2>1. l \in 0 .. MAXBITS /\ l # 0
    BY <1>1
  <2> QED
    BY <1>4, <2>1
<1>7. \A l \in 0 .. MAXBITS : f[l] \in Int
  <2>1. f[0] \in Int
    BY <1>5
  <2>2. ASSUME NEW l \in 1 .. MAXBITS, f[l - 1] \in Int PROVE f[l] \in Int
    <3>1. f[l] = 2 * f[l - 1] - c[l] /\ c[l] \in Nat
      BY <1>1, <1>6
    <3> QED
      BY <2>2, <3>1
  <2> QED
    BY <1>1, <2>1, <2>2, Along
<1> QED
  BY <1>5, <1>6, <1>7 DEF f, c

(* The code space that the codes up to each length take. *)
LEMMA Krafts ==
  ASSUME NEW lens \in Codes
  PROVE  /\ Kraft(lens)[0] = 0
         /\ \A l \in 1 .. MAXBITS :
              Kraft(lens)[l] = Kraft(lens)[l - 1] + count(lens)[l] * Pow2[MAXBITS - l]
         /\ \A l \in 0 .. MAXBITS : Kraft(lens)[l] \in Nat
<1> DEFINE share == [l \in 1 .. MAXBITS |-> Share(lens, l)]
<1>1. MAXBITS \in Nat
  BY HuffmanAssumption DEF MaxBitsAssumption
<1>2. ASSUME NEW l \in 1 .. MAXBITS
      PROVE  share[l] = Share(lens, l) /\ Share(lens, l) = count(lens)[l] * Pow2[MAXBITS - l]
             /\ share[l] \in Nat
  <2>1. share[l] = Share(lens, l)
    OBVIOUS
  <2>2. l \in 0 .. MAXBITS /\ MAXBITS - l \in 0 .. MAXBITS
    BY <1>1
  <2>3. Share(lens, l) = count(lens)[l] * Pow2[MAXBITS - l]
    BY <2>2, CountType DEF Share
  <2>4. count(lens)[l] \in Nat /\ Pow2[MAXBITS - l] \in Nat
    BY <2>2, CountType, Powers
  <2> HIDE DEF share
  <2>5. share[l] \in Nat
    BY <2>1, <2>3, <2>4
  <2> QED
    BY <2>1, <2>3, <2>5
<1> HIDE DEF share
<1>3. PICK g \in [0 .. MAXBITS -> Int] :
         g[0] = 0 /\ \A l \in 1 .. MAXBITS : g[l] = g[l - 1] + share[l]
  <2>1. PICK g \in [0 .. MAXBITS -> Int] :
          g[0] = 0 /\ \A l \in 1 .. MAXBITS : g[l] = 1 * g[l - 1] + share[l]
    <3>1. Computed(MAXBITS, 0, 1, share)
      BY <1>1, <1>2, Linear
    <3> QED
      BY <3>1 DEF Computed
  <2>2. ASSUME NEW l \in 1 .. MAXBITS PROVE g[l] = g[l - 1] + share[l]
    <3>1. g[l] = 1 * g[l - 1] + share[l] /\ g[l - 1] \in Int
      <4>1. l - 1 \in 0 .. MAXBITS
        BY <1>1
      <4> QED
        BY <2>1, <4>1
    <3> QED
      BY <3>1
  <2> QED
    BY <2>1, <2>2
<1>4. g = [l \in 0 .. MAXBITS |-> IF l = 0 THEN 0 ELSE g[l - 1] + Share(lens, l)]
  <2> DEFINE h == [l \in 0 .. MAXBITS |-> IF l = 0 THEN 0 ELSE g[l - 1] + Share(lens, l)]
  <2>1. ASSUME NEW l \in 0 .. MAXBITS PROVE g[l] = h[l]
    <3>1. CASE l = 0
      BY <1>3, <3>1
    <3>2. CASE l # 0
      <4>1. l \in 1 .. MAXBITS
        BY <1>1, <3>2
      <4>2. g[l] = g[l - 1] + Share(lens, l)
        BY <1>2, <1>3, <4>1
      <4> QED
        BY <3>2, <4>2
    <3> QED
      BY <3>1, <3>2
  <2> QED
    BY <2>1
<1> DEFINE f == Kraft(lens)
<1>5. f = [l \in 0 .. MAXBITS |-> IF l = 0 THEN 0 ELSE f[l - 1] + Share(lens, l)]
  BY <1>4 DEF Kraft
<1> HIDE DEF f
<1>6. f[0] = 0
  <2>1. 0 \in 0 .. MAXBITS
    BY <1>1
  <2> QED
    BY <1>5, <2>1
<1>7. ASSUME NEW l \in 1 .. MAXBITS
      PROVE  f[l] = f[l - 1] + count(lens)[l] * Pow2[MAXBITS - l] /\ f[l] = f[l - 1] + share[l]
  <2>1. l \in 0 .. MAXBITS /\ l # 0
    BY <1>1
  <2>2. f[l] = f[l - 1] + Share(lens, l)
    BY <1>5, <2>1
  <2> QED
    BY <1>2, <2>2
<1>8. \A l \in 0 .. MAXBITS : f[l] \in Nat
  <2>1. f[0] \in Nat
    BY <1>6
  <2>2. ASSUME NEW l \in 1 .. MAXBITS, f[l - 1] \in Nat PROVE f[l] \in Nat
    <3>1. f[l] = f[l - 1] + share[l] /\ share[l] \in Nat
      BY <1>2, <1>7
    <3> QED
      BY <2>2, <3>1
  <2> QED
    BY <1>1, <2>1, <2>2, Along
<1> QED
  BY <1>6, <1>7, <1>8 DEF f

(* Together they are the whole code space. *)
LEMMA LeftOver ==
  ASSUME NEW lens \in Codes
  PROVE  left(lens)[MAXBITS] + Kraft(lens)[MAXBITS] = Pow2[MAXBITS]
<1> DEFINE f == [l \in 0 .. MAXBITS |-> left(lens)[l] * Pow2[MAXBITS - l] + Kraft(lens)[l]]
<1>1. MAXBITS \in Nat
  BY HuffmanAssumption DEF MaxBitsAssumption
<1>2. \A l \in 0 .. MAXBITS : f[l] = left(lens)[l] * Pow2[MAXBITS - l] + Kraft(lens)[l]
  OBVIOUS
<1> HIDE DEF f
<1>3. f[0] \in {Pow2[MAXBITS]}
  <2>1. 0 \in 0 .. MAXBITS /\ MAXBITS - 0 = MAXBITS /\ MAXBITS \in 0 .. MAXBITS
    BY <1>1
  <2>2. f[0] = left(lens)[0] * Pow2[MAXBITS] + Kraft(lens)[0]
    BY <1>2, <2>1
  <2>3. left(lens)[0] = 1 /\ Kraft(lens)[0] = 0
    BY Lefts, Krafts
  <2>4. Pow2[MAXBITS] \in Nat
    BY <2>1, Powers
  <2> QED
    BY <2>2, <2>3, <2>4
<1>4. ASSUME NEW l \in 1 .. MAXBITS, f[l - 1] \in {Pow2[MAXBITS]}
      PROVE  f[l] \in {Pow2[MAXBITS]}
  <2>1. /\ l \in 0 .. MAXBITS /\ l - 1 \in 0 .. MAXBITS /\ MAXBITS - l \in 0 .. MAXBITS
        /\ MAXBITS - (l - 1) \in 1 .. MAXBITS /\ (MAXBITS - (l - 1)) - 1 = MAXBITS - l
    BY <1>1
  <2> DEFINE p == Pow2[MAXBITS - l]
             c == count(lens)[l]
             x == left(lens)[l - 1]
  <2>2. p \in Nat /\ Pow2[MAXBITS - (l - 1)] = 2 * p
    BY <2>1, Powers
  <2>3. c \in Nat
    BY <2>1, CountType
  <2>4. x \in Int /\ left(lens)[l] = 2 * x - c
    BY <2>1, Lefts
  <2>5. Kraft(lens)[l - 1] \in Nat /\ Kraft(lens)[l] = Kraft(lens)[l - 1] + c * p
    BY <2>1, Krafts
  <2>6. f[l - 1] = x * (2 * p) + Kraft(lens)[l - 1] /\ f[l] = (2 * x - c) * p + Kraft(lens)[l]
    <3>1. f[l - 1] = x * Pow2[MAXBITS - (l - 1)] + Kraft(lens)[l - 1]
      BY <1>2, <2>1
    <3>2. f[l] = left(lens)[l] * p + Kraft(lens)[l]
      BY <1>2, <2>1
    <3> QED
      BY <2>2, <2>4, <3>1, <3>2
  <2> HIDE DEF p, c, x
  <2>7. (2 * x - c) * p + c * p = x * (2 * p)
    BY <2>2, <2>3, <2>4
  <2>8. (2 * x - c) * p \in Int /\ c * p \in Int /\ x * (2 * p) \in Int
    BY <2>2, <2>3, <2>4
  <2>9. f[l] = f[l - 1]
    BY <2>5, <2>6, <2>7, <2>8
  <2> QED
    BY <1>4, <2>9
<1>5. f[MAXBITS] \in {Pow2[MAXBITS]}
  <2>1. \A l \in 0 .. MAXBITS : f[l] \in {Pow2[MAXBITS]}
    BY <1>1, <1>3, <1>4, Along
  <2> QED
    BY <1>1, <2>1
<1>6. f[MAXBITS] = left(lens)[MAXBITS] + Kraft(lens)[MAXBITS]
  <2>1. MAXBITS \in 0 .. MAXBITS /\ MAXBITS - MAXBITS = 0
    BY <1>1
  <2>2. f[MAXBITS] = left(lens)[MAXBITS] * Pow2[0] + Kraft(lens)[MAXBITS]
    BY <1>2, <2>1
  <2>3. Pow2[0] = 1 /\ left(lens)[MAXBITS] \in Int
    BY <2>1, Powers, Lefts
  <2> QED
    BY <2>2, <2>3
<1> QED
  BY <1>5, <1>6

(***************************************************************************)
(* The numbers that bits of the stream are.                                *)
(***************************************************************************)
LEMMA Values ==
  ASSUME NEW N \in Nat, in \in [1 .. N -> {0, 1}], Len(in) = N, NEW p \in 0 .. N
  PROVE  /\ Value(p)[0] = 0
         /\ \A k \in 1 .. N - p : Value(p)[k] = 2 * Value(p)[k - 1] + in[p + k]
         /\ \A k \in 0 .. N - p : Value(p)[k] \in Nat
<1> DEFINE bit == [k \in 1 .. N - p |-> in[p + k]]
<1>1. N - p \in Nat
  OBVIOUS
<1>2. /\ \A k \in 1 .. N - p : bit[k] = in[p + k]
      /\ \A k \in 1 .. N - p : bit[k] \in {0, 1}
  OBVIOUS
<1> HIDE DEF bit
<1>3. PICK g \in [0 .. N - p -> Int] :
         g[0] = 0 /\ \A k \in 1 .. N - p : g[k] = 2 * g[k - 1] + bit[k]
  <2>1. Computed(N - p, 0, 2, bit)
    BY <1>1, <1>2, Linear
  <2> QED
    BY <2>1 DEF Computed
<1>4. g = [k \in 0 .. Len(in) - p |-> IF k = 0 THEN 0 ELSE 2 * g[k - 1] + in[p + k]]
  <2> DEFINE h == [k \in 0 .. N - p |-> IF k = 0 THEN 0 ELSE 2 * g[k - 1] + in[p + k]]
  <2>1. ASSUME NEW k \in 0 .. N - p PROVE g[k] = h[k]
    <3>1. CASE k = 0
      BY <1>3, <3>1
    <3>2. CASE k # 0
      <4>1. k \in 1 .. N - p
        BY <1>1, <3>2
      <4>2. g[k] = 2 * g[k - 1] + in[p + k]
        BY <1>2, <1>3, <4>1
      <4> QED
        BY <3>2, <4>2
    <3> QED
      BY <3>1, <3>2
  <2> QED
    BY <2>1
<1> DEFINE f == Value(p)
<1>5. f = [k \in 0 .. Len(in) - p |-> IF k = 0 THEN 0 ELSE 2 * f[k - 1] + in[p + k]]
  BY <1>4 DEF Value
<1> HIDE DEF f
<1>6. f[0] = 0
  <2>1. 0 \in 0 .. Len(in) - p
    BY <1>1
  <2> QED
    BY <1>5, <2>1
<1>7. ASSUME NEW k \in 1 .. N - p PROVE f[k] = 2 * f[k - 1] + in[p + k]
  <2>1. k \in 0 .. Len(in) - p /\ k # 0
    BY <1>1
  <2> QED
    BY <1>5, <2>1
<1>8. \A k \in 0 .. N - p : f[k] \in Nat
  <2>1. f[0] \in Nat
    BY <1>6
  <2>2. ASSUME NEW k \in 1 .. N - p, f[k - 1] \in Nat PROVE f[k] \in Nat
    <3>1. f[k] = 2 * f[k - 1] + in[p + k] /\ in[p + k] \in {0, 1}
      BY <1>2, <1>7
    <3> QED
      BY <2>2, <3>1
  <2> QED
    BY <1>1, <2>1, <2>2, Along
<1> QED
  BY <1>6, <1>7, <1>8 DEF f

(* As many bits are less than that power of two. *)
LEMMA ValueBounds ==
  ASSUME NEW N \in Nat, in \in [1 .. N -> {0, 1}], Len(in) = N, NEW p \in 0 .. N,
         p + MAXBITS <= N
  PROVE  Value(p)[MAXBITS] < Pow2[MAXBITS]
<1>1. MAXBITS \in Nat
  BY HuffmanAssumption DEF MaxBitsAssumption
<1> DEFINE room == [k \in 0 .. MAXBITS |-> Pow2[k] - Value(p)[k]]
<1>2. \A k \in 0 .. MAXBITS : room[k] = Pow2[k] - Value(p)[k]
  OBVIOUS
<1> HIDE DEF room
<1>3. room[0] \in Nat \ {0}
  <2>1. 0 \in 0 .. MAXBITS /\ Pow2[0] = 1 /\ Value(p)[0] = 0
    BY <1>1, Powers, Values
  <2> QED
    BY <1>2, <2>1
<1>4. ASSUME NEW k \in 1 .. MAXBITS, room[k - 1] \in Nat \ {0}
      PROVE  room[k] \in Nat \ {0}
  <2>1. k \in 0 .. MAXBITS /\ k - 1 \in 0 .. MAXBITS /\ k \in 1 .. N - p /\ k - 1 \in 0 .. N - p
        /\ p + k \in 1 .. N
    BY <1>1
  <2>2. Pow2[k] = 2 * Pow2[k - 1] /\ Pow2[k - 1] \in Nat
    BY <2>1, Powers
  <2>3. /\ Value(p)[k] = 2 * Value(p)[k - 1] + in[p + k] /\ Value(p)[k - 1] \in Nat
        /\ in[p + k] \in {0, 1}
    BY <2>1, Values
  <2>4. room[k - 1] = Pow2[k - 1] - Value(p)[k - 1] /\ room[k] = Pow2[k] - Value(p)[k]
    BY <1>2, <2>1
  <2> DEFINE P == Pow2[k - 1]
             V == Value(p)[k - 1]
             b == in[p + k]
  <2>5. room[k - 1] = P - V /\ room[k] = 2 * P - (2 * V + b) /\ P \in Nat /\ V \in Nat /\ b \in {0, 1}
    BY <2>2, <2>3, <2>4
  <2> HIDE DEF P, V, b
  <2> QED
    BY <1>4, <2>5
<1>5. room[MAXBITS] \in Nat \ {0}
  <2>1. \A k \in 0 .. MAXBITS : room[k] \in Nat \ {0}
    BY <1>1, <1>3, <1>4, Along
  <2> QED
    BY <1>1, <2>1
<1>6. MAXBITS \in 0 .. MAXBITS /\ MAXBITS \in 0 .. N - p
  BY <1>1
<1>7. Value(p)[MAXBITS] \in Nat /\ Pow2[MAXBITS] \in Nat
  BY <1>6, Values, Powers
<1> QED
  BY <1>2, <1>5, <1>6, <1>7

(* A number is never negative. *)
LEMMA NumberType ==
  ASSUME NEW s \in Seq({0, 1})
  PROVE  Number(s) \in Nat
<1> DEFINE n == Len(s)
           bit == [k \in 1 .. n |-> s[n + 1 - k]]
<1>1. n \in Nat /\ \A k \in 1 .. n : s[k] \in {0, 1}
  BY LenProperties, ElementOfSeq
<1>2. \A k \in 1 .. n : bit[k] = s[n + 1 - k] /\ bit[k] \in {0, 1}
  <2>1. ASSUME NEW k \in 1 .. n PROVE bit[k] = s[n + 1 - k] /\ bit[k] \in {0, 1}
    <3>1. n + 1 - k \in 1 .. n
      BY <1>1
    <3> QED
      BY <1>1, <3>1
  <2> QED
    BY <2>1
<1> HIDE DEF bit, n
<1>3. PICK g \in [0 .. n -> Int] : g[0] = 0 /\ \A k \in 1 .. n : g[k] = 2 * g[k - 1] + bit[k]
  <2>1. Computed(n, 0, 2, bit)
    <3>1. \A k \in 1 .. n : bit[k] \in Int
      BY <1>2
    <3> QED
      BY <1>1, <3>1, Linear
  <2> QED
    BY <2>1 DEF Computed
<1>4. g = [k \in 0 .. n |-> IF k = 0 THEN 0 ELSE 2 * g[k - 1] + s[n + 1 - k]]
  <2> DEFINE h == [k \in 0 .. n |-> IF k = 0 THEN 0 ELSE 2 * g[k - 1] + s[n + 1 - k]]
  <2>1. ASSUME NEW k \in 0 .. n PROVE g[k] = h[k]
    <3>1. CASE k = 0
      BY <1>3, <3>1
    <3>2. CASE k # 0
      <4>1. k \in 1 .. n
        BY <1>1, <3>2
      <4>2. g[k] = 2 * g[k - 1] + s[n + 1 - k]
        BY <1>2, <1>3, <4>1
      <4> QED
        BY <3>2, <4>2
    <3> QED
      BY <3>1, <3>2
  <2> QED
    BY <2>1
<1> DEFINE f == CHOOSE v : v = [k \in 0 .. n |-> IF k = 0 THEN 0 ELSE 2 * v[k - 1] + s[n + 1 - k]]
<1>5. f = [k \in 0 .. n |-> IF k = 0 THEN 0 ELSE 2 * f[k - 1] + s[n + 1 - k]]
  BY <1>4
<1>6. Number(s) = f[n]
  BY DEF Number, n
<1> HIDE DEF f
<1>7. \A k \in 0 .. n : f[k] \in Nat
  <2>1. f[0] \in Nat
    <3>1. 0 \in 0 .. n
      BY <1>1
    <3> QED
      BY <1>5, <3>1
  <2>2. ASSUME NEW k \in 1 .. n, f[k - 1] \in Nat PROVE f[k] \in Nat
    <3>1. k \in 0 .. n /\ k # 0
      BY <1>1
    <3>2. f[k] = 2 * f[k - 1] + s[n + 1 - k] /\ s[n + 1 - k] \in {0, 1}
      BY <1>2, <1>5, <3>1
    <3> QED
      BY <2>2, <3>2
  <2> QED
    BY <1>1, <2>1, <2>2, Along
<1> QED
  BY <1>1, <1>6, <1>7

(***************************************************************************)
(* Parts of the stream: a part and the next one, a part of a part, a part  *)
(* without its first bit.                                                  *)
(***************************************************************************)
LEMMA Part ==
  ASSUME NEW S, NEW s \in Seq(S), NEW a \in 0 .. Len(s), NEW b \in a .. Len(s)
  PROVE  /\ SubSeq(s, a + 1, b) \in Seq(S) /\ Len(SubSeq(s, a + 1, b)) = b - a
         /\ \A i \in 1 .. b - a : SubSeq(s, a + 1, b)[i] = s[a + i]
<1>1. Len(s) \in Nat /\ \A i \in 1 .. Len(s) : s[i] \in S
  BY LenProperties, ElementOfSeq
<1>2. a + 1 \in Int /\ b \in Int /\ \A i \in a + 1 .. b : s[i] \in S
  BY <1>1
<1>3. /\ SubSeq(s, a + 1, b) \in Seq(S)
      /\ Len(SubSeq(s, a + 1, b)) = IF a + 1 <= b THEN b - (a + 1) + 1 ELSE 0
      /\ \A i \in 1 .. b - (a + 1) + 1 : SubSeq(s, a + 1, b)[i] = s[a + 1 + i - 1]
  BY <1>2, SubSeqProperties
<1> QED
  BY <1>1, <1>3

LEMMA PartOfPart ==
  ASSUME NEW S, NEW s \in Seq(S), NEW a \in 0 .. Len(s), NEW b \in a .. Len(s),
         NEW x \in 0 .. b - a, NEW y \in x .. b - a
  PROVE  SubSeq(SubSeq(s, a + 1, b), x + 1, y) = SubSeq(s, (a + x) + 1, a + y)
<1> DEFINE t == SubSeq(s, a + 1, b)
           u == SubSeq(t, x + 1, y)
           v == SubSeq(s, (a + x) + 1, a + y)
<1>1. Len(s) \in Nat
  BY LenProperties
<1>2. t \in Seq(S) /\ Len(t) = b - a /\ \A i \in 1 .. b - a : t[i] = s[a + i]
  BY Part
<1>3. u \in Seq(S) /\ Len(u) = y - x /\ \A i \in 1 .. y - x : u[i] = t[x + i]
  <2>1. x \in 0 .. Len(t) /\ y \in x .. Len(t)
    BY <1>1, <1>2
  <2> HIDE DEF t
  <2> QED
    BY <1>2, <2>1, Part
<1>4. v \in Seq(S) /\ Len(v) = (a + y) - (a + x) /\ \A i \in 1 .. (a + y) - (a + x) : v[i] = s[a + x + i]
  <2>1. a + x \in 0 .. Len(s) /\ a + y \in a + x .. Len(s)
    BY <1>1
  <2> QED
    BY <2>1, Part
<1> HIDE DEF t, u, v
<1>5. Len(u) = Len(v)
  BY <1>1, <1>3, <1>4
<1>6. ASSUME NEW i \in 1 .. Len(u) PROVE u[i] = v[i]
  <2>1. /\ i \in 1 .. y - x /\ i \in 1 .. (a + y) - (a + x) /\ x + i \in 1 .. b - a
        /\ a + (x + i) = a + x + i
    BY <1>1, <1>3
  <2>2. u[i] = t[x + i] /\ t[x + i] = s[a + (x + i)] /\ v[i] = s[a + x + i]
    BY <1>2, <1>3, <1>4, <2>1
  <2> QED
    BY <2>1, <2>2
<1>7. u = v
  BY <1>3, <1>4, <1>5, <1>6, SeqEqual
<1> QED
  BY <1>7 DEF t, u, v

(***************************************************************************)
(* The symbols in the order of their codes.                                *)
(***************************************************************************)
Of(lens, l) == {s \in DOMAIN lens : lens[s] = l}
UpTo(lens, l) == {s \in DOMAIN lens : lens[s] \in 1 .. l - 1}
Before(lens, s) == {t \in DOMAIN lens : t < s /\ lens[t] = lens[s]}

LEMMA Offsets ==
  ASSUME NEW lens \in Codes
  PROVE  /\ offs(lens, 1) = 0
         /\ \A l \in 1 .. MAXBITS + 1 : offs(lens, l) \in Nat
         /\ \A l \in 1 .. MAXBITS : offs(lens, l + 1) = offs(lens, l) + count(lens)[l]
         /\ \A l \in 1 .. MAXBITS, h \in 1 .. MAXBITS + 1 :
              l < h => offs(lens, l + 1) <= offs(lens, h)
<1>1. MAXBITS \in Nat
  BY HuffmanAssumption DEF MaxBitsAssumption
<1>2. ASSUME NEW l \in Int
      PROVE  offs(lens, l) = Cardinality(UpTo(lens, l)) /\ UpTo(lens, l) \subseteq DOMAIN lens
  BY DEF offs, UpTo
<1>3. ASSUME NEW l \in Int
      PROVE  IsFiniteSet(UpTo(lens, l)) /\ Cardinality(UpTo(lens, l)) \in Nat
  BY <1>2, SomeSymbols
<1>4. offs(lens, 1) = 0
  <2>1. UpTo(lens, 1) = {}
    BY DEF UpTo
  <2> QED
    BY <1>2, <2>1, FS_EmptySet
<1>5. \A l \in 1 .. MAXBITS + 1 : offs(lens, l) \in Nat
  BY <1>2, <1>3
<1>6. ASSUME NEW l \in 1 .. MAXBITS
      PROVE  offs(lens, l + 1) = offs(lens, l) + count(lens)[l]
  <2>1. l \in Int /\ l + 1 \in Int /\ l \in 0 .. MAXBITS
    BY <1>1
  <2>2. count(lens)[l] = Cardinality(Of(lens, l)) /\ Of(lens, l) \subseteq DOMAIN lens
    BY <2>1, CountType DEF Of
  <2>3. IsFiniteSet(Of(lens, l)) /\ Cardinality(Of(lens, l)) \in Nat
    BY <2>2, SomeSymbols
  <2>4. UpTo(lens, l + 1) = UpTo(lens, l) \cup Of(lens, l)
    <3>1. ASSUME NEW s \in DOMAIN lens
          PROVE  lens[s] \in 1 .. (l + 1) - 1 <=> lens[s] \in 1 .. l - 1 \/ lens[s] = l
      OBVIOUS
    <3> QED
      BY <3>1 DEF UpTo, Of
  <2>5. UpTo(lens, l) \cap Of(lens, l) = {}
    <3>1. l \notin 1 .. l - 1
      OBVIOUS
    <3> QED
      BY <3>1 DEF UpTo, Of
  <2>6. /\ IsFiniteSet(UpTo(lens, l)) /\ Cardinality(UpTo(lens, l)) \in Nat
        /\ offs(lens, l) = Cardinality(UpTo(lens, l))
        /\ offs(lens, l + 1) = Cardinality(UpTo(lens, l + 1))
    BY <1>2, <1>3, <2>1
  <2>7. Cardinality(UpTo(lens, l) \cup Of(lens, l))
          = Cardinality(UpTo(lens, l)) + Cardinality(Of(lens, l))
              - Cardinality(UpTo(lens, l) \cap Of(lens, l))
    BY <2>3, <2>6, FS_Union
  <2>8. Cardinality(UpTo(lens, l) \cap Of(lens, l)) = 0
    BY <2>5, FS_EmptySet
  <2>9. offs(lens, l + 1) = Cardinality(UpTo(lens, l) \cup Of(lens, l))
    BY <2>4, <2>6, Zenon
  <2>10. offs(lens, l + 1) = offs(lens, l) + count(lens)[l] - 0
    BY <2>2, <2>6, <2>7, <2>8, <2>9, Zenon
  <2> QED
    BY <2>2, <2>3, <2>6, <2>10
<1>7. ASSUME NEW l \in 1 .. MAXBITS, NEW h \in 1 .. MAXBITS + 1, l < h
      PROVE  offs(lens, l + 1) <= offs(lens, h)
  <2>1. l + 1 \in Int /\ h \in Int
    OBVIOUS
  <2>2. UpTo(lens, l + 1) \subseteq UpTo(lens, h)
    <3>1. ASSUME NEW x \in 1 .. (l + 1) - 1 PROVE x \in 1 .. h - 1
      BY <1>7
    <3> QED
      BY <3>1 DEF UpTo
  <2>3. IsFiniteSet(UpTo(lens, h))
    BY <1>3, <2>1
  <2>4. Cardinality(UpTo(lens, l + 1)) <= Cardinality(UpTo(lens, h))
    BY <2>2, <2>3, FS_Subset
  <2> QED
    BY <1>2, <2>1, <2>4
<1> QED
  BY <1>4, <1>5, <1>6, <1>7

(* A symbol has fewer before it than there are of its length, ... *)
LEMMA Ranks ==
  ASSUME NEW lens \in Codes, NEW s \in DOMAIN lens
  PROVE  /\ Cardinality(Before(lens, s)) \in Nat
         /\ Cardinality(Before(lens, s)) < count(lens)[lens[s]]
<1>1. lens[s] \in 0 .. MAXBITS /\ s \in Int
  BY DEF Codes
<1>2. /\ count(lens)[lens[s]] = Cardinality(Of(lens, lens[s])) /\ Of(lens, lens[s]) \subseteq DOMAIN lens
      /\ Cardinality(Of(lens, lens[s])) \in Nat
  BY <1>1, CountType DEF Of
<1>3. IsFiniteSet(Of(lens, lens[s]))
  BY <1>2, SomeSymbols
<1>4. Before(lens, s) \subseteq Of(lens, lens[s]) /\ Before(lens, s) \subseteq DOMAIN lens
  BY DEF Before, Of
<1>5. Cardinality(Before(lens, s)) \in Nat
  BY <1>4, SomeSymbols
<1>6. Before(lens, s) # Of(lens, lens[s])
  <2>1. s \in Of(lens, lens[s]) /\ ~ (s < s)
    BY <1>1 DEF Of
  <2>2. s \notin Before(lens, s)
    BY <2>1 DEF Before
  <2> QED
    BY <2>1, <2>2
<1>7. /\ Cardinality(Before(lens, s)) <= Cardinality(Of(lens, lens[s]))
      /\ Cardinality(Before(lens, s)) # Cardinality(Of(lens, lens[s]))
  BY <1>3, <1>4, <1>6, FS_Subset
<1> QED
  BY <1>2, <1>5, <1>7

(* ... and for every such number there is one. *)
LEMMA RankTaken ==
  ASSUME NEW lens \in Codes, NEW l \in 1 .. MAXBITS,
         NEW r \in Nat, r < count(lens)[l]
  PROVE  \E s \in DOMAIN lens : lens[s] = l /\ Cardinality(Before(lens, s)) = r
<1> DEFINE W(m) == {t \in Of(lens, l) : t < m}
           T == {m \in 0 .. Symbols : Cardinality(W(m)) <= r}
<1>1. /\ Symbols \in Nat /\ DOMAIN lens = 0 .. Symbols - 1 /\ l \in 0 .. MAXBITS
  BY HuffmanAssumption DEF Codes, MaxBitsAssumption
<1>2. ASSUME NEW m \in Int PROVE IsFiniteSet(W(m)) /\ Cardinality(W(m)) \in Nat
  <2>1. W(m) \subseteq DOMAIN lens
    BY DEF Of
  <2> HIDE DEF W
  <2> QED
    BY <2>1, SomeSymbols
<1>3. 0 \in T
  <2>1. W(0) = {}
    BY <1>1 DEF Of
  <2>2. Cardinality(W(0)) = 0
    <3> HIDE DEF W
    <3> QED
      BY <2>1, FS_EmptySet
  <2> HIDE DEF W
  <2> QED
    BY <1>1, <2>2
<1>4. Symbols \notin T
  <2>1. W(Symbols) = Of(lens, l)
    <3>1. \A t \in DOMAIN lens : t < Symbols
      BY <1>1
    <3> QED
      BY <3>1 DEF Of
  <2>2. count(lens)[l] = Cardinality(Of(lens, l)) /\ Cardinality(Of(lens, l)) \in Nat
    BY <1>1, CountType DEF Of
  <2>3. ~ (Cardinality(W(Symbols)) <= r)
    <3> HIDE DEF W
    <3> QED
      BY <2>1, <2>2
  <2> HIDE DEF W
  <2> QED
    BY <2>3
<1>5. PICK m \in 0 .. Symbols - 1 : m \in T /\ m + 1 \notin T
  <2> HIDE DEF T
  <2>1. Symbols \in 0 .. Symbols
    BY <1>1
  <2>2. ~ (\A m \in 0 .. Symbols - 1 : m \in T => m + 1 \in T)
    BY <1>1, <1>3, <1>4, <2>1, IntervalInduction
  <2> QED
    BY <2>2
<1>6. m \in DOMAIN lens /\ m \in Int /\ m + 1 \in Int /\ m + 1 \in 0 .. Symbols
  BY <1>1
<1>7. /\ Cardinality(W(m)) \in Nat /\ Cardinality(W(m + 1)) \in Nat
      /\ Cardinality(W(m)) <= r /\ r < Cardinality(W(m + 1))
  <2>1. Cardinality(W(m)) \in Nat /\ Cardinality(W(m + 1)) \in Nat
    <3> HIDE DEF W
    <3> QED
      BY <1>2, <1>6
  <2>2. Cardinality(W(m)) <= r /\ ~ (Cardinality(W(m + 1)) <= r)
    <3> HIDE DEF W
    <3> QED
      BY <1>5, <1>6
  <2> HIDE DEF W
  <2> QED
    BY <2>1, <2>2
<1>8. lens[m] = l
  <2>1. SUFFICES ASSUME lens[m] # l PROVE FALSE
    OBVIOUS
  <2>2. W(m + 1) = W(m)
    <3>1. \A t \in Of(lens, l) : t < m + 1 <=> t < m
      <4>1. \A t \in Of(lens, l) : t \in Int /\ t # m
        BY <1>1, <2>1 DEF Of
      <4> QED
        BY <1>6, <4>1
    <3> QED
      BY <3>1
  <2> HIDE DEF W
  <2> QED
    BY <1>7, <2>2
<1>9. W(m) = Before(lens, m)
  BY <1>8 DEF Of, Before
<1>10. W(m + 1) = W(m) \cup {m}
  <2>1. \A t \in Of(lens, l) : t < m + 1 <=> t < m \/ t = m
    <3>1. \A t \in Of(lens, l) : t \in Int
      BY <1>1 DEF Of
    <3> QED
      BY <1>6, <3>1
  <2>2. m \in Of(lens, l) /\ m < m + 1
    BY <1>6, <1>8 DEF Of
  <2> QED
    BY <2>1, <2>2
<1>11. Cardinality(W(m + 1)) <= Cardinality(W(m)) + 1
  <2> HIDE DEF W
  <2>1. IsFiniteSet(W(m))
    BY <1>2, <1>6
  <2>2. Cardinality(W(m) \cup {m}) = IF m \in W(m) THEN Cardinality(W(m)) ELSE Cardinality(W(m)) + 1
    BY <2>1, FS_AddElement
  <2>3. Cardinality(W(m + 1)) = IF m \in W(m) THEN Cardinality(W(m)) ELSE Cardinality(W(m)) + 1
    BY <1>10, <2>2, Zenon
  <2> QED
    BY <1>7, <2>3
<1>12. Cardinality(W(m)) = r
  <2> HIDE DEF W
  <2> QED
    BY <1>7, <1>11
<1>13. Cardinality(Before(lens, m)) = r
  <2> HIDE DEF W
  <2> QED
    BY <1>9, <1>12
<1> QED
  BY <1>6, <1>8, <1>13

(***************************************************************************)
(* The table of symbols has, behind the offset of a length, the symbols of *)
(* that length in their order.                                             *)
(***************************************************************************)
LEMMA SymbolOf ==
  ASSUME NEW lens \in Codes, NEW l \in 1 .. MAXBITS,
         NEW r \in Nat, r < count(lens)[l]
  PROVE  /\ symbol(lens, offs(lens, l) + r) \in DOMAIN lens
         /\ lens[symbol(lens, offs(lens, l) + r)] = l
         /\ Cardinality(Before(lens, symbol(lens, offs(lens, l) + r))) = r
<1> DEFINE k == offs(lens, l) + r
<1>1. ASSUME NEW s \in DOMAIN lens PROVE Place(lens, s) = offs(lens, lens[s]) + Cardinality(Before(lens, s))
  BY DEF Place, Before
<1>2. l # 0 /\ MAXBITS \in Nat /\ offs(lens, l) \in Nat
  BY Offsets, HuffmanAssumption DEF MaxBitsAssumption
<1>3. PICK s \in DOMAIN lens : lens[s] = l /\ Cardinality(Before(lens, s)) = r
  BY RankTaken
<1>4. Place(lens, s) = k /\ lens[s] # 0
  BY <1>1, <1>2, <1>3
<1>5. ASSUME NEW t \in DOMAIN lens, lens[t] # 0, Place(lens, t) = k
      PROVE  lens[t] = l /\ Cardinality(Before(lens, t)) = r
  <2> DEFINE h == lens[t]
             q == Cardinality(Before(lens, t))
  <2>1. h \in 1 .. MAXBITS
    <3>1. h \in 0 .. MAXBITS
      BY DEF Codes
    <3> QED
      BY <1>2, <1>5, <3>1
  <2>2. q \in Nat /\ q < count(lens)[h]
    BY Ranks
  <2>3. offs(lens, h) + q = offs(lens, l) + r
    BY <1>1, <1>5
  <2> HIDE DEF h, q
  <2>4. /\ offs(lens, h) \in Nat /\ offs(lens, h + 1) = offs(lens, h) + count(lens)[h]
        /\ offs(lens, l + 1) = offs(lens, l) + count(lens)[l]
        /\ h < l => offs(lens, h + 1) <= offs(lens, l)
        /\ l < h => offs(lens, l + 1) <= offs(lens, h)
    <3>1. l \in 1 .. MAXBITS + 1 /\ h \in 1 .. MAXBITS + 1
      BY <1>2, <2>1
    <3> QED
      BY <2>1, <3>1, Offsets
  <2>5. count(lens)[l] \in Nat /\ count(lens)[h] \in Nat
    <3>1. l \in 0 .. MAXBITS /\ h \in 0 .. MAXBITS
      BY <1>2, <2>1
    <3> QED
      BY <3>1, CountType
  <2>6. ~ (h < l) /\ ~ (l < h)
    BY <1>2, <2>2, <2>3, <2>4, <2>5
  <2>7. h = l
    BY <2>1, <2>6
  <2>8. q = r
    BY <1>2, <2>2, <2>3, <2>7
  <2> QED
    BY <2>7, <2>8 DEF h, q
<1>6. symbol(lens, k) = CHOOSE t \in DOMAIN lens : lens[t] # 0 /\ Place(lens, t) = k
  BY DEF symbol
<1> HIDE DEF k
<1>7. /\ symbol(lens, k) \in DOMAIN lens /\ lens[symbol(lens, k)] # 0
      /\ Place(lens, symbol(lens, k)) = k
  BY <1>3, <1>4, <1>6
<1>8. lens[symbol(lens, k)] = l /\ Cardinality(Before(lens, symbol(lens, k))) = r
  BY <1>5, <1>7
<1> QED
  BY <1>7, <1>8 DEF k

(***************************************************************************)
(* The type of what every step leaves alone, and of the place in the       *)
(* stream.                                                                 *)
(***************************************************************************)
Stream ==
    /\ length \in Codes
    /\ in \in [1 .. ByteSize * Bytes -> {0, 1}]
    /\ incnt \in 0 .. Bytes /\ start \in Nat
    /\ doing \in {"idle", "decode", "end"}

(* Between two calls, bitbuf is the rest of the last byte. *)
Between ==
    doing = "idle" =>
        /\ bitcnt \in 0 .. ByteSize - 1 /\ position >= 0
        /\ bitbuf = SubSeq(in, position + 1, ByteSize * incnt)

(***************************************************************************)
(* While decode() runs: its copy of the bit buffer holds the bits behind   *)
(* the codelen - 1 that it read, of which it may not use those that would  *)
(* make the code longer than MAXBITS; the old bit buffer began at the end  *)
(* of a byte; code is twice the number of those bits; first is the first   *)
(* code of this length and index the place of its symbol in the table; and *)
(* the bits read are behind the code space of the shorter codes.           *)
(***************************************************************************)
unread == ByteSize * incnt - (start + codelen - 1)

Reading ==
    /\ codelen \in 1 .. MAXBITS + 1
    /\ unread \in 0 .. ByteSize
    /\ rest \in Nat /\ rest <= unread /\ rest <= MAXBITS + 1 - codelen
    /\ rest = unread \/ rest = MAXBITS + 1 - codelen
    /\ buf = SubSeq(in, start + codelen, ByteSize * incnt)
    /\ bitcnt \in Int
    /\ \E i \in 0 .. incnt : start + bitcnt = ByteSize * i

Matching ==
    /\ code = 2 * Value(start)[codelen - 1]
    /\ first \in Nat /\ code >= first
    /\ codelen <= MAXBITS => first * Pow2[MAXBITS - codelen] = Kraft(length)[codelen - 1]
    /\ index = offs(length, codelen)
    /\ \A l \in 1 .. codelen - 1 : Value(start)[l] * Pow2[MAXBITS - l] >= Kraft(length)[l]

Decoding == doing = "decode" => answer = RUNNING /\ Reading /\ Matching

StreamInv == Stream /\ Between /\ Decoding /\ CompleteCodeDecodes

LEMMA SameValue ==
  ASSUME in' = in, start' = start
  PROVE  Value(start)' = Value(start)
BY DEF Value

LEMMA SameTables ==
  ASSUME length' = length
  PROVE  /\ Kraft(length)' = Kraft(length)
         /\ construct(length)' = construct(length)
         /\ NoCodes(length)' = NoCodes(length)
BY DEF Kraft, Share, construct, NoCodes, left, count

(* The stream is a sequence of bits, in bytes. *)
LEMMA Streams ==
  ASSUME in \in [1 .. ByteSize * Bytes -> {0, 1}]
  PROVE  /\ ByteSize \in Nat /\ ByteSize > 0 /\ Bytes \in Nat /\ ByteSize * Bytes \in Nat
         /\ in \in Seq({0, 1}) /\ Len(in) = ByteSize * Bytes
<1>1. ByteSize \in Nat /\ ByteSize > 0 /\ Bytes \in Nat /\ ByteSize * Bytes \in Nat
  BY HuffmanAssumption
<1> DEFINE N == ByteSize * Bytes
<1>2. in \in Seq({0, 1})
  <2> HIDE DEF N
  <2>1. in \in UNION {[1 .. n -> {0, 1}] : n \in Nat}
    BY <1>1 DEF N
  <2> QED
    BY <2>1, SeqDef
<1>3. Len(in) \in Nat /\ 1 .. Len(in) = 1 .. N
  BY <1>2, LenProperties
<1>4. Len(in) = N
  <2> HIDE DEF N
  <2>1. N \in Nat
    BY <1>1 DEF N
  <2> QED
    BY <1>3, <2>1
<1> QED
  BY <1>1, <1>2, <1>4

(* The bytes that are read are bytes of it. *)
LEMMA BytesRead ==
  ASSUME NEW i \in 0 .. Bytes
  PROVE  /\ ByteSize * i \in 0 .. ByteSize * Bytes
         /\ ByteSize * (i + 1) = ByteSize * i + ByteSize
         /\ i < Bytes => ByteSize * (i + 1) \in 0 .. ByteSize * Bytes
<1>1. ByteSize \in {1, 2, 4, 8} /\ Bytes \in Nat
  BY HuffmanAssumption
<1>2. CASE ByteSize = 1
  BY <1>1, <1>2
<1>3. CASE ByteSize = 2
  BY <1>1, <1>3
<1>4. CASE ByteSize = 4
  BY <1>1, <1>4
<1>5. CASE ByteSize = 8
  BY <1>1, <1>5
<1> QED
  BY <1>1, <1>2, <1>3, <1>4, <1>5

(***************************************************************************)
(* bits() loads as many bytes as it needs.                                 *)
(***************************************************************************)
LEMMA LoadsEnough ==
  ASSUME NEW need \in Nat, bitcnt \in 0 .. ByteSize - 1
  PROVE  /\ Loads(need) \in Nat
         /\ bitcnt + ByteSize * Loads(need) - need \in 0 .. ByteSize - 1
<1>1. ByteSize \in {1, 2, 4, 8} /\ bitcnt \in Int
  BY HuffmanAssumption
<1>2. CASE bitcnt < need
  <2> DEFINE x == need - bitcnt + ByteSize - 1
             q == x \div ByteSize
  <2>1. Loads(need) = q
    BY <1>2 DEF Loads
  <2>2. x \in Nat /\ x - (need - bitcnt) = ByteSize - 1
    BY <1>1, <1>2
  <2>3. q \in Nat /\ ByteSize * q <= x /\ x < ByteSize * q + ByteSize
    <3> HIDE DEF x
    <3>1. CASE ByteSize = 1
      BY <2>2, <3>1
    <3>2. CASE ByteSize = 2
      BY <2>2, <3>2
    <3>3. CASE ByteSize = 4
      BY <2>2, <3>3
    <3>4. CASE ByteSize = 8
      BY <2>2, <3>4
    <3> QED
      BY <1>1, <3>1, <3>2, <3>3, <3>4
  <2> DEFINE y == ByteSize * q
  <2>4. y \in Int
    BY <1>1, <2>3
  <2>5. bitcnt + y - need \in 0 .. ByteSize - 1
    <3> HIDE DEF q
    <3>1. y <= need - bitcnt + ByteSize - 1 /\ need - bitcnt + ByteSize - 1 < y + ByteSize
      BY <2>3
    <3> HIDE DEF y
    <3> QED
      BY <1>1, <2>4, <3>1
  <2> HIDE DEF q
  <2> QED
    BY <2>1, <2>3, <2>5
<1>3. CASE ~ (bitcnt < need)
  <2>1. Loads(need) = 0
    BY <1>3 DEF Loads
  <2>2. ByteSize * 0 = 0
    BY <1>1
  <2> QED
    BY <1>1, <1>3, <2>1, <2>2
<1> QED
  BY <1>2, <1>3

(***************************************************************************)
(* The invariant holds in the beginning.                                   *)
(***************************************************************************)
LEMMA StreamInit ==
  ASSUME BitsInit
  PROVE  StreamInv
<1>1. Stream
  BY HuffmanAssumption DEF BitsInit, Stream
<1>2. ByteSize \in Nat /\ ByteSize > 0 /\ ByteSize * 0 = 0
  BY HuffmanAssumption
<1>3. position = 0 /\ ByteSize * incnt = 0
  BY <1>2 DEF BitsInit, position
<1>4. SubSeq(in, position + 1, ByteSize * incnt) = << >>
  <2>1. SubSeq(in, 1, 0) = << >>
    BY SubSeqEmpty
  <2>2. position + 1 = 1
    BY <1>3
  <2> QED
    BY <1>3, <2>1, <2>2
<1>5. Between
  BY <1>2, <1>3, <1>4 DEF Between, BitsInit
<1>6. Decoding
  BY DEF Decoding, BitsInit
<1>7. CompleteCodeDecodes
  BY DEF CompleteCodeDecodes, BitsInit, BAD
<1> QED
  BY <1>1, <1>5, <1>6, <1>7 DEF StreamInv

(***************************************************************************)
(* bits() takes the next bits, ...                                         *)
(***************************************************************************)
LEMMA BitsTakes ==
  ASSUME StreamInv, NEW need \in Needs, Bits(need)
  PROVE  StreamInv' /\ BitsStep
<1>1. need \in Nat /\ doing = "idle"
  BY HuffmanAssumption DEF Bits
<1>2. /\ ByteSize \in Nat /\ ByteSize > 0 /\ Bytes \in Nat /\ ByteSize * Bytes \in Nat
      /\ in \in Seq({0, 1}) /\ Len(in) = ByteSize * Bytes
  BY Streams DEF StreamInv, Stream
<1>3. /\ bitcnt \in 0 .. ByteSize - 1 /\ position >= 0 /\ incnt \in 0 .. Bytes
      /\ bitbuf = SubSeq(in, position + 1, ByteSize * incnt)
  BY <1>1 DEF StreamInv, Stream, Between
<1>4. CASE InputOver
  <2>1. Stream'
    BY <1>4 DEF InputOver, state, locals, Stream, StreamInv
  <2>2. Between' /\ Decoding' /\ BitsStep
    BY <1>4 DEF InputOver, Between, Decoding, BitsStep
  <2>3. CompleteCodeDecodes'
    <3>1. length' = length /\ answer' = answer
      BY <1>4 DEF InputOver
    <3>2. construct(length)' = construct(length) /\ NoCodes(length)' = NoCodes(length)
      BY <3>1, SameTables
    <3> QED
      BY <3>1, <3>2 DEF CompleteCodeDecodes, StreamInv
  <2> QED
    BY <2>1, <2>2, <2>3 DEF StreamInv
<1>5. CASE ~ (incnt + Loads(need) > Bytes)
  <2> DEFINE n == Loads(need)
             x == ByteSize * incnt
             y == ByteSize * (incnt + n)
             z == x - bitcnt
             val == SubSeq(in, z + 1, y)
  <2>1. n \in Nat /\ bitcnt + ByteSize * n - need \in 0 .. ByteSize - 1
    BY <1>1, <1>3, LoadsEnough
  <2> HIDE DEF n
  <2>2. incnt + n \in 0 .. Bytes
    BY <1>2, <1>3, <1>5, <2>1 DEF n
  <2>3. x \in 0 .. Len(in) /\ y \in 0 .. Len(in)
    BY <1>2, <1>3, <2>2, BytesRead
  <2>4. y = x + ByteSize * n /\ ByteSize * n \in Nat
    BY <1>2, <1>3, <2>1
  <2>5. position = z
    BY DEF position
  <2>6. z \in 0 .. x /\ x \in z .. y /\ y \in z .. Len(in) /\ z \in 0 .. Len(in) /\ x \in z .. Len(in)
    <3>1. z >= 0
      BY <1>3, <2>5
    <3> DEFINE m == ByteSize * n
    <3>2. y = x + m /\ m \in Nat
      BY <2>4
    <3> HIDE DEF m, x, y
    <3> QED
      BY <1>2, <1>3, <2>3, <3>1, <3>2
  <2>7. bitbuf \o SubSeq(in, x + 1, y) = val
    <3>1. bitbuf = SubSeq(in, z + 1, x)
      BY <1>3, <2>5
    <3>2. z + 1 \in 1 .. Len(in) + 1 /\ x \in (z + 1) - 1 .. Len(in) /\ y \in x .. Len(in)
      <4> HIDE DEF x, y, z
      <4> QED
        BY <1>2, <2>3, <2>6
    <3> HIDE DEF x, y, z
    <3>3. SubSeq(in, z + 1, x) \o SubSeq(in, x + 1, y) = SubSeq(in, z + 1, y)
      BY <1>2, <3>2, ConcatAdjacentSubSeq
    <3> QED
      BY <3>1, <3>3
  <2>8. /\ incnt' = incnt + n /\ bitcnt' = bitcnt + ByteSize * n - need
        /\ bitbuf' = SubSeq(val, need + 1, Len(val))
        /\ answer' = Number(SubSeq(val, 1, need)) /\ start' = position
        /\ length' = length /\ in' = in /\ doing' = doing
    <3>1. LET w == bitbuf \o SubSeq(in, x + 1, y)
          IN  /\ incnt' = incnt + n /\ bitcnt' = bitcnt + ByteSize * n - need
              /\ bitbuf' = SubSeq(w, need + 1, Len(w))
              /\ answer' = Number(SubSeq(w, 1, need)) /\ start' = position
              /\ length' = length /\ in' = in /\ doing' = doing
      BY <1>5 DEF Bits, n
    <3> HIDE DEF x, y, z, val
    <3> QED
      BY <2>7, <3>1
  <2>9. val \in Seq({0, 1}) /\ Len(val) = y - z
    <3> HIDE DEF x, y, z
    <3> QED
      BY <1>2, <2>6, Part
  <2>10. y - z - need = bitcnt' /\ bitcnt' \in 0 .. ByteSize - 1
    <3>1. bitcnt' \in 0 .. ByteSize - 1
      BY <2>1, <2>8
    <3> DEFINE m == ByteSize * n
    <3>2. y = x + m /\ m \in Nat /\ bitcnt' = bitcnt + m - need
      BY <2>4, <2>8
    <3> HIDE DEF m, x, y
    <3> QED
      BY <1>2, <1>3, <1>1, <2>3, <3>1, <3>2
  <2>11. need \in 0 .. y - z /\ y - z \in need .. y - z /\ 0 \in 0 .. y - z /\ need \in 0 .. y - z
    <3> HIDE DEF x, y, z
    <3> QED
      BY <1>1, <1>2, <2>3, <2>6, <2>10
  <2>12. position' = z + need
    <3>1. position' = y - bitcnt'
      BY <2>8 DEF position
    <3>2. ASSUME NEW c, c \in Int, y - z - need = c PROVE y - c = z + need
      <4> HIDE DEF x, y, z
      <4> QED
        BY <1>1, <1>2, <2>3, <2>6, <3>2
    <3>3. y - bitcnt' = z + need
      <4>1. bitcnt' \in Int /\ y - z - need = bitcnt'
        BY <1>2, <2>10
      <4> HIDE DEF x, y, z
      <4> QED
        BY <3>2, <4>1
    <3> HIDE DEF x, y, z
    <3> QED
      BY <3>1, <3>3
  <2>13. /\ SubSeq(val, need + 1, y - z) = SubSeq(in, (z + need) + 1, z + (y - z))
         /\ SubSeq(val, 0 + 1, need) = SubSeq(in, (z + 0) + 1, z + need)
    <3> HIDE DEF x, y, z
    <3> QED
      BY <1>2, <2>6, <2>11, PartOfPart DEF val
  <2>14. bitbuf' = SubSeq(in, position' + 1, y)
    <3>1. z + (y - z) = y
      <4> HIDE DEF x, y, z
      <4> QED
        BY <2>3, <2>6
    <3> HIDE DEF x, y, z, val
    <3> QED
      BY <2>8, <2>9, <2>12, <2>13, <3>1
  <2>15. answer' = Number(SubSeq(in, position + 1, position'))
    <3>1. 0 + 1 = 1 /\ z + 0 = z
      <4> HIDE DEF x, y, z
      <4> QED
        BY <2>6
    <3> HIDE DEF x, y, z, val
    <3> QED
      BY <2>5, <2>8, <2>12, <2>13, <3>1
  <2>16. answer' \in Nat
    <3>1. SubSeq(in, z + 1, z + need) \in Seq({0, 1})
      <4>1. z + need \in z .. Len(in)
        <5> HIDE DEF x, y, z
        <5> QED
          BY <1>1, <2>6, <2>11, <2>3
      <4> HIDE DEF z
      <4> QED
        BY <1>2, <2>6, <4>1, Part
    <3> HIDE DEF z
    <3> QED
      BY <2>5, <2>12, <2>15, <3>1, NumberType
  <2>17. Stream'
    <3>1. start' \in Nat
      <4> HIDE DEF x, z
      <4> QED
        BY <2>3, <2>5, <2>6, <2>8
    <3> QED
      BY <2>2, <2>8, <3>1 DEF Stream, StreamInv
  <2>18. Between'
    <3>1. position' >= 0
      <4> HIDE DEF x, z
      <4> QED
        BY <1>1, <2>3, <2>6, <2>12
    <3> QED
      BY <2>8, <2>10, <2>14, <3>1 DEF Between
  <2>19. Decoding'
    BY <1>1, <2>8 DEF Decoding
  <2>20. CompleteCodeDecodes'
    BY <2>16 DEF CompleteCodeDecodes, BAD
  <2>21. BitsStep
    BY <2>8, <2>15 DEF BitsStep
  <2> QED
    BY <2>17, <2>18, <2>19, <2>20, <2>21 DEF StreamInv
<1> QED
  BY <1>1, <1>4, <1>5 DEF Bits

(* ... and ends where the input ends, as decode() does. *)
LEMMA InputEnds ==
  ASSUME StreamInv, InputOver, doing \in {"idle", "decode"}
  PROVE  StreamInv' /\ DecodeStep /\ BitsStep
<1>1. Stream'
  BY DEF InputOver, state, locals, Stream, StreamInv
<1>2. Between' /\ Decoding' /\ BitsStep
  BY DEF InputOver, Between, Decoding, BitsStep
<1>3. CompleteCodeDecodes'
  <2>1. length' = length /\ answer' = answer
    BY DEF InputOver
  <2>2. construct(length)' = construct(length) /\ NoCodes(length)' = NoCodes(length)
    BY <2>1, SameTables
  <2> QED
    BY <2>1, <2>2 DEF CompleteCodeDecodes, StreamInv
<1>4. DecodeStep
  <2>1. doing = "decode" => answer' # BAD
    BY DEF StreamInv, Decoding, InputOver, RUNNING, BAD
  <2>2. doing' # "idle"
    BY DEF InputOver
  <2> QED
    BY <2>1, <2>2 DEF DecodeStep
<1> QED
  BY <1>1, <1>2, <1>3, <1>4 DEF StreamInv

(* Steps that change nothing. *)
LEMMA StreamStutters ==
  ASSUME StreamInv, UNCHANGED bitsVars
  PROVE  StreamInv'
<1>1. /\ length' = length /\ in' = in /\ incnt' = incnt /\ bitbuf' = bitbuf /\ bitcnt' = bitcnt
      /\ buf' = buf /\ rest' = rest /\ code' = code /\ first' = first /\ index' = index
      /\ codelen' = codelen /\ doing' = doing /\ answer' = answer /\ start' = start
  BY DEF bitsVars, state, locals
<1>2. Stream' /\ Between' /\ Reading' = Reading
  BY <1>1 DEF Stream, Between, Reading, unread, position, StreamInv
<1>3. Matching' = Matching
  <2>1. /\ Value(start)' = Value(start) /\ Kraft(length)' = Kraft(length)
        /\ offs(length, codelen)' = offs(length, codelen)
    BY <1>1, SameValue, SameTables DEF offs
  <2> QED
    BY <1>1, <2>1 DEF Matching
<1>4. CompleteCodeDecodes'
  <2>1. construct(length)' = construct(length) /\ NoCodes(length)' = NoCodes(length)
    BY <1>1, SameTables
  <2> QED
    BY <1>1, <2>1 DEF CompleteCodeDecodes, StreamInv
<1> QED
  BY <1>1, <1>2, <1>3, <1>4 DEF StreamInv, Decoding

(***************************************************************************)
(* decode() starts with the bits that are left of the last byte.           *)
(***************************************************************************)
LEMMA DecodeStarts ==
  ASSUME StreamInv, Decode
  PROVE  StreamInv'
<1>1. /\ doing = "idle" /\ doing' = "decode" /\ buf' = bitbuf /\ rest' = bitcnt
      /\ code' = 0 /\ first' = 0 /\ index' = 0 /\ codelen' = 1
      /\ answer' = RUNNING /\ start' = position
      /\ length' = length /\ in' = in /\ incnt' = incnt /\ bitbuf' = bitbuf /\ bitcnt' = bitcnt
  BY DEF Decode, state
<1>2. /\ ByteSize \in Nat /\ ByteSize > 0 /\ Bytes \in Nat /\ ByteSize * Bytes \in Nat
      /\ in \in [1 .. ByteSize * Bytes -> {0, 1}] /\ Len(in) = ByteSize * Bytes
      /\ length \in Codes /\ incnt \in 0 .. Bytes
  BY Streams DEF StreamInv, Stream
<1>3. /\ bitcnt \in 0 .. ByteSize - 1 /\ position >= 0
      /\ bitbuf = SubSeq(in, position + 1, ByteSize * incnt)
  BY <1>1 DEF StreamInv, Between
<1> DEFINE e == ByteSize * incnt
<1>4. e \in 0 .. ByteSize * Bytes /\ position = e - bitcnt
  BY <1>2, BytesRead DEF position
<1>5. position \in Nat /\ position \in 0 .. ByteSize * Bytes
  <2> HIDE DEF e
  <2>1. e - bitcnt \in Int /\ e - bitcnt <= e
    BY <1>2, <1>3, <1>4
  <2> QED
    BY <1>2, <1>3, <1>4, <2>1
<1>6. MAXBITS \in Nat /\ MAXBITS > 0 /\ ByteSize <= MAXBITS + 1
  BY HuffmanAssumption DEF MaxBitsAssumption
<1>7. Stream'
  BY <1>1, <1>5 DEF Stream, StreamInv
<1>8. Between'
  BY <1>1 DEF Between
<1>9. Reading'
  <2>1. unread' = bitcnt
    <3>1. unread' = e - (position + 1 - 1)
      BY <1>1 DEF unread
    <3> HIDE DEF e
    <3> QED
      BY <1>2, <1>3, <1>4, <3>1
  <2>2. codelen' \in 1 .. MAXBITS + 1 /\ unread' \in 0 .. ByteSize /\ rest' \in Nat /\ rest' <= unread'
        /\ rest' <= MAXBITS + 1 - codelen' /\ rest' = unread' /\ bitcnt' \in Int
    <3> HIDE DEF e
    <3> QED
      BY <1>1, <1>2, <1>3, <1>6, <2>1
  <2>3. buf' = SubSeq(in', start' + codelen', ByteSize * incnt')
    BY <1>1, <1>3
  <2>4. incnt \in 0 .. incnt' /\ start' + bitcnt' = ByteSize * incnt
    <3>1. position + bitcnt = e
      <4> HIDE DEF e
      <4> QED
        BY <1>2, <1>3, <1>4
    <3>2. incnt \in 0 .. incnt
      BY <1>2
    <3> QED
      BY <1>1, <3>1, <3>2
  <2> QED
    BY <2>2, <2>3, <2>4 DEF Reading
<1>10. Matching'
  <2>1. Value(start)' = Value(position)
    BY <1>1 DEF Value
  <2>2. Value(position)[0] = 0
    BY <1>2, <1>5, Values
  <2>3. Kraft(length)' = Kraft(length) /\ offs(length, codelen)' = offs(length, 1)
    BY <1>1, SameTables DEF offs
  <2>4. Kraft(length)[0] = 0 /\ offs(length, 1) = 0
    BY <1>2, Krafts, Offsets
  <2>5. code' = 2 * (Value(start)')[codelen' - 1]
    <3>1. codelen' - 1 = 0
      BY <1>1
    <3> QED
      BY <1>1, <2>1, <2>2, <3>1
  <2>6. codelen' <= MAXBITS => first' * Pow2[MAXBITS - codelen'] = (Kraft(length)')[codelen' - 1]
    <3>1. codelen' - 1 = 0 /\ MAXBITS - 1 \in 0 .. MAXBITS
      BY <1>1, <1>6
    <3>2. Pow2[MAXBITS - 1] \in Nat
      BY <3>1, Powers
    <3>3. 0 * Pow2[MAXBITS - 1] = 0
      BY <3>2
    <3> QED
      BY <1>1, <2>3, <2>4, <3>1, <3>3
  <2>7. first' \in Nat /\ code' >= first' /\ index' = offs(length, codelen)'
    BY <1>1, <2>3, <2>4
  <2>8. \A l \in 1 .. codelen' - 1 :
          (Value(start)')[l] * Pow2[MAXBITS - l] >= (Kraft(length)')[l]
    BY <1>1
  <2> QED
    BY <2>5, <2>6, <2>7, <2>8 DEF Matching
<1>11. CompleteCodeDecodes'
  BY <1>1 DEF CompleteCodeDecodes, RUNNING, BAD
<1> QED
  BY <1>1, <1>7, <1>8, <1>9, <1>10, <1>11 DEF StreamInv, Decoding

LEMMA MinOfTwo ==
  ASSUME NEW a \in Int, NEW b \in Int
  PROVE  Min({a, b}) = IF a <= b THEN a ELSE b
<1> DEFINE m == IF a <= b THEN a ELSE b
<1>1. m \in {a, b} /\ \A y \in {a, b} : m <= y
  OBVIOUS
<1>2. ASSUME NEW x \in {a, b}, \A y \in {a, b} : x <= y PROVE x = m
  BY <1>2
<1> HIDE DEF m
<1>3. Min({a, b}) = m
  BY <1>1, <1>2 DEF Min
<1> QED
  BY <1>3 DEF m

(* ... takes another byte only when it has read all of the last one, ... *)
LEMMA ByteRead ==
  ASSUME StreamInv, NextByte
  PROVE  StreamInv' /\ DecodeStep /\ BitsStep
<1>1. doing = "decode" /\ rest = 0 /\ codelen <= MAXBITS
  BY DEF NextByte
<1>2. CASE InputOver
  BY <1>1, <1>2, InputEnds
<1>3. CASE incnt # Bytes /\ ~ InputOver
  <2>1. /\ buf' = ByteAt(incnt) /\ incnt' = incnt + 1
        /\ rest' = Min({ByteSize, MAXBITS + 1 - codelen})
        /\ length' = length /\ in' = in /\ bitbuf' = bitbuf /\ bitcnt' = bitcnt /\ code' = code
        /\ first' = first /\ index' = index /\ codelen' = codelen /\ doing' = doing /\ answer' = answer /\ start' = start
    BY <1>3 DEF NextByte
  <2>2. Reading /\ Matching /\ answer = RUNNING
    BY <1>1 DEF StreamInv, Decoding
  <2>3. incnt \in 0 .. Bytes /\ incnt < Bytes /\ start \in Nat /\ Bytes \in Nat /\ MAXBITS \in Nat
    BY <1>3, HuffmanAssumption DEF StreamInv, Stream, MaxBitsAssumption
  <2> DEFINE e == ByteSize * incnt
             f == ByteSize * (incnt + 1)
  <2>4. e \in Nat /\ f = e + ByteSize /\ ByteSize \in Nat /\ ByteSize > 0
    BY <2>3, BytesRead, HuffmanAssumption
  <2>5. codelen \in 1 .. MAXBITS + 1 /\ start + codelen - 1 = e
    <3>1. /\ codelen \in 1 .. MAXBITS + 1
          /\ rest = unread \/ rest = MAXBITS + 1 - codelen
          /\ unread = e - (start + codelen - 1)
      BY <2>2 DEF Reading, unread
    <3> HIDE DEF e
    <3>2. MAXBITS + 1 - codelen > 0
      BY <1>1, <2>3, <3>1
    <3>3. e - (start + codelen - 1) = 0
      BY <1>1, <3>1, <3>2
    <3> QED
      BY <2>3, <2>4, <3>1, <3>3
  <2>6. unread' = ByteSize
    <3>1. unread' = f - (start + codelen - 1)
      BY <2>1 DEF unread
    <3> HIDE DEF e, f
    <3> QED
      BY <2>4, <2>5, <3>1
  <2>7. /\ rest' \in Nat /\ rest' <= ByteSize /\ rest' <= MAXBITS + 1 - codelen
        /\ rest' = ByteSize \/ rest' = MAXBITS + 1 - codelen
    <3>1. MAXBITS + 1 - codelen \in Int
      BY <2>3, <2>5
    <3>2. rest' = IF ByteSize <= MAXBITS + 1 - codelen THEN ByteSize ELSE MAXBITS + 1 - codelen
      BY <2>1, <2>4, <3>1, MinOfTwo
    <3> QED
      BY <1>1, <2>3, <2>4, <2>5, <3>2
  <2>8. buf' = SubSeq(in, start + codelen, f)
    <3>1. buf' = SubSeq(in, e + 1, f)
      BY <2>1 DEF ByteAt
    <3>2. e + 1 = start + codelen
      <4> HIDE DEF e, f
      <4> QED
        BY <2>3, <2>4, <2>5
    <3> QED
      BY <3>1, <3>2
  <2>9. \E i \in 0 .. incnt + 1 : start + bitcnt = ByteSize * i
    <3>1. PICK i \in 0 .. incnt : start + bitcnt = ByteSize * i
      BY <2>2 DEF Reading
    <3>2. i \in 0 .. incnt + 1
      BY <2>3
    <3> QED
      BY <3>1, <3>2
  <2>10. Reading'
    <3>1. bitcnt \in Int
      BY <2>2 DEF Reading
    <3> HIDE DEF f
    <3>2. /\ codelen' \in 1 .. MAXBITS + 1 /\ unread' \in 0 .. ByteSize
          /\ rest' \in Nat /\ rest' <= unread' /\ rest' <= MAXBITS + 1 - codelen'
          /\ rest' = unread' \/ rest' = MAXBITS + 1 - codelen'
      BY <2>1, <2>4, <2>5, <2>6, <2>7
    <3>3. buf' = SubSeq(in', start' + codelen', ByteSize * incnt')
      BY <2>1, <2>8 DEF f
    <3> QED
      BY <2>1, <2>9, <3>1, <3>2, <3>3 DEF Reading
  <2>11. Matching'
    <3>1. /\ Value(start)' = Value(start) /\ Kraft(length)' = Kraft(length)
          /\ offs(length, codelen)' = offs(length, codelen)
      BY <2>1, SameValue, SameTables DEF offs
    <3> QED
      BY <2>1, <2>2, <3>1 DEF Matching
  <2>12. Stream' /\ Between'
    <3>1. incnt + 1 \in 0 .. Bytes
      BY <2>3
    <3> QED
      BY <1>1, <2>1, <3>1 DEF StreamInv, Stream, Between
  <2>13. CompleteCodeDecodes' /\ DecodeStep /\ BitsStep
    BY <1>1, <2>1, <2>2 DEF CompleteCodeDecodes, DecodeStep, BitsStep, RUNNING, BAD
  <2> QED
    BY <2>1, <2>2, <2>10, <2>11, <2>12, <2>13 DEF StreamInv, Decoding
<1> QED
  BY <1>2, <1>3 DEF NextByte

(***************************************************************************)
(* The code with the next bit.                                             *)
(***************************************************************************)
LEMMA NextBit ==
  ASSUME StreamInv, doing = "decode", rest > 0
  PROVE  /\ codelen \in 1 .. MAXBITS /\ unread > 0
         /\ start + codelen \in 1 .. ByteSize * incnt
         /\ start + codelen <= Len(in)
         /\ Tail(buf) = SubSeq(in, start + codelen + 1, ByteSize * incnt)
         /\ NewCode = Value(start)[codelen] /\ NewCode \in Nat /\ NewCode >= first
         /\ Count \in Nat
<1>1. Reading /\ Matching
  BY DEF StreamInv, Decoding
<1>2. /\ ByteSize \in Nat /\ ByteSize > 0 /\ Bytes \in Nat /\ ByteSize * Bytes \in Nat
      /\ in \in Seq({0, 1}) /\ in \in [1 .. ByteSize * Bytes -> {0, 1}] /\ Len(in) = ByteSize * Bytes
      /\ length \in Codes /\ incnt \in 0 .. Bytes /\ start \in Nat /\ MAXBITS \in Nat
  BY Streams, HuffmanAssumption DEF StreamInv, Stream, MaxBitsAssumption
<1> DEFINE e == ByteSize * incnt
           N == ByteSize * Bytes
<1>3. e \in 0 .. N /\ N \in Nat /\ Len(in) = N
  BY <1>2, BytesRead
<1>4. /\ codelen \in 1 .. MAXBITS + 1 /\ rest \in Nat /\ rest <= unread /\ rest <= MAXBITS + 1 - codelen
      /\ unread \in Int /\ unread = e - (start + codelen - 1) /\ buf = SubSeq(in, start + codelen, e)
  BY <1>1, <1>2 DEF Reading, unread
<1> HIDE DEF e, N
<1>5. codelen \in 1 .. MAXBITS /\ unread > 0
  BY <1>2, <1>4
<1>6. start + codelen \in 1 .. e /\ start + codelen <= N
  <2>1. start + codelen - 1 < e
    BY <1>2, <1>3, <1>4, <1>5
  <2> QED
    BY <1>2, <1>3, <1>5, <2>1
<1> DEFINE a == start + codelen - 1
<1>7. a \in 0 .. Len(in) /\ e \in a .. Len(in) /\ a + 1 = start + codelen /\ 1 \in 1 .. e - a
  <2> DEFINE q == start + codelen
  <2>1. q \in 1 .. e /\ q <= N /\ e \in 0 .. N /\ N \in Nat
    BY <1>3, <1>6
  <2>2. a = q - 1
    BY <1>2, <1>5
  <2> HIDE DEF q, a
  <2>3. a \in 0 .. N /\ e \in a .. N /\ a + 1 = q /\ 1 \in 1 .. e - a
    BY <2>1, <2>2
  <2> QED
    BY <1>3, <2>3 DEF q
<1>8. buf \in Seq({0, 1}) /\ Len(buf) = e - a /\ buf[1] = in[start + codelen]
  <2>1. /\ SubSeq(in, a + 1, e) \in Seq({0, 1}) /\ Len(SubSeq(in, a + 1, e)) = e - a
        /\ \A i \in 1 .. e - a : SubSeq(in, a + 1, e)[i] = in[a + i]
    <3> HIDE DEF a
    <3> QED
      BY <1>2, <1>7, Part
  <2> HIDE DEF a
  <2> QED
    BY <1>4, <1>7, <2>1
<1>9. Tail(buf) = SubSeq(in, start + codelen + 1, e)
  <2>1. start + codelen \in 1 .. Len(in) /\ e \in start + codelen .. Len(in)
    BY <1>2, <1>3, <1>6 DEF N
  <2> DEFINE m == start + codelen
  <2> HIDE DEF m
  <2>2. Tail(SubSeq(in, m, e)) = SubSeq(in, m + 1, e)
    BY <1>2, <2>1, HeadTailOfSubSeq DEF m
  <2> QED
    BY <1>4, <2>2 DEF m
<1>10. /\ NewCode = Value(start)[codelen] /\ Value(start)[codelen - 1] \in Nat /\ in[start + codelen] \in {0, 1}
       /\ NewCode = code + in[start + codelen] /\ code = 2 * Value(start)[codelen - 1]
  <2>1. start \in 0 .. N /\ codelen \in 1 .. N - start /\ codelen - 1 \in 0 .. N - start /\ start + codelen \in 1 .. N
    BY <1>2, <1>3, <1>5, <1>6
  <2>2. /\ Value(start)[codelen] = 2 * Value(start)[codelen - 1] + in[start + codelen]
        /\ Value(start)[codelen - 1] \in Nat
    BY <1>2, <2>1, Values DEF N
  <2>3. in[start + codelen] \in {0, 1}
    BY <1>2, <2>1 DEF N
  <2>4. NewCode = code + in[start + codelen]
    BY <1>8 DEF NewCode
  <2>5. code = 2 * Value(start)[codelen - 1]
    BY <1>1 DEF Matching
  <2> QED
    BY <2>2, <2>3, <2>4, <2>5
<1>11. NewCode \in Nat /\ NewCode >= first
  <2>1. first \in Nat /\ code >= first
    BY <1>1 DEF Matching
  <2> DEFINE v == Value(start)[codelen - 1]
             b == in[start + codelen]
  <2>2. NewCode = code + b /\ code = 2 * v /\ v \in Nat /\ b \in {0, 1}
    BY <1>10
  <2> HIDE DEF v, b
  <2> QED
    BY <2>1, <2>2
<1>12. Count \in Nat
  <2>1. codelen \in 0 .. MAXBITS
    BY <1>2, <1>5
  <2> QED
    BY <1>2, <2>1, CountType DEF Count
<1> QED
  BY <1>2, <1>5, <1>6, <1>9, <1>10, <1>11, <1>12 DEF e, N

(***************************************************************************)
(* decode() goes on to the next length when the bits are behind the codes  *)
(* of this one, ...                                                        *)
(***************************************************************************)
LEMMA LongerRead ==
  ASSUME StreamInv, LongerCode
  PROVE  StreamInv' /\ DecodeStep /\ BitsStep
<1>1. /\ doing = "decode" /\ rest > 0 /\ ~ (NewCode - Count < first)
      /\ buf' = Tail(buf) /\ rest' = rest - 1
      /\ code' = 2 * NewCode /\ index' = index + Count
      /\ first' = 2 * (first + Count) /\ codelen' = codelen + 1
      /\ length' = length /\ in' = in /\ incnt' = incnt /\ bitbuf' = bitbuf /\ bitcnt' = bitcnt
      /\ doing' = doing /\ answer' = answer /\ start' = start
  BY DEF LongerCode, HasCode, NextFirst, state
<1>2. /\ codelen \in 1 .. MAXBITS /\ unread > 0
      /\ Tail(buf) = SubSeq(in, start + codelen + 1, ByteSize * incnt)
      /\ NewCode = Value(start)[codelen] /\ NewCode \in Nat /\ NewCode >= first
      /\ Count \in Nat
  BY <1>1, NextBit
<1>3. Reading /\ Matching /\ answer = RUNNING
  BY <1>1 DEF StreamInv, Decoding
<1>4. /\ ByteSize \in Nat /\ start \in Nat /\ MAXBITS \in Nat /\ incnt \in Nat
      /\ length \in Codes /\ ByteSize * incnt \in Nat
  BY HuffmanAssumption DEF StreamInv, Stream, MaxBitsAssumption
<1>5. /\ first \in Nat /\ index = offs(length, codelen)
      /\ first * Pow2[MAXBITS - codelen] = Kraft(length)[codelen - 1]
      /\ \A l \in 1 .. codelen - 1 : Value(start)[l] * Pow2[MAXBITS - l] >= Kraft(length)[l]
  BY <1>2, <1>3, <1>4 DEF Matching
<1>6. /\ codelen \in 0 .. MAXBITS /\ MAXBITS - codelen \in 0 .. MAXBITS
      /\ Pow2[MAXBITS - codelen] \in Nat /\ Pow2[MAXBITS - codelen] > 0
  <2>1. codelen \in 0 .. MAXBITS /\ MAXBITS - codelen \in 0 .. MAXBITS
    BY <1>2, <1>4
  <2> QED
    BY <2>1, Powers
<1>7. Kraft(length)[codelen] = (first + Count) * Pow2[MAXBITS - codelen]
  <2> DEFINE p == Pow2[MAXBITS - codelen]
  <2>1. Kraft(length)[codelen] = Kraft(length)[codelen - 1] + Count * p
    BY <1>2, <1>4, Krafts DEF Count
  <2>2. first * p = Kraft(length)[codelen - 1] /\ p \in Nat
    BY <1>5, <1>6
  <2> HIDE DEF p
  <2>3. first * p + Count * p = (first + Count) * p
    BY <1>2, <1>5, <2>2
  <2>4. Kraft(length)[codelen] = (first + Count) * p
    BY <2>1, <2>2, <2>3
  <2> QED
    BY <2>4 DEF p
<1>8. Reading'
  <2>1. /\ codelen \in 1 .. MAXBITS + 1 /\ unread \in 0 .. ByteSize
        /\ rest \in Nat /\ rest <= unread /\ rest <= MAXBITS + 1 - codelen /\ bitcnt \in Int
    BY <1>3 DEF Reading
  <2>2. rest = unread \/ rest = MAXBITS + 1 - codelen
    BY <1>3 DEF Reading
  <2> DEFINE e == ByteSize * incnt
  <2>3. unread = e - (start + codelen - 1) /\ e \in Nat
    BY <1>4 DEF unread
  <2>4. unread' = e - (start + (codelen + 1) - 1)
    BY <1>1 DEF unread
  <2> HIDE DEF e
  <2>5. unread' = unread - 1
    BY <1>2, <1>4, <2>3, <2>4
  <2>6. /\ codelen' \in 1 .. MAXBITS + 1 /\ unread' \in 0 .. ByteSize
        /\ rest' \in Nat /\ rest' <= unread' /\ rest' <= MAXBITS + 1 - codelen'
    BY <1>1, <1>2, <1>4, <2>1, <2>5
  <2>7. rest' = unread' \/ rest' = MAXBITS + 1 - codelen'
    BY <1>1, <1>2, <1>4, <2>1, <2>2, <2>5
  <2>8. buf' = SubSeq(in', start' + codelen', ByteSize * incnt')
    <3>1. start + (codelen + 1) = start + codelen + 1
      BY <1>2, <1>4
    <3> QED
      BY <1>1, <1>2, <3>1
  <2>9. \E i \in 0 .. incnt' : start' + bitcnt' = ByteSize * i
    BY <1>1, <1>3 DEF Reading
  <2> QED
    BY <1>1, <2>1, <2>6, <2>7, <2>8, <2>9 DEF Reading
<1>9. Matching'
  <2>1. /\ Value(start)' = Value(start) /\ Kraft(length)' = Kraft(length)
        /\ offs(length, codelen)' = offs(length, codelen + 1)
    BY <1>1, SameValue, SameTables DEF offs
  <2>2. codelen' - 1 = codelen
    BY <1>1, <1>2
  <2>3. code' = 2 * (Value(start)')[codelen' - 1]
    BY <1>1, <1>2, <2>1, <2>2
  <2>4. first' \in Nat /\ code' >= first'
    <3>1. first + Count <= NewCode
      BY <1>1, <1>2, <1>5
    <3> QED
      BY <1>1, <1>2, <1>5, <3>1
  <2>5. codelen' <= MAXBITS => first' * Pow2[MAXBITS - codelen'] = (Kraft(length)')[codelen' - 1]
    <3>1. SUFFICES ASSUME codelen' <= MAXBITS
                   PROVE  first' * Pow2[MAXBITS - codelen'] = (Kraft(length)')[codelen' - 1]
      OBVIOUS
    <3>2. /\ MAXBITS - codelen \in 1 .. MAXBITS /\ MAXBITS - codelen' = (MAXBITS - codelen) - 1
          /\ MAXBITS - codelen' \in 0 .. MAXBITS
      BY <1>1, <1>2, <1>4, <3>1
    <3> DEFINE p == Pow2[MAXBITS - codelen']
    <3>3. Pow2[MAXBITS - codelen] = 2 * p /\ p \in Nat
      BY <3>2, Powers
    <3>4. first' = 2 * (first + Count) /\ Kraft(length)[codelen] = (first + Count) * (2 * p)
      BY <1>1, <1>7, <3>3
    <3> HIDE DEF p
    <3>5. 2 * (first + Count) * p = (first + Count) * (2 * p)
      BY <1>2, <1>5, <3>3
    <3>6. first' * p = Kraft(length)[codelen]
      BY <3>4, <3>5
    <3> QED
      BY <2>1, <2>2, <3>6 DEF p
  <2>6. index' = offs(length, codelen)'
    <3>1. offs(length, codelen + 1) = offs(length, codelen) + Count
      BY <1>2, <1>4, Offsets DEF Count
    <3> QED
      BY <1>1, <1>5, <2>1, <3>1
  <2>7. ASSUME NEW l \in 1 .. codelen' - 1
        PROVE  (Value(start)')[l] * Pow2[MAXBITS - l] >= (Kraft(length)')[l]
    <3>1. CASE l = codelen
      <4> DEFINE p == Pow2[MAXBITS - codelen]
      <4>1. Kraft(length)[codelen] = (first + Count) * p /\ p \in Nat
        BY <1>6, <1>7
      <4> HIDE DEF p
      <4>2. first + Count <= NewCode /\ first + Count \in Nat
        BY <1>1, <1>2, <1>5
      <4>3. (first + Count) * p <= NewCode * p
        <5> DEFINE u == first + Count
                   w == NewCode
        <5>1. u \in Nat /\ w \in Nat /\ u <= w
          BY <1>2, <4>2
        <5> HIDE DEF u, w
        <5>2. (w - u) * p >= 0 /\ w * p = u * p + (w - u) * p
          BY <4>1, <5>1
        <5>3. u * p <= w * p
          BY <4>1, <5>1, <5>2
        <5> QED
          BY <5>3 DEF u, w
      <4>4. Value(start)[codelen] * p >= Kraft(length)[codelen]
        <5>1. (first + Count) * p \in Int /\ NewCode * p \in Int
          BY <1>2, <4>1, <4>2
        <5> QED
          BY <1>2, <4>1, <4>3, <5>1
      <4> QED
        BY <2>1, <3>1, <4>4 DEF p
    <3>2. CASE l # codelen
      <4>1. l \in 1 .. codelen - 1
        BY <1>2, <2>2, <2>7, <3>2
      <4> QED
        BY <1>5, <2>1, <4>1
    <3> QED
      BY <3>1, <3>2
  <2> QED
    BY <2>3, <2>4, <2>5, <2>6, <2>7 DEF Matching
<1>10. Stream' /\ Between'
  BY <1>1 DEF StreamInv, Stream, Between
<1>11. CompleteCodeDecodes' /\ DecodeStep /\ BitsStep
  BY <1>1, <1>3 DEF CompleteCodeDecodes, DecodeStep, BitsStep, RUNNING, BAD
<1> QED
  BY <1>1, <1>3, <1>8, <1>9, <1>10, <1>11 DEF StreamInv, Decoding

(* Going back by whole bytes leaves the same bits of a byte. *)
LEMMA SameBits ==
  ASSUME NEW u \in 0 .. ByteSize - 1, NEW d \in Nat, NEW x, x = u - ByteSize * d
  PROVE  x % ByteSize = u
<1>1. ByteSize \in {1, 2, 4, 8} /\ u \in Int
  BY HuffmanAssumption
<1>2. CASE ByteSize = 1
  BY <1>1, <1>2
<1>3. CASE ByteSize = 2
  BY <1>1, <1>3
<1>4. CASE ByteSize = 4
  BY <1>1, <1>4
<1>5. CASE ByteSize = 8
  BY <1>1, <1>5
<1> QED
  BY <1>1, <1>2, <1>3, <1>4, <1>5

(***************************************************************************)
(* ... returns the symbol when they are one of its codes, and leaves the   *)
(* rest of the last byte, ...                                              *)
(***************************************************************************)
LEMMA CodeRead ==
  ASSUME StreamInv, CodeFound
  PROVE  StreamInv' /\ DecodeStep /\ BitsStep
<1>1. /\ doing = "decode" /\ rest > 0 /\ NewCode - Count < first
      /\ bitbuf' = Tail(buf) /\ bitcnt' = (bitcnt - codelen) % ByteSize
      /\ answer' = symbol(length, index + NewCode - first) /\ doing' = "idle"
      /\ length' = length /\ in' = in /\ incnt' = incnt /\ start' = start
  BY DEF CodeFound, HasCode, NewBitcnt
<1>2. /\ codelen \in 1 .. MAXBITS /\ unread > 0
      /\ start + codelen \in 1 .. ByteSize * incnt /\ start + codelen <= Len(in)
      /\ Tail(buf) = SubSeq(in, start + codelen + 1, ByteSize * incnt)
      /\ NewCode = Value(start)[codelen] /\ NewCode \in Nat /\ NewCode >= first
      /\ Count \in Nat
  BY <1>1, NextBit
<1>3. Reading /\ Matching
  BY <1>1 DEF StreamInv, Decoding
<1>4. /\ ByteSize \in Nat /\ ByteSize > 0 /\ start \in Nat /\ MAXBITS \in Nat /\ incnt \in Nat
      /\ length \in Codes /\ ByteSize * incnt \in Nat
  BY HuffmanAssumption DEF StreamInv, Stream, MaxBitsAssumption
<1>5. /\ first \in Nat /\ index = offs(length, codelen)
      /\ first * Pow2[MAXBITS - codelen] = Kraft(length)[codelen - 1]
  BY <1>2, <1>3, <1>4 DEF Matching
<1> DEFINE r == NewCode - first
           s == symbol(length, offs(length, codelen) + r)
<1>6. r \in Nat /\ r < count(length)[codelen]
  <2>1. Count = count(length)[codelen]
    BY DEF Count
  <2>2. r \in Nat /\ r < Count
    BY <1>1, <1>2, <1>5
  <2> HIDE DEF r
  <2> QED
    BY <2>1, <2>2
<1>7. answer' = s
  <2>1. offs(length, codelen) \in Nat
    <3>1. codelen \in 1 .. MAXBITS + 1
      BY <1>2, <1>4
    <3> QED
      BY <1>4, <3>1, Offsets
  <2>2. index + NewCode - first = offs(length, codelen) + r
    BY <1>2, <1>5, <2>1
  <2> QED
    BY <1>1, <2>2
<1>8. s \in DOMAIN length /\ length[s] = codelen /\ Cardinality(Before(length, s)) = r
  <2> HIDE DEF r
  <2> QED
    BY <1>2, <1>4, <1>6, SymbolOf
<1>9. s \in Nat
  BY <1>4, <1>8 DEF Codes
<1>10. CodeAt(s, start)
  <2> HIDE DEF s
  <2>1. Rank(s) = r
    BY <1>8 DEF Rank, Before
  <2> DEFINE p == Pow2[MAXBITS - codelen]
  <2>2. p \in Nat
    <3>1. MAXBITS - codelen \in 0 .. MAXBITS
      BY <1>2, <1>4
    <3> QED
      BY <3>1, Powers
  <2>3. SpaceBefore(s) = Kraft(length)[codelen - 1] + r * p
    BY <1>8, <2>1 DEF SpaceBefore
  <2>4. first * p = Kraft(length)[codelen - 1]
    BY <1>5
  <2> HIDE DEF p
  <2>5. first * p + r * p = NewCode * p
    <3>1. first + r = NewCode
      BY <1>2, <1>5
    <3> HIDE DEF r
    <3>2. (first + r) * p = first * p + r * p
      BY <1>5, <1>6, <2>2
    <3> QED
      BY <3>1, <3>2
  <2>6. Value(start)[codelen] * p = SpaceBefore(s)
    BY <1>2, <2>3, <2>4, <2>5
  <2> QED
    BY <1>2, <1>8, <2>6 DEF CodeAt, p
<1>11. bitcnt' = unread - 1 /\ unread - 1 \in 0 .. ByteSize - 1
  <2>1. PICK i \in 0 .. incnt : start + bitcnt = ByteSize * i
    BY <1>3 DEF Reading
  <2> DEFINE e == ByteSize * incnt
             f == ByteSize * i
             d == incnt - i
  <2>2. d \in Nat /\ ByteSize * d = e - f /\ e \in Int /\ f \in Int
    BY <1>4, <2>1
  <2>3. unread = e - (start + codelen - 1) /\ unread \in 0 .. ByteSize /\ bitcnt \in Int
    BY <1>3 DEF unread, Reading
  <2>4. start + bitcnt = f
    BY <2>1
  <2>5. unread - 1 \in 0 .. ByteSize - 1
    BY <1>2, <1>4, <2>3
  <2>6. bitcnt - codelen = (unread - 1) - ByteSize * d
    <3> DEFINE g == ByteSize * d
    <3>1. g = e - f
      BY <2>2
    <3> HIDE DEF e, f, d, g
    <3>2. bitcnt - codelen = (unread - 1) - g
      BY <1>2, <1>4, <2>2, <2>3, <2>4, <3>1
    <3> QED
      BY <3>2 DEF g
  <2> HIDE DEF e, f, d
  <2>7. (bitcnt - codelen) % ByteSize = unread - 1
    BY <2>2, <2>5, <2>6, SameBits
  <2> QED
    BY <1>1, <2>5, <2>7
<1>12. position' = start + codelen
  <2> DEFINE e == ByteSize * incnt
  <2>1. position' = e - bitcnt' /\ unread = e - (start + codelen - 1) /\ e \in Nat
    BY <1>1, <1>4 DEF position, unread
  <2> HIDE DEF e
  <2>2. e - (unread - 1) = start + codelen
    BY <1>2, <1>4, <2>1
  <2> QED
    BY <1>11, <2>1, <2>2
<1> HIDE DEF r, s
<1>13. Between'
  <2>1. position' >= 0
    BY <1>2, <1>4, <1>12
  <2>2. bitbuf' = SubSeq(in', position' + 1, ByteSize * incnt')
    BY <1>1, <1>2, <1>12
  <2>3. bitcnt' \in 0 .. ByteSize - 1
    BY <1>11
  <2> QED
    BY <2>1, <2>2, <2>3 DEF Between
<1>14. Stream'
  BY <1>1 DEF StreamInv, Stream
<1>15. Decoding' /\ BitsStep
  BY <1>1 DEF Decoding, BitsStep
<1>16. answer' # BAD
  BY <1>7, <1>9 DEF BAD
<1>17. CompleteCodeDecodes'
  BY <1>16 DEF CompleteCodeDecodes
<1>18. DecodeStep
  <2>1. CodeAt(answer', start) /\ position' = start + length[answer']
    BY <1>7, <1>8, <1>10, <1>12
  <2> QED
    BY <1>16, <2>1 DEF DecodeStep
<1> QED
  BY <1>13, <1>14, <1>15, <1>17, <1>18 DEF StreamInv

(***************************************************************************)
(* ... and fails only where no symbol has its code: never with a complete  *)
(* code.                                                                   *)
(***************************************************************************)
LEMMA CodesRunOut ==
  ASSUME StreamInv, OutOfCodes
  PROVE  StreamInv' /\ DecodeStep /\ BitsStep
<1>1. /\ doing = "decode" /\ rest = 0 /\ codelen = MAXBITS + 1 /\ doing' = "end" /\ answer' = BAD
      /\ length' = length /\ in' = in /\ incnt' = incnt /\ start' = start
  BY DEF OutOfCodes, state, locals
<1>2. Reading /\ Matching
  BY <1>1 DEF StreamInv, Decoding
<1>3. /\ ByteSize \in Nat /\ start \in Nat /\ MAXBITS \in Nat /\ MAXBITS > 0 /\ incnt \in 0 .. Bytes
      /\ length \in Codes /\ in \in [1 .. ByteSize * Bytes -> {0, 1}]
  BY HuffmanAssumption DEF StreamInv, Stream, MaxBitsAssumption
<1> DEFINE N == ByteSize * Bytes
           e == ByteSize * incnt
<1>4. Len(in) = N /\ N \in Nat /\ e \in 0 .. N
  BY <1>3, Streams, BytesRead
<1>5. start + MAXBITS <= N /\ start \in 0 .. N
  <2>1. unread >= 0 /\ unread = e - (start + codelen - 1)
    BY <1>2, <1>3 DEF Reading, unread
  <2> HIDE DEF e, N
  <2> QED
    BY <1>1, <1>3, <1>4, <2>1
<1>6. \A l \in 1 .. MAXBITS : Value(start)[l] * Pow2[MAXBITS - l] >= Kraft(length)[l]
  <2>1. codelen - 1 = MAXBITS
    BY <1>1, <1>3
  <2> QED
    BY <1>2, <2>1 DEF Matching
<1>7. ASSUME NEW s \in DOMAIN length PROVE ~ CodeAt(s, start)
  <2>1. SUFFICES ASSUME CodeAt(s, start) PROVE FALSE
    OBVIOUS
  <2> DEFINE l == length[s]
             p == Pow2[MAXBITS - l]
  <2>2. l \in 1 .. MAXBITS /\ Value(start)[l] * p = SpaceBefore(s)
    <3>1. l \in 0 .. MAXBITS /\ l # 0
      BY <1>3, <2>1 DEF CodeAt, Codes
    <3> QED
      BY <1>3, <2>1, <3>1 DEF CodeAt
  <2>3. p \in Nat /\ p > 0
    <3>1. MAXBITS - l \in 0 .. MAXBITS
      <4> HIDE DEF l
      <4> QED
        BY <1>3, <2>2
    <3> QED
      BY <3>1, Powers
  <2>4. SpaceBefore(s) = Kraft(length)[l - 1] + Rank(s) * p
    BY DEF SpaceBefore
  <2>5. Rank(s) \in Nat /\ Rank(s) < count(length)[l]
    BY <1>3, Ranks DEF Rank, Before
  <2>6. /\ Kraft(length)[l] = Kraft(length)[l - 1] + count(length)[l] * p
        /\ Kraft(length)[l - 1] \in Nat /\ count(length)[l] \in Nat
    <3> HIDE DEF l
    <3>1. l - 1 \in 0 .. MAXBITS /\ l \in 0 .. MAXBITS
      BY <1>3, <2>2
    <3> QED
      BY <1>3, <2>2, <3>1, Krafts, CountType DEF p
  <2>7. Value(start)[l] * p >= Kraft(length)[l]
    BY <1>6, <2>2
  <2> DEFINE c == count(length)[l]
             q == Rank(s)
             k == Kraft(length)[l - 1]
  <2>8. k + q * p >= k + c * p /\ k \in Nat /\ q \in Nat /\ c \in Nat /\ q < c
    <3>1. Value(start)[l] * p = k + q * p /\ Kraft(length)[l] = k + c * p
      BY <2>2, <2>4, <2>6
    <3> QED
      BY <2>5, <2>6, <2>7, <3>1
  <2> HIDE DEF p, c, q, k
  <2> DEFINE d == c - q
             x == q * p
             y == c * p
             z == d * p
  <2>9. d \in Nat /\ d > 0
    BY <2>8
  <2>10. x \in Nat /\ y \in Nat /\ y = x + z
    BY <2>3, <2>8
  <2>11. z \in Nat /\ z > 0
    <3> HIDE DEF d
    <3> QED
      BY <2>3, <2>9
  <2>12. k + x >= k + y
    BY <2>8
  <2> HIDE DEF x, y, z
  <2> QED
    BY <2>8, <2>10, <2>11, <2>12
<1>8. ~ (construct(length) = 0 /\ ~ NoCodes(length))
  <2>1. SUFFICES ASSUME construct(length) = 0, ~ NoCodes(length) PROVE FALSE
    OBVIOUS
  <2>2. left(length)[MAXBITS] = 0
    <3> DEFINE over == {l \in 1 .. MAXBITS : left(length)[l] < 0}
    <3>1. construct(length) = IF over # {} THEN left(length)[Min(over)] ELSE left(length)[MAXBITS]
      BY <2>1 DEF construct
    <3>2. CASE over # {}
      <4>1. Min(over) \in over
        <5>1. over \subseteq 0 .. MAXBITS
          BY <1>3
        <5> HIDE DEF over
        <5>2. \E x \in over : \A y \in over : x <= y
          BY <1>3, <3>2, <5>1, LeastExists
        <5> QED
          BY <5>2 DEF Min
      <4>2. left(length)[Min(over)] < 0
        BY <4>1
      <4> QED
        BY <2>1, <3>1, <3>2, <4>2
    <3>3. CASE over = {}
      BY <2>1, <3>1, <3>3
    <3> QED
      BY <3>2, <3>3
  <2>3. left(length)[MAXBITS] + Kraft(length)[MAXBITS] = Pow2[MAXBITS]
    BY <1>3, LeftOver
  <2>4. Value(start)[MAXBITS] * 1 >= Kraft(length)[MAXBITS]
    <3>1. MAXBITS \in 1 .. MAXBITS /\ MAXBITS - MAXBITS = 0
      BY <1>3
    <3>2. Value(start)[MAXBITS] * Pow2[0] >= Kraft(length)[MAXBITS]
      BY <1>6, <3>1
    <3> QED
      BY <3>2, Powers
  <2>5. Value(start)[MAXBITS] < Pow2[MAXBITS]
    <3> HIDE DEF N
    <3>1. in \in [1 .. N -> {0, 1}]
      BY <1>3 DEF N
    <3> QED
      BY <1>4, <1>5, <3>1, ValueBounds
  <2>6. Value(start)[MAXBITS] \in Nat /\ Kraft(length)[MAXBITS] \in Nat
    <3> HIDE DEF N
    <3>1. in \in [1 .. N -> {0, 1}] /\ MAXBITS \in 0 .. N - start /\ MAXBITS \in 0 .. MAXBITS
      BY <1>3, <1>4, <1>5 DEF N
    <3> QED
      BY <1>3, <1>4, <1>5, <3>1, Values, Krafts
  <2> QED
    BY <2>2, <2>3, <2>4, <2>5, <2>6
<1>9. Stream' /\ Between' /\ Decoding' /\ BitsStep
  BY <1>1 DEF StreamInv, Stream, Between, Decoding, BitsStep
<1>10. CompleteCodeDecodes'
  <2>1. construct(length)' = construct(length) /\ NoCodes(length)' = NoCodes(length)
    BY <1>1, SameTables
  <2> QED
    BY <1>8, <2>1 DEF CompleteCodeDecodes
<1>11. DecodeStep
  BY <1>1, <1>7 DEF DecodeStep
<1> QED
  BY <1>9, <1>10, <1>11 DEF StreamInv

(***************************************************************************)
(* decode() returns the symbol whose canonical code is in the stream where *)
(* it started and takes just the bits of that code, and fails only where   *)
(* there is none, never with a complete code; bits() returns the next bits *)
(* of the stream; and the bit buffer stays in step with it.  So it is for  *)
(* every code, every stream, and every order of the calls.                 *)
(***************************************************************************)
THEOREM DecodesCode ==
  BitsSpec => DecodesCanonicalCode
<1>1. BitsInit => StreamInv
  BY StreamInit
<1>2. StreamInv /\ [BitsNext]_bitsVars => StreamInv' /\ [DecodeStep /\ BitsStep]_bitsVars
  <2> SUFFICES ASSUME StreamInv, [BitsNext]_bitsVars
               PROVE  StreamInv' /\ [DecodeStep /\ BitsStep]_bitsVars
    OBVIOUS
  <2>1. ASSUME NEW need \in Needs, Bits(need) PROVE StreamInv' /\ DecodeStep /\ BitsStep
    <3>1. doing = "idle"
      BY <2>1 DEF Bits
    <3> QED
      BY <2>1, <3>1, BitsTakes DEF DecodeStep
  <2>2. CASE Decode
    <3>1. StreamInv' /\ doing = "idle" /\ doing' = "decode"
      BY <2>2, DecodeStarts DEF Decode
    <3> QED
      BY <3>1 DEF DecodeStep, BitsStep
  <2>3. CASE CodeFound
    BY <2>3, CodeRead
  <2>4. CASE LongerCode
    BY <2>4, LongerRead
  <2>5. CASE NextByte
    BY <2>5, ByteRead
  <2>6. CASE OutOfCodes
    BY <2>6, CodesRunOut
  <2>7. CASE UNCHANGED bitsVars
    BY <2>7, StreamStutters
  <2> QED
    BY <2>1, <2>2, <2>3, <2>4, <2>5, <2>6, <2>7 DEF BitsNext, NothingLeft
<1>3. StreamInv /\ StreamInv' /\ [DecodeStep /\ BitsStep]_bitsVars
        => [DecodeStep /\ BitsStep /\ BufferInStep' /\ CompleteCodeDecodes']_bitsVars
  <2>1. StreamInv' => BufferInStep' /\ CompleteCodeDecodes'
    <3>1. ASSUME StreamInv' PROVE BufferInStep'
      <4>1. ByteSize \in Nat
        BY HuffmanAssumption
      <4> QED
        BY <3>1, <4>1 DEF StreamInv, Between, BufferInStep
    <3> QED
      BY <3>1 DEF StreamInv
  <2> QED
    BY <2>1
<1>4. StreamInv /\ [BitsNext]_bitsVars
        => [DecodeStep /\ BitsStep /\ BufferInStep' /\ CompleteCodeDecodes']_bitsVars
  BY <1>2, <1>3
<1> QED
  BY <1>1, <1>2, <1>4, PTL DEF BitsSpec, DecodesCanonicalCode
=============================================================================
