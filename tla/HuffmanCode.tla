---------------------------- MODULE HuffmanCode ----------------------------
(***************************************************************************)
(* construct() of zip/puff.c: the tables of a canonical Huffman code. A    *)
(* code is the function from its symbols to the lengths of their codes, 0  *)
(* for a symbol without one.                                               *)
(***************************************************************************)
EXTENDS Integers, FiniteSets, FiniteSetsExt

CONSTANT MAXBITS     \* longest code (15)

MaxBitsAssumption == MAXBITS \in Nat \ {0}

(* How many symbols have each length, ... *)
count(length) ==
    [l \in 0 .. MAXBITS |-> Cardinality({s \in DOMAIN length : length[s] = l})]

(* ... how many codes of each length are left over, ... *)
left(length) ==
    LET c == count(length)
        f[l \in 0 .. MAXBITS] == IF l = 0 THEN 1 ELSE 2 * f[l - 1] - c[l]
    IN  f

(* ... what construct() returns: 0 without a code at all, the first        *)
(* negative remainder of an over-full code, or what is left in the end.    *)
NoCodes(length) == \A s \in DOMAIN length : length[s] = 0

construct(length) ==
    LET over == {l \in 1 .. MAXBITS : left(length)[l] < 0}
    IN  CASE NoCodes(length) -> 0
          [] over # {} -> left(length)[Min(over)]
          [] OTHER -> left(length)[MAXBITS]

(* ... and the symbols sorted by their length, in order within a length;   *)
(* offs is where the symbols of a length start.                            *)
offs(length, l) == Cardinality({s \in DOMAIN length : length[s] \in 1 .. l - 1})

Place_unsorted(length, s) == Cardinality({t \in DOMAIN length : t < s /\ length[t] # 0})

Place(length, s) ==
    offs(length, length[s]) + Cardinality({t \in DOMAIN length : t < s /\ length[t] = length[s]})

symbol(length, k) == CHOOSE s \in DOMAIN length : length[s] # 0 /\ Place(length, s) = k
=============================================================================
