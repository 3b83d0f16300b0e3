------------------------------- MODULE Memory -------------------------------
(***************************************************************************)
(* The 32-bit address arithmetic that every part of bboot is written in:   *)
(* unsigned long is one machine word, sums wrap around, and ROUND_UP and   *)
(* ROUND_DOWN are the macros of include/bboot.h.  Word is 2^32 on the real *)
(* machines; the models scale it down, or count in larger units than the   *)
(* byte, so that it fits TLC's integers.                                   *)
(***************************************************************************)
EXTENDS Integers

CONSTANT Word        \* number of values of an unsigned long

ASSUME WordAssumption == Word \in Nat /\ Word > 0

NULL == 0

(* Unsigned addition. *)
Add(a, b) == (a + b) % Word

(***************************************************************************)
(* n & -d clears the bits of n below the power of two d.                   *)
(***************************************************************************)
ROUND_DOWN(n, d) == n - (n % d)

(* A rounding that forgets the "- 1" and so moves aligned values up. *)
ROUND_UP_bug(n, d) == ROUND_DOWN(Add(n, d), d)

ROUND_UP(n, d) == ROUND_DOWN(Add(n, d - 1), d)

(***************************************************************************)
(* A region of memory is a record with its lowest address and its length.  *)
(***************************************************************************)
Region(lo, len) == [lo |-> lo, len |-> len]

End(r) == r.lo + r.len

Overlap(r, s) == /\ r.len > 0 /\ s.len > 0
                 /\ r.lo < End(s) /\ s.lo < End(r)

Within(r, s) == s.lo <= r.lo /\ End(r) <= End(s)
=============================================================================
