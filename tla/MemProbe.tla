------------------------------ MODULE MemProbe ------------------------------
(***************************************************************************)
(* How the AmigaOne learns the size of its memory (brd_amigaone.c): it     *)
(* writes a word and looks whether it stays, at addresses that halve from  *)
(* 2 GiB down, and calls itself for what may be above the size it found.   *)
(* There is no firmware to ask.                                            *)
(*                                                                         *)
(* Addresses count in words of four bytes, as in PciSetup.  The recursion  *)
(* only adds what the inner call returns, so the frames on the stack are   *)
(* kept as the sum of what they found.                                     *)
(***************************************************************************)
EXTENDS Memory

CONSTANT Machine     \* machines to probe: records [mem, initram, g5]

MiB == 2^18
TOP == 2048 * MiB            \* 0x80000000
KB32 == 2^13                 \* 32 * 1024 bytes
ONEGB == 1024 * MiB

ProbeAssumption ==
    /\ Machine \subseteq [mem : 1 .. TOP, initram : BOOLEAN, g5 : BOOLEAN]
    /\ TOP + TOP <= Word

VARIABLES
    hw,          \* the machine; g5 when bboot is built with TARGET_G5
    pc,          \* "probe" (the loop), "more" (the check behind it), "ret", "done"
    start, i,    \* find_memory_size()'s argument and variable
    found,       \* what the calls it is nested in have found
    bi_memsize   \* the size passed to AmigaOS

vars == <<hw, pc, start, i, found, bi_memsize>>

(* A word that is there reads back as written.  Some machines have 32 KiB  *)
(* of init RAM at 1 GiB.                                                   *)
ReadsBack(p) == \/ p < hw.mem
                \/ hw.initram /\ ONEGB <= p /\ p < ONEGB + KB32

FirstSize(s) == IF s # 0 THEN s ELSE TOP

Init == /\ hw \in Machine
        /\ pc = "probe" /\ start = 0 /\ i = FirstSize(0) /\ found = 0
        /\ bi_memsize = 0

(* The loop ends at a word that is there, or with nothing left to halve. *)
ProbeHit ==
    /\ pc = "probe"
    /\ i > 1 => ReadsBack(Add(start, i - 1))
    /\ pc' = "more"
    /\ UNCHANGED <<hw, start, i, found, bi_memsize>>

ProbeMiss ==
    /\ pc = "probe" /\ i > 1
    /\ ~ ReadsBack(Add(start, i - 1))
    /\ i' = i \div 2
    /\ UNCHANGED <<hw, pc, start, found, bi_memsize>>

(* A check that looks right behind what was found. *)
IsMore_near == Add(start, i) < TOP /\ ReadsBack(Add(start, i))

(* The word 32 KiB above what was found, which no init RAM reaches. *)
IsMore == /\ Add(start, i + KB32) < TOP
          /\ ReadsBack(Add(start, i + KB32))

(* A call that starts the search again. *)
LookFurther_again ==
    /\ pc = "more" /\ IsMore
    /\ found' = Add(found, i)
    /\ start' = 0 /\ i' = FirstSize(0)
    /\ pc' = "probe"
    /\ UNCHANGED <<hw, bi_memsize>>

(* i += find_memory_size(i) *)
LookFurther ==
    /\ pc = "more" /\ IsMore
    /\ found' = Add(found, i)
    /\ start' = i /\ i' = FirstSize(i)
    /\ pc' = "probe"
    /\ UNCHANGED <<hw, bi_memsize>>

NoMore ==
    /\ pc = "more" /\ ~ IsMore
    /\ pc' = "ret"
    /\ UNCHANGED <<hw, start, i, found, bi_memsize>>

(* amigaone_init() stores the size, on the G5 at most 0x40000000. *)
InfoSet ==
    /\ pc = "ret"
    /\ LET size == Add(found, i)
       IN  bi_memsize' = IF hw.g5 /\ size > ONEGB THEN ONEGB ELSE size
    /\ pc' = "done"
    /\ UNCHANGED <<hw, start, i, found>>

Done == pc = "done" /\ UNCHANGED vars

Next == \/ ProbeHit \/ ProbeMiss
        \/ LookFurther \/ NoMore \/ InfoSet \/ Done

(***************************************************************************)
(* bboot is all that runs on the machine, so it goes on while it can.      *)
(***************************************************************************)
Spec == Init /\ [][Next]_vars /\ WF_vars(Next)
-----------------------------------------------------------------------------
(* What the kernel of the G5 can use (its HTAB is at 0x16800000). *)
G5_USABLE == 360 * MiB

(***************************************************************************)
(* The size passed on is the size of memory, whether or not there is init  *)
(* RAM above it.  On the G5, where it is capped, it is not more than there *)
(* is, and not less of it than the kernel can use.                         *)
(***************************************************************************)
SizeIsRight ==
    pc = "done" =>
        IF hw.g5 THEN bi_memsize <= hw.mem /\ (bi_memsize >= hw.mem \/ bi_memsize >= G5_USABLE)
        ELSE bi_memsize = hw.mem

(***************************************************************************)
(* "Cap the RAM reported to the loader/kernel to 360 MiB so the allocator  *)
(* never walks past usable RAM or into the HTAB" (the G5 build).           *)
(***************************************************************************)
G5Capped == pc = "done" /\ hw.g5 => bi_memsize <= G5_USABLE

(* find_memory_size() returns, however deep it had to look. *)
ProbeEnds == <>(pc = "done")
=============================================================================
