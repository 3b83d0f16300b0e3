----------------------------- MODULE MCMemProbe -----------------------------
(* Memories for MemProbe, in steps of 16 MiB up to 2 GiB. *)
EXTENDS MemProbe

Sizes == {16 * MiB * n : n \in 1 .. 128}

AllSizes == [mem : Sizes, initram : BOOLEAN, g5 : {FALSE}]

\* the G5 build, with 512 MiB to 2 GiB
G5Machines == [mem : {512 * MiB * 2^n : n \in 0 .. 2}, initram : {FALSE}, g5 : {TRUE}]
=============================================================================
