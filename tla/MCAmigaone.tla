---------------------------- MODULE MCAmigaone ----------------------------
(***************************************************************************)
(* What bboot does to an AmigaOne before AmigaOS runs: the search for the  *)
(* size of memory (MemProbe) and the addresses of the PCI devices          *)
(* (PciSetup).  They have nothing in common, so one of them runs at a      *)
(* time, chosen at the start.                                              *)
(***************************************************************************)
EXTENDS MCPciSetup

VARIABLES
    unit,                                           \* "memory" or "pci"
    board, probing, start, size, found, bi_memsize  \* MemProbe's

probeVars == <<board, probing, start, size, found, bi_memsize>>
amigaoneVars == <<unit, vars, probeVars>>

(* One or two DIMMs, each a power of two from 16 MiB to 2 GiB. *)
Powers == {16 * MB * 2^k : k \in 0 .. 7}
TwoPowers == Powers \cup {a + b : a, b \in {p \in Powers : p < 2048 * MB}}
TwoDimms == [mem : TwoPowers, initram : BOOLEAN, g5 : BOOLEAN]

Probe == INSTANCE MemProbe WITH Machine <- TwoDimms, hw <- board, pc <- probing, i <- size

ASSUME MachinesAssumption == Probe!ProbeAssumption
-----------------------------------------------------------------------------
(* What a unit that is not running has in its variables. *)
NoPci == /\ hw = << >> /\ pc = "done" /\ at = <<0, 0>> /\ i = 0 /\ cmd = {}
         /\ command = << >> /\ line = << >> /\ bar = << >>
         /\ ioavail = IoStart /\ memavail = membase
NoProbe == /\ board = [mem |-> 16 * MB, initram |-> FALSE, g5 |-> FALSE] /\ probing = "probe"
           /\ start = 0 /\ size = 0 /\ found = 0 /\ bi_memsize = 0

AmigaoneInit == \/ unit = "memory" /\ Probe!Init /\ NoPci
                \/ unit = "pci" /\ Init /\ NoProbe

MemoryStep == unit = "memory" /\ Probe!Next /\ UNCHANGED <<unit, vars>>
PciStep == unit = "pci" /\ Next /\ UNCHANGED <<unit, probeVars>>

AmigaoneNext == MemoryStep \/ PciStep

(* bboot is all that runs on the machine. *)
AmigaoneSpec == /\ AmigaoneInit /\ [][AmigaoneNext]_amigaoneVars
                /\ WF_amigaoneVars(MemoryStep) /\ WF_amigaoneVars(PciStep)
-----------------------------------------------------------------------------
(* find_memory_size() finds the size of memory, init RAM or not; on the G5 *)
(* the size passed on is not above it nor below what the kernel can use.   *)
SizeIsRight == Probe!SizeIsRight

(* With one or two DIMMs the search for memory ends, and so does the scan  *)
(* of the bus.                                                             *)
SetupEnds == /\ unit = "memory" => Probe!ProbeEnds
             /\ ScanEnds
=============================================================================
