----------------------------- MODULE MCSam460 -----------------------------
(***************************************************************************)
(* What bboot does to a Sam460ex before AmigaOS runs: the reading of the   *)
(* flattened device tree (Fdt), the TLB with the PCI windows (SamMap), the *)
(* interrupt controllers with the timer (SamInterrupts) and the addresses  *)
(* of the PCI devices (PciSetup).  Each only uses what the others have     *)
(* left when they are through, so one of them runs at a time, chosen at    *)
(* the start.                                                              *)
(***************************************************************************)
EXTENDS MCPciSetup, Fdt, SamMap, SamInterrupts

VARIABLE unit       \* "tree", "map", "irq" or "pci"

samVars == <<unit, vars, fdtVars, mapVars, irqVars>>

(* Memories from 64 MiB to 2 GiB, in KiB. *)
Sizes == {2^k : k \in 16 .. 21}

(* Lines of three controllers, one of them active low. *)
SomeLines == {<<0, "high">>, <<1, "low">>, <<3, "high">>}
-----------------------------------------------------------------------------
(* What a unit that is not running has in its variables: a bus without     *)
(* devices, a tree that nobody has looked at, registers that stay.         *)
NoPci == /\ hw = << >> /\ pc = "done" /\ at = <<0, 0>> /\ i = 0 /\ cmd = {}
         /\ command = << >> /\ line = << >> /\ bar = << >>
         /\ ioavail = IoStart /\ memavail = membase
NoTree == FdtInit
NoMap == MapInit /\ pcix[<<"POM", 0, "SA">>] = Off /\ pcix[<<"POM", 0, "LAL">>] = 0
NoIrq == /\ pos = 1 /\ asserted = {} /\ sr = {} /\ er = {} /\ pr = {}
         /\ dec = 0 /\ decar = 0 /\ die = FALSE /\ are = FALSE /\ tsr = "clear" /\ loaded = FALSE

SamInit == \/ unit = "tree" /\ FdtInit /\ NoMap /\ NoIrq /\ NoPci
           \/ unit = "map" /\ MapInit /\ NoTree /\ NoIrq /\ NoPci
           \/ unit = "irq" /\ IrqInit /\ NoTree /\ NoMap /\ NoPci
           \/ unit = "pci" /\ Init /\ NoTree /\ NoMap /\ NoIrq

TreeStep == unit = "tree" /\ FdtNext /\ UNCHANGED <<unit, vars, mapVars, irqVars>>
MapStep == unit = "map" /\ MapNext /\ UNCHANGED <<unit, vars, fdtVars, irqVars>>
IrqStep(A) == unit = "irq" /\ A /\ UNCHANGED <<unit, vars, fdtVars, mapVars>>
PciStep == unit = "pci" /\ Next /\ UNCHANGED <<unit, fdtVars, mapVars, irqVars>>

SamNext == TreeStep \/ MapStep \/ IrqStep(IrqNext) \/ PciStep

(* The program goes on, and the interrupt hardware works. *)
SamSpec == /\ SamInit /\ [][SamNext]_samVars
           /\ WF_samVars(PciStep)
           /\ WF_samVars(IrqStep(Write)) /\ WF_samVars(IrqStep(Count))
           /\ WF_samVars(IrqStep(Acknowledge))
           /\ \A l \in SomeLines : WF_samVars(IrqStep(Latch(l)))
-----------------------------------------------------------------------------
(* Every line that a device asserts becomes pending in its controller, and *)
(* the timer that setup_timer() leaves to AmigaOS ticks.                   *)
InterruptsAndTimer == InterruptsRegister /\ (unit = "irq" => TimerTicks)
=============================================================================
