----------------------------- MODULE StartProofs -----------------------------
(***************************************************************************)
(* Proofs about what start() runs through: itself, for every firmware,     *)
(* device tree and way of being started (Boot); and what sam460_init() and *)
(* setup_pom() leave behind, the TLB and the PCI windows (SamMap), the     *)
(* interrupt controllers with the decrementer (SamInterrupts), and the     *)
(* device tree reader it asks first (Fdt), for every tree.                 *)
(***************************************************************************)
EXTENDS Boot, SamMap, SamInterrupts, Fdt, FiniteSetTheorems, TLAPS

(* The steps with a board that was recognised. *)
Recognised == {"cfg", "console", "setup", "initrd", "zip", "args", "exec", "running", "failed"}
(* The steps with an archive. *)
Booting == {"zip", "args", "exec", "running"}

(* Start and length of the archive are unsigned numbers. *)
TypeOK ==
    /\ pc \in {"start", "model", "error", "exited", "returned"} \cup Recognised
    /\ regs \in Entries /\ fw \in Firmwares /\ fdt \in Fdts
    /\ of \in BOOLEAN /\ prom \in BOOLEAN /\ setups \in {0, 1}
    /\ initrd \in [addr : Addresses, len : Addresses]

(***************************************************************************)
(* Which board it is: the firmware can be called where it is Open          *)
(* Firmware, and without it the addresses of the archive are those of the  *)
(* Sam460ex' device tree or there are none.                                *)
(***************************************************************************)
BoardInv ==
    /\ of => prom
    /\ pc = "start" => ~ of
    /\ pc = "model" => of
    /\ pc \in Recognised => brd.name # "none"
    /\ pc \in Recognised /\ ~ of =>
         \/ brd.name = "sam460" /\ brd.start = fdt.start /\ brd.end = fdt.end
         \/ brd.name # "sam460" /\ brd.start = 0

(* What has been done on the way to the loader. *)
ReadyInv ==
    /\ pc \in {"start", "model", "cfg", "console", "setup"} => setups = 0
    /\ pc \in {"initrd"} \cup Booting => "b" \in cfg /\ setups = IF "p" \in cfg THEN 1 ELSE 0
    /\ pc \in {"args", "exec", "running"} => kicklist
    /\ args.read = args.len

IInv == TypeOK /\ BoardInv /\ ReadyInv /\ InitrdFromOneSource
-----------------------------------------------------------------------------
(* The program's numbers do not get out of their width. *)
LEMMA UnsignedType == \A x \in Int : Unsigned(x) \in Addresses
<1>1. AddressSpace \in Nat \ {0}
  BY BootAssumption
<1> QED
  BY <1>1 DEF Unsigned, Addresses

LEMMA UnsignedSame == \A x \in Addresses : Unsigned(x) = x
<1>1. AddressSpace \in Nat \ {0}
  BY BootAssumption
<1> QED
  BY <1>1 DEF Unsigned, Addresses

(* A length that is a difference in unsigned numbers leads to the end. *)
LEMMA UnsignedEnd ==
  ASSUME NEW a \in Addresses, NEW b \in Addresses
  PROVE  Unsigned(a + Unsigned(b - a)) = b
<1>1. AddressSpace \in Nat \ {0}
  BY BootAssumption
<1>2. a \in Int /\ b \in Int /\ 0 <= a /\ a < AddressSpace /\ 0 <= b /\ b < AddressSpace
  BY <1>1 DEF Addresses
<1>3. CASE b >= a
  <2>1. b - a \in Addresses
    BY <1>1, <1>2, <1>3 DEF Addresses
  <2>2. Unsigned(b - a) = b - a
    BY <2>1, UnsignedSame
  <2>3. a + (b - a) = b
    BY <1>2
  <2> QED
    BY <2>2, <2>3, UnsignedSame
<1>4. CASE b < a
  <2>1. (b - a) % AddressSpace = (b - a) + AddressSpace
    BY <1>1, <1>2, <1>4
  <2>2. (b + AddressSpace) % AddressSpace = b
    BY <1>1, <1>2
  <2>3. a + ((b - a) + AddressSpace) = b + AddressSpace
    BY <1>1, <1>2
  <2> QED
    BY <2>1, <2>2, <2>3 DEF Unsigned
<1> QED
  BY <1>2, <1>3, <1>4

LEMMA InputTypes ==
  ASSUME TypeOK
  PROVE  /\ regs.r3 \in Addresses /\ regs.r4 \in Addresses /\ regs.r5 \in Addresses
         /\ fw.start \in Addresses /\ fw.end \in Addresses
         /\ fdt.start \in Addresses /\ fdt.end \in Addresses
         /\ DefaultInitrd \in Addresses \ {0} /\ 0 \in Addresses
<1>1. /\ regs.r3 \in Addresses /\ regs.r4 \in Addresses /\ regs.r5 \in Addresses
  BY BootAssumption DEF TypeOK
<1>2. /\ fw.start \in Addresses /\ fw.end \in Addresses
      /\ fdt.start \in Addresses /\ fdt.end \in Addresses
  BY BootAssumption DEF TypeOK
<1>3. 0 \in Addresses
  BY BootAssumption DEF Addresses
<1> QED
  BY <1>1, <1>2, <1>3, BootAssumption
-----------------------------------------------------------------------------
(* A place that has one source, in the sense of InitrdFromOneSource. *)
OneSource(r) == r.len # 0 => <<r.addr, Unsigned(r.addr + r.len)>> \in Told

LEMMA RegionSource ==
  ASSUME NEW a \in Addresses, NEW b \in Addresses
  PROVE  /\ InitrdArea(a, b) \in [addr : Addresses, len : Addresses]
         /\ InitrdArea(a, b).addr = a
         /\ InitrdArea(a, b).len # 0 => Unsigned(a + InitrdArea(a, b).len) = b
<1>0. AddressSpace \in Nat \ {0}
  BY BootAssumption
<1>1. a \in Int /\ b \in Int /\ 0 <= a /\ a < AddressSpace /\ 0 <= b /\ b < AddressSpace
  BY <1>0 DEF Addresses
<1>2. InitrdArea(a, b).addr = a /\ InitrdArea(a, b).len = IF b > a THEN b - a ELSE 0
  BY DEF InitrdArea
<1>3. (IF b > a THEN b - a ELSE 0) \in Addresses
  BY <1>0, <1>1 DEF Addresses
<1>4. InitrdArea(a, b) \in [addr : Addresses, len : Addresses]
  BY <1>3 DEF InitrdArea
<1>5. InitrdArea(a, b).len # 0 => a + InitrdArea(a, b).len = b
  BY <1>1, <1>2
<1>6. Unsigned(b) = b
  BY UnsignedSame
<1> QED
  BY <1>2, <1>4, <1>5, <1>6

(***************************************************************************)
(* Whichever way the program was started, what its loader says about the   *)
(* archive has one source.                                                 *)
(***************************************************************************)
LEMMA LoaderSource ==
  ASSUME TypeOK, BoardInv, pc \in Recognised
  PROVE  FromLoader \in [addr : Addresses, len : Addresses] /\ OneSource(FromLoader)
<1>t. /\ regs.r3 \in Addresses /\ regs.r4 \in Addresses /\ regs.r5 \in Addresses
      /\ fw.start \in Addresses /\ fw.end \in Addresses
      /\ fdt.start \in Addresses /\ fdt.end \in Addresses /\ 0 \in Addresses
  BY InputTypes
<1>1. CASE of /\ regs.r3 # 0
  <2>1. FromLoader = [addr |-> regs.r3, len |-> regs.r4]
    BY <1>1 DEF FromLoader
  <2>2. Told = {<<regs.r3, Unsigned(regs.r3 + regs.r4)>>, <<fw.start, fw.end>>}
    BY <1>1 DEF Told
  <2> QED
    BY <2>1, <2>2, <1>t DEF OneSource
<1>2. CASE of /\ regs.r3 = 0
  <2>1. FromLoader = Chosen
    BY <1>2 DEF FromLoader
  <2>2. Chosen = [addr |-> fw.start, len |-> IF fw.end # 0 THEN Unsigned(fw.end - fw.start) ELSE 0]
    BY <1>2 DEF Chosen, prom_get_chosen, BoardInv
  <2>3. Unsigned(fw.end - fw.start) \in Addresses
    <3>1. fw.end - fw.start \in Int
      BY <1>t, BootAssumption DEF Addresses
    <3> QED
      BY <3>1, UnsignedType
  <2>4. Unsigned(fw.start + Unsigned(fw.end - fw.start)) = fw.end
    BY <1>t, UnsignedEnd
  <2>5. Told = {<<regs.r3, Unsigned(regs.r3 + regs.r4)>>, <<fw.start, fw.end>>}
    BY <1>2 DEF Told
  <2>6. FromLoader \in [addr : Addresses, len : Addresses]
    BY <2>1, <2>2, <2>3, <1>t
  <2>7. FromLoader.len # 0 => <<FromLoader.addr, Unsigned(FromLoader.addr + FromLoader.len)>> = <<fw.start, fw.end>>
    BY <2>1, <2>2, <2>4
  <2> QED
    BY <2>5, <2>6, <2>7 DEF OneSource
<1>3. CASE ~ of /\ brd.start # 0
  <2>1. FromLoader = InitrdArea(fdt.start, fdt.end)
    BY <1>3 DEF FromLoader, BoardInv
  <2>2. <<fdt.start, fdt.end>> \in Told
    BY <1>3 DEF Told, BoardInv
  <2> QED
    BY <2>1, <2>2, <1>t, RegionSource DEF OneSource
<1>4. CASE ~ of /\ brd.start = 0 /\ regs.r4 # 0
  <2>1. FromLoader = InitrdArea(regs.r4, regs.r5)
    BY <1>4 DEF FromLoader
  <2>2. <<regs.r4, regs.r5>> \in Told
    BY <1>4 DEF Told
  <2> QED
    BY <2>1, <2>2, <1>t, RegionSource DEF OneSource
<1>5. CASE ~ of /\ brd.start = 0 /\ regs.r4 = 0
  <2>1. FromLoader = [addr |-> 0, len |-> 0]
    BY <1>5 DEF FromLoader
  <2> QED
    BY <2>1, <1>t DEF OneSource
<1> QED
  BY <1>1, <1>2, <1>3, <1>4, <1>5

LEMMA InitrdSource ==
  ASSUME TypeOK, BoardInv, pc \in Recognised
  PROVE  Initrd \in [addr : Addresses, len : Addresses] /\ Initrd.addr # 0 /\ OneSource(Initrd)
<1>1. FromLoader \in [addr : Addresses, len : Addresses] /\ OneSource(FromLoader)
  BY LoaderSource
<1>2. DefaultInitrd \in Addresses \ {0} /\ 0 \in Addresses
  BY InputTypes
<1> QED
  BY <1>1, <1>2 DEF Initrd, OneSource
-----------------------------------------------------------------------------
LEMMA InductiveInit == Init => IInv
<1> SUFFICES ASSUME Init PROVE IInv
  OBVIOUS
<1>1. 0 \in Addresses
  BY BootAssumption DEF Addresses
<1>2. TypeOK
  BY <1>1 DEF Init, TypeOK
<1>3. BoardInv /\ ReadyInv /\ InitrdFromOneSource
  BY DEF Init, BoardInv, ReadyInv, InitrdFromOneSource, Recognised, Booting, NoArgs
<1> QED
  BY <1>2, <1>3 DEF IInv

(* Steps that leave the archive alone. *)
LEMMA SameInitrd ==
  ASSUME InitrdFromOneSource, UNCHANGED <<regs, fw, fdt, of, brd, initrd>>,
         pc' \in Booting => pc \in Booting
  PROVE  InitrdFromOneSource'
BY DEF InitrdFromOneSource, Told, Booting

(* The first steps: which board this is. *)
LEMMA BoardStep == IInv /\ (StartSam460 \/ StartAmigaOne \/ StartOF \/ CheckModel) => IInv'
<1> SUFFICES ASSUME IInv, StartSam460 \/ StartAmigaOne \/ StartOF \/ CheckModel PROVE IInv'
  OBVIOUS
<1> USE DEF Recognised, Booting
<1>1. UNCHANGED <<regs, fw, fdt, cfg, drivers, setups, initrd, kicklist, avail, args>>
  BY DEF StartSam460, StartAmigaOne, StartOF, CheckModel, inputs, later
<1>2. CASE StartSam460
  <2>1. /\ pc = "start" /\ pc' = "cfg" /\ UNCHANGED <<of, prom>>
        /\ brd'.name = "sam460" /\ brd'.start = fdt.start /\ brd'.end = fdt.end
    BY <1>2 DEF StartSam460, Goto
  <2> QED
    BY <2>1, <1>1 DEF IInv, TypeOK, BoardInv, ReadyInv, InitrdFromOneSource
<1>3. CASE StartAmigaOne
  <2>1. /\ pc = "start" /\ pc' = "cfg" /\ UNCHANGED <<of, prom>>
        /\ brd'.name = "amigaone" /\ brd'.start = 0
    BY <1>3 DEF StartAmigaOne, Goto, NoBoard
  <2> QED
    BY <2>1, <1>1 DEF IInv, TypeOK, BoardInv, ReadyInv, InitrdFromOneSource
<1>4. CASE StartOF
  <2>1. pc = "start" /\ pc' \in {"model", "exited"} /\ of' = TRUE /\ prom' = TRUE
    BY <1>4 DEF StartOF, Goto
  <2> QED
    BY <2>1, <1>1 DEF IInv, TypeOK, BoardInv, ReadyInv, InitrdFromOneSource
<1>5. CASE CheckModel
  <2>1. /\ pc = "model" /\ UNCHANGED <<of, prom>>
        /\ pc' = "error" \/ (pc' = "cfg" /\ brd'.name = "pegasos2")
    BY <1>5 DEF CheckModel, Goto, NoBoard
  <2> QED
    BY <2>1, <1>1 DEF IInv, TypeOK, BoardInv, ReadyInv, InitrdFromOneSource
<1> QED
  BY <1>2, <1>3, <1>4, <1>5

(* The configuration, the console and the PCI setup. *)
LEMMA ConfigStep == IInv /\ (cfg_init \/ AddDrivers \/ Setup) => IInv'
<1> SUFFICES ASSUME IInv, cfg_init \/ AddDrivers \/ Setup PROVE IInv'
  OBVIOUS
<1> USE DEF Recognised, Booting
<1>1. UNCHANGED <<regs, fw, fdt, of, prom, brd, initrd, kicklist, avail, args>>
  BY DEF cfg_init, AddDrivers, Setup, inputs
<1>2. CASE cfg_init \/ AddDrivers
  <2>1. pc \in {"cfg", "console"} /\ pc' \in {"console", "setup"} /\ setups' = setups
    BY <1>2 DEF cfg_init, AddDrivers, Goto
  <2> QED
    BY <2>1, <1>1 DEF IInv, TypeOK, BoardInv, ReadyInv, InitrdFromOneSource
<1>3. CASE Setup
  <2>1. /\ pc = "setup" /\ pc' = IF "b" \in cfg THEN "initrd" ELSE "failed"
        /\ setups' = setups + (IF "p" \in cfg THEN 1 ELSE 0) /\ cfg' = cfg
    BY <1>3 DEF Setup, Goto
  <2>2. setups' = IF "p" \in cfg THEN 1 ELSE 0
    BY <2>1 DEF IInv, ReadyInv
  <2>3. TypeOK' /\ BoardInv'
    BY <2>1, <2>2, <1>1 DEF IInv, TypeOK, BoardInv
  <2>4. ReadyInv' /\ InitrdFromOneSource'
    BY <2>1, <2>2, <1>1 DEF IInv, ReadyInv, InitrdFromOneSource
  <2> QED
    BY <2>3, <2>4 DEF IInv
<1> QED
  BY <1>2, <1>3

LEMMA InitrdStep == IInv /\ FindInitrd => IInv'
<1> SUFFICES ASSUME IInv, FindInitrd PROVE IInv'
  OBVIOUS
<1>1. /\ pc = "initrd" /\ pc' = "zip" /\ initrd' = Initrd
      /\ UNCHANGED <<regs, fw, fdt, of, prom, brd, cfg, setups, kicklist, args>>
  BY DEF FindInitrd, Goto, inputs
<1>2. Initrd \in [addr : Addresses, len : Addresses] /\ Initrd.addr # 0 /\ OneSource(Initrd)
  BY <1>1, InitrdSource DEF IInv, Recognised
<1>3. TypeOK' /\ BoardInv' /\ ReadyInv'
  BY <1>1, <1>2 DEF IInv, TypeOK, BoardInv, ReadyInv, Recognised, Booting
<1>4. Told' = Told
  BY <1>1 DEF Told
<1>5. InitrdFromOneSource'
  BY <1>1, <1>2, <1>4 DEF InitrdFromOneSource, OneSource
<1> QED
  BY <1>3, <1>5 DEF IInv

(* The loader's list, and the command line: read as a whole or not at all. *)
LEMMA HandOverStep == IInv /\ (ZipKick \/ ArgsFromOF \/ ArgsFromLoader) => IInv'
<1> SUFFICES ASSUME IInv, ZipKick \/ ArgsFromOF \/ ArgsFromLoader PROVE IInv'
  OBVIOUS
<1>1. UNCHANGED <<regs, fw, fdt, of, prom, brd, cfg, setups, initrd>>
  BY DEF ZipKick, ArgsFromOF, ArgsFromLoader, inputs
<1>2. /\ pc \in {"zip", "args"} /\ pc' \in {"error", "args", "exec"}
      /\ pc' = "args" => kicklist' = TRUE
      /\ pc' = "exec" => pc = "args" /\ kicklist' = kicklist
  BY DEF ZipKick, ArgsFromOF, ArgsFromLoader, Goto
<1>3. args'.read = args'.len
  <2>0. args' = args => args'.read = args'.len
    BY DEF IInv, ReadyInv
  <2>1. CASE ZipKick
    BY <2>0, <2>1 DEF ZipKick
  <2>2. CASE ArgsFromOF
    BY <2>0, <2>2 DEF ArgsFromOF, Arguments, NoArgs
  <2>3. CASE ArgsFromLoader
    BY <2>3 DEF ArgsFromLoader, NoArgs
  <2> QED
    BY <2>1, <2>2, <2>3
<1>4. TypeOK' /\ BoardInv'
  BY <1>1, <1>2 DEF IInv, TypeOK, BoardInv, Recognised
<1>5. ReadyInv'
  BY <1>1, <1>2, <1>3 DEF IInv, ReadyInv, Booting
<1>6. InitrdFromOneSource'
  BY <1>1, <1>2, SameInitrd DEF IInv, Booting
<1> QED
  BY <1>4, <1>5, <1>6 DEF IInv

(* The loader is started; it may come back, and errors end the program. *)
LEMMA EndStep == IInv /\ (StartExec \/ ExecReturns \/ BootingFailed \/ Error) => IInv'
<1> SUFFICES ASSUME IInv, StartExec \/ ExecReturns \/ BootingFailed \/ Error PROVE IInv'
  OBVIOUS
<1>1. UNCHANGED <<regs, fw, fdt, of, prom, brd, cfg, setups, initrd, kicklist, args>>
  BY DEF StartExec, ExecReturns, BootingFailed, Error, inputs, later
<1>2. \/ pc = "exec" /\ pc' = "running"
      \/ pc = "running" /\ pc' = "failed"
      \/ pc' \in {"error", "exited", "returned"}
  BY DEF StartExec, ExecReturns, BootingFailed, Error, Goto
<1>3. TypeOK' /\ BoardInv'
  BY <1>1, <1>2 DEF IInv, TypeOK, BoardInv, Recognised
<1>4. ReadyInv'
  BY <1>1, <1>2 DEF IInv, ReadyInv, Booting
<1>5. InitrdFromOneSource'
  BY <1>1, <1>2, SameInitrd DEF IInv, Booting
<1> QED
  BY <1>3, <1>4, <1>5 DEF IInv

LEMMA InductiveStep == IInv /\ [Next]_vars => IInv'
<1> SUFFICES ASSUME IInv, [Next]_vars PROVE IInv'
  OBVIOUS
<1>1. CASE UNCHANGED vars
  <2>1. UNCHANGED <<pc, regs, fw, fdt, of, prom, brd, cfg, setups, initrd, kicklist, args>>
    BY <1>1 DEF vars
  <2>2. TypeOK' /\ BoardInv' /\ ReadyInv'
    BY <2>1 DEF IInv, TypeOK, BoardInv, ReadyInv
  <2>3. InitrdFromOneSource'
    BY <2>1, SameInitrd DEF IInv
  <2> QED
    BY <2>2, <2>3 DEF IInv
<1>2. CASE Ended
  BY <1>2, <1>1 DEF Ended
<1> QED
  BY <1>1, <1>2, BoardStep, ConfigStep, InitrdStep, HandOverStep, EndStep DEF Next

LEMMA Invariance == Spec => []IInv
<1>1. Init => IInv
  BY InductiveInit
<1>2. IInv /\ [Next]_vars => IInv'
  BY InductiveStep
<1> QED
  BY <1>1, <1>2, PTL DEF Spec

(* Start and length of the archive are unsigned numbers at every step. *)
THEOREM TypeCorrect == Spec => []TypeOK
<1>1. IInv => TypeOK
  BY DEF IInv
<1> QED
  BY <1>1, Invariance, PTL

(***************************************************************************)
(* For every content of the entry registers, of the firmware's tree and of *)
(* the flattened one: start() never uses the length one of them gives with *)
(* the address of another.                                                 *)
(***************************************************************************)
THEOREM OneInitrd == Spec => []InitrdFromOneSource
<1>1. IInv => InitrdFromOneSource
  BY DEF IInv
<1> QED
  BY <1>1, Invariance, PTL

(***************************************************************************)
(* start() jumps into the loader only with a list, with PCI set up as      *)
(* often as it was asked for, and with a command line that was read whole, *)
(* whatever the firmware answers.                                          *)
(***************************************************************************)
THEOREM HandOver == Spec => []HandOverReady
<1>1. IInv => HandOverReady
  BY DEF IInv, BoardInv, ReadyInv, Recognised, Booting, HandOverReady
<1> QED
  BY <1>1, Invariance, PTL

-----------------------------------------------------------------------------
Positions == 1 .. 37

(* Which register a write of the program goes to, and with what. *)
LEMMA UicWrites ==
    ASSUME NEW k \in 0 .. 3
    PROVE  /\ Program[7 * k + 1] = <<"SR", k>> /\ Program[7 * k + 2] = <<"ER", k>>
           /\ Program[7 * k + 3] = <<"CR", k>> /\ Program[7 * k + 4] = <<"PR", k>>
           /\ Program[7 * k + 5] = <<"TR", k>> /\ Program[7 * k + 6] = <<"VR", k>>
           /\ Program[7 * k + 7] = <<"SR", k>>
<1>1. CASE k = 0 BY <1>1, SMT DEF Program, setup_uic, setup_timer, Uic
<1>2. CASE k = 1 BY <1>2, SMT DEF Program, setup_uic, setup_timer, Uic
<1>3. CASE k = 2 BY <1>3, SMT DEF Program, setup_uic, setup_timer, Uic
<1>4. CASE k = 3 BY <1>4, SMT DEF Program, setup_uic, setup_timer, Uic
<1>. QED BY <1>1, <1>2, <1>3, <1>4

LEMMA TimerWrites ==
    /\ Len(Program) = 36
    /\ Program[29] = <<"TCR", "off">> /\ Program[30] = <<"DEC", 0>>
    /\ Program[31] = <<"DECAR", 0>> /\ Program[32] = <<"TSR", 0>>
    /\ Program[33] = <<"DECAR", Reload>> /\ Program[34] = <<"DEC", Reload>>
    /\ Program[35] = <<"TCR", "on">> /\ Program[36] = <<"IVPR", 0>>
BY SMT DEF Program, setup_uic, setup_timer, Uic

-----------------------------------------------------------------------------
(***************************************************************************)
(* The writes done so far decide what is left of the time before: behind   *)
(* PR(k) the polarities of controller k are the right ones, behind the     *)
(* second SR(k) nothing latched with the wrong ones is left; DEC stands    *)
(* still from its clearing until it gets its value, TSR is cleared between.*)
(***************************************************************************)
PolarityInv == \A k \in 0 .. 3 : pos > 7 * k + 4 => \A l \in Of(k) : l \in pr <=> l[2] = "high"
LatchedInv == \A k \in 0 .. 3 : pos > 7 * k + 7 => \A l \in Of(k) : l \in sr => l \in asserted
TimerInv ==
    /\ loaded => pos > 34
    /\ pos > 30 => loaded \/ dec = 0
    /\ pos > 32 => tsr # "old"
IrqTypeOK ==
    /\ pos \in Positions /\ asserted \in SUBSET Lines
    /\ sr \in SUBSET Lines /\ er \in SUBSET Lines /\ pr \in SUBSET Lines
    /\ dec \in Nat /\ decar \in Nat /\ die \in BOOLEAN /\ are \in BOOLEAN
    /\ tsr \in {"clear", "old", "new"} /\ loaded \in BOOLEAN
IrqInv == IrqTypeOK /\ PolarityInv /\ LatchedInv /\ TimerInv

LEMMA IrqInitInv == IrqInit => IrqInv
<1>. SUFFICES ASSUME IrqInit PROVE IrqInv OBVIOUS
<1>0. Reload \in Nat BY SamInterruptsAssumption
<1>1. IrqTypeOK
  <2>1. dec \in Nat /\ decar \in Nat BY <1>0 DEF IrqInit
  <2>2. pos \in Positions BY DEF IrqInit, Positions
  <2>. QED BY <2>1, <2>2, Zenon DEF IrqInit, IrqTypeOK
<1>2. PolarityInv /\ LatchedInv /\ TimerInv BY DEF IrqInit, PolarityInv, LatchedInv, TimerInv
<1>. QED BY <1>1, <1>2 DEF IrqInv

(* A write to a controller. *)
LEMMA UicStep ==
    ASSUME IrqInv, Write, pos <= 28
    PROVE  IrqInv'
<1>. DEFINE Regs == {"SR", "ER", "CR", "PR", "TR", "VR"}
<1>1. PICK k \in 0 .. 3, j \in 1 .. 7 : pos = 7 * k + j BY DEF IrqInv, IrqTypeOK, Positions
<1>2. PICK r \in Regs : Program[pos] = <<r, k>> /\ (r = "PR" <=> j = 4) /\ (r = "SR" <=> j \in {1, 7})
  BY <1>1, UicWrites
<1>3. WriteUic(r, k) /\ UNCHANGED timerVars /\ pos' = pos + 1 /\ UNCHANGED asserted
  BY <1>2 DEF Write
<1>. HIDE DEF Regs
<1>4. IrqTypeOK'
  BY <1>1, <1>3 DEF IrqInv, IrqTypeOK, WriteUic, timerVars, Of, Positive, Positions
<1>5. TimerInv'
  BY <1>1, <1>3 DEF IrqInv, IrqTypeOK, TimerInv, timerVars, Positions
<1>6. PolarityInv'
  <2>. SUFFICES ASSUME NEW m \in 0 .. 3, pos' > 7 * m + 4, NEW l \in Of(m)
                PROVE  l \in pr' <=> l[2] = "high"
    BY DEF PolarityInv
  <2>1. l \in Lines /\ l[1] = m BY DEF Of
  <2>2. pos > 7 * m + 4 => (l \in pr <=> l[2] = "high") BY DEF IrqInv, PolarityInv
  <2>3. CASE r = "PR" /\ m = k BY <2>1, <2>3, <1>3 DEF WriteUic, Of, Positive
  <2>4. CASE r = "PR" /\ m # k
    <3>1. pos > 7 * m + 4 BY <1>1, <1>2, <1>3, <2>4 DEF IrqInv, IrqTypeOK, Positions
    <3>2. l \in pr' <=> l \in pr BY <2>1, <2>4, <1>3 DEF WriteUic, Of, Positive
    <3>. QED BY <3>1, <3>2, <2>2
  <2>5. CASE r # "PR"
    <3>1. pos > 7 * m + 4 BY <1>1, <1>2, <1>3, <2>5 DEF IrqInv, IrqTypeOK, Positions
    <3>2. pr' = pr BY <2>5, <1>3 DEF WriteUic
    <3>. QED BY <3>1, <3>2, <2>2
  <2>. QED BY <2>3, <2>4, <2>5
<1>7. LatchedInv'
  <2>. SUFFICES ASSUME NEW m \in 0 .. 3, pos' > 7 * m + 7, NEW l \in Of(m), l \in sr'
                PROVE  l \in asserted'
    BY DEF LatchedInv
  <2>1. l \in Lines /\ l[1] = m BY DEF Of
  <2>2. l \in sr /\ ~ (r = "SR" /\ m = k)
    BY <1>3, <2>1 DEF WriteUic, Of
  <2>3. pos > 7 * m + 7 BY <1>1, <1>2, <1>3, <2>2 DEF IrqInv, IrqTypeOK, Positions
  <2>. QED BY <1>3, <2>2, <2>3 DEF IrqInv, LatchedInv
<1>. QED BY <1>4, <1>5, <1>6, <1>7 DEF IrqInv

(* A write to the timer. *)
LEMMA TimerStep ==
    ASSUME IrqInv, Write, pos > 28
    PROVE  IrqInv'
<1>1. pos \in 29 .. 36 BY TimerWrites DEF Write, IrqInv, IrqTypeOK, Positions
<1>2. /\ WriteTimer(Program[pos][1], Program[pos][2])
      /\ UNCHANGED uicVars /\ pos' = pos + 1 /\ UNCHANGED asserted
  <2>1. Program[pos][1] \notin {"SR", "ER", "CR", "PR", "TR", "VR"}
    BY <1>1, TimerWrites
  <2>. QED BY <2>1 DEF Write
<1>3. PolarityInv' /\ LatchedInv'
  BY <1>1, <1>2 DEF IrqInv, IrqTypeOK, PolarityInv, LatchedInv, uicVars, Of
<1>4. die' \in BOOLEAN /\ are' \in BOOLEAN
  BY <1>2, Zenon DEF WriteTimer, IrqInv, IrqTypeOK
<1>5. IrqTypeOK' /\ TimerInv'
  <2>0. Reload \in Nat BY SamInterruptsAssumption
  <2>. USE <1>1, <1>4, TimerWrites, <2>0 DEF IrqInv, IrqTypeOK, TimerInv, Positions
  <2>9. /\ dec' = IF Program[pos][1] = "DEC" THEN Program[pos][2] ELSE dec
        /\ decar' = IF Program[pos][1] = "DECAR" THEN Program[pos][2] ELSE decar
        /\ tsr' = IF Program[pos][1] = "TSR" THEN "clear" ELSE tsr
        /\ loaded' = (loaded \/ (Program[pos][1] = "DEC" /\ Program[pos][2] # 0))
        /\ pos' = pos + 1 /\ asserted' = asserted /\ sr' = sr /\ er' = er /\ pr' = pr
    BY <1>2 DEF WriteTimer, uicVars
  <2>1. CASE pos = 29 BY <2>1, <2>9
  <2>2. CASE pos = 30 BY <2>2, <2>9
  <2>3. CASE pos = 31 BY <2>3, <2>9
  <2>4. CASE pos = 32 BY <2>4, <2>9
  <2>5. CASE pos = 33 BY <2>5, <2>9
  <2>6. CASE pos = 34
    <3>1. Program[pos][1] = "DEC" /\ Program[pos][2] = Reload BY <2>6
    <3>2. dec' = Reload /\ decar' = decar /\ tsr' = tsr /\ pos' = 35
      BY <3>1, <2>6, <2>9
    <3>3. Reload # 0 BY SamInterruptsAssumption
    <3>4. loaded' = TRUE BY <3>1, <3>3, <2>9, Zenon
    <3>. QED BY <3>2, <3>4, <2>6, <2>9
  <2>7. CASE pos = 35 BY <2>7, <2>9
  <2>8. CASE pos = 36 BY <2>8, <2>9
  <2>. QED BY <2>1, <2>2, <2>3, <2>4, <2>5, <2>6, <2>7, <2>8
<1>. QED BY <1>3, <1>5 DEF IrqInv

(* A line is latched. *)
LEMMA LatchStep ==
    ASSUME IrqInv, NEW line \in Lines, Latch(line)
    PROVE  IrqInv'
<1>1. IrqTypeOK' /\ PolarityInv' /\ TimerInv'
  BY DEF IrqInv, IrqTypeOK, PolarityInv, TimerInv, Latch, timerVars, Of
<1>2. LatchedInv'
  <2>. SUFFICES ASSUME NEW m \in 0 .. 3, pos > 7 * m + 7, NEW l \in Of(m), l \in sr'
                PROVE  l \in asserted
    BY DEF LatchedInv, Latch, Of
  <2>1. CASE l \in sr BY <2>1 DEF IrqInv, LatchedInv
  <2>2. CASE l \notin sr
    <3>1. Active(l) BY <2>2 DEF Latch
    <3>2. l[2] \in {"high", "low"} BY SamInterruptsAssumption DEF Of
    <3>3. l \in pr <=> l[2] = "high" BY DEF IrqInv, IrqTypeOK, Positions, PolarityInv
    <3>. QED BY <3>1, <3>2, <3>3 DEF Active, Level
  <2>. QED BY <2>1, <2>2
<1>. QED BY <1>1, <1>2 DEF IrqInv

LEMMA CountStep ==
    ASSUME IrqInv, Count
    PROVE  IrqInv'
<1>1. PolarityInv' /\ LatchedInv' BY DEF IrqInv, PolarityInv, LatchedInv, Count, uicVars, Of
<1>2. IrqTypeOK' BY DEF IrqInv, IrqTypeOK, Count, uicVars, Positions
<1>3. TimerInv' BY DEF IrqInv, IrqTypeOK, TimerInv, Count, uicVars, Positions
<1>. QED BY <1>1, <1>2, <1>3 DEF IrqInv

LEMMA IrqStepInv == IrqInv /\ [IrqNext]_irqVars => IrqInv'
<1>. SUFFICES ASSUME IrqInv, [IrqNext]_irqVars PROVE IrqInv' OBVIOUS
<1>1. CASE Write
  <2>1. pos <= 28 \/ pos > 28 BY DEF IrqInv, IrqTypeOK, Positions
  <2>. QED BY <1>1, <2>1, UicStep, TimerStep
<1>2. CASE \E l \in Lines : Latch(l) BY <1>2, LatchStep
<1>3. CASE Count BY <1>3, CountStep
<1>4. CASE Acknowledge
  BY <1>4 DEF Acknowledge, uicVars, Of, IrqInv, IrqTypeOK, PolarityInv, LatchedInv, TimerInv
<1>5. CASE Idle \/ UNCHANGED irqVars
  BY <1>5 DEF Idle, irqVars, Of, IrqInv, IrqTypeOK, PolarityInv, LatchedInv, TimerInv
<1>. QED BY <1>1, <1>2, <1>3, <1>4, <1>5 DEF IrqNext

LEMMA IrqInvNothingStale == IrqInv => NothingStale
<1>. SUFFICES ASSUME IrqInv, AtEnd PROVE sr \subseteq asserted /\ tsr # "old"
  BY DEF NothingStale, NoSpuriousInterrupt, NoStaleTick
<1>1. pos > 36 BY TimerWrites DEF AtEnd
<1>2. tsr # "old" BY <1>1 DEF IrqInv, IrqTypeOK, TimerInv, Positions
<1>3. ASSUME NEW l \in sr PROVE l \in asserted
  <2>1. l \in Lines /\ l[1] \in 0 .. 3 BY SamInterruptsAssumption DEF IrqInv, IrqTypeOK
  <2>2. l \in Of(l[1]) BY <2>1 DEF Of
  <2>3. pos > 7 * l[1] + 7 BY <1>1, <2>1 DEF IrqInv, IrqTypeOK, Positions
  <2>. QED BY <2>1, <2>2, <2>3 DEF IrqInv, LatchedInv
<1>. QED BY <1>2, <1>3

(***************************************************************************)
(* When setup_uic() and setup_timer() are through, nothing latched with    *)
(* the polarity of reset and no tick of the time before is pending, for    *)
(* every set of lines and every period, wherever between the writes the    *)
(* hardware took its steps.                                                *)
(***************************************************************************)
THEOREM LeavesNothingStale == IrqSpec => []NothingStale
<1>1. IrqInit => IrqInv BY IrqInitInv
<1>2. IrqInv /\ [IrqNext]_irqVars => IrqInv' BY IrqStepInv
<1>3. IrqInv => NothingStale BY IrqInvNothingStale
<1>. QED BY <1>1, <1>2, <1>3, PTL DEF IrqSpec

-----------------------------------------------------------------------------
(***************************************************************************)
(* The TLB.  What an entry is written with, what it was before, and how    *)
(* many of its words are written decide what it is.                        *)
(***************************************************************************)
Frame(e) == IF e < 15 THEN tlbtab[e + 1]
            ELSE PageFrame((e - 15) * TLB_256M, TLB_256M, (e - 15) * TLB_256M, 0, "rwx")
Before(e) == IF e = 0 THEN PageFrame(0, 8 * TLB_256M, 0, 0, "rwx") ELSE Unused
Turn(e) == IF e < 15 THEN pages + 1 + e ELSE e - 14
Words(e) ==
    IF stage = "fdt" \/ e >= 15 + pages THEN 0
    ELSE IF Written \/ Turn(e) < step THEN 3
    ELSE IF Turn(e) = step THEN word ELSE 0
EntryAt(e) ==
    [valid |-> IF Words(e) > 0 THEN TRUE ELSE Before(e).valid,
     epn |-> IF Words(e) > 0 THEN Frame(e).epn ELSE Before(e).epn,
     size |-> IF Words(e) > 0 THEN Frame(e).size ELSE Before(e).size,
     pa |-> IF Words(e) > 1 THEN Frame(e).pa ELSE Before(e).pa,
     acc |-> IF Words(e) > 2 THEN Frame(e).acc ELSE Before(e).acc]

MapTypeOK ==
    /\ stage \in {"fdt", "tlb", "stack", "pom", "end"}
    /\ memsize \in Nat /\ step \in Nat \ {0} /\ word \in 0 .. 2
    /\ stage = "tlb" => step <= pages + 15
    /\ stage # "tlb" => word = 0
    /\ stage \notin {"tlb", "pom"} => step = 1
    /\ stage = "pom" => step <= 15
TlbInv == tlb = [e \in 0 .. 63 |-> EntryAt(e)]

LEMMA TableLength == ntab = 15
BY DEF ntab, tlbtab

LEMMA PagesOf ==
    ASSUME NEW m \in Nat, NEW q,
           q = LET p == ((m + TLB_256M - 1) \div TLB_256M) % 16
               IN  IF p = 0 THEN 1 ELSE IF p > 64 - ntab THEN 64 - ntab ELSE p
    PROVE  /\ q \in 1 .. 15
           /\ m <= 8 * TLB_256M => q <= 8 /\ m <= q * TLB_256M
<1>. DEFINE p == ((m + 262143) \div 262144) % 16
<1>1. p \in 0 .. 15 OBVIOUS
<1>2. q = IF p = 0 THEN 1 ELSE IF p > 64 - 15 THEN 64 - 15 ELSE p
  BY TableLength DEF TLB_256M, M
<1>3. m <= 8 * 262144 => (p = 0 => m = 0) /\ p <= 8 /\ m <= p * 262144
  <2>. DEFINE d == (m + 262143) \div 262144
  <2>1. d \in Nat /\ d * 262144 <= m + 262143 /\ m + 262143 < (d + 1) * 262144 OBVIOUS
  <2>. HIDE DEF d
  <2>2. m <= 8 * 262144 => d <= 8 BY <2>1
  <2>3. d <= 8 => d % 16 = d BY <2>1
  <2>4. p = d % 16 BY DEF d
  <2>. QED BY <2>1, <2>2, <2>3, <2>4
<1>. HIDE DEF p
<1>. QED BY <1>1, <1>2, <1>3 DEF TLB_256M, M

LEMMA PagesType ==
    ASSUME memsize \in Nat
    PROVE  /\ pages \in 1 .. 15
           /\ memsize <= 8 * TLB_256M => pages <= 8 /\ memsize <= pages * TLB_256M
BY PagesOf DEF pages

(* The write a step makes. *)
LEMMA ProgramTlb ==
    ASSUME memsize \in Nat
    PROVE  /\ Len(TlbProgram) = pages + 15
           /\ \A k \in 1 .. pages + 15 :
                \E c \in 0 .. pages + 14 :
                    Turn(c) = k /\ TlbProgram[k] = <<c, Frame(c)>>
<1>1. pages \in 1 .. 15 BY PagesType
<1>2. TlbProgram = [k \in 1 .. pages + 15 |-> IF k <= pages THEN Sdram(k - 1) ELSE Static(k - 1 - pages)]
  BY TableLength DEF TlbProgram
<1>3. Len(TlbProgram) = pages + 15 BY <1>1, <1>2
<1>4. ASSUME NEW k \in 1 .. pages + 15
      PROVE  \E c \in 0 .. pages + 14 : Turn(c) = k /\ TlbProgram[k] = <<c, Frame(c)>>
  <2>1. CASE k <= pages
    <3>1. TlbProgram[k] = Sdram(k - 1) BY <1>2, <2>1
    <3>2. Sdram(k - 1) = <<k + 14, PageFrame((k - 1) * TLB_256M, TLB_256M, (k - 1) * TLB_256M, 0, "rwx")>>
      BY <1>1, TableLength DEF Sdram
    <3>3. k + 14 \in 15 .. pages + 14 /\ (k + 14) - 15 = k - 1 /\ (k + 14) - 14 = k BY <1>1, <2>1
    <3>4. Turn(k + 14) = k /\ Frame(k + 14) = PageFrame((k - 1) * TLB_256M, TLB_256M, (k - 1) * TLB_256M, 0, "rwx")
      BY <3>3, <1>1 DEF Turn, Frame
    <3>5. k + 14 \in 0 .. pages + 14 BY <3>3, <1>1
    <3>. QED BY <3>1, <3>2, <3>4, <3>5
  <2>2. CASE ~ (k <= pages)
    <3>. DEFINE c == k - 1 - pages
    <3>1. TlbProgram[k] = <<c, tlbtab[c + 1]>> BY <1>2, <2>2 DEF Static
    <3>2. c \in 0 .. 14 /\ pages + 1 + c = k BY <1>1, <2>2
    <3>3. Turn(c) = k /\ Frame(c) = tlbtab[c + 1] BY <3>2 DEF Turn, Frame
    <3>4. c \in 0 .. pages + 14 BY <3>2, <1>1
    <3>. HIDE DEF c
    <3>. QED BY <3>1, <3>3, <3>4
  <2>. QED BY <2>1, <2>2
<1>. QED BY <1>3, <1>4

LEMMA FrameType ==
    ASSUME NEW e \in 0 .. 63
    PROVE  Frame(e).valid = TRUE
<1>1. CASE e < 15
  <2>1. e + 1 \in 1 .. 15 BY <1>1
  <2>. QED BY <1>1, <2>1 DEF Frame, tlbtab, PageFrame
<1>2. CASE ~ (e < 15) BY <1>2 DEF Frame, PageFrame
<1>. QED BY <1>1, <1>2

(* A step that writes nothing to the TLB and leaves the words written as   *)
(* they are.                                                               *)
LEMMA TlbKept ==
    ASSUME TlbInv, tlb' = tlb, \A e \in 0 .. 63 : Words(e)' = Words(e)
    PROVE  TlbInv'
<1>1. ASSUME NEW e \in 0 .. 63 PROVE EntryAt(e)' = EntryAt(e)
  BY <1>1 DEF EntryAt, Before, Frame
<1>. QED BY <1>1 DEF TlbInv

(* What an assignment to some fields makes of an entry. *)
LEMMA WordWritten ==
    ASSUME NEW b, NEW f
    PROVE  /\ [[valid |-> b.valid, epn |-> b.epn, size |-> b.size, pa |-> b.pa, acc |-> b.acc]
                  EXCEPT !.valid = TRUE, !.epn = f.epn, !.size = f.size]
                  = [valid |-> TRUE, epn |-> f.epn, size |-> f.size, pa |-> b.pa, acc |-> b.acc]
           /\ [[valid |-> TRUE, epn |-> f.epn, size |-> f.size, pa |-> b.pa, acc |-> b.acc] EXCEPT !.pa = f.pa]
                  = [valid |-> TRUE, epn |-> f.epn, size |-> f.size, pa |-> f.pa, acc |-> b.acc]
           /\ [[valid |-> TRUE, epn |-> f.epn, size |-> f.size, pa |-> f.pa, acc |-> b.acc] EXCEPT !.acc = f.acc]
                  = [valid |-> TRUE, epn |-> f.epn, size |-> f.size, pa |-> f.pa, acc |-> f.acc]
<1>1. PICK v, a, z, p, c : v = b.valid /\ a = b.epn /\ z = b.size /\ p = b.pa /\ c = b.acc OBVIOUS
<1>2. PICK t, a1, z1, p1, c1 : t = TRUE /\ a1 = f.epn /\ z1 = f.size /\ p1 = f.pa /\ c1 = f.acc OBVIOUS
<1>3. [[valid |-> v, epn |-> a, size |-> z, pa |-> p, acc |-> c] EXCEPT !.valid = t, !.epn = a1, !.size = z1]
         = [valid |-> t, epn |-> a1, size |-> z1, pa |-> p, acc |-> c]
  <2>1. [[valid |-> v, epn |-> a, size |-> z, pa |-> p, acc |-> c] EXCEPT !.valid = t]
           = [valid |-> t, epn |-> a, size |-> z, pa |-> p, acc |-> c] OBVIOUS
  <2>2. [[valid |-> t, epn |-> a, size |-> z, pa |-> p, acc |-> c] EXCEPT !.epn = a1]
           = [valid |-> t, epn |-> a1, size |-> z, pa |-> p, acc |-> c] OBVIOUS
  <2>3. [[valid |-> t, epn |-> a1, size |-> z, pa |-> p, acc |-> c] EXCEPT !.size = z1]
           = [valid |-> t, epn |-> a1, size |-> z1, pa |-> p, acc |-> c] OBVIOUS
  <2>. QED BY <2>1, <2>2, <2>3, Zenon
<1>4. [[valid |-> t, epn |-> a1, size |-> z1, pa |-> p, acc |-> c] EXCEPT !.pa = p1]
         = [valid |-> t, epn |-> a1, size |-> z1, pa |-> p1, acc |-> c] OBVIOUS
<1>5. [[valid |-> t, epn |-> a1, size |-> z1, pa |-> p1, acc |-> c] EXCEPT !.acc = c1]
         = [valid |-> t, epn |-> a1, size |-> z1, pa |-> p1, acc |-> c1] OBVIOUS
<1>. QED BY <1>1, <1>2, <1>3, <1>4, <1>5, Zenon

LEMMA TlbStep ==
    ASSUME MapTypeOK, TlbInv, setup_tlb
    PROVE  MapTypeOK' /\ TlbInv'
<1>1. pages \in 1 .. 15 /\ memsize' = memsize /\ pages' = pages
  BY PagesType DEF MapTypeOK, setup_tlb, pages
<1>2. stage = "tlb" /\ step \in 1 .. pages + 15 /\ word \in 0 .. 2 BY DEF MapTypeOK, setup_tlb
<1>3. PICK c \in 0 .. pages + 14 : Turn(c) = step /\ TlbProgram[step] = <<c, Frame(c)>>
  BY <1>2, ProgramTlb DEF MapTypeOK
<1>4. c \in 0 .. 63 BY <1>1, <1>3
<1>. DEFINE last == word = 2 /\ step = pages + 15
<1>5. /\ stage' = IF last THEN "stack" ELSE stage
      /\ step' = IF last THEN 1 ELSE IF word = 2 THEN step + 1 ELSE step
      /\ word' = (word + 1) % 3
  BY <1>2, ProgramTlb DEF setup_tlb, MapTypeOK
<1>6. MapTypeOK'
  <2>1. CASE last BY <2>1, <1>1, <1>2, <1>5 DEF MapTypeOK
  <2>2. CASE ~ last BY <2>2, <1>1, <1>2, <1>5 DEF MapTypeOK
  <2>. QED BY <2>1, <2>2
<1>7. ASSUME NEW e \in 0 .. 63, e # c PROVE Words(e)' = Words(e)
  <2>1. Turn(e)' = Turn(e) BY <1>1 DEF Turn
  <2>2. e < 15 + pages => Turn(e) # step /\ Turn(e) \in 1 .. pages + 15
    BY <1>1, <1>3, <1>7 DEF Turn
  <2>3. CASE last BY <2>1, <2>2, <2>3, <1>1, <1>2, <1>5 DEF Words, Written
  <2>4. CASE word = 2 /\ ~ last BY <2>1, <2>2, <2>4, <1>1, <1>2, <1>5 DEF Words, Written
  <2>5. CASE word # 2 BY <2>1, <2>2, <2>5, <1>1, <1>2, <1>5 DEF Words, Written
  <2>. QED BY <2>3, <2>4, <2>5
<1>8. Words(c) = word /\ Words(c)' = word + 1
  <2>1. Turn(c)' = Turn(c) BY <1>1 DEF Turn
  <2>2. c < 15 + pages BY <1>1, <1>3
  <2>3. Words(c) = word BY <2>2, <1>1, <1>2, <1>3 DEF Words, Written
  <2>4. CASE last BY <2>1, <2>2, <2>4, <1>1, <1>2, <1>3, <1>5 DEF Words, Written
  <2>5. CASE word = 2 /\ ~ last BY <2>1, <2>2, <2>5, <1>1, <1>2, <1>3, <1>5 DEF Words, Written
  <2>6. CASE word # 2 BY <2>1, <2>2, <2>6, <1>1, <1>2, <1>3, <1>5 DEF Words, Written
  <2>. QED BY <2>3, <2>4, <2>5, <2>6
<1>. DEFINE f == Frame(c)
            x == CASE word = 0 -> [tlb[c] EXCEPT !.valid = TRUE, !.epn = f.epn, !.size = f.size]
                   [] word = 1 -> [tlb[c] EXCEPT !.pa = f.pa]
                   [] word = 2 -> [tlb[c] EXCEPT !.acc = f.acc]
<1>13. tlb' = [tlb EXCEPT ![c] = x]
  <2>1. TlbProgram[step][1] = c /\ TlbProgram[step][2] = f BY <1>3
  <2>. QED BY <2>1 DEF setup_tlb, write_tlb
<1>. HIDE DEF last, x
<1>9. ASSUME NEW e \in 0 .. 63, e # c PROVE tlb'[e] = EntryAt(e)'
  <2>1. tlb'[e] = tlb[e] BY <1>13, <1>9 DEF TlbInv
  <2>2. tlb[e] = EntryAt(e) BY DEF TlbInv
  <2>3. EntryAt(e)' = EntryAt(e) BY <1>7, <1>9 DEF EntryAt, Before, Frame
  <2>. QED BY <2>1, <2>2, <2>3
<1>10. tlb'[c] = EntryAt(c)'
  <2>. DEFINE b == Before(c)
  <2>1. tlb[c] = EntryAt(c) BY <1>4 DEF TlbInv
  <2>2. tlb'[c] = x BY <1>4, <1>13 DEF TlbInv
  <2>3. Before(c)' = b /\ Frame(c)' = f BY DEF Before, Frame
  <2>. HIDE DEF b, f
  <2>4. CASE word = 0
    <3>1. tlb[c] = [valid |-> b.valid, epn |-> b.epn, size |-> b.size, pa |-> b.pa, acc |-> b.acc]
      BY <2>1, <2>4, <1>8 DEF EntryAt, b, f
    <3>2. EntryAt(c)' = [valid |-> TRUE, epn |-> f.epn, size |-> f.size, pa |-> b.pa, acc |-> b.acc]
      BY <2>3, <2>4, <1>8 DEF EntryAt
    <3>3. tlb'[c] = [tlb[c] EXCEPT !.valid = TRUE, !.epn = f.epn, !.size = f.size] BY <2>2, <2>4 DEF x
    <3>5. tlb'[c] = [[valid |-> b.valid, epn |-> b.epn, size |-> b.size, pa |-> b.pa, acc |-> b.acc]
                        EXCEPT !.valid = TRUE, !.epn = f.epn, !.size = f.size]
      BY <3>1, <3>3, Zenon
    <3>4. [[valid |-> b.valid, epn |-> b.epn, size |-> b.size, pa |-> b.pa, acc |-> b.acc]
             EXCEPT !.valid = TRUE, !.epn = f.epn, !.size = f.size] = EntryAt(c)'
      BY <3>2, WordWritten, Zenon
    <3>. QED BY <3>4, <3>5
  <2>5. CASE word = 1
    <3>1. tlb[c] = [valid |-> TRUE, epn |-> f.epn, size |-> f.size, pa |-> b.pa, acc |-> b.acc]
      BY <2>1, <2>5, <1>8 DEF EntryAt, b, f
    <3>2. EntryAt(c)' = [valid |-> TRUE, epn |-> f.epn, size |-> f.size, pa |-> f.pa, acc |-> b.acc]
      BY <2>3, <2>5, <1>8 DEF EntryAt
    <3>3. tlb'[c] = [tlb[c] EXCEPT !.pa = f.pa] BY <2>2, <2>5 DEF x
    <3>5. tlb'[c] = [[valid |-> TRUE, epn |-> f.epn, size |-> f.size, pa |-> b.pa, acc |-> b.acc]
                        EXCEPT !.pa = f.pa]
      BY <3>1, <3>3, Zenon
    <3>4. [[valid |-> TRUE, epn |-> f.epn, size |-> f.size, pa |-> b.pa, acc |-> b.acc]
             EXCEPT !.pa = f.pa] = EntryAt(c)'
      BY <3>2, WordWritten, Zenon
    <3>. QED BY <3>4, <3>5
  <2>6. CASE word = 2
    <3>1. tlb[c] = [valid |-> TRUE, epn |-> f.epn, size |-> f.size, pa |-> f.pa, acc |-> b.acc]
      BY <2>1, <2>6, <1>8 DEF EntryAt, b, f
    <3>2. EntryAt(c)' = [valid |-> TRUE, epn |-> f.epn, size |-> f.size, pa |-> f.pa, acc |-> f.acc]
      BY <2>3, <2>6, <1>8 DEF EntryAt
    <3>3. tlb'[c] = [tlb[c] EXCEPT !.acc = f.acc] BY <2>2, <2>6 DEF x
    <3>5. tlb'[c] = [[valid |-> TRUE, epn |-> f.epn, size |-> f.size, pa |-> f.pa, acc |-> b.acc]
                        EXCEPT !.acc = f.acc]
      BY <3>1, <3>3, Zenon
    <3>4. [[valid |-> TRUE, epn |-> f.epn, size |-> f.size, pa |-> f.pa, acc |-> b.acc]
             EXCEPT !.acc = f.acc]
             = [valid |-> TRUE, epn |-> f.epn, size |-> f.size, pa |-> f.pa, acc |-> f.acc]
      BY WordWritten, Zenon
    <3>. QED BY <3>2, <3>4, <3>5
  <2>. QED BY <1>2, <2>4, <2>5, <2>6
<1>11. tlb' = [e \in 0 .. 63 |-> tlb'[e]]
  BY <1>13 DEF TlbInv
<1>12. TlbInv'
  <2>1. \A e \in 0 .. 63 : tlb'[e] = EntryAt(e)' BY <1>9, <1>10
  <2>. QED BY <2>1, <1>11 DEF TlbInv
<1>. QED BY <1>6, <1>12

-----------------------------------------------------------------------------
(* The registers of the bridge, by the writes that are done. *)
PomDone == IF stage = "end" THEN 15 ELSE IF stage = "pom" THEN step - 1 ELSE 0
Sa(w) == <<"POM", w, "SA">>
(* Window w leads to the PCI addresses from At(128 + 16 * w). *)
WindowAt(w) == At(128 + 16 * w)
WindowInv(w) ==
    /\ PomDone > 1 + 5 * w + 1 => pcix[<<"POM", w, "LAL">>] = WindowAt(w)
    /\ PomDone > 1 + 5 * w + 2 => pcix[<<"POM", w, "LAH">>] = 12
    /\ PomDone > 1 + 5 * w + 3 => pcix[<<"POM", w, "PCIAL">>] = WindowAt(w)
    /\ PomDone > 1 + 5 * w + 4 => pcix[<<"POM", w, "PCIAH">>] = 0
    /\ PomDone > w /\ PomDone <= 1 + 5 * w + 5 => pcix[Sa(w)] = Off
    /\ PomDone > 1 + 5 * w + 5 => pcix[Sa(w)] = On(TLB_256M)
PimInv == PomDone > 14 => pcix[<<"PIM", 0, "SAL">>] = On(memsize)
PcixInv == /\ pcix = [r \in Registers |-> pcix[r]]
           /\ WindowInv(0) /\ WindowInv(1) /\ PimInv

LEMMA ProgramPom ==
    /\ Len(PomProgram) = 15
    /\ PomProgram[1] = <<Sa(0), Off>> /\ PomProgram[2] = <<Sa(1), Off>>
    /\ PomProgram[3] = << <<"POM", 0, "LAL">>, WindowAt(0)>> /\ PomProgram[4] = << <<"POM", 0, "LAH">>, 12>>
    /\ PomProgram[5] = << <<"POM", 0, "PCIAL">>, WindowAt(0)>> /\ PomProgram[6] = << <<"POM", 0, "PCIAH">>, 0>>
    /\ PomProgram[7] = <<Sa(0), On(TLB_256M)>>
    /\ PomProgram[8] = << <<"POM", 1, "LAL">>, WindowAt(1)>> /\ PomProgram[9] = << <<"POM", 1, "LAH">>, 12>>
    /\ PomProgram[10] = << <<"POM", 1, "PCIAL">>, WindowAt(1)>> /\ PomProgram[11] = << <<"POM", 1, "PCIAH">>, 0>>
    /\ PomProgram[12] = <<Sa(1), On(TLB_256M)>>
    /\ PomProgram[13] = << <<"PIM", 0, "LAL">>, 0>> /\ PomProgram[14] = << <<"PIM", 0, "LAH">>, 0>>
    /\ PomProgram[15] = << <<"PIM", 0, "SAL">>, On(memsize)>>
<1>1. At(128) = WindowAt(0) /\ At(144) = WindowAt(1) BY DEF WindowAt
<1>. QED BY <1>1 DEF PomProgram, PomWrites, PimSize, Sa

LEMMA RegisterNames ==
    /\ \A w \in {0, 1}, r \in pcixRegs : <<"POM", w, r>> \in Registers
    /\ \A r \in {"LAL", "LAH", "SAL"} : <<"PIM", 0, r>> \in Registers
BY DEF Registers, Pom

(* One register is written. *)
LEMMA PomStep ==
    ASSUME MapTypeOK, PcixInv, setup_pom
    PROVE  MapTypeOK' /\ PcixInv'
<1>1. stage = "pom" /\ step \in 1 .. 15 /\ word = 0 /\ memsize \in Nat BY DEF MapTypeOK, setup_pom
<1>2. /\ pcix' = [pcix EXCEPT ![PomProgram[step][1]] = PomProgram[step][2]]
      /\ memsize' = memsize /\ word' = word
      /\ IF step = 15 THEN stage' = "end" /\ step' = 1 ELSE step' = step + 1 /\ stage' = stage
  BY ProgramPom DEF setup_pom
<1>3. MapTypeOK'
  <2>1. CASE step = 15 BY <2>1, <1>1, <1>2 DEF MapTypeOK
  <2>2. CASE step # 15 BY <2>2, <1>1, <1>2 DEF MapTypeOK
  <2>. QED BY <2>1, <2>2
<1>4. PomDone = step - 1 /\ PomDone' = step
  <2>1. CASE step = 15 BY <2>1, <1>1, <1>2 DEF PomDone
  <2>2. CASE step # 15 BY <2>2, <1>1, <1>2 DEF PomDone
  <2>. QED BY <2>1, <2>2
<1>5. DOMAIN pcix = Registers BY DEF PcixInv
<1>6. pcix' = [r \in Registers |-> pcix'[r]] BY <1>2, <1>5
<1>7. \A r \in Registers : pcix'[r] = IF r = PomProgram[step][1] THEN PomProgram[step][2] ELSE pcix[r]
  BY <1>2, <1>5
<1>8. ASSUME NEW w \in {0, 1} PROVE WindowInv(w)'
  <2>. DEFINE k == 1 + 5 * w
  <2>1. WindowInv(w) BY DEF PcixInv
  <2>2. /\ <<"POM", w, "LAL">> \in Registers /\ <<"POM", w, "LAH">> \in Registers
        /\ <<"POM", w, "PCIAL">> \in Registers /\ <<"POM", w, "PCIAH">> \in Registers
        /\ Sa(w) \in Registers
    BY RegisterNames DEF pcixRegs, Sa
  <2>3. step = k + 2 <=> PomProgram[step][1] = <<"POM", w, "LAL">>
    BY <1>1, ProgramPom DEF Sa
  <2>4. step = k + 3 <=> PomProgram[step][1] = <<"POM", w, "LAH">>
    BY <1>1, ProgramPom DEF Sa
  <2>5. step = k + 4 <=> PomProgram[step][1] = <<"POM", w, "PCIAL">>
    BY <1>1, ProgramPom DEF Sa
  <2>6. step = k + 5 <=> PomProgram[step][1] = <<"POM", w, "PCIAH">>
    BY <1>1, ProgramPom DEF Sa
  <2>7. step = w + 1 \/ step = k + 6 <=> PomProgram[step][1] = Sa(w)
    BY <1>1, ProgramPom DEF Sa
  <2>8. /\ step = k + 2 => PomProgram[step][2] = WindowAt(w)
        /\ step = k + 3 => PomProgram[step][2] = 12
        /\ step = k + 4 => PomProgram[step][2] = WindowAt(w)
        /\ step = k + 5 => PomProgram[step][2] = 0
        /\ step = w + 1 => PomProgram[step][2] = Off
        /\ step = k + 6 => PomProgram[step][2] = On(TLB_256M)
    <3>1. CASE w = 0 BY <3>1, <1>1, ProgramPom
    <3>2. CASE w = 1 BY <3>2, <1>1, ProgramPom
    <3>. QED BY <3>1, <3>2
  <2>9. step > k + 1 => pcix'[<<"POM", w, "LAL">>] = WindowAt(w)
    BY <2>1, <2>2, <2>3, <2>8, <1>1, <1>4, <1>7 DEF WindowInv
  <2>10. step > k + 2 => pcix'[<<"POM", w, "LAH">>] = 12
    BY <2>1, <2>2, <2>4, <2>8, <1>1, <1>4, <1>7 DEF WindowInv
  <2>11. step > k + 3 => pcix'[<<"POM", w, "PCIAL">>] = WindowAt(w)
    BY <2>1, <2>2, <2>5, <2>8, <1>1, <1>4, <1>7 DEF WindowInv
  <2>12. step > k + 4 => pcix'[<<"POM", w, "PCIAH">>] = 0
    BY <2>1, <2>2, <2>6, <2>8, <1>1, <1>4, <1>7 DEF WindowInv
  <2>13. step > w /\ step <= k + 5 => pcix'[Sa(w)] = Off
    BY <2>1, <2>2, <2>7, <2>8, <1>1, <1>4, <1>7 DEF WindowInv
  <2>14. step > k + 5 => pcix'[Sa(w)] = On(TLB_256M)
    BY <2>1, <2>2, <2>7, <2>8, <1>1, <1>4, <1>7 DEF WindowInv
  <2>. QED BY <2>9, <2>10, <2>11, <2>12, <2>13, <2>14, <1>4 DEF WindowInv, Sa
<1>9. PimInv'
  <2>1. step > 14 => step = 15 BY <1>1
  <2>2. ASSUME step = 15 PROVE pcix'[<<"PIM", 0, "SAL">>] = On(memsize)
    <3>1. PomProgram[step][1] = <<"PIM", 0, "SAL">> /\ PomProgram[step][2] = On(memsize)
      BY <2>2, ProgramPom
    <3>2. <<"PIM", 0, "SAL">> \in Registers BY RegisterNames
    <3>. QED BY <1>7, <3>1, <3>2
  <2>3. On(memsize)' = On(memsize) BY <1>2 DEF On
  <2>. QED BY <2>1, <2>2, <2>3, <1>4 DEF PimInv
<1>10. PcixInv' BY <1>6, <1>8, <1>9 DEF PcixInv
<1>. QED BY <1>3, <1>10

MapInv == MapTypeOK /\ TlbInv /\ PcixInv

LEMMA MapInitInv == MapInit => MapInv
<1>. SUFFICES ASSUME MapInit PROVE MapInv OBVIOUS
<1>1. MapTypeOK BY DEF MapInit, MapTypeOK, M
<1>2. ASSUME NEW e \in 0 .. 63 PROVE EntryAt(e) = tlb[e]
  <2>1. Words(e) = 0 BY DEF MapInit, Words
  <2>2. tlb[e] = Before(e) BY DEF MapInit, Before
  <2>3. EntryAt(e) = [valid |-> Before(e).valid, epn |-> Before(e).epn, size |-> Before(e).size,
                      pa |-> Before(e).pa, acc |-> Before(e).acc]
    BY <2>1 DEF EntryAt
  <2>4. Before(e) = [valid |-> Before(e).valid, epn |-> Before(e).epn, size |-> Before(e).size,
                     pa |-> Before(e).pa, acc |-> Before(e).acc]
    BY DEF Before, PageFrame, Unused
  <2>. QED BY <2>2, <2>3, <2>4
<1>3. TlbInv
  <2>1. tlb = [e \in 0 .. 63 |-> tlb[e]] BY DEF MapInit
  <2>. QED BY <2>1, <1>2 DEF TlbInv
<1>4. PcixInv
  <2>1. PomDone = 0 BY DEF MapInit, PomDone
  <2>2. pcix = [r \in Registers |-> pcix[r]] BY DEF MapInit
  <2>. QED BY <2>1, <2>2 DEF PcixInv, WindowInv, PimInv
<1>. QED BY <1>1, <1>3, <1>4 DEF MapInv

(* Steps that leave the bridge alone, before and behind setup_pom(). *)
LEMMA PcixKept ==
    ASSUME PcixInv, pcix' = pcix, PomDone' = PomDone, PomDone = 0 \/ memsize' = memsize
    PROVE  PcixInv'
<1>1. pcix' = [r \in Registers |-> pcix'[r]] BY DEF PcixInv
<1>2. WindowInv(0)' /\ WindowInv(1)' BY DEF PcixInv, WindowInv, Sa
<1>3. CASE PomDone = 0
  BY <1>1, <1>2, <1>3 DEF PcixInv, PimInv
<1>4. CASE memsize' = memsize
  <2>1. On(memsize)' = On(memsize) BY <1>4 DEF On
  <2>. QED BY <1>1, <1>2, <2>1 DEF PcixInv, PimInv
<1>. QED BY <1>3, <1>4

LEMMA MapStepInv == MapInv /\ [MapNext]_mapVars => MapInv'
<1>. SUFFICES ASSUME MapInv, [MapNext]_mapVars PROVE MapInv' OBVIOUS
<1>. USE DEF MapInv
<1>1. CASE ReadFdt
  <2>0. memsize' \in Nat BY <1>1, SamMapAssumption DEF ReadFdt, MapTypeOK
  <2>5. PICK q \in 1 .. 15 : pages' = q BY <2>0, PagesOf DEF pages
  <2>1. MapTypeOK' BY <1>1, <2>0, <2>5 DEF ReadFdt, MapTypeOK
  <2>2. \A e \in 0 .. 63 : Words(e)' = Words(e)
    <3>. SUFFICES ASSUME NEW e \in 0 .. 63 PROVE Words(e)' = Words(e) OBVIOUS
    <3>1. Words(e) = 0 BY <1>1 DEF ReadFdt, Words
    <3>2. step' = 1 /\ word' = 0 /\ stage' = "tlb" BY <1>1 DEF ReadFdt, MapTypeOK
    <3>4. PICK t \in Nat \ {0} : Turn(e)' = t \/ e >= 15 + q
      <4>1. CASE e < 15
        <5>1. Turn(e)' = q + 1 + e BY <4>1, <2>5 DEF Turn
        <5>2. q + 1 + e \in Nat \ {0} OBVIOUS
        <5>. QED BY <5>1, <5>2
      <4>2. CASE ~ (e < 15) BY <4>2, <2>5 DEF Turn
      <4>. QED BY <4>1, <4>2
    <3>5. Words(e)' = 0 BY <3>2, <2>5, <3>4 DEF Words, Written
    <3>. QED BY <3>1, <3>5
  <2>3. TlbInv' BY <2>2, <1>1, TlbKept DEF ReadFdt
  <2>4. PcixInv' BY <1>1, PcixKept DEF ReadFdt, PomDone
  <2>. QED BY <2>1, <2>3, <2>4
<1>2. CASE setup_tlb
  <2>1. PomDone = 0 /\ PomDone' = 0 /\ pcix' = pcix
    BY <1>2 DEF setup_tlb, PomDone
  <2>. QED BY <1>2, <2>1, TlbStep, PcixKept
<1>3. CASE SetStack
  <2>1. MapTypeOK' BY <1>3 DEF SetStack, MapTypeOK
  <2>2. \A e \in 0 .. 63 : Words(e)' = Words(e) BY <1>3 DEF SetStack, Words, Written, pages
  <2>3. TlbInv' BY <2>2, <1>3, TlbKept DEF SetStack
  <2>4. PomDone = 0 /\ PomDone' = 0 BY <1>3 DEF SetStack, PomDone, MapTypeOK
  <2>. QED BY <1>3, <2>1, <2>3, <2>4, PcixKept DEF SetStack
<1>4. CASE setup_pom
  <2>1. \A e \in 0 .. 63 : Words(e)' = Words(e) BY <1>4 DEF setup_pom, Words, Written, pages
  <2>2. TlbInv' BY <2>1, <1>4, TlbKept DEF setup_pom
  <2>. QED BY <1>4, <2>2, PomStep
<1>5. CASE MapDone \/ UNCHANGED mapVars
  <2>1. UNCHANGED mapVars BY <1>5 DEF MapDone
  <2>2. \A e \in 0 .. 63 : Words(e)' = Words(e) BY <2>1 DEF mapVars, Words, Written, pages, Turn
  <2>3. MapTypeOK' BY <2>1 DEF mapVars, MapTypeOK, pages
  <2>4. TlbInv' BY <2>1, <2>2, TlbKept DEF mapVars
  <2>5. PcixInv' BY <2>1, PcixKept DEF mapVars, PomDone
  <2>. QED BY <2>3, <2>4, <2>5
<1>. QED BY <1>1, <1>2, <1>3, <1>4, <1>5 DEF MapNext

-----------------------------------------------------------------------------
(* Where the entries of the table are, in KiB. *)
LEMMA TableSpans ==
    ASSUME NEW e \in 0 .. 14
    PROVE  \/ e = 0 /\ Frame(e).epn = 3932160 /\ Frame(e).size = 262144
           \/ e = 1 /\ Frame(e).epn = 3407872 /\ Frame(e).size = 262144
           \/ e = 2 /\ Frame(e).epn = 2097152 /\ Frame(e).size = 262144
           \/ e = 3 /\ Frame(e).epn = 2359296 /\ Frame(e).size = 262144
           \/ e = 4 /\ Frame(e).epn = 2621440 /\ Frame(e).size = 262144
           \/ e = 5 /\ Frame(e).epn = 2883584 /\ Frame(e).size = 262144
           \/ e = 6 /\ Frame(e).epn = 3145728 /\ Frame(e).size = 262144
           \/ e = 7 /\ Frame(e).epn = 3670016 /\ Frame(e).size = 16384
           \/ e = 8 /\ Frame(e).epn = 3686400 /\ Frame(e).size = 16384
           \/ e = 9 /\ Frame(e).epn = 3719168 /\ Frame(e).size = 1
           \/ e = 10 /\ Frame(e).epn = 3719172 /\ Frame(e).size = 1
           \/ e = 11 /\ Frame(e).epn = 3735552 /\ Frame(e).size = 16
           \/ e = 12 /\ Frame(e).epn = 3751936 /\ Frame(e).size = 1024
           \/ e = 13 /\ Frame(e).epn = 3915776 /\ Frame(e).size = 16384
           \/ e = 14 /\ Frame(e).epn = 3702784 /\ Frame(e).size = 1024
<1>1. CASE e = 0
  <2>1. Frame(e) = PageFrame(At(\hF0), TLB_256M, At(\hF0), \h4, "rwx") BY <1>1, SMT DEF Frame, tlbtab
  <2>2. Frame(e).epn = 3932160 /\ Frame(e).size = 262144 BY <2>1, SMT DEF PageFrame, At, TLB_16M, M, TLB_256M
  <2>. QED BY <1>1, <2>2, SMT
<1>2. CASE e = 1
  <2>1. Frame(e) = PageFrame(At(\hD0), TLB_256M, 0, \hC, "rw") BY <1>2, SMT DEF Frame, tlbtab
  <2>2. Frame(e).epn = 3407872 /\ Frame(e).size = 262144 BY <2>1, SMT DEF PageFrame, At, TLB_16M, M, TLB_256M
  <2>. QED BY <1>2, <2>2, SMT
<1>3. CASE e = 2
  <2>1. Frame(e) = PageFrame(At(\h80), TLB_256M, At(\h80), \hC, "rw") BY <1>3, SMT DEF Frame, tlbtab
  <2>2. Frame(e).epn = 2097152 /\ Frame(e).size = 262144 BY <2>1, SMT DEF PageFrame, At, TLB_16M, M, TLB_256M
  <2>. QED BY <1>3, <2>2, SMT
<1>4. CASE e = 3
  <2>1. Frame(e) = PageFrame(At(\h90), TLB_256M, At(\h90), \hC, "rw") BY <1>4, SMT DEF Frame, tlbtab
  <2>2. Frame(e).epn = 2359296 /\ Frame(e).size = 262144 BY <2>1, SMT DEF PageFrame, At, TLB_16M, M, TLB_256M
  <2>. QED BY <1>4, <2>2, SMT
<1>5. CASE e = 4
  <2>1. Frame(e) = PageFrame(At(\hA0), TLB_256M, At(\hA0), \hD, "rw") BY <1>5, SMT DEF Frame, tlbtab
  <2>2. Frame(e).epn = 2621440 /\ Frame(e).size = 262144 BY <2>1, SMT DEF PageFrame, At, TLB_16M, M, TLB_256M
  <2>. QED BY <1>5, <2>2, SMT
<1>6. CASE e = 5
  <2>1. Frame(e) = PageFrame(At(\hB0), TLB_256M, At(\hB0), \hD, "rw") BY <1>6, SMT DEF Frame, tlbtab
  <2>2. Frame(e).epn = 2883584 /\ Frame(e).size = 262144 BY <2>1, SMT DEF PageFrame, At, TLB_16M, M, TLB_256M
  <2>. QED BY <1>6, <2>2, SMT
<1>7. CASE e = 6
  <2>1. Frame(e) = PageFrame(At(\hC0), TLB_256M, At(\hC0), \hD, "rw") BY <1>7, SMT DEF Frame, tlbtab
  <2>2. Frame(e).epn = 3145728 /\ Frame(e).size = 262144 BY <2>1, SMT DEF PageFrame, At, TLB_16M, M, TLB_256M
  <2>. QED BY <1>7, <2>2, SMT
<1>8. CASE e = 7
  <2>1. Frame(e) = PageFrame(At(\hE0), TLB_16M, 0, \hD, "rw") BY <1>8, SMT DEF Frame, tlbtab
  <2>2. Frame(e).epn = 3670016 /\ Frame(e).size = 16384 BY <2>1, SMT DEF PageFrame, At, TLB_16M, M
  <2>. QED BY <1>8, <2>2, SMT
<1>9. CASE e = 8
  <2>1. Frame(e) = PageFrame(At(\hE1), TLB_16M, At(\h20), \hD, "rw") BY <1>9, SMT DEF Frame, tlbtab
  <2>2. Frame(e).epn = 3686400 /\ Frame(e).size = 16384 BY <2>1, SMT DEF PageFrame, At, TLB_16M, M
  <2>. QED BY <1>9, <2>2, SMT
<1>10. CASE e = 9
  <2>1. Frame(e) = PageFrame(At(\hE3), TLB_1K, At(\h10), \hD, "rw") BY <1>10, SMT DEF Frame, tlbtab
  <2>2. Frame(e).epn = 3719168 /\ Frame(e).size = 1 BY <2>1, SMT DEF PageFrame, At, TLB_16M, M, TLB_1K
  <2>. QED BY <1>10, <2>2, SMT
<1>11. CASE e = 10
  <2>1. Frame(e) = PageFrame(At(\hE3) + 4, TLB_1K, At(\h30), \hD, "rw") BY <1>11, SMT DEF Frame, tlbtab
  <2>2. Frame(e).epn = 3719172 /\ Frame(e).size = 1 BY <2>1, SMT DEF PageFrame, At, TLB_16M, M, TLB_1K
  <2>. QED BY <1>11, <2>2, SMT
<1>12. CASE e = 11
  <2>1. Frame(e) = PageFrame(At(\hE4), TLB_16K, At(\h08) + 64, \hC, "rw") BY <1>12, SMT DEF Frame, tlbtab
  <2>2. Frame(e).epn = 3735552 /\ Frame(e).size = 16 BY <2>1, SMT DEF PageFrame, At, TLB_16M, M, TLB_16K
  <2>. QED BY <1>12, <2>2, SMT
<1>13. CASE e = 12
  <2>1. Frame(e) = PageFrame(At(\hE5), TLB_1M, 0, \h4, "rwx") BY <1>13, SMT DEF Frame, tlbtab
  <2>2. Frame(e).epn = 3751936 /\ Frame(e).size = 1024 BY <2>1, SMT DEF PageFrame, At, TLB_16M, M, TLB_1M
  <2>. QED BY <1>13, <2>2, SMT
<1>14. CASE e = 13
  <2>1. Frame(e) = PageFrame(At(\hEF), TLB_16M, At(\hEF), \h4, "rwx") BY <1>14, SMT DEF Frame, tlbtab
  <2>2. Frame(e).epn = 3915776 /\ Frame(e).size = 16384 BY <2>1, SMT DEF PageFrame, At, TLB_16M, M
  <2>. QED BY <1>14, <2>2, SMT
<1>15. CASE e = 14
  <2>1. Frame(e) = PageFrame(At(\hE2), TLB_1M, At(\hC0) - M, \h4, "rwx") BY <1>15, SMT DEF Frame, tlbtab
  <2>2. Frame(e).epn = 3702784 /\ Frame(e).size = 1024 BY <2>1, SMT DEF PageFrame, At, TLB_16M, M, TLB_1M
  <2>. QED BY <1>15, <2>2, SMT
<1>. QED BY <1>1, <1>2, <1>3, <1>4, <1>5, <1>6, <1>7, <1>8, <1>9, <1>10, <1>11, <1>12, <1>13, <1>14, <1>15, SMT

LEMMA TableAbove ==
    ASSUME NEW e \in 0 .. 14
    PROVE  Frame(e).epn \in Nat /\ Frame(e).size \in Nat /\ Frame(e).epn >= 8 * TLB_256M
<1>1. 8 * TLB_256M = 2097152 BY SMT DEF TLB_256M, M
<1>. QED BY <1>1, TableSpans, SMT

LEMMA PciFrames ==
    /\ Frame(2).epn = 2097152 /\ Frame(2).size = 262144 /\ Frame(2).pa = <<12, 2097152>> /\ Frame(2).acc = "rw"
    /\ Frame(3).epn = 2359296 /\ Frame(3).size = 262144 /\ Frame(3).pa = <<12, 2359296>> /\ Frame(3).acc = "rw"
BY SMT DEF Frame, tlbtab, PageFrame, At, TLB_256M, TLB_16M, M

LEMMA TableApart ==
    ASSUME NEW e \in 0 .. 14, NEW f \in 0 .. 14, e # f
    PROVE  Frame(e).epn + Frame(e).size <= Frame(f).epn \/ Frame(f).epn + Frame(f).size <= Frame(e).epn
<1>1. CASE e = 0
  <2>1. Frame(e).epn = 3932160 /\ Frame(e).size = 262144 BY <1>1, TableSpans, SMT
  <2>. QED BY <1>1, <2>1, TableSpans, SMT
<1>2. CASE e = 1
  <2>1. Frame(e).epn = 3407872 /\ Frame(e).size = 262144 BY <1>2, TableSpans, SMT
  <2>. QED BY <1>2, <2>1, TableSpans, SMT
<1>3. CASE e = 2
  <2>1. Frame(e).epn = 2097152 /\ Frame(e).size = 262144 BY <1>3, TableSpans, SMT
  <2>. QED BY <1>3, <2>1, TableSpans, SMT
<1>4. CASE e = 3
  <2>1. Frame(e).epn = 2359296 /\ Frame(e).size = 262144 BY <1>4, TableSpans, SMT
  <2>. QED BY <1>4, <2>1, TableSpans, SMT
<1>5. CASE e = 4
  <2>1. Frame(e).epn = 2621440 /\ Frame(e).size = 262144 BY <1>5, TableSpans, SMT
  <2>. QED BY <1>5, <2>1, TableSpans, SMT
<1>6. CASE e = 5
  <2>1. Frame(e).epn = 2883584 /\ Frame(e).size = 262144 BY <1>6, TableSpans, SMT
  <2>. QED BY <1>6, <2>1, TableSpans, SMT
<1>7. CASE e = 6
  <2>1. Frame(e).epn = 3145728 /\ Frame(e).size = 262144 BY <1>7, TableSpans, SMT
  <2>. QED BY <1>7, <2>1, TableSpans, SMT
<1>8. CASE e = 7
  <2>1. Frame(e).epn = 3670016 /\ Frame(e).size = 16384 BY <1>8, TableSpans, SMT
  <2>. QED BY <1>8, <2>1, TableSpans, SMT
<1>9. CASE e = 8
  <2>1. Frame(e).epn = 3686400 /\ Frame(e).size = 16384 BY <1>9, TableSpans, SMT
  <2>. QED BY <1>9, <2>1, TableSpans, SMT
<1>10. CASE e = 9
  <2>1. Frame(e).epn = 3719168 /\ Frame(e).size = 1 BY <1>10, TableSpans, SMT
  <2>. QED BY <1>10, <2>1, TableSpans, SMT
<1>11. CASE e = 10
  <2>1. Frame(e).epn = 3719172 /\ Frame(e).size = 1 BY <1>11, TableSpans, SMT
  <2>. QED BY <1>11, <2>1, TableSpans, SMT
<1>12. CASE e = 11
  <2>1. Frame(e).epn = 3735552 /\ Frame(e).size = 16 BY <1>12, TableSpans, SMT
  <2>. QED BY <1>12, <2>1, TableSpans, SMT
<1>13. CASE e = 12
  <2>1. Frame(e).epn = 3751936 /\ Frame(e).size = 1024 BY <1>13, TableSpans, SMT
  <2>. QED BY <1>13, <2>1, TableSpans, SMT
<1>14. CASE e = 13
  <2>1. Frame(e).epn = 3915776 /\ Frame(e).size = 16384 BY <1>14, TableSpans, SMT
  <2>. QED BY <1>14, <2>1, TableSpans, SMT
<1>15. CASE e = 14
  <2>1. Frame(e).epn = 3702784 /\ Frame(e).size = 1024 BY <1>15, TableSpans, SMT
  <2>. QED BY <1>15, <2>1, TableSpans, SMT
<1>. QED BY <1>1, <1>2, <1>3, <1>4, <1>5, <1>6, <1>7, <1>8, <1>9, <1>10, <1>11, <1>12, <1>13, <1>14, <1>15, SMT

LEMMA SdramFrames ==
    ASSUME NEW e \in 15 .. 63
    PROVE  /\ Frame(e).epn = (e - 15) * TLB_256M /\ Frame(e).size = TLB_256M
           /\ Frame(e).pa = <<0, (e - 15) * TLB_256M>> /\ Frame(e).acc = "rwx"
BY DEF Frame, PageFrame

LEMMA BeforeFrames ==
    /\ Before(0).valid = TRUE /\ Before(0).epn = 0 /\ Before(0).size = 8 * TLB_256M
    /\ Before(0).pa = <<0, 0>> /\ Before(0).acc = "rwx"
    /\ \A e \in 1 .. 63 : Before(e).valid = FALSE /\ Before(e).pa = <<0, 0>>
BY DEF Before, PageFrame, Unused

LEMMA WordsType ==
    ASSUME MapTypeOK, NEW e \in 0 .. 63
    PROVE  Words(e) \in 0 .. 3
BY DEF MapTypeOK, Words

(* An entry, field by field. *)
LEMMA EntryUnwritten ==
    ASSUME MapTypeOK, TlbInv, NEW e \in 0 .. 63, Words(e) = 0
    PROVE  /\ tlb[e].valid = Before(e).valid /\ tlb[e].epn = Before(e).epn
           /\ tlb[e].size = Before(e).size /\ tlb[e].pa = Before(e).pa /\ tlb[e].acc = Before(e).acc
<1>1. tlb[e] = EntryAt(e) BY DEF TlbInv
<1>2. Words(e) \in 0 .. 3 BY WordsType
<1>. QED BY <1>1, <1>2 DEF EntryAt

LEMMA EntryPlaced ==
    ASSUME MapTypeOK, TlbInv, NEW e \in 0 .. 63, Words(e) # 0
    PROVE  /\ tlb[e].valid = TRUE /\ tlb[e].epn = Frame(e).epn /\ tlb[e].size = Frame(e).size
           /\ tlb[e].pa \in {Frame(e).pa, Before(e).pa}
<1>1. tlb[e] = EntryAt(e) BY DEF TlbInv
<1>2. Words(e) \in 0 .. 3 BY WordsType
<1>3. Words(e) > 0 BY <1>2
<1>4. tlb[e].pa = IF Words(e) > 1 THEN Frame(e).pa ELSE Before(e).pa BY <1>1 DEF EntryAt
<1>. QED BY <1>1, <1>3, <1>4 DEF EntryAt

LEMMA EntryWritten ==
    ASSUME MapTypeOK, TlbInv, NEW e \in 0 .. 63, Words(e) = 3
    PROVE  /\ tlb[e].valid = TRUE /\ tlb[e].epn = Frame(e).epn /\ tlb[e].size = Frame(e).size
           /\ tlb[e].pa = Frame(e).pa /\ tlb[e].acc = Frame(e).acc
<1>1. tlb[e] = EntryAt(e) BY DEF TlbInv
<1>2. Words(e) \in 0 .. 3 BY WordsType
<1>. QED BY <1>1, <1>2 DEF EntryAt

LEMMA PageSize == TLB_256M \in Nat /\ TLB_256M > 0
BY DEF TLB_256M, M

(* Low addresses are in QEMU's entry 0 until that gives way, and in the    *)
(* first page of the memory, which is complete by then.                    *)
LEMMA LowMapped ==
    ASSUME MapTypeOK, TlbInv, NEW a \in Nat, a < TLB_256M
    PROVE  Translated(a, <<0, a>>, {"rwx"})
<1>1. pages \in 1 .. 15 BY PagesType DEF MapTypeOK
<1>2. ASSUME NEW e \in 0 .. 63, Covers(e, a) PROVE To(e, a) = <<0, a>>
  <2>1. Words(e) \in 0 .. 3 BY WordsType
  <2>2. CASE Words(e) = 0
    <3>0. tlb[e].valid = Before(e).valid /\ tlb[e].pa = Before(e).pa /\ tlb[e].epn = Before(e).epn
      BY <2>2, EntryUnwritten
    <3>4. tlb[e].valid BY <1>2, Zenon DEF Covers
    <3>5. ~ (e \in 1 .. 63)
      <4>. SUFFICES ASSUME e \in 1 .. 63 PROVE FALSE OBVIOUS
      <4>1. Before(e).valid = FALSE BY BeforeFrames, Zenon
      <4>. QED BY <3>0, <3>4, <4>1, Zenon
    <3>1. e = 0 BY <3>5
    <3>2. tlb[e].pa = <<0, 0>> /\ tlb[e].epn = 0 BY <3>0, <3>1, BeforeFrames
    <3>. QED BY <3>2 DEF To
  <2>3. CASE Words(e) # 0
    <3>5. tlb[e].epn = Frame(e).epn /\ tlb[e].pa \in {Frame(e).pa, Before(e).pa}
      BY <2>3, EntryPlaced, Zenon
    <3>0. tlb[e].epn = Frame(e).epn /\ tlb[e].epn <= a BY <3>5, <1>2, Zenon DEF Covers
    <3>1. ~ (e < 15)
      <4>. SUFFICES ASSUME e < 15 PROVE FALSE OBVIOUS
      <4>1. e \in 0 .. 14 OBVIOUS
      <4>2. Frame(e).epn \in Nat /\ Frame(e).epn >= 8 * TLB_256M BY <4>1, TableAbove
      <4>. QED BY <3>0, <4>2, PageSize
    <3>6. e \in 15 .. 63 BY <3>1
    <3>2. Frame(e).epn = (e - 15) * TLB_256M BY <3>6, SdramFrames, Zenon
    <3>3. e = 15
      <4>1. (e - 15) * TLB_256M < TLB_256M BY <3>0, <3>2, PageSize
      <4>2. PICK k \in 0 .. 48 : k = e - 15 BY <3>6
      <4>3. k * TLB_256M < TLB_256M BY <4>1, <4>2
      <4>4. k = 0 BY <4>3 DEF TLB_256M, M
      <4>. QED BY <4>2, <4>4
    <3>4. tlb[e].pa = <<0, 0>> /\ tlb[e].epn = 0
      <4>3. 15 \in 15 .. 63 /\ (15 - 15) * TLB_256M = 0 BY PageSize
      <4>1. Frame(15).pa = <<0, 0>> /\ Frame(15).epn = 0 BY <4>3, SdramFrames
      <4>2. Before(15).pa = <<0, 0>> BY BeforeFrames
      <4>. QED BY <3>3, <3>5, <4>1, <4>2
    <3>. QED BY <3>4 DEF To
  <2>. QED BY <2>1, <2>2, <2>3
<1>3. \E e \in 0 .. 63 : Covers(e, a) /\ tlb[e].acc \in {"rwx"}
  <2>1. CASE Words(0) = 0
    <3>1. /\ tlb[0].valid = TRUE /\ tlb[0].epn = 0 /\ tlb[0].size = 8 * TLB_256M /\ tlb[0].acc = "rwx"
      BY <2>1, EntryUnwritten, BeforeFrames
    <3>2. Covers(0, a) BY <3>1, PageSize DEF Covers
    <3>. QED BY <3>1, <3>2
  <2>2. CASE Words(0) # 0
    <3>1. Words(15) = 3
      <4>1. stage # "fdt" /\ (Written \/ Turn(0) <= step)
        BY <2>2, <1>1 DEF Words, Turn, MapTypeOK
      <4>2. Turn(0) = pages + 1 /\ Turn(15) = 1 BY <1>1 DEF Turn
      <4>. QED BY <4>1, <4>2, <1>1 DEF Words, MapTypeOK
    <3>2. tlb[15].valid = TRUE /\ tlb[15].epn = 0 /\ tlb[15].size = TLB_256M /\ tlb[15].acc = "rwx"
      <4>1. Frame(15).epn = 0 /\ Frame(15).size = TLB_256M /\ Frame(15).acc = "rwx"
        <5>1. 15 \in 15 .. 63 /\ (15 - 15) * TLB_256M = 0 BY PageSize
        <5>. QED BY <5>1, SdramFrames
      <4>2. 15 \in 0 .. 63 OBVIOUS
      <4>. QED BY <3>1, <4>1, <4>2, EntryWritten, Zenon
    <3>3. Covers(15, a) BY <3>2, PageSize DEF Covers
    <3>. QED BY <3>2, <3>3
  <2>. QED BY <2>1, <2>2
<1>. QED BY <1>2, <1>3 DEF Translated

LEMMA MapInvCode == MapInv => CodeStaysMapped
<1>. SUFFICES ASSUME MapInv, NEW a \in {2 * M, 16 * M - 1} PROVE Translated(a, <<0, a>>, {"rwx"})
  BY DEF CodeStaysMapped
<1>1. a \in Nat /\ a < TLB_256M BY DEF M, TLB_256M
<1>. QED BY <1>1, LowMapped DEF MapInv

(***************************************************************************)
(* Between any two words setup_tlb() writes, the code and its stack stay   *)
(* mapped where they are, for every size of the memory.                    *)
(***************************************************************************)
THEOREM CodeMapped == MapSpec => []CodeStaysMapped
<1>1. MapInit => MapInv BY MapInitInv
<1>2. MapInv /\ [MapNext]_mapVars => MapInv' BY MapStepInv
<1>3. MapInv => CodeStaysMapped BY MapInvCode
<1>. QED BY <1>1, <1>2, <1>3, PTL DEF MapSpec

-----------------------------------------------------------------------------
(* Entries once the TLB is written. *)
LEMMA WrittenEntries ==
    ASSUME MapTypeOK, TlbInv, Written, NEW e \in 0 .. 63
    PROVE  /\ e < 15 + pages => /\ tlb[e].valid = TRUE /\ tlb[e].epn = Frame(e).epn
                                /\ tlb[e].size = Frame(e).size /\ tlb[e].pa = Frame(e).pa
                                /\ tlb[e].acc = Frame(e).acc
           /\ e >= 15 + pages => tlb[e].valid = FALSE
<1>1. pages \in 1 .. 15 BY PagesType DEF MapTypeOK
<1>2. e < 15 + pages => Words(e) = 3 BY <1>1 DEF Words, Written
<1>3. e >= 15 + pages => Words(e) = 0 BY <1>1 DEF Words
<1>4. e >= 15 + pages => e \in 1 .. 63 BY <1>1
<1>5. ASSUME e < 15 + pages
      PROVE  /\ tlb[e].valid = TRUE /\ tlb[e].epn = Frame(e).epn
             /\ tlb[e].size = Frame(e).size /\ tlb[e].pa = Frame(e).pa
             /\ tlb[e].acc = Frame(e).acc
  BY <1>2, <1>5, EntryWritten
<1>6. ASSUME e >= 15 + pages PROVE tlb[e].valid = FALSE
  <2>1. tlb[e].valid = Before(e).valid BY <1>3, <1>6, EntryUnwritten
  <2>. QED BY <2>1, <1>4, <1>6, BeforeFrames
<1>. QED BY <1>5, <1>6

LEMMA SdramApart ==
    ASSUME NEW j \in Nat, NEW k \in Nat
    PROVE  /\ j < k => j * TLB_256M + TLB_256M <= k * TLB_256M
           /\ j < 8 => j * TLB_256M + TLB_256M <= 8 * TLB_256M
           /\ j * TLB_256M \in Nat
BY DEF TLB_256M, M

LEMMA WrittenApart ==
    ASSUME MapTypeOK, TlbInv, Written, memsize <= 8 * TLB_256M
    PROVE  NoneMappedTwice
<1>. SUFFICES ASSUME NEW e \in 0 .. 63, NEW f \in 0 .. 63, e # f, tlb[e].valid, tlb[f].valid
              PROVE  tlb[e].epn + tlb[e].size <= tlb[f].epn \/ tlb[f].epn + tlb[f].size <= tlb[e].epn
  BY Zenon DEF NoneMappedTwice
<1>1. pages \in 1 .. 8 BY PagesType DEF MapTypeOK
<1>2. e < 15 + pages /\ f < 15 + pages
  <2>1. ~ (e >= 15 + pages) /\ ~ (f >= 15 + pages) BY WrittenEntries, Zenon
  <2>. QED BY <2>1, <1>1
<1>3. /\ tlb[e].epn = Frame(e).epn /\ tlb[e].size = Frame(e).size
      /\ tlb[f].epn = Frame(f).epn /\ tlb[f].size = Frame(f).size
  BY <1>2, WrittenEntries, Zenon
<1>4. ASSUME NEW x \in 0 .. 63, x < 15 + pages, ~ (x < 15)
      PROVE  \E k \in 0 .. 7 : x = k + 15 /\ Frame(x).epn = k * TLB_256M /\ Frame(x).size = TLB_256M
  <2>1. x \in 15 .. 63 /\ x - 15 \in 0 .. 7 /\ x = (x - 15) + 15 BY <1>1, <1>4
  <2>2. Frame(x).epn = (x - 15) * TLB_256M /\ Frame(x).size = TLB_256M BY <2>1, SdramFrames, Zenon
  <2>. QED BY <2>1, <2>2, Zenon
<1>5. CASE e < 15 /\ f < 15 BY <1>3, <1>5, TableApart
<1>6. CASE e < 15 /\ ~ (f < 15)
  <2>1. PICK k \in 0 .. 7 : Frame(f).epn = k * TLB_256M /\ Frame(f).size = TLB_256M BY <1>2, <1>4, <1>6, Zenon
  <2>2. Frame(e).epn \in Nat /\ Frame(e).epn >= 8 * TLB_256M BY <1>6, TableAbove
  <2>3. k * TLB_256M + TLB_256M <= 8 * TLB_256M /\ k * TLB_256M \in Nat BY SdramApart
  <2>4. tlb[f].epn + tlb[f].size <= tlb[e].epn BY <1>3, <2>1, <2>2, <2>3, PageSize
  <2>. QED BY <2>4
<1>7. CASE ~ (e < 15) /\ f < 15
  <2>1. PICK k \in 0 .. 7 : Frame(e).epn = k * TLB_256M /\ Frame(e).size = TLB_256M BY <1>2, <1>4, <1>7, Zenon
  <2>2. Frame(f).epn \in Nat /\ Frame(f).epn >= 8 * TLB_256M BY <1>7, TableAbove
  <2>3. k * TLB_256M + TLB_256M <= 8 * TLB_256M /\ k * TLB_256M \in Nat BY SdramApart
  <2>4. tlb[e].epn + tlb[e].size <= tlb[f].epn BY <1>3, <2>1, <2>2, <2>3, PageSize
  <2>. QED BY <2>4
<1>8. CASE ~ (e < 15) /\ ~ (f < 15)
  <2>1. PICK j \in 0 .. 7 : e = j + 15 /\ Frame(e).epn = j * TLB_256M /\ Frame(e).size = TLB_256M
    BY <1>2, <1>4, <1>8, Zenon
  <2>2. PICK k \in 0 .. 7 : f = k + 15 /\ Frame(f).epn = k * TLB_256M /\ Frame(f).size = TLB_256M
    BY <1>2, <1>4, <1>8, Zenon
  <2>3. j < k \/ k < j BY <2>1, <2>2
  <2>4. j * TLB_256M + TLB_256M <= k * TLB_256M \/ k * TLB_256M + TLB_256M <= j * TLB_256M
    BY <2>3, SdramApart
  <2>. QED BY <1>3, <2>1, <2>2, <2>4, Zenon
<1>. QED BY <1>5, <1>6, <1>7, <1>8

(* Every address of the memory is in its page and in no other entry. *)
LEMMA WrittenMapped ==
    ASSUME MapTypeOK, TlbInv, Written, memsize <= 8 * TLB_256M, NEW a \in Nat, a < memsize
    PROVE  Translated(a, <<0, a>>, {"rwx"}) /\ \A e \in 0 .. 14 : ~ Covers(e, a)
<1>1. pages \in 1 .. 8 /\ memsize \in Nat /\ memsize <= pages * TLB_256M
  BY PagesType DEF MapTypeOK
<1>2. PICK k \in 0 .. pages - 1 : k * TLB_256M <= a /\ a < k * TLB_256M + TLB_256M
  <2>. DEFINE k == a \div TLB_256M
  <2>1. k \in Nat /\ k * TLB_256M <= a /\ a < k * TLB_256M + TLB_256M BY DEF TLB_256M, M
  <2>2. k < pages
    <3>. HIDE DEF k
    <3>1. PICK q \in 1 .. 8 : pages = q BY <1>1
    <3>2. k * TLB_256M < q * TLB_256M BY <2>1, <1>1, <3>1, PageSize
    <3>3. k < q BY <2>1, <3>2 DEF TLB_256M, M
    <3>. QED BY <3>1, <3>3
  <2>3. k \in 0 .. pages - 1
    <3>. HIDE DEF k
    <3>. QED BY <2>1, <2>2, <1>1
  <2>. QED BY <2>1, <2>3, Zenon
<1>3. k + 15 \in 15 .. 63 /\ k + 15 \in 0 .. 63 /\ k + 15 < 15 + pages /\ (k + 15) - 15 = k BY <1>1
<1>4. /\ tlb[k + 15].valid = TRUE /\ tlb[k + 15].epn = k * TLB_256M /\ tlb[k + 15].size = TLB_256M
      /\ tlb[k + 15].acc = "rwx"
  <2>1. /\ Frame(k + 15).epn = ((k + 15) - 15) * TLB_256M /\ Frame(k + 15).size = TLB_256M
        /\ Frame(k + 15).acc = "rwx"
    BY <1>3, SdramFrames, Zenon
  <2>2. Frame(k + 15).epn = k * TLB_256M BY <2>1, <1>3, Zenon
  <2>3. /\ tlb[k + 15].valid = TRUE /\ tlb[k + 15].epn = Frame(k + 15).epn
        /\ tlb[k + 15].size = Frame(k + 15).size /\ tlb[k + 15].acc = Frame(k + 15).acc
    BY <1>3, WrittenEntries, Zenon
  <2>. QED BY <2>1, <2>2, <2>3, Zenon
<1>5. Covers(k + 15, a) BY <1>2, <1>4, Zenon DEF Covers
<1>6. \A e \in 0 .. 14 : ~ Covers(e, a)
  <2>. SUFFICES ASSUME NEW e \in 0 .. 14 PROVE ~ (tlb[e].epn <= a) BY DEF Covers
  <2>1. e \in 0 .. 63 /\ e < 15 + pages BY <1>1
  <2>2. tlb[e].epn = Frame(e).epn BY <2>1, WrittenEntries
  <2>3. Frame(e).epn \in Nat /\ Frame(e).epn >= 8 * TLB_256M BY TableAbove
  <2>. QED BY <2>2, <2>3, <1>1, PageSize
<1>7. ASSUME NEW e \in 0 .. 63, Covers(e, a) PROVE To(e, a) = <<0, a>>
  <2>0. ~ (e >= 15 + pages) BY <1>7, WrittenEntries, Zenon DEF Covers
  <2>1. e < 15 + pages BY <2>0, <1>1
  <2>4. ~ (e \in 0 .. 14) BY <1>6, <1>7, Zenon
  <2>2. e \in 15 .. 63 BY <2>4
  <2>5. Frame(e).epn = (e - 15) * TLB_256M /\ Frame(e).pa = <<0, (e - 15) * TLB_256M>>
    BY <2>2, SdramFrames, Zenon
  <2>3. tlb[e].epn = (e - 15) * TLB_256M /\ tlb[e].pa = <<0, (e - 15) * TLB_256M>>
    BY <2>1, <2>5, WrittenEntries, Zenon
  <2>6. (e - 15) * TLB_256M \in Nat BY <2>2, PageSize
  <2>. QED BY <2>3, <2>6 DEF To
<1>8. Translated(a, <<0, a>>, {"rwx"})
  <2>2. \E e \in 0 .. 63 : Covers(e, a) /\ tlb[e].acc \in {"rwx"} BY <1>3, <1>4, <1>5
  <2>. QED BY <1>7, <2>2 DEF Translated
<1>. QED BY <1>6, <1>8

-----------------------------------------------------------------------------
(* The size is one of the tree or the default, and the stack is under it. *)
StackInv ==
    /\ memsize \in MemSizes \cup {512 * M}
    /\ stage \in {"pom", "end"} => stack_top = (RamTop - M) % GiB4

LEMMA StackStepInv == StackInv /\ [MapNext]_mapVars => StackInv'
<1>. SUFFICES ASSUME StackInv, [MapNext]_mapVars PROVE StackInv' OBVIOUS
<1>1. CASE ReadFdt BY <1>1 DEF ReadFdt, StackInv
<1>2. CASE setup_tlb
  <2>1. stage' \in {"stack", "tlb"} /\ memsize' = memsize BY <1>2, Zenon DEF setup_tlb
  <2>. QED BY <2>1 DEF StackInv
<1>3. CASE SetStack BY <1>3 DEF SetStack, StackInv, RamTop
<1>4. CASE setup_pom BY <1>4 DEF setup_pom, StackInv, RamTop
<1>5. CASE MapDone \/ UNCHANGED mapVars BY <1>5 DEF MapDone, mapVars, StackInv, RamTop
<1>. QED BY <1>1, <1>2, <1>3, <1>4, <1>5 DEF MapNext

(* Every address of the memory, not only those at the ends of its pages. *)
AllMemoryMapped ==
    Written => \A a \in 0 .. memsize - 1 :
                  Translated(a, <<0, a>>, {"rwx"}) /\ \A e \in 0 .. 14 : ~ Covers(e, a)

(* The sizes Sam460ex boards and QEMU's model of them have. *)
SamSize(m) == M < m /\ m <= 8 * TLB_256M

LEMMA SizesFit ==
    ASSUME \A m \in MemSizes : SamSize(m), StackInv
    PROVE  memsize \in Nat /\ SamSize(memsize)
<1>1. SamSize(512 * M) /\ 512 * M \in Nat BY DEF SamSize, TLB_256M, M
<1>. QED BY <1>1, SamMapAssumption DEF StackInv

LEMMA MapInvMemory ==
    ASSUME \A m \in MemSizes : SamSize(m), MapInv, StackInv
    PROVE  AllMemoryMapped /\ NoneMappedTwice /\ StackInMemory
<1>1. memsize \in Nat /\ SamSize(memsize) BY SizesFit
<1>2. MapTypeOK /\ TlbInv BY DEF MapInv
<1>3. memsize <= 8 * TLB_256M BY <1>1 DEF SamSize
<1>4. AllMemoryMapped
  <2>. SUFFICES ASSUME Written, NEW a \in 0 .. memsize - 1
                PROVE  Translated(a, <<0, a>>, {"rwx"}) /\ \A e \in 0 .. 14 : ~ Covers(e, a)
    BY Zenon DEF AllMemoryMapped
  <2>1. a \in Nat /\ a < memsize BY <1>1
  <2>. QED BY <1>2, <1>3, <2>1, WrittenMapped, Zenon
<1>5. NoneMappedTwice
  <2>1. CASE Written BY <1>2, <1>3, <2>1, WrittenApart, Zenon
  <2>2. CASE ~ Written BY <2>2, Zenon DEF NoneMappedTwice
  <2>. QED BY <2>1, <2>2
<1>6. StackInMemory
  <2>. SUFFICES ASSUME stage \in {"pom", "end"}
                PROVE  stack_top - 1 < memsize /\ Translated(stack_top - 1, <<0, stack_top - 1>>, {"rwx"})
    BY Zenon DEF StackInMemory
  <2>1. RamTop = memsize
    <3>1. ~ (memsize > 8 * TLB_256M) BY <1>1, <1>3, PageSize
    <3>. QED BY <3>1, Zenon DEF RamTop
  <2>2. stack_top = (memsize - M) % GiB4 BY <2>1, Zenon DEF StackInv
  <2>3. (memsize - M) % GiB4 = memsize - M BY <1>1 DEF SamSize, GiB4, TLB_256M, M
  <2>4. stack_top - 1 \in 0 .. memsize - 1 /\ stack_top - 1 < memsize
    BY <1>1, <2>2, <2>3 DEF SamSize, M
  <2>5. Written BY DEF Written
  <2>. QED BY <1>4, <2>4, <2>5, Zenon DEF AllMemoryMapped
<1>. QED BY <1>4, <1>5, <1>6

LEMMA AllBorders == ASSUME AllMemoryMapped, memsize \in Nat, SamSize(memsize) PROVE MemoryMapped
<1>. SUFFICES ASSUME Written, NEW a \in Borders(memsize)
              PROVE  Translated(a, <<0, a>>, {"rwx"}) /\ \A e \in 0 .. ntab - 1 : ~ Covers(e, a)
  BY Zenon DEF MemoryMapped
<1>1. ntab - 1 = 14 BY TableLength
<1>2. a \in Int /\ a < memsize BY DEF Borders, TLB_256M, M
<1>3. a >= 0 BY DEF Borders, SamSize, TLB_256M, M
<1>4. a \in 0 .. memsize - 1 BY <1>2, <1>3
<1>. QED BY <1>1, <1>4, Zenon DEF AllMemoryMapped

(***************************************************************************)
(* Once setup_tlb() is done: no address is translated twice, memory is     *)
(* mapped behind the static table and the stack sam460_init() makes is in  *)
(* it.  The hypothesis is the machine's: up to 2 GiB; what setup_tlb()     *)
(* makes of more overlaps the entries of the PCI windows.                  *)
(***************************************************************************)
THEOREM MemoryIsMapped ==
    ASSUME \A m \in MemSizes : SamSize(m)
    PROVE  MapSpec => []MemoryMap
<1>. DEFINE Inv == MapInv /\ StackInv
<1>1. MapInit => Inv BY MapInitInv DEF MapInit, StackInv
<1>2. Inv /\ [MapNext]_mapVars => Inv' BY MapStepInv, StackStepInv
<1>3. Inv => MemoryMap BY MapInvMemory, SizesFit, AllBorders DEF MemoryMap
<1>. HIDE DEF Inv
<1>. QED BY <1>1, <1>2, <1>3, PTL DEF MapSpec

(***************************************************************************)
(* The same for every address, of which a run looks at those around the    *)
(* ends of the pages.                                                      *)
(***************************************************************************)
THEOREM EveryAddressMapped ==
    ASSUME \A m \in MemSizes : SamSize(m)
    PROVE  MapSpec => []AllMemoryMapped
<1>. DEFINE Inv == MapInv /\ StackInv
<1>1. MapInit => Inv BY MapInitInv DEF MapInit, StackInv
<1>2. Inv /\ [MapNext]_mapVars => Inv' BY MapStepInv, StackStepInv
<1>3. Inv => AllMemoryMapped BY MapInvMemory
<1>. HIDE DEF Inv
<1>. QED BY <1>1, <1>2, <1>3, PTL DEF MapSpec

-----------------------------------------------------------------------------
(* What the windows are, while setup_pom() writes them and behind it. *)
LEMMA WindowSet ==
    ASSUME PcixInv, NEW w \in {0, 1}, PomDone \in Nat, PomDone > 1, pcix[Sa(w)].on
    PROVE  /\ pcix[<<"POM", w, "LAL">>] = WindowAt(w) /\ pcix[<<"POM", w, "LAH">>] = 12
           /\ pcix[<<"POM", w, "PCIAL">>] = WindowAt(w) /\ pcix[<<"POM", w, "PCIAH">>] = 0
<1>1. WindowInv(w) BY Zenon DEF PcixInv
<1>2. pcix[Sa(w)] # Off BY DEF Off
<1>3. PomDone > 1 + 5 * w + 5
  <2>1. PomDone > w BY DEF PomDone
  <2>2. ~ (PomDone <= 1 + 5 * w + 5) BY <1>1, <1>2, <2>1, Zenon DEF WindowInv
  <2>. QED BY <2>2
<1>4. /\ PomDone > 1 + 5 * w + 1 /\ PomDone > 1 + 5 * w + 2
      /\ PomDone > 1 + 5 * w + 3 /\ PomDone > 1 + 5 * w + 4 BY <1>3
<1>. QED BY <1>1, <1>4, Zenon DEF WindowInv

LEMMA StrayLess ==
    ASSUME MapTypeOK, PcixInv PROVE WindowsNeverStray
<1>. SUFFICES ASSUME stage = "end" \/ (stage = "pom" /\ step > 2), NEW w \in {0, 1}, NEW i \in 0 .. 15,
                     PomHits(w, <<12, i * TLB_256M>>)
              PROVE  PomTo(w, <<12, i * TLB_256M>>) = <<0, i * TLB_256M>>
  BY Zenon DEF WindowsNeverStray
<1>1. PomDone \in Nat /\ PomDone > 1 BY DEF PomDone, MapTypeOK
<1>2. pcix[Sa(w)].on BY Zenon DEF PomHits, PomOn, Sa
<1>3. /\ pcix[<<"POM", w, "LAL">>] = WindowAt(w)
      /\ pcix[<<"POM", w, "PCIAL">>] = WindowAt(w) /\ pcix[<<"POM", w, "PCIAH">>] = 0
  BY <1>1, <1>2, WindowSet, Zenon
<1>4. WindowAt(w) \in Int BY DEF WindowAt, At, TLB_16M, M
<1>5. i * TLB_256M \in Int BY PageSize
<1>. QED BY <1>3, <1>4, <1>5 DEF PomTo

(* The entry that translates an address is the only one that does. *)
LEMMA OnlyEntry ==
    ASSUME MapTypeOK, TlbInv, Written, memsize <= 8 * TLB_256M,
           NEW a \in Nat, NEW e \in 0 .. 14, Frame(e).epn <= a, a < Frame(e).epn + Frame(e).size
    PROVE  /\ Covers(e, a)
           /\ \A f \in 0 .. 63 : Covers(f, a) => f = e
           /\ tlb[e].epn = Frame(e).epn /\ tlb[e].pa = Frame(e).pa /\ tlb[e].acc = Frame(e).acc
<1>1. pages \in 1 .. 8 BY PagesType DEF MapTypeOK
<1>2. e \in 0 .. 63 /\ e < 15 + pages BY <1>1
<1>3. /\ tlb[e].valid = TRUE /\ tlb[e].epn = Frame(e).epn /\ tlb[e].size = Frame(e).size
      /\ tlb[e].pa = Frame(e).pa /\ tlb[e].acc = Frame(e).acc
  BY <1>2, WrittenEntries, Zenon
<1>4. Covers(e, a) BY <1>3, Zenon DEF Covers
<1>5. Frame(e).epn \in Nat /\ Frame(e).size \in Nat BY TableAbove
<1>6. ASSUME NEW f \in 0 .. 63, Covers(f, a), f # e PROVE FALSE
  <2>1. ~ (f >= 15 + pages) BY <1>6, WrittenEntries, Zenon DEF Covers
  <2>2. f < 15 + pages BY <2>1, <1>1
  <2>3. tlb[f].epn = Frame(f).epn /\ tlb[f].size = Frame(f).size BY <2>2, WrittenEntries, Zenon
  <2>4. Frame(f).epn \in Nat /\ Frame(f).size \in Nat
    <3>1. CASE f < 15 BY <3>1, TableAbove
    <3>2. CASE ~ (f < 15)
      <4>1. f \in 15 .. 63 BY <3>2
      <4>2. Frame(f).epn = (f - 15) * TLB_256M /\ Frame(f).size = TLB_256M BY <4>1, SdramFrames, Zenon
      <4>3. (f - 15) * TLB_256M \in Nat BY <4>1, PageSize
      <4>. QED BY <4>2, <4>3, PageSize
    <3>. QED BY <3>1, <3>2
  <2>5. tlb[e].epn + tlb[e].size <= tlb[f].epn \/ tlb[f].epn + tlb[f].size <= tlb[e].epn
    <3>1. NoneMappedTwice BY WrittenApart, Zenon
    <3>2. tlb[e].valid /\ tlb[f].valid BY <1>3, <1>6, Zenon DEF Covers
    <3>. QED BY <1>2, <1>6, <3>1, <3>2, Zenon DEF NoneMappedTwice
  <2>6. tlb[f].epn <= a /\ a < tlb[f].epn + tlb[f].size BY <1>6, Zenon DEF Covers
  <2>. QED BY <1>3, <1>5, <2>3, <2>4, <2>5, <2>6
<1>. QED BY <1>3, <1>4, <1>6, Zenon

LEMMA WindowBases ==
    /\ WindowAt(0) = Frame(2).epn /\ WindowAt(1) = Frame(3).epn
    /\ Frame(2).size = TLB_256M /\ Frame(3).size = TLB_256M
    /\ Frame(2).pa = <<12, WindowAt(0)>> /\ Frame(3).pa = <<12, WindowAt(1)>>
    /\ Frame(2).acc = "rw" /\ Frame(3).acc = "rw"
    /\ WindowAt(0) = PciWindow /\ WindowAt(1) = WindowAt(0) + TLB_256M /\ PciWindow \in Nat
    /\ PciWindowLen = 2 * TLB_256M
<1>1. /\ WindowAt(0) = 2097152 /\ WindowAt(1) = 2359296 /\ TLB_256M = 262144
      /\ PciWindow = 2097152 /\ PciWindowLen = 524288
  BY SMT DEF WindowAt, At, TLB_16M, TLB_256M, M, PciWindow, PciWindowLen
<1>. QED BY <1>1, PciFrames, SMT

LEMMA WindowReached ==
    ASSUME MapTypeOK, TlbInv, PcixInv, stage = "end", memsize <= 8 * TLB_256M,
           NEW w \in {0, 1}, NEW a \in Nat, WindowAt(w) <= a, a < WindowAt(w) + TLB_256M
    PROVE  /\ Translated(a, <<12, a>>, {"rw"})
           /\ PomHits(w, <<12, a>>) /\ PomTo(w, <<12, a>>) = <<0, a>>
           /\ ~ PomHits(1 - w, <<12, a>>)
<1>0. Written BY DEF Written
<1>1. PICK e \in 2 .. 3 : /\ Frame(e).epn = WindowAt(w) /\ Frame(e).size = TLB_256M
                          /\ Frame(e).pa = <<12, WindowAt(w)>> /\ Frame(e).acc = "rw"
  <2>1. 2 \in 2 .. 3 /\ 3 \in 2 .. 3 OBVIOUS
  <2>. QED BY <2>1, WindowBases, Zenon
<1>2. WindowAt(w) \in Nat BY DEF WindowAt, At, TLB_16M, M
<1>3. Translated(a, <<12, a>>, {"rw"})
  <2>0. e \in 0 .. 14 /\ e \in 0 .. 63 OBVIOUS
  <2>1. /\ Covers(e, a) /\ \A f \in 0 .. 63 : Covers(f, a) => f = e
        /\ tlb[e].epn = Frame(e).epn /\ tlb[e].pa = Frame(e).pa /\ tlb[e].acc = Frame(e).acc
    <3>1. Frame(e).epn <= a /\ a < Frame(e).epn + Frame(e).size BY <1>1
    <3>. QED BY <1>0, <2>0, <3>1, OnlyEntry, Zenon
  <2>2. To(e, a) = <<12, a>> BY <1>1, <1>2, <2>1 DEF To
  <2>3. \E f \in 0 .. 63 : Covers(f, a) /\ tlb[f].acc \in {"rw"} BY <1>1, <2>0, <2>1
  <2>4. \A f \in 0 .. 63 : Covers(f, a) => To(f, a) = <<12, a>> BY <2>1, <2>2, Zenon
  <2>. QED BY <2>3, <2>4, Zenon DEF Translated
<1>4. ASSUME NEW v \in {0, 1}
      PROVE  /\ pcix[<<"POM", v, "LAL">>] = WindowAt(v) /\ pcix[<<"POM", v, "LAH">>] = 12
             /\ pcix[<<"POM", v, "PCIAL">>] = WindowAt(v) /\ pcix[<<"POM", v, "PCIAH">>] = 0
             /\ pcix[<<"POM", v, "SA">>].on /\ pcix[<<"POM", v, "SA">>].size = TLB_256M
  <2>1. WindowInv(v) BY Zenon DEF PcixInv
  <2>2. PomDone = 15 BY DEF PomDone
  <2>3. PomDone > 1 + 5 * v + 5 /\ PomDone \in Nat /\ PomDone > 1 BY <2>2
  <2>4. pcix[Sa(v)] = On(TLB_256M) BY <2>1, <2>3, Zenon DEF WindowInv
  <2>5. pcix[Sa(v)].on /\ pcix[Sa(v)].size = TLB_256M BY <2>4 DEF On
  <2>6. /\ pcix[<<"POM", v, "LAL">>] = WindowAt(v) /\ pcix[<<"POM", v, "LAH">>] = 12
        /\ pcix[<<"POM", v, "PCIAL">>] = WindowAt(v) /\ pcix[<<"POM", v, "PCIAH">>] = 0
    BY <2>3, <2>5, WindowSet, Zenon
  <2>. QED BY <2>5, <2>6, Zenon DEF Sa
<1>5. PomHits(w, <<12, a>>) BY <1>4 DEF PomHits, PomOn
<1>6. PomTo(w, <<12, a>>) = <<0, a>> BY <1>2, <1>4 DEF PomTo
<1>7. ~ PomHits(1 - w, <<12, a>>)
  <2>1. PICK v \in {0, 1} : v = 1 - w OBVIOUS
  <2>2. PomHits(v, <<12, a>>) => WindowAt(v) <= a /\ a < WindowAt(v) + TLB_256M BY <1>4 DEF PomHits
  <2>3. ~ (WindowAt(v) <= a /\ a < WindowAt(v) + TLB_256M)
    BY <2>1, <1>2, WindowBases, PageSize
  <2>. QED BY <2>1, <2>2, <2>3, Zenon
<1>. QED BY <1>3, <1>5, <1>6, <1>7

(* Every address the allocation of BARs may give out. *)
AllBarsReachable ==
    stage = "end" =>
        \A a \in PciWindow .. PciWindow + PciWindowLen - 1 :
            /\ Translated(a, <<12, a>>, {"rw"})
            /\ \E w \in {0, 1} : /\ PomHits(w, <<12, a>>) /\ PomTo(w, <<12, a>>) = <<0, a>>
                                 /\ ~ PomHits(1 - w, <<12, a>>)

LEMMA BarsReached ==
    ASSUME MapTypeOK, TlbInv, PcixInv, memsize <= 8 * TLB_256M
    PROVE  AllBarsReachable /\ BarsReachable
<1>1. AllBarsReachable
  <2>. SUFFICES ASSUME stage = "end", NEW a \in PciWindow .. PciWindow + PciWindowLen - 1
                PROVE  /\ Translated(a, <<12, a>>, {"rw"})
                       /\ \E w \in {0, 1} : /\ PomHits(w, <<12, a>>) /\ PomTo(w, <<12, a>>) = <<0, a>>
                                            /\ ~ PomHits(1 - w, <<12, a>>)
    BY Zenon DEF AllBarsReachable
  <2>1. a \in Nat BY WindowBases, PageSize
  <2>2. PICK w \in {0, 1} : WindowAt(w) <= a /\ a < WindowAt(w) + TLB_256M
    <3>1. \/ WindowAt(0) <= a /\ a < WindowAt(0) + TLB_256M
          \/ WindowAt(1) <= a /\ a < WindowAt(1) + TLB_256M
      BY WindowBases, PageSize
    <3>2. 0 \in {0, 1} /\ 1 \in {0, 1} OBVIOUS
    <3>. QED BY <3>1, <3>2, Zenon
  <2>. QED BY <2>1, <2>2, WindowReached, Zenon
<1>2. ASSUME NEW a \in {PciWindow, PciWindow + TLB_256M - 1, PciWindow + TLB_256M, PciWindow + PciWindowLen - 1}
      PROVE  a \in PciWindow .. PciWindow + PciWindowLen - 1
  BY WindowBases, PageSize
<1>3. BarsReachable BY <1>1, <1>2, Zenon DEF BarsReachable, AllBarsReachable
<1>. QED BY <1>1, <1>3

-----------------------------------------------------------------------------
(* The sizes QEMU's Sam460ex can have, 32 MiB to 2 GiB, in KiB. *)
BankSizes == {32768, 65536, 131072, 262144, 524288, 1048576, 2097152}

(* The address bits of a memory whose size is a power of two. *)
LEMMA MaskCovers ==
    ASSUME NEW m \in BankSizes, NEW a \in Nat, a < m, NEW k \in 0 .. 21, Bit(a, k) = 1
    PROVE  Bit(m - 1, k) = 1
<1>0. ASSUME NEW p \in {1, 2, 4, 8, 16, 32, 64, 128, 256, 512, 1024, 2048, 4096, 8192, 16384, 32768, 65536, 131072, 262144, 524288, 1048576, 2097152},
             (a \div p) % 2 = 1
      PROVE  ((m - 1) \div p) % 2 = 1
  <2>1. CASE p = 1 BY <1>0, <2>1, SMT DEF BankSizes
  <2>2. CASE p = 2 BY <1>0, <2>2, SMT DEF BankSizes
  <2>3. CASE p = 4 BY <1>0, <2>3, SMT DEF BankSizes
  <2>4. CASE p = 8 BY <1>0, <2>4, SMT DEF BankSizes
  <2>5. CASE p = 16 BY <1>0, <2>5, SMT DEF BankSizes
  <2>6. CASE p = 32 BY <1>0, <2>6, SMT DEF BankSizes
  <2>7. CASE p = 64 BY <1>0, <2>7, SMT DEF BankSizes
  <2>8. CASE p = 128 BY <1>0, <2>8, SMT DEF BankSizes
  <2>9. CASE p = 256 BY <1>0, <2>9, SMT DEF BankSizes
  <2>10. CASE p = 512 BY <1>0, <2>10, SMT DEF BankSizes
  <2>11. CASE p = 1024 BY <1>0, <2>11, SMT DEF BankSizes
  <2>12. CASE p = 2048 BY <1>0, <2>12, SMT DEF BankSizes
  <2>13. CASE p = 4096 BY <1>0, <2>13, SMT DEF BankSizes
  <2>14. CASE p = 8192 BY <1>0, <2>14, SMT DEF BankSizes
  <2>15. CASE p = 16384 BY <1>0, <2>15, SMT DEF BankSizes
  <2>16. CASE p = 32768 BY <1>0, <2>16, SMT DEF BankSizes
  <2>17. CASE p = 65536 BY <1>0, <2>17, SMT DEF BankSizes
  <2>18. CASE p = 131072 BY <1>0, <2>18, SMT DEF BankSizes
  <2>19. CASE p = 262144 BY <1>0, <2>19, SMT DEF BankSizes
  <2>20. CASE p = 524288 BY <1>0, <2>20, SMT DEF BankSizes
  <2>21. CASE p = 1048576 BY <1>0, <2>21, SMT DEF BankSizes
  <2>22. CASE p = 2097152 BY <1>0, <2>22, SMT DEF BankSizes
  <2>. QED BY <2>1, <2>2, <2>3, <2>4, <2>5, <2>6, <2>7, <2>8, <2>9, <2>10, <2>11, <2>12, <2>13, <2>14, <2>15, <2>16, <2>17, <2>18, <2>19, <2>20, <2>21, <2>22, SMT
<1>. DEFINE Pow(j) == 2 ^ j
<1>1. Pow(k) \in {1, 2, 4, 8, 16, 32, 64, 128, 256, 512, 1024, 2048, 4096, 8192, 16384, 32768, 65536, 131072, 262144, 524288, 1048576, 2097152}
  <2>1. /\ Pow(0) = 1 /\ Pow(1) = 2 /\ Pow(2) = 4 /\ Pow(3) = 8
        /\ Pow(4) = 16 /\ Pow(5) = 32 /\ Pow(6) = 64 /\ Pow(7) = 128
        /\ Pow(8) = 256 /\ Pow(9) = 512 /\ Pow(10) = 1024 /\ Pow(11) = 2048
        /\ Pow(12) = 4096 /\ Pow(13) = 8192 /\ Pow(14) = 16384 /\ Pow(15) = 32768
        /\ Pow(16) = 65536 /\ Pow(17) = 131072 /\ Pow(18) = 262144 /\ Pow(19) = 524288
        /\ Pow(20) = 1048576 /\ Pow(21) = 2097152
    BY SMT
  <2>. HIDE DEF Pow
  <2>. QED BY <2>1, SMT
<1>. QED BY <1>0, <1>1, SMT DEF Bit

LEMMA DmaReached ==
    ASSUME PcixInv, memsize \in BankSizes PROVE DmaReachesMemory
<1>. SUFFICES ASSUME stage = "end", NEW i \in 0 .. 63, i * 64 * M < memsize
              PROVE  Inbound(i * 64 * M)
  BY Zenon DEF DmaReachesMemory
<1>1. PomDone = 15 BY DEF PomDone
<1>2. pcix[<<"PIM", 0, "SAL">>] = On(memsize) BY <1>1 DEF PcixInv, PimInv
<1>3. pcix[<<"PIM", 0, "SAL">>].on /\ pcix[<<"PIM", 0, "SAL">>].size = memsize BY <1>2 DEF On
<1>4. i * 64 * M \in Nat BY DEF M
<1>5. \A k \in 0 .. 21 : Bit(i * 64 * M, k) = 1 => Bit(memsize - 1, k) = 1 BY <1>4, MaskCovers, Zenon
<1>. QED BY <1>3, <1>5, Zenon DEF Inbound

LEMMA BanksFit == \A m \in BankSizes : SamSize(m) /\ m \in Nat
BY SMT DEF BankSizes, SamSize, TLB_256M, M

LEMMA MapInvPci ==
    ASSUME MemSizes \subseteq BankSizes, MapInv, StackInv
    PROVE  PciReachable /\ AllBarsReachable
<1>1. memsize \in BankSizes
  <2>1. 512 * M \in BankSizes BY SMT DEF BankSizes, M
  <2>. QED BY <2>1, Zenon DEF StackInv
<1>2. memsize <= 8 * TLB_256M BY <1>1, BanksFit, Zenon DEF SamSize
<1>3. MapTypeOK /\ TlbInv /\ PcixInv BY DEF MapInv
<1>4. WindowsNeverStray BY <1>3, StrayLess, Zenon
<1>5. AllBarsReachable /\ BarsReachable BY <1>2, <1>3, BarsReached, Zenon
<1>6. DmaReachesMemory BY <1>1, <1>3, DmaReached, Zenon
<1>. QED BY <1>4, <1>5, <1>6, Zenon DEF PciReachable

(***************************************************************************)
(* TLB, windows of the bridge and the range of BARs fit together, for the  *)
(* memories QEMU's Sam460ex can have: setup_pom() makes the inbound window *)
(* a mask of the address bits, which only a power of two is right for.     *)
(***************************************************************************)
THEOREM PciIsReachable ==
    ASSUME MemSizes \subseteq BankSizes
    PROVE  MapSpec => []PciReachable
<1>. DEFINE Inv == MapInv /\ StackInv
<1>1. MapInit => Inv BY MapInitInv DEF MapInit, StackInv
<1>2. Inv /\ [MapNext]_mapVars => Inv' BY MapStepInv, StackStepInv
<1>3. Inv => PciReachable BY MapInvPci, Zenon
<1>. HIDE DEF Inv
<1>. QED BY <1>1, <1>2, <1>3, PTL DEF MapSpec

(***************************************************************************)
(* Every address setup_pci_params() gives to the allocation of BARs, of    *)
(* which a run looks at four, is reached at its own address by exactly one *)
(* window.                                                                 *)
(***************************************************************************)
THEOREM EveryBarReachable ==
    ASSUME MemSizes \subseteq BankSizes
    PROVE  MapSpec => []AllBarsReachable
<1>. DEFINE Inv == MapInv /\ StackInv
<1>1. MapInit => Inv BY MapInitInv DEF MapInit, StackInv
<1>2. Inv /\ [MapNext]_mapVars => Inv' BY MapStepInv, StackStepInv
<1>3. Inv => AllBarsReachable BY MapInvPci, Zenon
<1>. HIDE DEF Inv
<1>. QED BY <1>1, <1>2, <1>3, PTL DEF MapSpec

-----------------------------------------------------------------------------
(* The device tree reader. *)
(* What a token is. *)
LEMMA TokenType ==
  ASSUME NEW t \in Tokens
  PROVE  /\ t.tag \in {"begin", "prop", "end_node", "nop", "end", "junk"}
         /\ t.wanted \in BOOLEAN /\ t.len \in Nat
<1>1. CASE t \in {BEGIN(w) : w \in BOOLEAN}
  BY <1>1 DEF BEGIN
<1>2. CASE t \in {PROP(TRUE, n) : n \in Lengths}
  <2>1. PICK n \in Lengths : t = PROP(TRUE, n)
    BY <1>2
  <2>2. n \in Nat
    BY FdtAssumption
  <2>3. t.tag = "prop" /\ t.wanted = TRUE /\ t.len = n
    BY <2>1 DEF PROP
  <2> QED
    BY <2>2, <2>3
<1>3. CASE t \in {PROP(FALSE, 0), END_NODE, NOP, END, JUNK}
  <2>1. CASE t = PROP(FALSE, 0)
    BY <2>1 DEF PROP
  <2>2. CASE t = END_NODE
    BY <2>2 DEF END_NODE
  <2>3. CASE t = NOP
    BY <2>3 DEF NOP
  <2>4. CASE t = END
    BY <2>4 DEF END
  <2>5. CASE t = JUNK
    BY <2>5 DEF JUNK
  <2> QED
    BY <1>3, <2>1, <2>2, <2>3, <2>4, <2>5
<1> QED
  BY <1>1, <1>2, <1>3 DEF Tokens

LEMMA DepthType ==
  ASSUME NEW u, NEW k \in Nat
  PROVE  /\ Depth(u, k) \in Int
         /\ \A tag : IsFiniteSet(Tagged(u, tag, k)) /\ Cardinality(Tagged(u, tag, k)) \in Nat
<1>1. ASSUME NEW tag PROVE IsFiniteSet(Tagged(u, tag, k)) /\ Cardinality(Tagged(u, tag, k)) \in Nat
  <2>1. IsFiniteSet(1 .. k)
    BY FS_Interval
  <2>2. Tagged(u, tag, k) \subseteq 1 .. k
    BY DEF Tagged
  <2>3. IsFiniteSet(Tagged(u, tag, k))
    BY <2>1, <2>2, FS_Subset
  <2> QED
    BY <2>3, FS_CardinalityType
<1>2. Depth(u, k) \in Int
  BY <1>1 DEF Depth
<1> QED
  BY <1>1, <1>2

(* w begins with the n tokens of u: what is said of these is said of w. *)
LEMMA TokensKept ==
  ASSUME NEW u, NEW w, NEW n \in Nat, \A j \in 1 .. n : w[j] = u[j]
  PROVE  /\ \A k \in 0 .. n : Depth(w, k) = Depth(u, k) /\ InNode(w, k) = InNode(u, k)
         /\ \A k \in 1 .. n : Own(w, k) = Own(u, k)
<1>1. ASSUME NEW k \in 0 .. n PROVE Depth(w, k) = Depth(u, k)
  <2>1. ASSUME NEW tag PROVE Tagged(w, tag, k) = Tagged(u, tag, k)
    <3>1. \A j \in 1 .. k : w[j] = u[j]
      OBVIOUS
    <3> QED
      BY <3>1, Zenon DEF Tagged
  <2>2. Tagged(w, "begin", k) = Tagged(u, "begin", k) /\ Tagged(w, "end_node", k) = Tagged(u, "end_node", k)
    BY <2>1
  <2> QED
    BY <2>2, Zenon DEF Depth
<1>2. ASSUME NEW k \in 0 .. n PROVE InNode(w, k) = InNode(u, k)
  <2>1. \A j \in 1 .. k : w[j] = u[j] /\ Depth(w, j) = Depth(u, j) /\ \A m \in j .. k : Depth(w, m) = Depth(u, m)
    BY <1>1
  <2>2. Openers(w, k) = Openers(u, k)
    BY <2>1, Zenon DEF Openers
  <2>3. Openers(u, k) \subseteq 1 .. k
    BY Zenon DEF Openers
  <2> QED
    BY <2>1, <2>2, <2>3, Zenon DEF InNode
<1>3. ASSUME NEW k \in 1 .. n PROVE Own(w, k) = Own(u, k)
  <2>1. k \in 0 .. n
    OBVIOUS
  <2>2. Depth(w, k) = Depth(u, k) /\ InNode(w, k) = InNode(u, k) /\ w[k] = u[k]
    BY <1>1, <1>2, <2>1
  <2> QED
    BY <2>2, Zenon DEF Own, Wanted
<1> QED
  BY <1>1, <1>2, <1>3

(* One more token is one more of its own tag and of no other. *)
LEMMA DepthGrows ==
  ASSUME NEW u, NEW w, NEW n \in Nat, \A k \in 1 .. n : w[k] = u[k]
  PROVE  Depth(w, n + 1) = Depth(u, n) + (IF w[n + 1].tag = "begin" THEN 1
                                          ELSE IF w[n + 1].tag = "end_node" THEN -1 ELSE 0)
<1> DEFINE tag == w[n + 1].tag
           One(x) == Cardinality(Tagged(w, x, n + 1)) = Cardinality(Tagged(u, x, n)) + 1
           None(x) == Cardinality(Tagged(w, x, n + 1)) = Cardinality(Tagged(u, x, n))
<1>0. ASSUME NEW x
      PROVE  /\ tag = x => Tagged(w, x, n + 1) = Tagged(u, x, n) \cup {n + 1}
             /\ tag # x => Tagged(w, x, n + 1) = Tagged(u, x, n)
  <2>1. \A j \in 1 .. n + 1 : j \in 1 .. n \/ j = n + 1
    OBVIOUS
  <2>2. \A j \in 1 .. n : j \in 1 .. n + 1
    OBVIOUS
  <2>3. n + 1 \in 1 .. n + 1
    OBVIOUS
  <2> QED
    BY <2>1, <2>2, <2>3, Zenon DEF Tagged
<1>1. One(tag)
  <2>1. Tagged(w, tag, n + 1) = Tagged(u, tag, n) \cup {n + 1}
    BY <1>0, Zenon
  <2>2. n + 1 \notin 1 .. n /\ Tagged(u, tag, n) \subseteq 1 .. n
    BY DEF Tagged
  <2>3. n + 1 \notin Tagged(u, tag, n) /\ IsFiniteSet(Tagged(u, tag, n))
    BY <2>2, DepthType, Zenon
  <2> QED
    BY <2>1, <2>3, FS_AddElement, Zenon
<1>2. ASSUME NEW x, tag # x PROVE None(x)
  <2>1. Tagged(w, x, n + 1) = Tagged(u, x, n)
    BY <1>0, <1>2, Zenon
  <2> QED
    BY <2>1, Zenon
<1>3. /\ Cardinality(Tagged(u, "begin", n)) \in Nat /\ Cardinality(Tagged(u, "end_node", n)) \in Nat
  BY DepthType
<1> HIDE DEF tag
<1>4. CASE tag = "begin"
  <2>1. One("begin") /\ None("end_node")
    BY <1>1, <1>2, <1>4
  <2> QED
    BY <1>3, <1>4, <2>1 DEF Depth, tag
<1>5. CASE tag = "end_node"
  <2>1. One("end_node") /\ None("begin")
    BY <1>1, <1>2, <1>5
  <2> QED
    BY <1>3, <1>5, <2>1 DEF Depth, tag
<1>6. CASE tag # "begin" /\ tag # "end_node"
  <2>1. None("end_node") /\ None("begin")
    BY <1>2, <1>6
  <2> QED
    BY <1>3, <1>6, <2>1 DEF Depth, tag
<1> QED
  BY <1>4, <1>5, <1>6

(* Inside the node one is at depth 2 or below, and does not leave it there. *)
LEMMA NodeDeep ==
  ASSUME NEW u, NEW k \in Nat, InNode(u, k)
  PROVE  Depth(u, k) >= 2
<1>1. PICK j \in Openers(u, k) : u[j].wanted
  BY Zenon DEF InNode
<1>2. j \in 1 .. k /\ \A m \in j .. k : Depth(u, m) >= 2
  BY <1>1, Zenon DEF Openers
<1>3. k \in j .. k
  BY <1>2
<1> QED
  BY <1>2, <1>3, Zenon

LEMMA NodeGrows ==
  ASSUME NEW u, NEW w, NEW n \in Nat, \A k \in 1 .. n : w[k] = u[k]
  PROVE  /\ InNode(u, n) /\ Depth(w, n + 1) >= 2 => InNode(w, n + 1)
         /\ InNode(w, n + 1) =>
               InNode(u, n) \/ (w[n + 1].tag = "begin" /\ Depth(w, n + 1) = 2 /\ w[n + 1].wanted)
         /\ w[n + 1].tag = "begin" /\ Depth(w, n + 1) = 2 /\ w[n + 1].wanted => InNode(w, n + 1)
<1>1. \A k \in 0 .. n : Depth(w, k) = Depth(u, k)
  BY TokensKept
<1>2. ASSUME InNode(u, n), Depth(w, n + 1) >= 2 PROVE InNode(w, n + 1)
  <2>1. PICK j \in Openers(u, n) : u[j].wanted
    BY <1>2, Zenon DEF InNode
  <2>2. j \in 1 .. n /\ u[j].tag = "begin" /\ Depth(u, j) = 2 /\ \A m \in j .. n : Depth(u, m) >= 2
    BY <2>1, Zenon DEF Openers
  <2>3. j \in 0 .. n /\ j \in 1 .. n + 1
    BY <2>2
  <2>4. w[j] = u[j] /\ Depth(w, j) = 2
    BY <1>1, <2>2, <2>3, Zenon
  <2>5. ASSUME NEW m \in j .. n + 1 PROVE Depth(w, m) >= 2
    <3>1. CASE m = n + 1
      BY <1>2, <3>1, Zenon
    <3>2. CASE m # n + 1
      <4>1. m \in j .. n /\ m \in 0 .. n
        BY <2>2, <3>2
      <4> QED
        BY <1>1, <2>2, <4>1, Zenon
    <3> QED
      BY <3>1, <3>2
  <2>6. j \in Openers(w, n + 1)
    BY <2>2, <2>3, <2>4, <2>5, Zenon DEF Openers
  <2> QED
    BY <2>1, <2>4, <2>6, Zenon DEF InNode
<1>3. ASSUME InNode(w, n + 1)
      PROVE  InNode(u, n) \/ (w[n + 1].tag = "begin" /\ Depth(w, n + 1) = 2 /\ w[n + 1].wanted)
  <2>1. PICK j \in Openers(w, n + 1) : w[j].wanted
    BY <1>3, Zenon DEF InNode
  <2>2. j \in 1 .. n + 1 /\ w[j].tag = "begin" /\ Depth(w, j) = 2 /\ \A m \in j .. n + 1 : Depth(w, m) >= 2
    BY <2>1, Zenon DEF Openers
  <2>3. CASE j = n + 1
    BY <2>1, <2>2, <2>3, Zenon
  <2>4. CASE j # n + 1
    <3>1. j \in 1 .. n /\ j \in 0 .. n
      BY <2>2, <2>4
    <3>2. w[j] = u[j] /\ Depth(u, j) = 2
      BY <1>1, <2>2, <3>1, Zenon
    <3>3. ASSUME NEW m \in j .. n PROVE Depth(u, m) >= 2
      <4>1. m \in j .. n + 1 /\ m \in 0 .. n
        BY <3>1
      <4> QED
        BY <1>1, <2>2, <4>1, Zenon
    <3>4. j \in Openers(u, n)
      BY <2>2, <3>1, <3>2, <3>3, Zenon DEF Openers
    <3> QED
      BY <2>1, <3>2, <3>4, Zenon DEF InNode
  <2> QED
    BY <2>3, <2>4
<1>4. ASSUME w[n + 1].tag = "begin", Depth(w, n + 1) = 2, w[n + 1].wanted PROVE InNode(w, n + 1)
  <2>1. n + 1 \in 1 .. n + 1 /\ \A m \in n + 1 .. n + 1 : m = n + 1
    OBVIOUS
  <2>2. 2 >= 2
    OBVIOUS
  <2>3. n + 1 \in Openers(w, n + 1)
    BY <1>4, <2>1, <2>2, Zenon DEF Openers
  <2> QED
    BY <1>4, <2>3, Zenon DEF InNode
<1> QED
  BY <1>2, <1>3, <1>4

(* The last token but NOPs is one. *)
LEMMA LastIsOne ==
  ASSUME NEW u \in Seq(Tokens), LastIs(u, {"end_node"}), LastIs(u, {"begin", "prop"})
  PROVE  FALSE
<1>1. PICK j \in DOMAIN u : u[j].tag = "end_node" /\ \A m \in j + 1 .. Len(u) : u[m].tag = "nop"
  BY DEF LastIs
<1>2. PICK k \in DOMAIN u : u[k].tag \in {"begin", "prop"} /\ \A m \in k + 1 .. Len(u) : u[m].tag = "nop"
  BY DEF LastIs
<1>3. j \in 1 .. Len(u) /\ k \in 1 .. Len(u) /\ Len(u) \in Nat
  OBVIOUS
<1>4. j # k
  BY <1>1, <1>2
<1>5. j < k => k \in j + 1 .. Len(u)
  BY <1>3
<1>6. k < j => j \in k + 1 .. Len(u)
  BY <1>3
<1>7. j < k \/ k < j
  BY <1>3, <1>4
<1>8. "nop" # "end_node" /\ "nop" \notin {"begin", "prop"}
  OBVIOUS
<1> QED
  BY <1>1, <1>2, <1>5, <1>6, <1>7, <1>8, Zenon

LEMMA LastIsNew ==
  ASSUME NEW u \in Seq(Tokens), NEW w \in Seq(Tokens), Len(w) = Len(u) + 1,
         \A k \in 1 .. Len(u) : w[k] = u[k]
  PROVE  /\ \A tags : w[Len(u) + 1].tag \in tags => LastIs(w, tags)
         /\ \A tags : w[Len(u) + 1].tag = "nop" /\ LastIs(u, tags) => LastIs(w, tags)
<1> DEFINE n == Len(u)
<1>1. n \in Nat /\ n + 1 \in DOMAIN w /\ (n + 1) + 1 .. Len(w) = {} /\ DOMAIN w = 1 .. n + 1 /\ DOMAIN u = 1 .. n
  OBVIOUS
<1>2. ASSUME NEW tags, w[n + 1].tag \in tags PROVE LastIs(w, tags)
  BY <1>1, <1>2, Zenon DEF LastIs
<1>3. ASSUME NEW tags, w[n + 1].tag = "nop", LastIs(u, tags) PROVE LastIs(w, tags)
  <2>1. PICK j \in 1 .. n : u[j].tag \in tags /\ \A m \in j + 1 .. n : u[m].tag = "nop"
    BY <1>1, <1>3, Zenon DEF LastIs
  <2>2. j \in 1 .. n + 1 /\ w[j] = u[j]
    BY <1>1
  <2>3. ASSUME NEW m \in j + 1 .. n + 1 PROVE w[m].tag = "nop"
    <3>1. CASE m = n + 1
      BY <1>3, <3>1
    <3>2. CASE m # n + 1
      <4>1. m \in j + 1 .. n /\ m \in 1 .. n
        BY <1>1, <3>2
      <4>2. w[m] = u[m] /\ u[m].tag = "nop"
        BY <2>1, <4>1
      <4> QED
        BY <4>2
    <3> QED
      BY <3>1, <3>2
  <2> QED
    BY <1>1, <2>1, <2>2, <2>3, Zenon DEF LastIs
<1> QED
  BY <1>2, <1>3

(***************************************************************************)
(* How far the search has come.  in_target holds in the node looked for    *)
(* until a subnode of it ends; behind that there are no properties.        *)
(***************************************************************************)
FdtTypes ==
    /\ seen \in Seq(Tokens) /\ in_target \in BOOLEAN /\ answer \in 0 .. Len(seen)
    /\ reader \in {"check", "walk", "found", "missing", "end"}
Walking ==
    /\ depth = Depth(seen, Len(seen)) /\ depth >= 0
    /\ in_target => InNode(seen, Len(seen))
    /\ depth = 2 /\ InNode(seen, Len(seen)) => in_target \/ LastIs(seen, {"end_node"})
NoneOwn(u) == \A k \in 1 .. Len(u) : ~ Own(u, k)
InSubnode(u, k) == Wanted(u, k) /\ Depth(u, k) > 2
RightAnswer(u, k) == Own(u, k) \/ (InSubnode(u, k) /\ NoneOwn(u))
FdtInv ==
    /\ FdtTypes
    /\ reader \in {"check", "walk"} => Walking
    /\ reader \in {"check", "walk", "missing"} => answer = 0 /\ NoneOwn(seen)
    /\ reader \in {"found", "end"} => answer # 0 /\ RightAnswer(seen, answer)
    /\ GettersInBounds

LEMMA FdtInitInv == FdtInit => FdtInv
<1> SUFFICES ASSUME FdtInit PROVE FdtInv
  OBVIOUS
<1>1. seen = << >> /\ Len(seen) = 0 /\ seen \in Seq(Tokens)
  BY DEF FdtInit
<1>2. Depth(seen, 0) = 0
  <2>1. Tagged(seen, "begin", 0) = {} /\ Tagged(seen, "end_node", 0) = {}
    BY DEF Tagged
  <2> QED
    BY <2>1, FS_EmptySet DEF Depth
<1>3. Walking
  BY <1>1, <1>2 DEF Walking, FdtInit
<1>4. NoneOwn(seen)
  BY <1>1 DEF NoneOwn
<1>5. FdtTypes
  <2>1. in_target \in BOOLEAN /\ reader \in {"check", "walk", "found", "missing", "end"}
    BY Zenon DEF FdtInit
  <2>2. answer \in 0 .. Len(seen)
    BY <1>1 DEF FdtInit
  <2> QED
    BY <1>1, <2>1, <2>2 DEF FdtTypes
<1> QED
  BY <1>3, <1>4, <1>5 DEF FdtInv, FdtInit, GettersInBounds

(* What one more token makes of the tree. *)
LEMMA ReadFacts ==
  ASSUME FdtInv, NEW t \in Tokens, Read(t)
  PROVE  LET n == Len(seen)
         IN  /\ n \in Nat /\ seen' \in Seq(Tokens) /\ Len(seen') = n + 1 /\ seen'[n + 1] = t
             /\ reader = "walk" /\ Walking /\ answer = 0
             /\ depth \in Nat
             /\ Depth(seen', n + 1) = depth + (IF t.tag = "begin" THEN 1 ELSE IF t.tag = "end_node" THEN -1 ELSE 0)
             /\ InNode(seen, n) => depth >= 2
             /\ InNode(seen, n) /\ Depth(seen', n + 1) >= 2 => InNode(seen', n + 1)
             /\ InNode(seen', n + 1) =>
                   InNode(seen, n) \/ (t.tag = "begin" /\ Depth(seen', n + 1) = 2 /\ t.wanted)
             /\ t.tag = "begin" /\ Depth(seen', n + 1) = 2 /\ t.wanted => InNode(seen', n + 1)
             /\ ~ Own(seen', n + 1) => NoneOwn(seen')
             /\ \A tags : t.tag \in tags => LastIs(seen', tags)
             /\ \A tags : t.tag = "nop" /\ LastIs(seen, tags) => LastIs(seen', tags)
<1> DEFINE n == Len(seen)
<1>1. seen \in Seq(Tokens) /\ reader = "walk" /\ Walking /\ answer = 0 /\ NoneOwn(seen) /\ seen' = Append(seen, t)
  BY DEF FdtInv, FdtTypes, Read
<1>2. /\ n \in Nat /\ seen' \in Seq(Tokens) /\ Len(seen') = n + 1 /\ seen'[n + 1] = t
      /\ \A k \in 1 .. n : seen'[k] = seen[k]
  BY <1>1
<1>3. depth = Depth(seen, n) /\ depth \in Nat
  BY <1>1, <1>2, DepthType DEF Walking
<1> DEFINE w == seen'
<1> HIDE DEF w, n
<1>4. Depth(w, n + 1) = Depth(seen, n) + (IF t.tag = "begin" THEN 1 ELSE IF t.tag = "end_node" THEN -1 ELSE 0)
  BY <1>2, DepthGrows DEF w
<1>5. InNode(seen, n) => depth >= 2
  BY <1>2, <1>3, NodeDeep
<1>6. /\ InNode(seen, n) /\ Depth(w, n + 1) >= 2 => InNode(w, n + 1)
      /\ InNode(w, n + 1) => InNode(seen, n) \/ (t.tag = "begin" /\ Depth(w, n + 1) = 2 /\ t.wanted)
      /\ t.tag = "begin" /\ Depth(w, n + 1) = 2 /\ t.wanted => InNode(w, n + 1)
  BY <1>2, NodeGrows DEF w
<1>7. ~ Own(w, n + 1) => NoneOwn(w)
  <2> SUFFICES ASSUME ~ Own(w, n + 1), NEW k \in 1 .. Len(w) PROVE ~ Own(w, k)
    BY DEF NoneOwn
  <2>1. CASE k = n + 1
    BY <2>1
  <2>2. CASE k # n + 1
    <3>1. k \in 1 .. n
      BY <1>2, <2>2 DEF w
    <3>2. Own(w, k) = Own(seen, k)
      BY <1>2, <3>1, TokensKept DEF w
    <3> QED
      BY <1>1, <3>1, <3>2 DEF NoneOwn, n
  <2> QED
    BY <2>1, <2>2
<1>8. /\ \A tags : t.tag \in tags => LastIs(w, tags)
      /\ \A tags : t.tag = "nop" /\ LastIs(seen, tags) => LastIs(w, tags)
  <2>1. /\ \A tags : w[Len(seen) + 1].tag \in tags => LastIs(w, tags)
        /\ \A tags : w[Len(seen) + 1].tag = "nop" /\ LastIs(seen, tags) => LastIs(w, tags)
    BY <1>1, <1>2, LastIsNew DEF n, w
  <2> QED
    BY <1>2, <2>1 DEF n, w
<1> QED
  BY <1>1, <1>2, <1>3, <1>4, <1>5, <1>6, <1>7, <1>8, Zenon DEF n, w

LEMMA NodeBegins == ASSUME FdtInv, NEW t \in Tokens, BeginNode(t) PROVE FdtInv'
<1> DEFINE n == Len(seen)
<1>1. /\ t.tag = "begin" /\ Read(t) /\ depth' = depth + 1 /\ in_target' = (in_target \/ IsTarget(t))
      /\ answer' = answer /\ reader' = reader
  BY DEF BeginNode
<1>2. /\ n \in Nat /\ seen' \in Seq(Tokens) /\ Len(seen') = n + 1 /\ seen'[n + 1] = t
      /\ reader = "walk" /\ Walking /\ answer = 0 /\ depth \in Nat
      /\ Depth(seen', n + 1) = depth + 1
      /\ InNode(seen, n) => depth >= 2
      /\ InNode(seen, n) /\ Depth(seen', n + 1) >= 2 => InNode(seen', n + 1)
      /\ InNode(seen', n + 1) => InNode(seen, n) \/ (Depth(seen', n + 1) = 2 /\ t.wanted)
      /\ Depth(seen', n + 1) = 2 /\ t.wanted => InNode(seen', n + 1)
      /\ ~ Own(seen', n + 1) => NoneOwn(seen')
  BY <1>1, ReadFacts
<1>3. t.wanted \in BOOLEAN /\ in_target \in BOOLEAN /\ IsTarget(t) = (depth + 1 = 2 /\ t.wanted)
  BY TokenType DEF FdtInv, FdtTypes, IsTarget
<1>4. in_target => InNode(seen, n)
  BY <1>2 DEF Walking
<1> HIDE DEF n
<1>5. Walking'
  <2>1. in_target' => InNode(seen', n + 1)
    BY <1>1, <1>2, <1>3, <1>4
  <2>2. depth' = 2 /\ InNode(seen', n + 1) => in_target'
    BY <1>1, <1>2, <1>3
  <2> QED
    BY <1>1, <1>2, <2>1, <2>2 DEF Walking
<1>6. NoneOwn(seen)'
  <2>1. ~ Own(seen', n + 1)
    BY <1>1, <1>2 DEF Own, Wanted
  <2> QED
    BY <1>2, <2>1
<1>7. FdtTypes'
  <2>1. in_target' \in BOOLEAN
    BY <1>1, <1>3
  <2>2. answer' \in 0 .. Len(seen')
    BY <1>1, <1>2
  <2> QED
    BY <1>1, <1>2, <2>1, <2>2 DEF FdtTypes
<1> QED
  BY <1>1, <1>2, <1>5, <1>6, <1>7 DEF FdtInv, GettersInBounds

(* The search that ends with a token that is no property of the node. *)
LEMMA NotFound ==
  ASSUME FdtInv, NEW t \in Tokens, Read(t), t.tag # "prop", Return(0), in_target' = in_target
  PROVE  FdtInv'
<1>1. answer' = 0 /\ reader' = "missing"
  BY DEF Return
<1>2. /\ Len(seen) \in Nat /\ seen' \in Seq(Tokens) /\ Len(seen') = Len(seen) + 1 /\ seen'[Len(seen) + 1] = t
      /\ ~ Own(seen', Len(seen) + 1) => NoneOwn(seen')
  BY ReadFacts
<1>3. NoneOwn(seen)'
  <2>1. ~ Own(seen', Len(seen) + 1)
    BY <1>2 DEF Own, Wanted
  <2> QED
    BY <1>2, <2>1
<1>4. FdtTypes'
  <2>1. in_target' \in BOOLEAN
    BY DEF FdtInv, FdtTypes
  <2>2. answer' \in 0 .. Len(seen')
    BY <1>1, <1>2
  <2> QED
    BY <1>1, <1>2, <2>1, <2>2 DEF FdtTypes
<1> QED
  BY <1>1, <1>3, <1>4 DEF FdtInv, GettersInBounds

LEMMA NodeEnds == ASSUME FdtInv, NEW t \in Tokens, EndNode(t) PROVE FdtInv'
<1> DEFINE n == Len(seen)
<1>1. t.tag = "end_node" /\ Read(t)
  BY DEF EndNode
<1>2. /\ n \in Nat /\ seen' \in Seq(Tokens) /\ Len(seen') = n + 1 /\ seen'[n + 1] = t
      /\ reader = "walk" /\ Walking /\ answer = 0 /\ depth \in Nat
      /\ Depth(seen', n + 1) = depth + (-1)
      /\ ~ Own(seen', n + 1) => NoneOwn(seen')
      /\ LastIs(seen', {"end_node"})
  <2>1. t.tag \in {"end_node"} /\ t.tag # "begin"
    BY <1>1
  <2> QED
    BY <1>1, <2>1, ReadFacts
<1>3. depth > 0
  <2>1. Legal(t)
    BY <1>1 DEF Read
  <2>2. Depth(seen, n) > 0
    BY <1>1, <2>1 DEF Legal
  <2> QED
    BY <1>2, <2>2 DEF Walking
<1> HIDE DEF n
<1>4. CASE depth = 2 /\ in_target
  <2>1. Return(0) /\ in_target' = in_target
    BY <1>4 DEF EndNode
  <2> QED
    BY <1>1, <2>1, NotFound
<1>5. CASE ~ (depth = 2 /\ in_target)
  <2>1. depth' = depth - 1 /\ in_target' = FALSE /\ answer' = answer /\ reader' = reader
    BY <1>2, <1>3, <1>5 DEF EndNode
  <2>2. Walking'
    <3>1. LastIs(seen, {"end_node"})'
      BY <1>2
    <3> QED
      BY <1>2, <1>3, <2>1, <3>1 DEF Walking
  <2>3. NoneOwn(seen)'
    <3>1. ~ Own(seen', n + 1)
      BY <1>1, <1>2 DEF Own, Wanted
    <3> QED
      BY <1>2, <3>1
  <2>4. FdtTypes'
    <3>1. in_target' \in BOOLEAN
      BY <2>1
    <3>2. answer' \in 0 .. Len(seen')
      BY <1>2, <2>1
    <3> QED
      BY <1>2, <2>1, <3>1, <3>2 DEF FdtTypes
  <2> QED
    BY <1>2, <2>1, <2>2, <2>3, <2>4 DEF FdtInv, GettersInBounds
<1> QED
  BY <1>4, <1>5

LEMMA PropertyRead == ASSUME FdtInv, NEW t \in Tokens, Property(t) PROVE FdtInv'
<1> DEFINE n == Len(seen)
<1>1. /\ t.tag = "prop" /\ Read(t) /\ depth' = depth /\ in_target' = in_target
      /\ IF in_target /\ t.wanted THEN Return(n + 1) ELSE answer' = answer /\ reader' = reader
  BY DEF Property
<1>2. /\ n \in Nat /\ seen' \in Seq(Tokens) /\ Len(seen') = n + 1 /\ seen'[n + 1] = t
      /\ reader = "walk" /\ Walking /\ answer = 0 /\ depth \in Nat
      /\ Depth(seen', n + 1) = depth + 0
      /\ InNode(seen, n) => depth >= 2
      /\ InNode(seen, n) /\ Depth(seen', n + 1) >= 2 => InNode(seen', n + 1)
      /\ InNode(seen', n + 1) => InNode(seen, n)
      /\ ~ Own(seen', n + 1) => NoneOwn(seen')
  <2>1. t.tag # "begin" /\ t.tag # "end_node"
    BY <1>1
  <2> QED
    BY <1>1, <2>1, ReadFacts
<1>3. t.wanted \in BOOLEAN /\ in_target \in BOOLEAN /\ seen \in Seq(Tokens)
  BY TokenType DEF FdtInv, FdtTypes
<1>4. depth = 2 /\ InNode(seen, n) => in_target
  <2>1. LastIs(seen, {"begin", "prop"})
    BY <1>1 DEF Read, Legal
  <2>2. ~ LastIs(seen, {"end_node"})
    BY <1>3, <2>1, LastIsOne
  <2> QED
    BY <1>2, <2>2 DEF Walking
<1>5. in_target => InNode(seen, n)
  BY <1>2 DEF Walking
<1> HIDE DEF n
<1>6. CASE in_target /\ t.wanted
  <2>1. answer' = n + 1 /\ reader' = "found"
    BY <1>1, <1>2, <1>6 DEF Return
  <2>2. depth >= 2 /\ Wanted(seen', n + 1) /\ Depth(seen', n + 1) = depth
    BY <1>1, <1>2, <1>5, <1>6 DEF Wanted
  <2>3. Own(seen', n + 1) \/ (InSubnode(seen', n + 1) /\ NoneOwn(seen'))
    <3>1. CASE depth = 2
      BY <2>2, <3>1 DEF Own
    <3>2. CASE depth # 2
      <4>1. ~ Own(seen', n + 1)
        BY <2>2, <3>2 DEF Own
      <4>2. Depth(seen', n + 1) > 2
        BY <1>2, <2>2, <3>2
      <4> QED
        BY <1>2, <2>2, <4>1, <4>2 DEF InSubnode
    <3> QED
      BY <3>1, <3>2
  <2>4. FdtTypes'
    BY <1>1, <1>2, <1>3, <2>1 DEF FdtTypes
  <2>5. answer' # 0
    BY <1>2, <2>1
  <2> QED
    BY <2>1, <2>3, <2>4, <2>5 DEF FdtInv, GettersInBounds, RightAnswer
<1>7. CASE ~ (in_target /\ t.wanted)
  <2>1. answer' = answer /\ reader' = reader
    BY <1>1, <1>7
  <2>2. ~ Own(seen', n + 1)
    BY <1>2, <1>4, <1>7 DEF Own, Wanted
  <2>3. Walking'
    BY <1>1, <1>2, <1>4, <1>5 DEF Walking
  <2>4. FdtTypes'
    BY <1>1, <1>2, <1>3, <2>1 DEF FdtTypes
  <2>5. NoneOwn(seen)'
    BY <1>2, <2>2
  <2> QED
    BY <1>2, <2>1, <2>3, <2>4, <2>5 DEF FdtInv, GettersInBounds
<1> QED
  BY <1>6, <1>7

LEMMA NopRead == ASSUME FdtInv, NEW t \in Tokens, Nop(t) PROVE FdtInv'
<1> DEFINE n == Len(seen)
<1>1. /\ t.tag = "nop" /\ Read(t) /\ depth' = depth /\ in_target' = in_target
      /\ answer' = answer /\ reader' = reader
  BY DEF Nop
<1>2. /\ n \in Nat /\ seen' \in Seq(Tokens) /\ Len(seen') = n + 1 /\ seen'[n + 1] = t
      /\ reader = "walk" /\ Walking /\ answer = 0 /\ depth \in Nat
      /\ Depth(seen', n + 1) = depth + 0
      /\ InNode(seen, n) => depth >= 2
      /\ InNode(seen, n) /\ Depth(seen', n + 1) >= 2 => InNode(seen', n + 1)
      /\ InNode(seen', n + 1) => InNode(seen, n)
      /\ ~ Own(seen', n + 1) => NoneOwn(seen')
      /\ LastIs(seen, {"end_node"}) => LastIs(seen', {"end_node"})
  <2>1. t.tag # "begin" /\ t.tag # "end_node"
    BY <1>1
  <2> QED
    BY <1>1, <2>1, ReadFacts
<1> HIDE DEF n
<1>3. Walking'
  <2>1. in_target => InNode(seen, n)
    BY <1>2 DEF Walking, n
  <2>2. depth = 2 /\ InNode(seen, n) => in_target \/ LastIs(seen, {"end_node"})
    BY <1>2 DEF Walking, n
  <2> QED
    BY <1>1, <1>2, <2>1, <2>2 DEF Walking
<1>4. FdtTypes'
  <2>1. answer' \in 0 .. Len(seen')
    BY <1>1, <1>2
  <2> QED
    BY <1>1, <1>2, <2>1 DEF FdtInv, FdtTypes
<1>5. NoneOwn(seen)'
  <2>1. ~ Own(seen', n + 1)
    BY <1>1, <1>2 DEF Own, Wanted
  <2> QED
    BY <1>2, <2>1
<1> QED
  BY <1>1, <1>2, <1>3, <1>4, <1>5 DEF FdtInv, GettersInBounds

LEMMA TreeEnds == ASSUME FdtInv, NEW t \in Tokens, EndOfTree(t) PROVE FdtInv'
<1>1. Read(t) /\ t.tag # "prop" /\ Return(0) /\ in_target' = in_target
  BY DEF EndOfTree
<1> QED
  BY <1>1, NotFound

(* A getter touches nothing but its result. *)
LEMMA GetterReturns ==
  ASSUME FdtInv, reader = "found", reader' = "end",
         seen' = seen, in_target' = in_target, answer' = answer,
         len \in Nat => got'.read <= len /\ got'.written <= got'.room
  PROVE  FdtInv'
<1>1. answer # 0 /\ RightAnswer(seen, answer) /\ FdtTypes
  BY DEF FdtInv
<1>2. len \in Nat
  <2>1. answer \in 1 .. Len(seen) /\ seen \in Seq(Tokens)
    BY <1>1 DEF FdtTypes
  <2>2. seen[answer] \in Tokens
    BY <2>1
  <2> QED
    BY <2>2, TokenType DEF len
<1>3. len' = len
  BY DEF len
<1>4. FdtTypes'
  BY <1>1 DEF FdtTypes
<1> HIDE DEF len
<1>5. GettersInBounds'
  BY <1>2, <1>3 DEF GettersInBounds
<1> QED
  BY <1>1, <1>4, <1>5 DEF FdtInv

LEMMA WordRead ==
  ASSUME FdtInv, NEW idx \in Nat, fdt_get_prop_u32_idx(idx)
  PROVE  FdtInv'
<1>1. /\ reader = "found" /\ reader' = "end"
      /\ seen' = seen /\ in_target' = in_target /\ answer' = answer
      /\ got' = IF HasWord(idx) THEN [read |-> 4 * (idx + 1), written |-> 4, room |-> 4] ELSE Nothing
  BY DEF fdt_get_prop_u32_idx
<1>2. len \in Nat => got'.read <= len /\ got'.written <= got'.room
  <2> HIDE DEF len
  <2>1. CASE HasWord(idx)
    BY <1>1, <2>1 DEF HasWord
  <2>2. CASE ~ HasWord(idx)
    BY <1>1, <2>2 DEF Nothing
  <2> QED
    BY <2>1, <2>2
<1> QED
  BY <1>1, <1>2, GetterReturns

LEMMA StringRead == FdtInv /\ fdt_get_prop_str => FdtInv'
<1> SUFFICES ASSUME FdtInv, fdt_get_prop_str PROVE FdtInv'
  OBVIOUS
<1> DEFINE copy == IF len < buflen THEN len ELSE buflen - 1
<1>1. /\ reader = "found" /\ reader' = "end"
      /\ seen' = seen /\ in_target' = in_target /\ answer' = answer
      /\ got' = IF len < 1 THEN Nothing ELSE [read |-> copy, written |-> copy + 1, room |-> buflen]
  BY DEF fdt_get_prop_str
<1>2. ASSUME len \in Nat PROVE got'.read <= len /\ got'.written <= got'.room
  <2> HIDE DEF len
  <2>1. buflen \in Nat \ {0} /\ copy <= len /\ copy + 1 <= buflen
    BY <1>2, FdtAssumption
  <2>2. CASE len < 1
    <3>1. got' = Nothing
      BY <1>1, <2>2
    <3> QED
      BY <1>2, <3>1 DEF Nothing
  <2>3. CASE ~ (len < 1)
    <3>1. got' = [read |-> copy, written |-> copy + 1, room |-> buflen]
      BY <1>1, <2>3
    <3> HIDE DEF copy
    <3> QED
      BY <2>1, <3>1
  <2> QED
    BY <2>2, <2>3
<1> QED
  BY <1>1, <1>2, GetterReturns

LEMMA FdtStepInv == FdtInv /\ [FdtNext]_fdtVars => FdtInv'
<1> SUFFICES ASSUME FdtInv, [FdtNext]_fdtVars PROVE FdtInv'
  OBVIOUS
<1>1. CASE fdt_check
  <2>1. /\ reader = "check" /\ reader' \in {"walk", "missing"} /\ seen' = seen /\ depth' = depth
        /\ in_target' = in_target /\ answer' = answer /\ got' = got
    BY <1>1 DEF fdt_check
  <2>2. Walking' /\ NoneOwn(seen)' /\ answer' = 0
    BY <2>1 DEF FdtInv, Walking
  <2>3. FdtTypes'
    BY <2>1 DEF FdtInv, FdtTypes
  <2> QED
    BY <2>1, <2>2, <2>3 DEF FdtInv, GettersInBounds
<1>2. ASSUME NEW t \in Tokens, BeginNode(t) \/ EndNode(t) \/ Property(t) \/ Nop(t) \/ EndOfTree(t) PROVE FdtInv'
  BY <1>2, NodeBegins, NodeEnds, PropertyRead, NopRead, TreeEnds
<1>3. CASE fdt_get_prop_u32
  BY <1>3, WordRead DEF fdt_get_prop_u32
<1>4. ASSUME NEW idx \in 1 .. MaxIdx, fdt_get_prop_u32_idx(idx) PROVE FdtInv'
  <2>1. idx \in Nat
    BY FdtAssumption
  <2> QED
    BY <1>4, <2>1, WordRead
<1>5. CASE fdt_get_prop_str
  BY <1>5, StringRead
<1>6. CASE UNCHANGED fdtVars
  <2>1. /\ reader' = reader /\ seen' = seen /\ depth' = depth
        /\ in_target' = in_target /\ answer' = answer /\ got' = got /\ len' = len
    BY <1>6 DEF fdtVars, len
  <2>2. Walking' = Walking /\ FdtTypes' = FdtTypes /\ GettersInBounds' = GettersInBounds
    BY <2>1 DEF Walking, FdtTypes, GettersInBounds
  <2> QED
    BY <2>1, <2>2 DEF FdtInv
<1> QED
  BY <1>1, <1>2, <1>3, <1>4, <1>5, <1>6 DEF FdtNext, Finished, Cut

(***************************************************************************)
(* TreeRead, for trees of any size and depth: fdt_find_prop() returns the  *)
(* property of the node if it has one and nothing from outside the node,   *)
(* and the getters stay within the value and their buffer.                 *)
(***************************************************************************)
THEOREM TreeIsRead == FdtSpec => []TreeRead
<1>1. FdtInv => TreeRead
  <2> SUFFICES ASSUME FdtInv PROVE FindsInNode
    BY DEF FdtInv, TreeRead
  <2>1. seen \in Seq(Tokens) /\ reader \in {"check", "walk", "found", "missing", "end"}
    BY DEF FdtInv, FdtTypes
  <2>2. DOMAIN seen = 1 .. Len(seen)
    BY <2>1
  <2>3. /\ reader \in {"check", "walk", "missing"} => answer = 0 /\ NoneOwn(seen)
        /\ reader \in {"found", "end"} => RightAnswer(seen, answer)
    BY DEF FdtInv
  <2> QED
    BY <2>1, <2>2, <2>3 DEF FindsInNode, RightAnswer, NoneOwn, InSubnode, Own
<1> QED
  BY <1>1, FdtInitInv, FdtStepInv, PTL DEF FdtSpec
=============================================================================
