------------------------------ MODULE MCStart ------------------------------
(***************************************************************************)
(* start() (Boot) and what it uses on every board: the configuration       *)
(* string (Cfg), the console (Console), the serial port (Uart), the PCI    *)
(* configuration space (PciConf), and the PCI setup of the Pegasos2        *)
(* (Pegasos2Pci).  Each counts on no more than the outcome of another one, *)
(* so one of them runs at a time, chosen at the start, and the others stay *)
(* as they are.                                                            *)
(***************************************************************************)
EXTENDS MCPegasos2Pci, Boot, Cfg, Console, Uart, PciConf

VARIABLE unit       \* "boot", "cfg", "console", "uart", "conf" or "buses"

ioVars == <<cfgVars, consoleVars, uartVars, confVars>>
startVars == <<unit, vars, ioVars, busesVars>>
-----------------------------------------------------------------------------
R(v) == [r3 |-> v[1], r4 |-> v[2], r5 |-> v[3], r6 |-> v[4], r7 |-> v[5], r8 |-> v[6]]

(* QEMU's Sam460ex, AmigaOne with and without -initrd and -append, and Open *)
(* Firmware with the archive in registers or in the device tree.            *)
SomeEntries ==
    {R(<<2, 0, 0, ePAPR, 5, 0>>)}
    \cup {R(<<0, z[1], z[2], a[1], a[2], UBoot>>) : z \in {<<0, 0>>, <<3, 5>>, <<3, 3>>},
                                                    a \in {<<0, 0>>, <<2, 4>>, <<2, 2>>}}
    \cup {R(<<0, 0, 0, 0, 0, 0>>)}
    \cup {R(<<z[1], z[2], 7, 0, 0, 0>>) : z \in {<<0, 0>>, <<3, 2>>}}

Configs == {[len |-> -1, opts |-> {}], [len |-> 4, opts |-> {"f", "b"}],
            [len |-> 4, opts |-> {"f", "s", "p", "b"}], [len |-> 2, opts |-> {"s", "p"}]}

SomeFirmwares ==
    [model : {"Pegasos2", "other"}, chosen : BOOLEAN, stdout : BOOLEAN, options : BOOLEAN,
     bboot : Configs, start : {0, 3}, end : {0, 2, 5},
     os4_commandline : {-1, 2}, bootargs : {-1, 0, 1}]

SomeFdts == [start : {0, 3}, end : {0, 5}, args : BOOLEAN]

(* DEFAULT_OPTS, in the letters of this instance. *)
SomeDefaults == <<"O", "s", " ", "V", "5">>

(* Two devices of eight bytes that differ from each other and within. *)
TwoWords == 0 .. 7
SomeContents == {[d1 |-> [r \in TwoWords |-> (r \div x) % 2], d2 |-> [r \in TwoWords |-> (r \div y) % 2]]
                   : x \in {1, 2}, y \in {4, 8}}
-----------------------------------------------------------------------------
(* The device tree that is not there is looked at by nobody. *)
NoFirmware == [model |-> "other", chosen |-> FALSE, stdout |-> FALSE, options |-> FALSE,
               bboot |-> [len |-> -1, opts |-> {}], start |-> 0, end |-> 0,
               os4_commandline |-> -1, bootargs |-> -1]
NoFdt == [start |-> 0, end |-> 0, args |-> FALSE]
BootInit == /\ Init
            /\ (regs.r6 = ePAPR \/ regs.r8 = UBoot \/ regs.r5 = 0) => fw = NoFirmware
            /\ regs.r6 # ePAPR => fdt = NoFdt

(* What a unit that is not running has in its variables: most are in an    *)
(* initial state, the Pegasos2 has buses without devices.                  *)
NoBoot == /\ pc = "idle" /\ regs = 0 /\ fw = 0 /\ fdt = 0 /\ of = FALSE /\ prom = FALSE
          /\ prom_options = 0 /\ brd = 0 /\ cfg = {} /\ drivers = << >> /\ setups = 0
          /\ initrd = 0 /\ kicklist = FALSE /\ avail = 0 /\ args = 0
NoUart == UartInit /\ ~ base /\ ier = 0
NoConf == ConfInit /\ conf.device = "d1" /\ space.d1[1] = 1 /\ space.d2[4] = 1
NoBuses == /\ tree = <<Bus(<< >>), Agp(<< >>)>> /\ stage = "done" /\ b = 2 /\ n = 1 /\ k = 1
           /\ iobase = 0 /\ iolen = 0 /\ membase = 0 /\ memlen = 0
           /\ ioresavail = 0 /\ ioavail = 0 /\ memavail = 0 /\ cells = << >> /\ pic = 0
           /\ prop = << << >>, << >> >> /\ wide = prop /\ bar = prop /\ line = prop /\ enabled = prop

StartInit ==
    /\ CfgInit /\ ConsoleInit
    /\ \/ unit = "boot" /\ BootInit /\ NoUart /\ NoConf /\ NoBuses
       \/ unit \in {"cfg", "console"} /\ NoBoot /\ NoUart /\ NoConf /\ NoBuses
       \/ unit = "uart" /\ UartInit /\ NoBoot /\ NoConf /\ NoBuses
       \/ unit = "conf" /\ ConfInit /\ NoBoot /\ NoUart /\ NoBuses
       \/ unit = "buses" /\ BusesInit /\ NoBoot /\ NoUart /\ NoConf

BootStep == unit = "boot" /\ Next /\ UNCHANGED <<unit, ioVars, busesVars>>
CfgStep == unit = "cfg" /\ CfgNext /\ UNCHANGED <<unit, vars, consoleVars, uartVars, confVars, busesVars>>
ConsoleStep(A) == unit = "console" /\ A /\ UNCHANGED <<unit, vars, cfgVars, uartVars, confVars, busesVars>>
UartStep(A) == unit = "uart" /\ A /\ UNCHANGED <<unit, vars, cfgVars, consoleVars, confVars, busesVars>>
ConfStep == unit = "conf" /\ ConfNext /\ UNCHANGED <<unit, vars, cfgVars, consoleVars, uartVars, busesVars>>
BusesStep == unit = "buses" /\ BusesNext /\ UNCHANGED <<unit, vars, ioVars>>

StartNext == \/ BootStep \/ CfgStep \/ ConsoleStep(ConsoleNext) \/ UartStep(UartNext)
             \/ ConfStep \/ BusesStep

(* puts() and the code that polls go on; the port may be stuck for ever. *)
StartSpec == /\ StartInit /\ [][StartNext]_startVars
             /\ WF_startVars(ConsoleStep(WriteLine)) /\ WF_startVars(ConsoleStep(putchar))
             /\ WF_startVars(UartStep(Code /\ call # "idle"))
-----------------------------------------------------------------------------
(* puts() comes back, and so does every call of the serial port's, also    *)
(* when the port does nothing.                                             *)
AllCallsReturn == PutsEnds /\ CallsReturn
=============================================================================
