-------------------------------- MODULE Boot --------------------------------
(***************************************************************************)
(* start() (bboot.c) from the entry registers to the jump into the loader  *)
(* of AmigaOS, with the Open Firmware client interface it uses (prom.c).   *)
(* The parts it calls are modules of their own; here only their outcome    *)
(* counts.  Addresses are small numbers, 0 is no address.                  *)
(***************************************************************************)
EXTENDS Integers, Sequences

CONSTANTS
    Entries,        \* registers at the entry: [r3, r4, r5, r6, r7, r8]
    Firmwares,      \* device trees of Open Firmware
    Fdts,           \* device trees of the Sam460ex: [start, end, args]
    ePAPR, UBoot,   \* 0x45504150 in r6, 1024 in r8
    DefaultInitrd,  \* 0x600000
    AddressSpace    \* 2^32: unsigned numbers count modulo this

Addresses == 0 .. AddressSpace - 1

ASSUME BootAssumption ==
    /\ AddressSpace \in Nat \ {0} /\ DefaultInitrd \in Addresses \ {0}
    /\ Entries \subseteq [r3 : Addresses, r4 : Addresses, r5 : Addresses,
                          r6 : Addresses, r7 : Addresses, r8 : Addresses]
    /\ \A f \in Firmwares : f.start \in Addresses /\ f.end \in Addresses
    /\ \A t \in Fdts : t.start \in Addresses /\ t.end \in Addresses

VARIABLES
    pc, regs, fw, fdt,
    of, prom, prom_options,     \* prom: the client interface may be called
    brd,                        \* "none" or the board, with what it was told
    cfg,                        \* the options that are set
    drivers,                    \* the console's output drivers
    setups,                     \* calls of brd.setup()
    initrd,                     \* [addr, len]
    kicklist, avail,
    args                        \* [at, len, read] of what AmigaOS gets

vars == <<pc, regs, fw, fdt, of, prom, prom_options, brd, cfg, drivers, setups,
          initrd, kicklist, avail, args>>

Invalid == -1

NoBoard == [name |-> "none", start |-> 0, end |-> 0, args |-> FALSE, stack |-> FALSE]
NoArgs == [at |-> 0, len |-> 0, read |-> 0]

(* "Os V5 Apb": drivers "f" and "s", actions "p" and "b". *)
DEFAULT_OPTS == {"s", "p", "b"}
-----------------------------------------------------------------------------
(* The client interface: without an entry point every call fails. *)
call_prom(answer) == IF prom THEN answer ELSE Invalid

Path == [chosen |-> fw.chosen, options |-> fw.options]
prom_finddevice(path) == call_prom(IF Path[path] THEN 1 ELSE Invalid)

(* The length of a property, or -1; 0 stands for a number that is not there. *)
prom_getprop(handle, len) == call_prom(IF handle = Invalid THEN Invalid ELSE len)
prom_get_options(len) == IF prom_options = Invalid THEN Invalid ELSE prom_getprop(prom_options, len)
prom_get_chosen(val) == IF prom THEN val ELSE 0
-----------------------------------------------------------------------------
Init ==
    /\ pc = "start" /\ regs \in Entries /\ fw \in Firmwares /\ fdt \in Fdts
    /\ of = FALSE /\ prom = FALSE /\ prom_options = Invalid
    /\ brd = NoBoard /\ cfg = {} /\ drivers = << >> /\ setups = 0
    /\ initrd = [addr |-> 0, len |-> 0] /\ kicklist = FALSE /\ avail = 0 /\ args = NoArgs

Goto(l) == pc' = l
inputs == <<regs, fw, fdt>>
later == <<cfg, drivers, setups, initrd, kicklist, avail, args>>

(* What r8 and r5 say is only asked after the test for ePAPR. *)
IsSam == regs.r6 = ePAPR
IsAmigaOne == ~ IsSam /\ (regs.r8 = UBoot \/ regs.r5 = 0)

(* sam460_init(): what the device tree says. *)
StartSam460 ==
    /\ pc = "start" /\ IsSam /\ Goto("cfg")
    /\ brd' = [name |-> "sam460", start |-> fdt.start, end |-> fdt.end,
               args |-> fdt.args, stack |-> TRUE]
    /\ UNCHANGED <<inputs, of, prom, prom_options, later>>

StartAmigaOne ==
    /\ pc = "start" /\ IsAmigaOne /\ Goto("cfg")
    /\ brd' = [NoBoard EXCEPT !.name = "amigaone"]
    /\ UNCHANGED <<inputs, of, prom, prom_options, later>>

(* prom_init(): /chosen and its stdout, or exit. *)
StartOF ==
    /\ pc = "start" /\ ~ IsSam /\ ~ IsAmigaOne
    /\ of' = TRUE /\ prom' = TRUE
    /\ prom_options' = IF fw.chosen /\ fw.options THEN 1 ELSE Invalid
    /\ Goto(IF fw.chosen /\ fw.stdout THEN "model" ELSE "exited")
    /\ UNCHANGED <<inputs, brd, later>>

(* A machine of another model gets "Unknown machine". *)
CheckModel ==
    /\ pc = "model"
    /\ IF fw.model = "Pegasos2" THEN brd' = [NoBoard EXCEPT !.name = "pegasos2"] /\ Goto("cfg")
       ELSE Goto("error") /\ UNCHANGED brd
    /\ UNCHANGED <<inputs, of, prom, prom_options, later>>

(* cfg_init(): the property "bboot" of /options, where there is one. *)
cfg_init ==
    /\ pc = "cfg" /\ Goto("console")
    /\ cfg' = IF prom_get_options(fw.bboot.len) <= 0 THEN DEFAULT_OPTS ELSE fw.bboot.opts
    /\ UNCHANGED <<inputs, of, prom, prom_options, brd, drivers, setups, initrd, kicklist, avail, args>>

AddDrivers ==
    /\ pc = "console" /\ Goto("setup")
    /\ drivers' = (IF "s" \in cfg THEN <<"s">> ELSE << >>) \o (IF "f" \in cfg THEN <<"f">> ELSE << >>)
    /\ UNCHANGED <<inputs, of, prom, prom_options, brd, cfg, setups, initrd, kicklist, avail, args>>

(* PCI setup, where it is asked for; then booting, where that is asked for. *)
Setup ==
    /\ pc = "setup" /\ setups' = setups + (IF "p" \in cfg THEN 1 ELSE 0)
    /\ Goto(IF "b" \in cfg THEN "initrd" ELSE "failed")
    /\ UNCHANGED <<inputs, of, prom, prom_options, brd, cfg, drivers, initrd, kicklist, avail, args>>
-----------------------------------------------------------------------------
(* Where the archive is, as each way of starting the program says it. *)
InitrdArea(start, end) == [addr |-> start, len |-> IF end > start THEN end - start ELSE 0]

(* initrd_len -= initrd_addr, without a test and in an unsigned number. *)
Unsigned(x) == x % AddressSpace
Chosen == LET start == prom_get_chosen(fw.start)
              end == prom_get_chosen(fw.end)
          IN  [addr |-> start, len |-> IF end # 0 THEN Unsigned(end - start) ELSE 0]

FromLoader ==
    CASE of /\ regs.r3 # 0 -> [addr |-> regs.r3, len |-> regs.r4]
      [] of /\ regs.r3 = 0 -> Chosen
      [] ~ of /\ brd.start # 0 -> InitrdArea(brd.start, brd.end)
      [] ~ of /\ brd.start = 0 /\ regs.r4 # 0 -> InitrdArea(regs.r4, regs.r5)
      [] OTHER -> [addr |-> 0, len |-> 0]

(* A default address that keeps the length of something else. *)
Initrd_keeplen == IF FromLoader.addr = 0 THEN [FromLoader EXCEPT !.addr = DefaultInitrd] ELSE FromLoader
Initrd == IF FromLoader.addr = 0 THEN [addr |-> DefaultInitrd, len |-> 0] ELSE FromLoader

FindInitrd ==
    /\ pc = "initrd" /\ Goto("zip") /\ initrd' = Initrd
    /\ UNCHANGED <<inputs, of, prom, prom_options, brd, cfg, drivers, setups, kicklist, avail, args>>

(* boot_aos_zipkick(): a list with the first free address behind it, or NULL. *)
ZipKick ==
    /\ pc = "zip"
    /\ \/ Goto("error") /\ UNCHANGED <<kicklist, avail>>
       \/ Goto("args") /\ kicklist' = TRUE /\ avail' = DefaultInitrd + 1
    /\ UNCHANGED <<inputs, of, prom, prom_options, brd, cfg, drivers, setups, initrd, args>>
-----------------------------------------------------------------------------
(* The node and property with the command line: only one of them is asked. *)
ArgsLen == IF prom_finddevice("options") # Invalid
           THEN prom_getprop(prom_finddevice("options"), fw.os4_commandline)
           ELSE prom_getprop(prom_finddevice("chosen"), fw.bootargs)

(* brd.claim(), which is the firmware's here: the address, or -1 when it   *)
(* refuses, which is not 0 and so is used all the same.                    *)
Claims == {avail, Invalid}

(* A buffer that is used whatever was read into it. *)
Arguments_any(buf, n) == [at |-> buf, len |-> ArgsLen, read |-> n]
(* The buffer is only used if all of the property was read. *)
Arguments(buf, n) == IF n = ArgsLen THEN [at |-> buf, len |-> ArgsLen, read |-> n] ELSE NoArgs

ArgsFromOF ==
    /\ pc = "args" /\ of /\ Goto("exec")
    /\ IF ArgsLen > 0
       THEN \E buf \in Claims, n \in {Invalid} \cup 0 .. ArgsLen :
               IF buf # 0 THEN avail' = avail + ArgsLen /\ args' = Arguments(buf, n)
               ELSE UNCHANGED <<avail, args>>
       ELSE UNCHANGED <<avail, args>>
    /\ UNCHANGED <<inputs, of, prom, prom_options, brd, cfg, drivers, setups, initrd, kicklist>>

(* The board's bootargs, or r6 and r7 when they can be the ends of a string. *)
ArgsFromLoader ==
    /\ pc = "args" /\ ~ of /\ Goto("exec")
    /\ args' = IF brd.args THEN [at |-> 1, len |-> 1, read |-> 1]
               ELSE IF regs.r6 # 0 /\ regs.r7 > regs.r6
                    THEN [at |-> regs.r6, len |-> regs.r7 - regs.r6, read |-> regs.r7 - regs.r6]
                    ELSE NoArgs
    /\ UNCHANGED <<inputs, of, prom, prom_options, brd, cfg, drivers, setups, initrd, kicklist, avail>>

(* The loader.  It may come back, but not from the stack of the Sam460ex. *)
StartExec ==
    /\ pc = "exec" /\ Goto("running")
    /\ UNCHANGED <<inputs, of, prom, prom_options, brd, later>>

ExecReturns ==
    /\ pc = "running" /\ ~ brd.stack /\ Goto("failed")
    /\ UNCHANGED <<inputs, of, prom, prom_options, brd, later>>

(* "Booting failed, exiting." *)
BootingFailed ==
    /\ pc = "failed" /\ Goto("error")
    /\ UNCHANGED <<inputs, of, prom, prom_options, brd, later>>

(* prom_exit() does not return; without Open Firmware start() does. *)
Error ==
    /\ pc = "error" /\ Goto(IF of THEN "exited" ELSE "returned")
    /\ UNCHANGED <<inputs, of, prom, prom_options, brd, later>>

Ended == pc \in {"running", "exited", "returned"} /\ UNCHANGED vars

Next == \/ StartSam460 \/ StartAmigaOne \/ StartOF \/ CheckModel
        \/ cfg_init \/ AddDrivers \/ Setup \/ FindInitrd \/ ZipKick
        \/ ArgsFromOF \/ ArgsFromLoader \/ StartExec \/ ExecReturns
        \/ BootingFailed \/ Error \/ Ended

Spec == Init /\ [][Next]_vars
-----------------------------------------------------------------------------
(* What the loader of this board was told about the archive, start and end. *)
Told ==
    CASE of -> {<<regs.r3, Unsigned(regs.r3 + regs.r4)>>, <<fw.start, fw.end>>}
      [] ~ of /\ brd.name = "sam460" -> {<<fdt.start, fdt.end>>, <<regs.r4, regs.r5>>}
      [] OTHER -> {<<regs.r4, regs.r5>>}

(***************************************************************************)
(* The archive is looked for at one place: a known length belongs to the   *)
(* address it is used with, and the default address has none, so that      *)
(* boot_aos_zipkick() looks for the end itself.                            *)
(***************************************************************************)
InitrdFromOneSource ==
    pc \in {"zip", "args", "exec", "running"} =>
        /\ initrd.addr # 0
        /\ initrd.len # 0 => <<initrd.addr, Unsigned(initrd.addr + initrd.len)>> \in Told

(***************************************************************************)
(* Before AmigaOS runs: the list is complete, PCI was set up once if it    *)
(* was asked for and never otherwise, and no part of a command line that   *)
(* was not read is handed over.                                            *)
(***************************************************************************)
HandOverReady ==
    pc = "running" =>
        /\ kicklist /\ brd.name # "none" /\ "b" \in cfg
        /\ setups = IF "p" \in cfg THEN 1 ELSE 0
        /\ args.read = args.len
=============================================================================
