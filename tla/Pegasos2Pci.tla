---------------------------- MODULE Pegasos2Pci ----------------------------
(***************************************************************************)
(* The PCI setup of the Pegasos2 (brd_pegasos2.c): the two buses are       *)
(* walked in the firmware's device tree.  A device without                 *)
(* assigned-addresses gets them, from the windows of its bus and, for the  *)
(* south bridge, from a reserved part of the I/O window; then the          *)
(* registers are made to agree with the tree.                              *)
(*                                                                         *)
(* Addresses count in units of four bytes, as in PciSetup.  A register is  *)
(* its address part: the type bits are the device's.                       *)
(***************************************************************************)
EXTENDS Memory, Sequences

CONSTANTS
    IORES_START, IORES_TOP,  \* the reserved I/O area
    Rewind,                  \* how far behind its start it is used again
    MemBase,                 \* the memory windows of the two buses
    Trees                    \* the device trees

MaxBars == 6      \* cells[] holds the entry of a device and six BARs

BarType == [kind : {"io", "mem", "mem64"}, size : Nat]

(* A device: its reg property can be read, it answers, it is in the slot   *)
(* of the south bridge on bus number 0 (which either bus may call itself), *)
(* it has addresses, its property can be set, USB or LSI card, ISA bridge, *)
(* interrupt line, BARs, the addresses.                                    *)
NodeType == [ok : BOOLEAN, present : BOOLEAN, southbridge : BOOLEAN, assigned : BOOLEAN,
             settable : BOOLEAN, usb : BOOLEAN, isa : BOOLEAN, line : Nat,
             bars : Seq(BarType), addr : Seq(Nat)]

(* A bus: it has a ranges property, which windows that states, the windows *)
(* (0 if not stated) and the devices.                                      *)
BusType == [ranges : BOOLEAN, stated : SUBSET {"io", "mem"},
            io : Nat, iolen : Nat, mem : Nat, memlen : Nat, nodes : Seq(NodeType)]

ASSUME Pegasos2Assumption ==
    /\ IORES_START \in Nat /\ IORES_TOP \in Nat /\ Rewind \in Nat
    /\ IORES_START + Rewind <= IORES_TOP
    /\ MemBase[1] \in Nat /\ MemBase[2] \in Nat
    /\ \A t \in Trees :
          /\ t \in [{1, 2} -> BusType]
          /\ \A c \in {1, 2} : /\ "io" \notin t[c].stated => t[c].io = 0 /\ t[c].iolen = 0
                               /\ "mem" \notin t[c].stated => t[c].mem = 0 /\ t[c].memlen = 0
          /\ \A c \in {1, 2} : \A m \in DOMAIN t[c].nodes :
                LET d == t[c].nodes[m]
                IN  Len(d.bars) <= MaxBars /\ (d.assigned => Len(d.addr) = Len(d.bars))

VARIABLES
    tree,                    \* the device tree the firmware has made
    stage,                   \* "bus", "node", "assign", "write", "done"
    b, n, k,                 \* bus, device and BAR
    iobase, iolen, membase, memlen,
    ioresavail, ioavail, memavail,
    cells,                   \* the addresses of the device at hand
    prop, wide,              \* assigned-addresses of each device, 64-bit entries
    bar,                     \* the BARs of each device
    line, enabled,           \* its interrupt line, its command register is 7
    pic                      \* through which I/O window the ISA PIC was set up

busesVars == <<tree, stage, b, n, k, iobase, iolen, membase, memlen, ioresavail, ioavail,
               memavail, cells, prop, wide, bar, line, enabled, pic>>
windows == <<iobase, iolen, membase, memlen>>
avails == <<ioresavail, ioavail, memavail>>
devices == <<prop, wide, bar, line, enabled, pic>>

Node == tree[b].nodes[n]
ThisBar == Node.bars[k]
-----------------------------------------------------------------------------
Each(F(_)) == [c \in {1, 2} |-> [m \in DOMAIN tree[c].nodes |-> F(tree[c].nodes[m])]]

(* The registers as a firmware has left them. *)
FirmwareRegisters(t, m) ==
    LET d == t.nodes[m]
    IN  [j \in DOMAIN d.bars |-> IF ~ d.assigned THEN 0
                                 ELSE d.addr[j] - IF d.bars[j].kind = "io" THEN t.io ELSE 0]

BusesInit ==
    /\ tree \in Trees
    /\ stage = "bus" /\ b = 1 /\ n = 1 /\ k = 1
    /\ iobase = 0 /\ iolen = 0 /\ membase = 0 /\ memlen = 0
    /\ ioresavail = 0 /\ ioavail = 0 /\ memavail = 0 /\ cells = << >>
    /\ prop = Each(LAMBDA d : IF d.assigned THEN d.addr ELSE << >>)
    /\ bar = [c \in {1, 2} |-> [m \in DOMAIN tree[c].nodes |-> FirmwareRegisters(tree[c], m)]]
    /\ wide = Each(LAMBDA d : {j \in DOMAIN d.bars : d.assigned /\ d.bars[j].kind = "mem64"})
    /\ line = Each(LAMBDA d : d.line)
    /\ enabled = Each(LAMBDA d : FALSE) /\ pic = 0

(* A window is what ranges states, 0 too; one that is not stated leaves    *)
(* the variable as it was.                                                 *)
Range_(kind, new, old) == IF kind \in tree[b].stated THEN new ELSE old

NextBus == IF b = 1 THEN stage' = "bus" /\ b' = 2 ELSE stage' = "done" /\ UNCHANGED b

KnownBus(m) == m \in {MemBase[1], MemBase[2]}

(* The bus is not there, or has no ranges property. *)
NoRanges ==
    /\ stage = "bus" /\ ~ tree[b].ranges
    /\ NextBus
    /\ UNCHANGED <<tree, n, k, windows, avails, cells, devices>>

BasesForBus ==
    /\ stage = "bus" /\ tree[b].ranges
    /\ LET t == tree[b]
       IN  /\ iobase' = Range_("io", t.io, iobase) /\ iolen' = Range_("io", t.iolen, iolen)
           /\ membase' = Range_("mem", t.mem, membase) /\ memlen' = Range_("mem", t.memlen, memlen)
    /\ IF iobase' # 0 /\ iolen' # 0 /\ membase' # 0 /\ memlen' # 0
       THEN /\ memavail' = membase'
            /\ IF membase' = MemBase[1]
               THEN ioresavail' = IORES_START /\ ioavail' = IORES_TOP
               ELSE IF membase' = MemBase[2]
               THEN ioresavail' = iolen' /\ ioavail' = IORES_START
               ELSE UNCHANGED <<ioresavail, ioavail>>
       ELSE UNCHANGED avails
    /\ IF iobase' # 0 /\ iolen' # 0 /\ membase' # 0 /\ memlen' # 0 /\ KnownBus(membase')
       THEN stage' = "node" /\ n' = 1 /\ UNCHANGED b
       ELSE NextBus /\ UNCHANGED n
    /\ UNCHANGED <<tree, k, cells, devices>>

EndOfBus ==
    /\ stage = "node" /\ n > Len(tree[b].nodes)
    /\ NextBus
    /\ UNCHANGED <<tree, n, k, windows, avails, cells, devices>>

(* Its name, its IDs or its reg property cannot be read. *)
SkipNode ==
    /\ stage = "node" /\ n <= Len(tree[b].nodes) /\ ~ Node.ok
    /\ n' = n + 1
    /\ UNCHANGED <<tree, stage, b, k, windows, avails, cells, devices>>

(* assigned-addresses is taken for missing, and looked for. *)
HasAddresses_not == FALSE
HasAddresses == Node.assigned

(* The interrupt controller of the ISA bridge is set up through the window *)
(* of this bus; USB functions and LSI cards are enabled; a device without  *)
(* BARs gets an empty property, one without addresses has them assigned,   *)
(* one that has them keeps them.                                           *)
EnterNode ==
    /\ stage = "node" /\ n <= Len(tree[b].nodes) /\ Node.ok
    /\ enabled' = [enabled EXCEPT ![b][n] = @ \/ Node.usb]
    /\ pic' = IF Node.isa /\ Node.present THEN iobase ELSE pic
    /\ k' = 1
    /\ IF HasAddresses THEN cells' = Node.addr /\ stage' = "write" /\ UNCHANGED n
       ELSE IF Node.bars = << >> THEN n' = n + 1 /\ UNCHANGED <<cells, stage>>
       ELSE cells' = << >> /\ stage' = "assign" /\ UNCHANGED n
    /\ UNCHANGED <<tree, b, windows, avails, prop, wide, bar, line>>
-----------------------------------------------------------------------------
(* addr_for_bar(): which allocator a BAR is served from, ... *)
Reserved == Node.southbridge
IoAvail == IF Reserved THEN ioresavail ELSE ioavail

(* ... where it is rounded to, which is kept even if the BAR is refused,   *)
Rounded == IF ThisBar.kind = "io" THEN ROUND_UP(IoAvail, ThisBar.size)
           ELSE ROUND_UP(memavail, ThisBar.size)

(* A test that leaves out the BAR itself. *)
Fits_start == IF ThisBar.kind = "io" THEN Rounded <= iolen
              ELSE Add(Rounded, Word - membase) <= memlen

(* ... whether it ends in the window, and where the next one starts.       *)
Fits == IF ThisBar.kind = "io" THEN Add(Rounded, ThisBar.size) <= iolen
        ELSE Add(Add(Rounded, Word - membase), ThisBar.size) <= memlen

(* A reserved area that is rewound to its start. *)
Behind_start(a) ==
    LET e == Add(a, ThisBar.size)
    IN  IF ThisBar.kind = "io" /\ Reserved /\ e >= IORES_TOP THEN IORES_START ELSE e

Behind(a) == LET e == Add(a, ThisBar.size)
             IN  IF ThisBar.kind = "io" /\ Reserved /\ e >= IORES_TOP
                 THEN IORES_START + Rewind ELSE e

MoveTo(a) ==
    IF ThisBar.kind # "io" THEN memavail' = a /\ UNCHANGED <<ioresavail, ioavail>>
    ELSE IF Reserved THEN ioresavail' = a /\ UNCHANGED <<ioavail, memavail>>
    ELSE ioavail' = a /\ UNCHANGED <<ioresavail, memavail>>

AssignBar ==
    /\ stage = "assign" /\ k <= Len(Node.bars)
    /\ k' = k + 1
    /\ \/ /\ ThisBar.size = 0 /\ cells' = Append(cells, 0) /\ UNCHANGED avails
       \/ /\ ThisBar.size # 0 /\ ~ Fits                       \* "Cannot fit BAR"
          /\ MoveTo(Rounded) /\ cells' = Append(cells, 0)
       \/ /\ ThisBar.size # 0 /\ Fits
          /\ MoveTo(Behind(Rounded))
          /\ cells' = Append(cells, IF ThisBar.kind = "io" THEN Add(iobase, Rounded) ELSE Rounded)
    /\ UNCHANGED <<tree, stage, b, n, windows, devices>>

(* All have been: the interrupt line is set if it was not. *)
AssignDone ==
    /\ stage = "assign" /\ k > Len(Node.bars)
    /\ line' = IF line[b][n] \in {0, 255} /\ Node.present THEN [line EXCEPT ![b][n] = 9] ELSE line
    /\ stage' = "write" /\ k' = 1
    /\ UNCHANGED <<tree, b, n, windows, avails, cells, prop, wide, bar, enabled, pic>>

(* The second loop: what the register has to be, written if it differs. *)
RegisterValue == IF ThisBar.kind = "io" THEN Add(cells[k], Word - iobase) ELSE cells[k]

(* A loop that leaves the last BAR as it was. *)
WriteBar_but_last ==
    /\ stage = "write" /\ k <= Len(cells)
    /\ bar' = IF Node.present /\ k < Len(cells) THEN [bar EXCEPT ![b][n][k] = RegisterValue] ELSE bar
    /\ k' = k + 1
    /\ UNCHANGED <<tree, stage, b, n, windows, avails, cells, prop, wide, line, enabled, pic>>

WriteBar ==
    /\ stage = "write" /\ k <= Len(cells)
    /\ bar' = IF Node.present THEN [bar EXCEPT ![b][n][k] = RegisterValue] ELSE bar
    /\ k' = k + 1
    /\ UNCHANGED <<tree, stage, b, n, windows, avails, cells, prop, wide, line, enabled, pic>>

(* The 64-bit entries become 32-bit ones. *)
Truncated == [wide EXCEPT ![b][n] = {}]

(* The property is set; with the addresses the firmware had it is set only *)
(* if an entry was changed.                                                *)
NodeDone ==
    /\ stage = "write" /\ k > Len(cells)
    /\ IF Node.settable THEN /\ prop' = [prop EXCEPT ![b][n] = cells]
                            /\ wide' = Truncated
       ELSE UNCHANGED <<prop, wide>>           \* "Failed to set assigned-addresses"
    /\ stage' = "node" /\ n' = n + 1
    /\ UNCHANGED <<tree, b, k, windows, avails, cells, bar, line, enabled, pic>>

Done == stage = "done" /\ UNCHANGED busesVars

BusesNext ==
    \/ NoRanges \/ BasesForBus \/ EndOfBus \/ SkipNode \/ EnterNode
    \/ AssignBar \/ AssignDone \/ WriteBar \/ NodeDone \/ Done

BusesSpec == BusesInit /\ [][BusesNext]_busesVars
-----------------------------------------------------------------------------
(***************************************************************************)
(* The device trees that the setup is meant for.  A bus is walked if all   *)
(* of its ranges are there and its memory window is a known one.           *)
(***************************************************************************)
Whole(t) == t.io # 0 /\ t.iolen # 0 /\ t.mem # 0 /\ t.memlen # 0

Walked(t) == t.ranges /\ Whole(t) /\ KnownBus(t.mem)

(* The ranges of the second bus state both windows, so that it does not    *)
(* depend on what was left of the first one (see WindowsAreOwn).           *)
OwnRanges(t) == t[2].ranges => t[2].stated = {"io", "mem"}

(* Where the window of a BAR ends, as addr_for_bar() counts. *)
WindowEnd(bus, x) == IF x.kind = "io" THEN bus.iolen ELSE bus.mem + bus.memlen

(* The windows hold the reserved area and end below Word; BARs are no      *)
(* larger than what the ends of the windows are aligned to.                *)
RangesFit(t) ==
    \A c \in {1, 2} : Walked(t[c]) =>
        /\ IORES_TOP <= t[c].iolen /\ t[c].io + t[c].iolen <= Word
        /\ \A m \in DOMAIN t[c].nodes : \A j \in DOMAIN t[c].nodes[m].bars :
              LET x == t[c].nodes[m].bars[j]
              IN  x.size # 0 => /\ WindowEnd(t[c], x) % x.size = 0
                                /\ WindowEnd(t[c], x) + x.size < Word

(* The south bridge is the VT8231: its IDE, two USB and the sound function *)
(* are found in this order, whatever lies between them.                    *)
VT8231Sizes == << <<2, 1, 2, 1, 4>>, <<8>>, <<8>>, <<64, 1, 1>> >>

VT8231At(t, f) ==
    /\ f[1] < f[2] /\ f[2] < f[3] /\ f[3] < f[4]
    /\ \A g \in 1 .. 4 :
          LET d == t[1].nodes[f[g]]
          IN  /\ d.ok /\ d.southbridge /\ ~ d.assigned /\ Len(d.bars) = Len(VT8231Sizes[g])
              /\ \A j \in DOMAIN d.bars : d.bars[j] = [kind |-> "io", size |-> VT8231Sizes[g][j]]
    /\ \A m \in DOMAIN t[1].nodes : (\A g \in 1 .. 4 : m # f[g]) =>
          LET d == t[1].nodes[m]
          IN  d.southbridge /\ ~ d.assigned => \A j \in DOMAIN d.bars : d.bars[j].kind # "io"

HasVT8231(t) ==
    /\ IORES_START = 1024 /\ IORES_TOP = 1152 /\ Rewind = 12    \* 0x1000, 0x1200, 0x30
    /\ Walked(t[1]) => t[1].mem = MemBase[1]
    /\ t[2].mem # MemBase[1]
    /\ \E f \in [1 .. 4 -> DOMAIN t[1].nodes] : VT8231At(t, f)

(* Its functions have their addresses, as the pegasos2.rom leaves it. *)
SouthbridgeDone(t) ==
    \A c \in {1, 2} : t[c].mem = MemBase[1] => \A m \in DOMAIN t[c].nodes :
        LET d == t[c].nodes[m]
        IN  d.southbridge /\ ~ d.assigned => \A j \in DOMAIN d.bars : d.bars[j].kind # "io"

(* What a firmware has assigned is on a bus that is walked, its I/O        *)
(* addresses not below the window.                                         *)
FirmwareFits(t) ==
    \A c \in {1, 2} : \A m \in DOMAIN t[c].nodes :
        LET d == t[c].nodes[m]
        IN  d.assigned => /\ Walked(t[c])
                          /\ \A j \in DOMAIN d.bars : d.bars[j].kind = "io" =>
                                t[c].io <= d.addr[j] /\ d.addr[j] < t[c].io + Word
-----------------------------------------------------------------------------
(* The places the setup has given out on a bus: device, BAR. *)
Given(c) == {x \in (1 .. Len(tree[c].nodes)) \X (1 .. MaxBars) :
                /\ ~ tree[c].nodes[x[1]].assigned /\ x[2] \in DOMAIN prop[c][x[1]]
                /\ prop[c][x[1]][x[2]] # 0}
SizeOf(c, x) == tree[c].nodes[x[1]].bars[x[2]].size
KindOf(c, x) == tree[c].nodes[x[1]].bars[x[2]].kind
Place(c, x) == Region(prop[c][x[1]][x[2]], SizeOf(c, x))

(***************************************************************************)
(* No two BARs of a bus get the same address, although the reserved area   *)
(* is rewound when it is full ("rewind to fit the last two sound BARs").   *)
(***************************************************************************)
BarsApart ==
    \A c \in {1, 2} : \A x, y \in Given(c) :
        x # y /\ (KindOf(c, x) = "io" <=> KindOf(c, y) = "io")
            => ~ Overlap(Place(c, x), Place(c, y))

(***************************************************************************)
(* Every address given out lies in the window of its own bus (what does    *)
(* not fit is refused): "io and mem window base/size are shown where BARs  *)
(* are mapped".                                                            *)
(***************************************************************************)
BarsInWindow ==
    \A c \in {1, 2} : \A x \in Given(c) :
        LET t == tree[c]
            lo == IF KindOf(c, x) = "io" THEN t.io ELSE t.mem
            size == IF KindOf(c, x) = "io" THEN t.iolen ELSE t.memlen
        IN  lo <= Place(c, x).lo /\ Place(c, x).lo + SizeOf(c, x) <= lo + size

(***************************************************************************)
(* In the end registers and tree agree, for every BAR that has an address  *)
(* and every device that answers, and no device that could be looked at    *)
(* and written has a 64-bit BAR in the tree ("Also patch 64 bit BARs that  *)
(* the pegasos2 kernel cannot handle").                                    *)
(***************************************************************************)
TreeMatchesRegisters ==
    stage = "done" =>
        \A c \in {1, 2} : \A m \in DOMAIN tree[c].nodes :
            LET d == tree[c].nodes[m]
            IN  d.ok /\ d.settable =>
                    /\ wide[c][m] = {}
                    /\ \A j \in DOMAIN prop[c][m] :
                          d.present /\ prop[c][m][j] # 0 /\ tree[c].io # 0 =>
                              bar[c][m][j] + (IF d.bars[j].kind = "io" THEN tree[c].io ELSE 0)
                                  = prop[c][m][j]

(***************************************************************************)
(* "When running this under pegasos2.rom, only 64 bit BARs should be       *)
(* changed": what a firmware has assigned stays, in the tree and in the    *)
(* registers, and is not handed out a second time only because it was      *)
(* looked at.                                                              *)
(***************************************************************************)
FirmwareKept ==
    [][\A c \in {1, 2} : \A m \in DOMAIN tree[c].nodes :
          tree[c].nodes[m].assigned => prop'[c][m] = prop[c][m] /\ bar'[c][m] = bar[c][m]]_busesVars

(***************************************************************************)
(* A bus is set up with its own windows: "io and mem window base/size are  *)
(* shown where BARs are mapped", and one whose ranges lack a window is     *)
(* refused ("Cannot get ranges").                                          *)
(***************************************************************************)
WindowsAreOwn ==
    stage \in {"node", "assign", "write"} =>
        /\ iobase = tree[b].io /\ iolen = tree[b].iolen
        /\ membase = tree[b].mem /\ memlen = tree[b].memlen
=============================================================================
