-------------------------- MODULE Pegasos2PciProofs --------------------------
(***************************************************************************)
(* Proofs about Pegasos2Pci, for every device tree.                        *)
(***************************************************************************)
EXTENDS Pegasos2Pci, MemoryProofs, TLAPS

(* One entry for every device of the tree. *)
IsTable(f) == DOMAIN f = {1, 2} /\ \A c \in {1, 2} : DOMAIN f[c] = DOMAIN tree[c].nodes

(* The registers of the program, ... *)
Scalars ==
    /\ tree \in Trees /\ stage \in {"bus", "node", "assign", "write", "done"}
    /\ b \in {1, 2} /\ n \in Nat \ {0} /\ k \in Nat \ {0}
    /\ iobase \in Nat /\ iolen \in Nat /\ membase \in Nat /\ memlen \in Nat
    /\ ioresavail \in Nat /\ ioavail \in Nat /\ memavail \in Nat
    /\ cells \in Seq(Nat)

(* ... how many of the BARs have their address, ... *)
Progress ==
    /\ stage \in {"assign", "write"} => n \in DOMAIN tree[b].nodes
    /\ stage = "assign" => ~ Node.assigned /\ k = Len(cells) + 1 /\ Len(cells) <= Len(Node.bars)
    /\ stage = "write" => Len(cells) = Len(Node.bars)
    /\ stage = "done" => b = 2

(* ... and what there is for every device. *)
Tables ==
    /\ IsTable(prop) /\ IsTable(bar) /\ IsTable(wide)
    /\ \A c \in {1, 2} : \A m \in DOMAIN tree[c].nodes :
          LET d == tree[c].nodes[m]
          IN  /\ prop[c][m] \in Seq(Nat) /\ Len(prop[c][m]) \in {0, Len(d.bars)}
              /\ bar[c][m] \in [DOMAIN d.bars -> Int]

(***************************************************************************)
(* Every variable has its type; the addresses of a device are as many as   *)
(* its BARs once they are complete (brd_pegasos2.c).                       *)
(***************************************************************************)
TypeOK == Scalars /\ Progress /\ Tables

(* The devices of the tree, ... *)
LEMMA NodeFacts ==
  ASSUME tree \in Trees, NEW c \in {1, 2}
  PROVE  /\ tree[c] \in BusType
         /\ DOMAIN tree[c].nodes = 1 .. Len(tree[c].nodes) /\ Len(tree[c].nodes) \in Nat
         /\ \A m \in DOMAIN tree[c].nodes :
               LET d == tree[c].nodes[m]
               IN  /\ d \in NodeType /\ Len(d.bars) <= MaxBars
                   /\ d.assigned => Len(d.addr) = Len(d.bars)
                   /\ DOMAIN d.bars = 1 .. Len(d.bars) /\ Len(d.bars) \in Nat
                   /\ DOMAIN d.addr = 1 .. Len(d.addr) /\ Len(d.addr) \in Nat
                   /\ \A j \in DOMAIN d.bars : d.bars[j] \in BarType
                   /\ \A j \in DOMAIN d.addr : d.addr[j] \in Nat
<1>1. tree[c] \in BusType
  BY Pegasos2Assumption
<1>2. tree[c].nodes \in Seq(NodeType)
  BY <1>1 DEF BusType
<1>3. /\ DOMAIN tree[c].nodes = 1 .. Len(tree[c].nodes) /\ Len(tree[c].nodes) \in Nat
  BY <1>2
<1>4. ASSUME NEW m \in DOMAIN tree[c].nodes
      PROVE  LET d == tree[c].nodes[m]
             IN  /\ d \in NodeType /\ Len(d.bars) <= MaxBars
                 /\ d.assigned => Len(d.addr) = Len(d.bars)
                 /\ DOMAIN d.bars = 1 .. Len(d.bars) /\ Len(d.bars) \in Nat
                 /\ DOMAIN d.addr = 1 .. Len(d.addr) /\ Len(d.addr) \in Nat
                 /\ \A j \in DOMAIN d.bars : d.bars[j] \in BarType
                 /\ \A j \in DOMAIN d.addr : d.addr[j] \in Nat
  <2> DEFINE d == tree[c].nodes[m]
  <2>1. d \in NodeType
    BY <1>2, <1>4
  <2>2. Len(d.bars) <= MaxBars /\ (d.assigned => Len(d.addr) = Len(d.bars))
    BY <1>4, Pegasos2Assumption
  <2>3. d.bars \in Seq(BarType) /\ d.addr \in Seq(Nat)
    BY <2>1 DEF NodeType
  <2> HIDE DEF d
  <2>4. /\ DOMAIN d.bars = 1 .. Len(d.bars) /\ Len(d.bars) \in Nat
        /\ DOMAIN d.addr = 1 .. Len(d.addr) /\ Len(d.addr) \in Nat
        /\ \A j \in DOMAIN d.bars : d.bars[j] \in BarType
        /\ \A j \in DOMAIN d.addr : d.addr[j] \in Nat
    BY <2>3
  <2> QED
    BY <2>1, <2>2, <2>4 DEF d
<1> QED
  BY <1>1, <1>3, <1>4

LEMMA TypeInit == BusesInit => TypeOK
<1> SUFFICES ASSUME BusesInit PROVE TypeOK
  OBVIOUS
<1>1. /\ tree \in Trees /\ stage = "bus" /\ b = 1 /\ n = 1 /\ k = 1 /\ cells = << >>
      /\ iobase = 0 /\ iolen = 0 /\ membase = 0 /\ memlen = 0
      /\ ioresavail = 0 /\ ioavail = 0 /\ memavail = 0
  BY DEF BusesInit
<1>2. /\ prop = [c \in {1, 2} |-> [m \in DOMAIN tree[c].nodes |->
                    IF tree[c].nodes[m].assigned THEN tree[c].nodes[m].addr ELSE << >>]]
      /\ wide = [c \in {1, 2} |-> [m \in DOMAIN tree[c].nodes |->
                    {j \in DOMAIN tree[c].nodes[m].bars : tree[c].nodes[m].assigned
                        /\ tree[c].nodes[m].bars[j].kind = "mem64"}]]
      /\ bar = [c \in {1, 2} |-> [m \in DOMAIN tree[c].nodes |-> FirmwareRegisters(tree[c], m)]]
  BY DEF BusesInit, Each
<1>3. IsTable(prop) /\ IsTable(bar) /\ IsTable(wide)
  BY <1>2 DEF IsTable
<1>4. ASSUME NEW c \in {1, 2}, NEW m \in DOMAIN tree[c].nodes
      PROVE  LET d == tree[c].nodes[m]
             IN  /\ prop[c][m] \in Seq(Nat) /\ Len(prop[c][m]) \in {0, Len(d.bars)}
                 /\ bar[c][m] \in [DOMAIN d.bars -> Int]
  <2> DEFINE d == tree[c].nodes[m]
  <2>1. /\ d \in NodeType /\ (d.assigned => Len(d.addr) = Len(d.bars))
        /\ DOMAIN d.bars = 1 .. Len(d.bars) /\ DOMAIN d.addr = 1 .. Len(d.addr)
        /\ \A j \in DOMAIN d.addr : d.addr[j] \in Nat
        /\ tree[c] \in BusType
    BY <1>1, <1>4, NodeFacts
  <2>2. prop[c][m] = IF d.assigned THEN d.addr ELSE << >>
    BY <1>2, <1>4
  <2>3. bar[c][m] = [j \in DOMAIN d.bars |-> IF ~ d.assigned THEN 0
                                 ELSE d.addr[j] - IF d.bars[j].kind = "io" THEN tree[c].io ELSE 0]
    BY <1>2, <1>4 DEF FirmwareRegisters
  <2>4. tree[c].io \in Nat /\ d.addr \in Seq(Nat)
    BY <2>1 DEF BusType, NodeType
  <2> HIDE DEF d
  <2>5. bar[c][m] \in [DOMAIN d.bars -> Int]
    BY <2>1, <2>3, <2>4
  <2> QED
    BY <2>1, <2>2, <2>4, <2>5 DEF d
<1> QED
  BY <1>1, <1>3, <1>4 DEF TypeOK, Scalars, Progress, Tables

(* ... and the device and the BAR at hand. *)
LEMMA BarFacts ==
  ASSUME TypeOK, stage = "assign", k <= Len(Node.bars)
  PROVE  /\ n \in DOMAIN tree[b].nodes /\ k \in DOMAIN Node.bars
         /\ ThisBar \in BarType /\ ThisBar.size \in Nat
         /\ ThisBar.size # 0 => Rounded \in Nat
<1>1. n \in DOMAIN tree[b].nodes /\ b \in {1, 2} /\ k \in Nat \ {0} /\ tree \in Trees
  BY DEF TypeOK, Scalars, Progress
<1>2. k \in DOMAIN Node.bars /\ ThisBar \in BarType
  BY <1>1, NodeFacts DEF Node, ThisBar
<1>3. ThisBar.size \in Nat
  BY <1>2 DEF BarType
<1>4. IoAvail \in Nat /\ memavail \in Nat
  BY DEF TypeOK, Scalars, Progress, IoAvail
<1>5. ThisBar.size # 0 => Rounded \in Nat
  <2>1. \A a, d \in Nat : d # 0 => ROUND_UP(a, d) \in Nat
    BY RoundUpType
  <2> QED
    BY <1>3, <1>4, <2>1 DEF Rounded
<1> QED
  BY <1>1, <1>2, <1>3, <1>5

(* Steps that change nothing of the devices. *)
LEMMA SameTables ==
  ASSUME Tables, UNCHANGED <<tree, prop, bar, wide>>
  PROVE  Tables'
BY DEF Tables, IsTable

LEMMA TypeStep == TypeOK /\ [BusesNext]_busesVars => TypeOK'
<1> SUFFICES ASSUME TypeOK, [BusesNext]_busesVars PROVE TypeOK'
  OBVIOUS
<1>1. CASE NoRanges
  <2>1. UNCHANGED <<tree, n, k, windows, avails, cells, prop, bar, wide>>
    BY <1>1 DEF NoRanges, devices
  <2>2. stage' \in {"bus", "done"} /\ b' \in {1, 2} /\ (stage' = "done" => b' = 2)
    BY <1>1 DEF NoRanges, NextBus, TypeOK, Scalars, Progress
  <2> QED
    BY <2>1, <2>2, SameTables DEF TypeOK, Scalars, Progress, windows, avails
<1>2. CASE EndOfBus
  <2>1. UNCHANGED <<tree, n, k, windows, avails, cells, prop, bar, wide>>
    BY <1>2 DEF EndOfBus, devices
  <2>2. stage' \in {"bus", "done"} /\ b' \in {1, 2} /\ (stage' = "done" => b' = 2)
    BY <1>2 DEF EndOfBus, NextBus, TypeOK, Scalars, Progress
  <2> QED
    BY <2>1, <2>2, SameTables DEF TypeOK, Scalars, Progress, windows, avails
<1>3. CASE BasesForBus
  <2>1. UNCHANGED <<tree, k, cells, prop, bar, wide>>
    BY <1>3 DEF BasesForBus, devices
  <2>2. /\ stage' \in {"node", "bus", "done"} /\ b' \in {1, 2} /\ n' \in Nat \ {0}
        /\ stage' = "done" => b' = 2
    BY <1>3 DEF BasesForBus, NextBus, TypeOK, Scalars, Progress
  <2>3. tree[b] \in BusType
    BY NodeFacts DEF TypeOK, Scalars, Progress
  <2>4. iobase' \in Nat /\ iolen' \in Nat /\ membase' \in Nat /\ memlen' \in Nat
    BY <1>3, <2>3 DEF BasesForBus, Range_, TypeOK, Scalars, Progress, BusType
  <2>5. ioresavail' \in Nat /\ ioavail' \in Nat /\ memavail' \in Nat
    BY <1>3, <2>4, Pegasos2Assumption DEF BasesForBus, TypeOK, Scalars, Progress, avails
  <2> QED
    BY <2>1, <2>2, <2>4, <2>5, SameTables DEF TypeOK, Scalars, Progress
<1>4. CASE SkipNode
  <2>1. UNCHANGED <<tree, stage, b, k, windows, avails, cells, prop, bar, wide>> /\ n' = n + 1
        /\ stage = "node"
    BY <1>4 DEF SkipNode, devices
  <2> QED
    BY <2>1, SameTables DEF TypeOK, Scalars, Progress, windows, avails
<1>5. CASE EnterNode
  <2>1. UNCHANGED <<tree, b, windows, avails, prop, wide, bar>> /\ k' = 1
    BY <1>5 DEF EnterNode
  <2>2. n \in DOMAIN tree[b].nodes
    BY <1>5, NodeFacts DEF EnterNode, TypeOK, Scalars, Progress
  <2>3. Node \in NodeType /\ (Node.assigned => Len(Node.addr) = Len(Node.bars))
        /\ Len(Node.bars) \in Nat
    BY <2>2, NodeFacts DEF TypeOK, Scalars, Progress, Node
  <2>4. Node.addr \in Seq(Nat)
    BY <2>3 DEF NodeType
  <2>5. Node' = tree[b].nodes[n'] /\ (n' = n => Node' = Node)
    BY <2>1 DEF Node
  <2>6. \/ stage' = "write" /\ cells' = Node.addr /\ n' = n /\ Node.assigned
        \/ stage' = "node" /\ cells' = cells /\ n' = n + 1
        \/ stage' = "assign" /\ cells' = << >> /\ n' = n /\ ~ Node.assigned
    BY <1>5 DEF EnterNode, HasAddresses
  <2>7. Scalars'
    <3>1. cells' \in Seq(Nat)
      <4>1. << >> \in Seq(Nat) /\ cells \in Seq(Nat)
        BY DEF TypeOK, Scalars
      <4> QED
        BY <2>4, <2>6, <4>1, Zenon
    <3>2. n' \in Nat \ {0} /\ stage' \in {"node", "assign", "write"}
      BY <2>6 DEF TypeOK, Scalars
    <3> QED
      BY <2>1, <3>1, <3>2 DEF TypeOK, Scalars, windows, avails
  <2>8. Progress'
    BY <2>1, <2>2, <2>3, <2>5, <2>6 DEF Progress
  <2> QED
    BY <2>1, <2>7, <2>8, SameTables DEF TypeOK
<1>6. CASE AssignBar
  <2>1. UNCHANGED <<tree, stage, b, n, windows, prop, wide, bar>> /\ k' = k + 1
        /\ stage = "assign" /\ k <= Len(Node.bars)
    BY <1>6 DEF AssignBar, devices
  <2>2. ThisBar.size \in Nat /\ (ThisBar.size # 0 => Rounded \in Nat)
    BY <2>1, BarFacts
  <2>3. ThisBar.size # 0 => Add(Rounded, ThisBar.size) \in Nat /\ Add(iobase, Rounded) \in Nat
    <3>1. \A x, y \in Nat : Add(x, y) \in Nat
      BY AddType
    <3> QED
      BY <2>2, <3>1 DEF TypeOK, Scalars, Progress
  <2>4. \E v \in Nat : cells' = Append(cells, v)
    BY <1>6, <2>2, <2>3 DEF AssignBar
  <2>5. ioresavail' \in Nat /\ ioavail' \in Nat /\ memavail' \in Nat
    <3>1. ThisBar.size # 0 => Behind(Rounded) \in Nat
      BY <2>3, Pegasos2Assumption DEF Behind
    <3>2. ASSUME NEW a \in Nat, MoveTo(a)
          PROVE  ioresavail' \in Nat /\ ioavail' \in Nat /\ memavail' \in Nat
      BY <3>2 DEF MoveTo, TypeOK, Scalars, Progress
    <3> QED
      BY <1>6, <2>2, <3>1, <3>2 DEF AssignBar, avails, TypeOK, Scalars, Progress
  <2>6. cells \in Seq(Nat) /\ cells' \in Seq(Nat) /\ Len(cells') = Len(cells) + 1
    BY <2>4 DEF TypeOK, Scalars, Progress
  <2>7. Node' = Node
    BY <2>1 DEF Node
  <2> QED
    BY <2>1, <2>5, <2>6, <2>7, SameTables DEF TypeOK, Scalars, Progress, windows
<1>7. CASE AssignDone
  <2>1. /\ UNCHANGED <<tree, b, n, windows, avails, cells, prop, wide, bar>>
        /\ stage = "assign" /\ stage' = "write" /\ k' = 1 /\ k > Len(Node.bars) /\ Node' = Node
    BY <1>7 DEF AssignDone, Node
  <2>2. Len(Node.bars) \in Nat /\ Len(cells) \in Nat
    BY <2>1, NodeFacts DEF TypeOK, Scalars, Progress, Node
  <2>3. Len(cells) = Len(Node.bars)
    BY <2>1, <2>2 DEF TypeOK, Scalars, Progress
  <2> QED
    BY <2>1, <2>3, SameTables DEF TypeOK, Scalars, Progress, windows, avails
<1>8. CASE WriteBar
  <2>1. /\ UNCHANGED <<tree, stage, b, n, windows, avails, cells, prop, wide>>
        /\ stage = "write" /\ k' = k + 1 /\ k <= Len(cells) /\ Node' = Node
    BY <1>8 DEF WriteBar, Node
  <2>2. n \in DOMAIN tree[b].nodes /\ k \in DOMAIN cells /\ k \in DOMAIN Node.bars
    BY <2>1, NodeFacts DEF TypeOK, Scalars, Progress, Node
  <2>3. RegisterValue \in Int
    <3>1. cells[k] \in Nat /\ iobase \in Nat /\ Word \in Nat
      BY <2>2, WordAssumption DEF TypeOK, Scalars, Progress
    <3> QED
      BY <3>1, WordAssumption DEF RegisterValue, Add
  <2>4. bar' = bar \/ bar' = [bar EXCEPT ![b][n][k] = RegisterValue]
    BY <1>8 DEF WriteBar
  <2>5. IsTable(bar)' /\ \A c \in {1, 2} : \A m \in DOMAIN tree[c].nodes :
                            bar'[c][m] \in [DOMAIN tree[c].nodes[m].bars -> Int]
    <3>1. CASE bar' = bar
      BY <2>1, <3>1 DEF TypeOK, Scalars, Progress, Tables, IsTable
    <3>2. CASE bar' = [bar EXCEPT ![b][n][k] = RegisterValue]
      <4>1. IsTable(bar)'
        BY <2>1, <2>2, <3>2 DEF TypeOK, Scalars, Progress, Tables, IsTable
      <4>2. ASSUME NEW c \in {1, 2}, NEW m \in DOMAIN tree[c].nodes
            PROVE  bar'[c][m] \in [DOMAIN tree[c].nodes[m].bars -> Int]
        <5>1. /\ bar[c][m] \in [DOMAIN tree[c].nodes[m].bars -> Int]
              /\ bar'[c][m] = IF c = b /\ m = n THEN [bar[c][m] EXCEPT ![k] = RegisterValue]
                              ELSE bar[c][m]
          BY <2>2, <3>2, <4>2 DEF TypeOK, Scalars, Progress, Tables, IsTable
        <5> QED
          BY <2>2, <2>3, <5>1 DEF Node
      <4> QED
        BY <4>1, <4>2
    <3> QED
      BY <2>4, <3>1, <3>2
  <2>6. Tables'
    BY <2>1, <2>5 DEF TypeOK, Tables, IsTable
  <2>7. Scalars' /\ Progress'
    BY <2>1 DEF TypeOK, Scalars, Progress, windows, avails
  <2> QED
    BY <2>6, <2>7 DEF TypeOK
<1>9. CASE NodeDone
  <2>1. /\ UNCHANGED <<tree, b, k, windows, avails, cells, bar>>
        /\ stage = "write" /\ stage' = "node" /\ n' = n + 1 /\ n \in DOMAIN tree[b].nodes
        /\ cells \in Seq(Nat) /\ Len(cells) = Len(Node.bars)
    BY <1>9 DEF NodeDone, TypeOK, Scalars, Progress
  <2>2. /\ prop' = prop \/ prop' = [prop EXCEPT ![b][n] = cells]
        /\ wide' = wide \/ wide' = [wide EXCEPT ![b][n] = {}]
    BY <1>9 DEF NodeDone, Truncated
  <2>3. IsTable(prop)' /\ IsTable(wide)' /\ IsTable(bar)'
    BY <2>1, <2>2 DEF TypeOK, Scalars, Progress, Tables, IsTable
  <2>4. ASSUME NEW c \in {1, 2}, NEW m \in DOMAIN tree[c].nodes
        PROVE  prop'[c][m] = prop[c][m] \/ (c = b /\ m = n /\ prop'[c][m] = cells)
    BY <2>1, <2>2, <2>4 DEF TypeOK, Scalars, Progress, Tables, IsTable
  <2>5. Tables'
    BY <2>1, <2>3, <2>4 DEF TypeOK, Tables, Node
  <2>6. Scalars' /\ Progress'
    BY <2>1 DEF TypeOK, Scalars, Progress, windows, avails
  <2> QED
    BY <2>5, <2>6 DEF TypeOK
<1>10. CASE UNCHANGED busesVars
  BY <1>10, SameTables DEF busesVars, TypeOK, Scalars, Progress, Node
<1> QED
  BY <1>1, <1>2, <1>3, <1>4, <1>5, <1>6, <1>7, <1>8, <1>9, <1>10 DEF BusesNext, Done

(***************************************************************************)
(* The types are kept on every device tree; in particular cells[] has one  *)
(* address for each BAR when the registers are written (check_one_bus).    *)
(***************************************************************************)
THEOREM TypeCorrect == BusesSpec => []TypeOK
BY TypeInit, TypeStep, PTL DEF BusesSpec
-----------------------------------------------------------------------------
(* A bus is at work. *)
AtWork == stage \in {"node", "assign", "write"}

(***************************************************************************)
(* On a tree whose second bus states both windows, a bus is at work only   *)
(* with windows of its own: they are empty before the first bus.           *)
(***************************************************************************)
OwnInv ==
    /\ OwnRanges(tree) /\ WindowsAreOwn
    /\ stage = "bus" /\ b = 1 => iobase = 0 /\ iolen = 0 /\ membase = 0 /\ memlen = 0
    /\ AtWork => Walked(tree[b])

(* The devices whose property was not looked at yet. *)
Ahead(c, m) == c > b \/ (c = b /\ (stage = "bus" \/ (AtWork /\ m >= n)))

(* The addresses of a device: those that are being assigned, or the        *)
(* property.                                                               *)
Addrs(c, m) == IF stage \in {"assign", "write"} /\ c = b /\ m = n /\ ~ tree[c].nodes[m].assigned
               THEN cells ELSE prop[c][m]

(* A device that a firmware left alone has no property before its turn. *)
UntouchedInv ==
    \A c \in {1, 2} : \A m \in DOMAIN tree[c].nodes :
        ~ tree[c].nodes[m].assigned =>
            /\ wide[c][m] = {}
            /\ Ahead(c, m) => prop[c][m] = << >>

(* A BAR at an address of its bus lies in the window of that bus. *)
InWindow(t, x, a) ==
    IF x.kind = "io" THEN t.io <= a /\ a + x.size <= t.io + t.iolen
    ELSE t.mem <= a /\ a + x.size <= t.mem + t.memlen

(* The allocators stay in the windows, ... *)
AllocInv ==
    AtWork => /\ membase <= memavail /\ memavail <= membase + memlen
              /\ ioavail <= iolen /\ ioresavail <= iolen

(* ... and so does what they gave out. *)
PlacedInv ==
    \A c \in {1, 2} : \A m \in DOMAIN tree[c].nodes : ~ tree[c].nodes[m].assigned =>
        \A j \in DOMAIN Addrs(c, m) : Addrs(c, m)[j] # 0 =>
            /\ tree[c].nodes[m].bars[j].size # 0
            /\ InWindow(tree[c], tree[c].nodes[m].bars[j], Addrs(c, m)[j])

(* What a firmware has assigned. *)
FirmwareInv ==
    /\ \A c \in {1, 2} : \A m \in DOMAIN tree[c].nodes : tree[c].nodes[m].assigned =>
          prop[c][m] = tree[c].nodes[m].addr /\ bar[c][m] = FirmwareRegisters(tree[c], m)
    /\ stage = "write" /\ Node.assigned => cells = Node.addr

(* The registers below k have been written. *)
WrittenInv ==
    stage = "write" /\ Node.present =>
        \A j \in DOMAIN cells : j < k =>
            bar[b][n][j] = IF Node.bars[j].kind = "io" THEN Add(cells[j], Word - iobase) ELSE cells[j]

(* The property of a device agrees with its registers. *)
Settled(c, m) ==
    LET d == tree[c].nodes[m]
    IN  d.ok /\ d.settable =>
            /\ wide[c][m] = {}
            /\ \A j \in DOMAIN prop[c][m] :
                  d.present /\ prop[c][m][j] # 0 /\ tree[c].io # 0 =>
                      bar[c][m][j] + (IF d.bars[j].kind = "io" THEN tree[c].io ELSE 0)
                          = prop[c][m][j]

SettledInv == \A c \in {1, 2} : \A m \in DOMAIN tree[c].nodes : ~ Ahead(c, m) => Settled(c, m)

(* BARs that are not served from the reserved area. *)
Ordinary(c, m, j) ==
    LET d == tree[c].nodes[m]
    IN  ~ d.assigned /\ ~ (d.southbridge /\ d.bars[j].kind = "io")

(* An allocator is above what it has given out. *)
AboveInv ==
    AtWork => \A m \in DOMAIN tree[b].nodes : \A j \in DOMAIN Addrs(b, m) :
        Ordinary(b, m, j) /\ Addrs(b, m)[j] # 0 =>
            LET x == tree[b].nodes[m].bars[j]
            IN  Addrs(b, m)[j] + x.size <= IF x.kind = "io" THEN iobase + ioavail ELSE memavail

(* Two BARs at their addresses do not overlap. *)
Clear(t, m, j, i, l, a, d) ==
    LET x == t.nodes[m].bars[j]
        y == t.nodes[i].bars[l]
    IN  (x.kind = "io" <=> y.kind = "io") => a + x.size <= d \/ d + y.size <= a

ApartInv ==
    \A c \in {1, 2} : \A m, i \in DOMAIN tree[c].nodes :
        \A j \in DOMAIN Addrs(c, m), l \in DOMAIN Addrs(c, i) :
            /\ <<m, j>> # <<i, l>> /\ Ordinary(c, m, j) /\ Ordinary(c, i, l)
            /\ Addrs(c, m)[j] # 0 /\ Addrs(c, i)[l] # 0
            => Clear(tree[c], m, j, i, l, Addrs(c, m)[j], Addrs(c, i)[l])
-----------------------------------------------------------------------------
LEMMA OwnInit == BusesInit /\ OwnRanges(tree) => OwnInv
BY DEF BusesInit, OwnInv, WindowsAreOwn, AtWork

(* The bases of a bus are its own, as far as it has ranges. *)
LEMMA BasesOwn ==
  ASSUME TypeOK, OwnInv, BasesForBus
  PROVE  iobase' = tree[b].io /\ iolen' = tree[b].iolen /\ membase' = tree[b].mem /\ memlen' = tree[b].memlen
<1>1. b \in {1, 2} /\ tree[b].ranges /\ stage = "bus"
  BY DEF BasesForBus, TypeOK, Scalars
<1>2. /\ iobase' = Range_("io", tree[b].io, iobase) /\ iolen' = Range_("io", tree[b].iolen, iolen)
      /\ membase' = Range_("mem", tree[b].mem, membase) /\ memlen' = Range_("mem", tree[b].memlen, memlen)
  BY DEF BasesForBus
<1>3. CASE b = 1
  <2>1. /\ "io" \notin tree[b].stated => tree[b].io = 0 /\ tree[b].iolen = 0
        /\ "mem" \notin tree[b].stated => tree[b].mem = 0 /\ tree[b].memlen = 0
    BY <1>1, Pegasos2Assumption DEF TypeOK, Scalars
  <2> QED
    BY <1>1, <1>2, <1>3, <2>1 DEF OwnInv, Range_
<1>4. CASE b = 2
  BY <1>1, <1>2, <1>4 DEF OwnInv, OwnRanges, Range_
<1> QED
  BY <1>1, <1>3, <1>4

LEMMA OwnStep ==
  ASSUME TypeOK, OwnInv, [BusesNext]_busesVars
  PROVE  OwnInv'
<1>1. tree \in Trees /\ b \in {1, 2} /\ tree[b] \in BusType
  BY NodeFacts DEF TypeOK, Scalars
<1>2. CASE NoRanges \/ EndOfBus
  <2>1. UNCHANGED <<tree, iobase, iolen, membase, memlen>>
    BY <1>2 DEF NoRanges, EndOfBus, windows
  <2>2. (stage' = "bus" /\ b' = 2) \/ stage' = "done"
    BY <1>2 DEF NoRanges, EndOfBus, NextBus
  <2> QED
    BY <2>1, <2>2 DEF OwnInv, WindowsAreOwn, AtWork
<1>3. CASE BasesForBus
  <2>1. tree' = tree /\ tree[b].ranges /\ stage = "bus"
    BY <1>3 DEF BasesForBus
  <2>2. CASE stage' = "node"
    <3>1. b' = b /\ iobase' # 0 /\ iolen' # 0 /\ membase' # 0 /\ memlen' # 0 /\ KnownBus(membase')
      BY <1>3, <2>2 DEF BasesForBus, NextBus
    <3>2. iobase' = tree[b].io /\ iolen' = tree[b].iolen /\ membase' = tree[b].mem /\ memlen' = tree[b].memlen
      BY <1>3, BasesOwn
    <3>3. Walked(tree[b])
      BY <2>1, <3>1, <3>2 DEF Walked, Whole
    <3> QED
      BY <2>1, <2>2, <3>1, <3>2, <3>3 DEF OwnInv, WindowsAreOwn
  <2>3. CASE stage' # "node"
    <3>1. (stage' = "bus" /\ b' = 2) \/ stage' = "done"
      BY <1>3, <2>3 DEF BasesForBus, NextBus
    <3> QED
      BY <2>1, <3>1 DEF OwnInv, WindowsAreOwn, AtWork
  <2> QED
    BY <2>2, <2>3
<1>4. CASE SkipNode \/ EnterNode \/ AssignBar \/ AssignDone \/ WriteBar \/ NodeDone
  <2>1. UNCHANGED <<tree, b, iobase, iolen, membase, memlen>> /\ AtWork /\ AtWork'
    BY <1>4 DEF SkipNode, EnterNode, AssignBar, AssignDone, WriteBar, NodeDone, windows, devices, AtWork
  <2> QED
    BY <2>1 DEF OwnInv, WindowsAreOwn, AtWork
<1>5. CASE UNCHANGED busesVars
  BY <1>5 DEF busesVars, OwnInv, WindowsAreOwn, AtWork
<1> QED
  BY <1>2, <1>3, <1>4, <1>5 DEF BusesNext, Done

-----------------------------------------------------------------------------
(* The walk only goes forward. *)
LEMMA AheadStep ==
  ASSUME TypeOK, [BusesNext]_busesVars, NEW c \in {1, 2}, NEW m \in Nat, Ahead(c, m)'
  PROVE  Ahead(c, m)
<1>1. b \in {1, 2} /\ n \in Nat
  BY DEF TypeOK, Scalars
<1>2. CASE NoRanges \/ EndOfBus
  BY <1>1, <1>2 DEF NoRanges, EndOfBus, NextBus, Ahead, AtWork
<1>3. CASE BasesForBus
  <2>1. stage = "bus" /\ (b' = b \/ b' = 2) /\ (b' = b /\ b = 2 => stage' \in {"node", "done"})
        /\ (b' = b /\ b = 1 => stage' = "node") /\ (b' # b => b = 1)
    BY <1>1, <1>3 DEF BasesForBus, NextBus
  <2> QED
    BY <1>1, <2>1 DEF Ahead, AtWork
<1>4. CASE SkipNode \/ EnterNode \/ NodeDone
  <2>1. b' = b /\ AtWork /\ AtWork' /\ n' \in {n, n + 1}
    BY <1>4 DEF SkipNode, EnterNode, NodeDone, AtWork
  <2> QED
    BY <1>1, <2>1 DEF Ahead, AtWork
<1>5. CASE AssignBar \/ AssignDone \/ WriteBar
  <2>1. b' = b /\ AtWork /\ AtWork' /\ n' = n
    BY <1>5 DEF AssignBar, AssignDone, WriteBar, AtWork
  <2> QED
    BY <1>1, <2>1 DEF Ahead, AtWork
<1>6. CASE UNCHANGED busesVars
  BY <1>6 DEF busesVars, Ahead, AtWork
<1> QED
  BY <1>2, <1>3, <1>4, <1>5, <1>6 DEF BusesNext, Done

(* Only the end of a device changes its property. *)
LEMMA PropStep ==
  ASSUME TypeOK, [BusesNext]_busesVars, ~ NodeDone
  PROVE  UNCHANGED <<tree, prop, wide>>
BY DEF BusesNext, NoRanges, BasesForBus, EndOfBus, SkipNode, EnterNode, AssignBar, AssignDone,
       WriteBar, Done, devices, busesVars

LEMMA PropDone ==
  ASSUME TypeOK, NodeDone
  PROVE  /\ tree' = tree /\ b' = b /\ stage = "write" /\ stage' = "node" /\ n' = n + 1
         /\ n \in DOMAIN tree[b].nodes /\ bar' = bar
         /\ prop'[b][n] \in {cells, prop[b][n]}
         /\ Node.settable => prop'[b][n] = cells /\ wide'[b][n] = {}
         /\ wide'[b][n] \in {{}, wide[b][n]}
         /\ \A c \in {1, 2} : \A m \in DOMAIN tree[c].nodes : ~ (c = b /\ m = n) =>
               prop'[c][m] = prop[c][m] /\ wide'[c][m] = wide[c][m]
<1>1. /\ tree' = tree /\ b' = b /\ stage = "write" /\ stage' = "node" /\ n' = n + 1
      /\ n \in DOMAIN tree[b].nodes /\ bar' = bar /\ b \in {1, 2}
  BY DEF NodeDone, TypeOK, Progress, Scalars
<1>2. IsTable(prop) /\ IsTable(wide)
  BY DEF TypeOK, Tables
<1>3. CASE Node.settable
  <2>1. prop' = [prop EXCEPT ![b][n] = cells] /\ wide' = [wide EXCEPT ![b][n] = {}]
    BY <1>3 DEF NodeDone, Truncated
  <2>2. \A c \in {1, 2} : \A m \in DOMAIN tree[c].nodes :
           prop'[c][m] = IF c = b /\ m = n THEN cells ELSE prop[c][m]
    BY <1>1, <1>2, <2>1 DEF IsTable
  <2>3. \A c \in {1, 2} : \A m \in DOMAIN tree[c].nodes :
           wide'[c][m] = IF c = b /\ m = n THEN {} ELSE wide[c][m]
    BY <1>1, <1>2, <2>1 DEF IsTable
  <2> QED
    BY <1>1, <1>3, <2>2, <2>3
<1>4. CASE ~ Node.settable
  <2>1. prop' = prop /\ wide' = wide
    BY <1>4 DEF NodeDone
  <2> QED
    BY <1>1, <1>4, <2>1
<1> QED
  BY <1>3, <1>4

LEMMA UntouchedInit == BusesInit => UntouchedInv
BY DEF BusesInit, Each, UntouchedInv

LEMMA UntouchedStep ==
  ASSUME TypeOK, UntouchedInv, [BusesNext]_busesVars
  PROVE  UntouchedInv'
<1>1. tree' = tree
  BY PropStep, PropDone
<1> SUFFICES ASSUME NEW c \in {1, 2}, NEW m \in DOMAIN tree[c].nodes, ~ tree[c].nodes[m].assigned
             PROVE  wide'[c][m] = {} /\ (Ahead(c, m)' => prop'[c][m] = << >>)
  BY <1>1 DEF UntouchedInv
<1>2. m \in Nat /\ n \in Nat
  BY NodeFacts DEF TypeOK, Scalars
<1>3. wide[c][m] = {} /\ (Ahead(c, m)' => prop[c][m] = << >>)
  BY <1>2, AheadStep DEF UntouchedInv
<1>4. CASE NodeDone /\ c = b /\ m = n
  <2>1. wide'[c][m] = {}
    BY <1>3, <1>4, PropDone
  <2>2. ~ Ahead(c, m)'
    <3>1. b' = b /\ n' = n + 1 /\ stage' = "node" /\ b \in {1, 2}
      BY <1>4, PropDone DEF TypeOK, Scalars
    <3> QED
      BY <1>2, <1>4, <3>1 DEF Ahead, AtWork
  <2> QED
    BY <2>1, <2>2
<1>5. CASE NodeDone /\ ~ (c = b /\ m = n)
  BY <1>3, <1>5, PropDone
<1>6. CASE ~ NodeDone
  BY <1>3, <1>6, PropStep
<1> QED
  BY <1>4, <1>5, <1>6

(* What a device has been given is kept or, if its property cannot be set, *)
(* dropped.                                                                *)
LEMMA AddrsStep ==
  ASSUME TypeOK, UntouchedInv, [BusesNext]_busesVars, ~ AssignBar,
         NEW c \in {1, 2}, NEW m \in DOMAIN tree[c].nodes, ~ tree[c].nodes[m].assigned
  PROVE  Addrs(c, m)' \in {Addrs(c, m), << >>}
<1>1. CASE NoRanges \/ BasesForBus \/ EndOfBus \/ SkipNode
  <2>1. UNCHANGED <<tree, prop>> /\ stage \in {"bus", "node"} /\ stage' \in {"bus", "node", "done"}
    BY <1>1 DEF NoRanges, BasesForBus, EndOfBus, SkipNode, NextBus, devices
  <2> QED
    BY <2>1 DEF Addrs
<1>2. CASE EnterNode
  <2>1. /\ UNCHANGED <<tree, prop, b>> /\ stage = "node"
        /\ \/ stage' = "write" /\ n' = n /\ Node.assigned
           \/ stage' = "node"
           \/ stage' = "assign" /\ cells' = << >> /\ n' = n
    BY <1>2 DEF EnterNode, HasAddresses
  <2> QED
    BY <2>1 DEF Addrs, Node
<1>3. CASE AssignDone \/ WriteBar
  <2>1. UNCHANGED <<tree, prop, b, n, cells>> /\ stage \in {"assign", "write"} /\ stage' \in {"assign", "write"}
    BY <1>3 DEF AssignDone, WriteBar
  <2> QED
    BY <2>1 DEF Addrs
<1>4. CASE NodeDone
  <2>1. tree' = tree /\ stage = "write" /\ stage' = "node" /\ Addrs(c, m)' = prop'[c][m]
    BY <1>4, PropDone DEF Addrs
  <2>2. CASE c = b /\ m = n
    <3>1. Ahead(c, m) /\ Addrs(c, m) = cells
      <4>1. n \in Nat
        BY DEF TypeOK, Scalars
      <4> QED
        BY <2>1, <2>2, <4>1 DEF Ahead, AtWork, Addrs
    <3>2. prop[c][m] = << >>
      BY <3>1 DEF UntouchedInv
    <3> QED
      BY <1>4, <2>1, <2>2, <3>1, <3>2, PropDone
  <2>3. CASE ~ (c = b /\ m = n)
    BY <1>4, <2>1, <2>3, PropDone DEF Addrs
  <2> QED
    BY <2>2, <2>3
<1>5. CASE UNCHANGED busesVars
  BY <1>5 DEF busesVars, Addrs
<1> QED
  BY <1>1, <1>2, <1>3, <1>4, <1>5 DEF BusesNext, Done
-----------------------------------------------------------------------------
(* The arithmetic of addr_for_bar() in an I/O window, ... *)
RoundsInIo(r, a, s, len, base) ==
    /\ r \in Nat /\ a <= r /\ r <= len /\ Add(r, s) = r + s
    /\ r + s <= len => Add(base, r) = base + r

LEMMA IoArithmetic ==
  ASSUME NEW a \in Nat, NEW s \in Nat, NEW len \in Nat, NEW base \in Nat,
         s # 0, a <= len, len % s = 0, len + s < Word, base + len <= Word
  PROVE  RoundsInIo(ROUND_UP(a, s), a, s, len, base)
<1>1. ROUND_UP(a, s) \in Nat /\ a <= ROUND_UP(a, s) /\ ROUND_UP(a, s) <= len
  BY s > 0, RoundUpWithin
<1>2. ASSUME NEW r \in Nat, r <= len
      PROVE  Add(r, s) = r + s /\ (r + s <= len => Add(base, r) = base + r)
  <2>1. r + s < Word /\ (r + s <= len => base + r < Word)
    BY <1>2, WordAssumption
  <2> QED
    BY <2>1, AddSmall
<1> QED
  BY <1>1, <1>2 DEF RoundsInIo

(* ... and in a memory window. *)
RoundsInMem(r, a, s, len, base) ==
    /\ r \in Nat /\ a <= r /\ r <= base + len /\ Add(r, s) = r + s
    /\ Add(Add(r, Word - base), s) = r - base + s

LEMMA MemArithmetic ==
  ASSUME NEW a \in Nat, NEW s \in Nat, NEW len \in Nat, NEW base \in Nat,
         s # 0, base <= a, a <= base + len, (base + len) % s = 0, base + len + s < Word
  PROVE  RoundsInMem(ROUND_UP(a, s), a, s, len, base)
<1>1. ROUND_UP(a, s) \in Nat /\ a <= ROUND_UP(a, s) /\ ROUND_UP(a, s) <= base + len
  <2> DEFINE e == base + len
  <2>1. e \in Nat /\ s > 0 /\ a <= e /\ e % s = 0 /\ e + s < Word
    OBVIOUS
  <2> HIDE DEF e
  <2>2. ROUND_UP(a, s) \in Nat /\ a <= ROUND_UP(a, s) /\ ROUND_UP(a, s) <= e
    BY <2>1, RoundUpWithin
  <2> QED
    BY <2>2 DEF e
<1>2. ASSUME NEW r \in Nat, base <= r, r <= base + len
      PROVE  Add(r, s) = r + s /\ Add(Add(r, Word - base), s) = r - base + s
  <2>1. r + s < Word /\ r < base + Word /\ r - base \in Nat /\ (r - base) + s < Word
    BY <1>2, WordAssumption
  <2>2. Add(r, Word - base) = r - base
    BY <1>2, <2>1, AddBack
  <2>3. Add(r - base, s) = (r - base) + s
    BY <2>1, AddSmall
  <2> QED
    BY <2>1, <2>2, <2>3, AddSmall
<1> QED
  BY <1>1, <1>2 DEF RoundsInMem

(* What a BAR is given, and what that leaves of the windows. *)
Serves(v) ==
    v # 0 => /\ ThisBar.size # 0 /\ InWindow(tree[b], ThisBar, v)
             /\ ThisBar.kind # "io" => memavail <= v /\ v + ThisBar.size <= memavail'
             /\ ThisBar.kind = "io" /\ ~ Reserved =>
                   iobase + ioavail <= v /\ v + ThisBar.size <= iobase + ioavail'

Moves == /\ membase <= memavail' /\ memavail' <= membase + memlen /\ memavail <= memavail'
         /\ ioavail' <= iolen /\ ioavail <= ioavail' /\ ioresavail' <= iolen

LEMMA AssignServes ==
  ASSUME TypeOK, OwnInv, AllocInv, RangesFit(tree), AssignBar
  PROVE  Moves /\ \E v \in Nat : cells' = Append(cells, v) /\ Serves(v)
<1> DEFINE s == ThisBar.size
           t == tree[b]
<1>1. stage = "assign" /\ k <= Len(Node.bars)
  BY DEF AssignBar
<1>2. /\ n \in DOMAIN tree[b].nodes /\ k \in DOMAIN Node.bars /\ b \in {1, 2}
      /\ ThisBar \in BarType /\ s \in Nat
  BY <1>1, BarFacts DEF TypeOK, Scalars
<1>3. /\ iobase \in Nat /\ iolen \in Nat /\ membase \in Nat /\ memlen \in Nat
      /\ ioresavail \in Nat /\ ioavail \in Nat /\ memavail \in Nat
  BY DEF TypeOK, Scalars
<1>4. /\ iobase = t.io /\ iolen = t.iolen /\ membase = t.mem /\ memlen = t.memlen /\ Walked(t)
  BY <1>1 DEF OwnInv, WindowsAreOwn, AtWork
<1>5. /\ membase <= memavail /\ memavail <= membase + memlen
      /\ ioavail <= iolen /\ ioresavail <= iolen
  BY <1>1 DEF AllocInv, AtWork
<1>6. /\ IORES_TOP <= iolen /\ iobase + iolen <= Word
      /\ s # 0 => WindowEnd(t, ThisBar) % s = 0 /\ WindowEnd(t, ThisBar) + s < Word
  BY <1>2, <1>4 DEF RangesFit, Node, ThisBar
<1>7. IoAvail \in Nat /\ IoAvail <= iolen /\ (~ Reserved => IoAvail = ioavail)
  BY <1>2, <1>3, <1>5 DEF IoAvail, Reserved
<1>8. CASE s = 0
  <2>1. cells' = Append(cells, 0) /\ UNCHANGED <<ioresavail, ioavail, memavail>>
    BY <1>8 DEF AssignBar, avails
  <2> QED
    BY <1>3, <1>5, <2>1 DEF Serves, Moves
<1>9. CASE s # 0 /\ ThisBar.kind = "io"
  <2>1. iolen % s = 0 /\ iolen + s < Word
    BY <1>4, <1>6, <1>9 DEF WindowEnd
  <2>2. /\ Rounded \in Nat /\ IoAvail <= Rounded /\ Rounded <= iolen
        /\ Add(Rounded, s) = Rounded + s
        /\ Rounded + s <= iolen => Add(iobase, Rounded) = iobase + Rounded
    <3>1. Rounded = ROUND_UP(IoAvail, s)
      BY <1>9 DEF Rounded
    <3>2. \A a, d \in Nat : d # 0 /\ a <= iolen /\ iolen % d = 0 /\ iolen + d < Word =>
                             RoundsInIo(ROUND_UP(a, d), a, d, iolen, iobase)
      BY <1>3, <1>6, IoArithmetic
    <3>3. RoundsInIo(Rounded, IoAvail, s, iolen, iobase)
      BY <1>2, <1>7, <1>9, <2>1, <3>1, <3>2
    <3> QED
      BY <3>3 DEF RoundsInIo
  <2>3. Fits <=> Rounded + s <= iolen
    BY <1>9, <2>2 DEF Fits
  <2>4. CASE ~ Fits
    <3>1. cells' = Append(cells, 0) /\ MoveTo(Rounded)
      BY <1>9, <2>4 DEF AssignBar
    <3>2. Moves
      BY <1>3, <1>5, <1>7, <1>9, <2>2, <3>1 DEF MoveTo, Moves
    <3> QED
      BY <3>1, <3>2 DEF Serves
  <2>5. CASE Fits
    <3>1. cells' = Append(cells, iobase + Rounded) /\ MoveTo(Behind(Rounded)) /\ Rounded + s <= iolen
      BY <1>9, <2>2, <2>3, <2>5 DEF AssignBar
    <3>2. /\ ~ Reserved => Behind(Rounded) = Rounded + s
          /\ Behind(Rounded) \in Nat /\ Behind(Rounded) <= iolen
      BY <1>2, <1>3, <1>6, <2>2, <3>1, Pegasos2Assumption DEF Behind
    <3>3. Moves
      BY <1>2, <1>3, <1>5, <1>7, <1>9, <2>2, <3>1, <3>2 DEF MoveTo, Moves
    <3>4. ~ Reserved => ioavail' = Rounded + s
      BY <1>9, <3>1, <3>2 DEF MoveTo
    <3>5. /\ iobase <= iobase + Rounded /\ (iobase + Rounded) + s <= iobase + iolen
          /\ ~ Reserved => /\ iobase + ioavail <= iobase + Rounded
                           /\ (iobase + Rounded) + s <= iobase + ioavail'
      BY <1>2, <1>3, <1>7, <2>2, <3>1, <3>4
    <3>6. Serves(iobase + Rounded)
      BY <1>4, <1>9, <3>5, Zenon DEF Serves, InWindow
    <3> QED
      BY <1>3, <2>2, <3>1, <3>3, <3>6
  <2> QED
    BY <2>4, <2>5
<1>10. CASE s # 0 /\ ThisBar.kind # "io"
  <2>1. (membase + memlen) % s = 0 /\ membase + memlen + s < Word
    BY <1>4, <1>6, <1>10 DEF WindowEnd
  <2>2. /\ Rounded \in Nat /\ memavail <= Rounded /\ Rounded <= membase + memlen
        /\ Add(Rounded, s) = Rounded + s
        /\ Add(Add(Rounded, Word - membase), s) = Rounded - membase + s
    <3>1. Rounded = ROUND_UP(memavail, s)
      BY <1>10 DEF Rounded
    <3>2. \A d \in Nat : d # 0 /\ (membase + memlen) % d = 0 /\ membase + memlen + d < Word =>
                          RoundsInMem(ROUND_UP(memavail, d), memavail, d, memlen, membase)
      BY <1>3, <1>5, MemArithmetic
    <3>3. RoundsInMem(Rounded, memavail, s, memlen, membase)
      BY <1>2, <1>10, <2>1, <3>1, <3>2
    <3> QED
      BY <3>3 DEF RoundsInMem
  <2>3. Fits <=> Rounded - membase + s <= memlen
    BY <1>10, <2>2 DEF Fits
  <2>4. CASE ~ Fits
    <3>1. cells' = Append(cells, 0) /\ memavail' = Rounded /\ UNCHANGED <<ioresavail, ioavail>>
      BY <1>10, <2>4 DEF AssignBar, MoveTo
    <3>2. Moves
      BY <1>3, <1>5, <2>2, <3>1 DEF Moves
    <3> QED
      BY <3>1, <3>2 DEF Serves
  <2>5. CASE Fits
    <3>1. cells' = Append(cells, Rounded) /\ MoveTo(Behind(Rounded)) /\ Rounded - membase + s <= memlen
      BY <1>10, <2>3, <2>5 DEF AssignBar
    <3>2. Behind(Rounded) = Rounded + s
      BY <1>10, <2>2 DEF Behind
    <3>3. memavail' = Rounded + s /\ UNCHANGED <<ioresavail, ioavail>>
      BY <1>10, <3>1, <3>2 DEF MoveTo
    <3>4. Moves
      BY <1>2, <1>3, <1>5, <2>2, <3>1, <3>3 DEF Moves
    <3>5. /\ membase <= Rounded /\ Rounded + s <= membase + memlen
          /\ memavail <= Rounded /\ Rounded + s <= memavail'
      BY <1>2, <1>3, <1>5, <2>2, <3>1, <3>3
    <3>6. Serves(Rounded)
      BY <1>4, <1>10, <3>5, Zenon DEF Serves, InWindow
    <3> QED
      BY <2>2, <3>1, <3>4, <3>6
  <2> QED
    BY <2>4, <2>5
<1> QED
  BY <1>8, <1>9, <1>10

LEMMA AllocInit == BusesInit => AllocInv
BY DEF BusesInit, AllocInv, AtWork

LEMMA AllocStep ==
  ASSUME TypeOK, OwnInv, AllocInv, RangesFit(tree), [BusesNext]_busesVars
  PROVE  AllocInv'
<1>1. CASE BasesForBus
  <2> SUFFICES ASSUME AtWork'
               PROVE  /\ membase' <= memavail' /\ memavail' <= membase' + memlen'
                      /\ ioavail' <= iolen' /\ ioresavail' <= iolen'
    BY DEF AllocInv
  <2>1. /\ b' = b /\ tree' = tree /\ memavail' = membase' /\ KnownBus(membase')
        /\ membase' = MemBase[1] => ioresavail' = IORES_START /\ ioavail' = IORES_TOP
        /\ membase' = MemBase[2] /\ membase' # MemBase[1] => ioresavail' = iolen' /\ ioavail' = IORES_START
    BY <1>1 DEF BasesForBus, NextBus, AtWork
  <2>2. OwnInv' /\ TypeOK'
    BY OwnStep, TypeStep
  <2>3. iolen' = tree[b].iolen /\ Walked(tree[b])
    BY <2>1, <2>2 DEF OwnInv, WindowsAreOwn, AtWork
  <2>4. IORES_TOP <= iolen' /\ IORES_START <= iolen'
    <3>1. IORES_TOP <= iolen' /\ iolen' \in Nat
      BY <2>2, <2>3 DEF RangesFit, TypeOK, Scalars
    <3> QED
      BY <3>1, Pegasos2Assumption
  <2>5. membase' \in Nat /\ memlen' \in Nat /\ iolen' \in Nat
    BY <2>2 DEF TypeOK, Scalars
  <2>6. CASE membase' = MemBase[1]
    BY <2>1, <2>4, <2>5, <2>6
  <2>7. CASE membase' # MemBase[1]
    <3>1. ioresavail' = iolen' /\ ioavail' = IORES_START
      BY <2>1, <2>7 DEF KnownBus
    <3>2. \A x, y \in Nat : x <= x /\ x <= x + y
      OBVIOUS
    <3> QED
      BY <2>1, <2>4, <2>5, <3>1, <3>2, Zenon
  <2> QED
    BY <2>6, <2>7
<1>2. CASE AssignBar
  <2>1. Moves
    BY <1>2, AssignServes
  <2> QED
    BY <1>2, <2>1 DEF Moves, AllocInv, AtWork, AssignBar, windows
<1>3. CASE NoRanges \/ EndOfBus
  BY <1>3 DEF NoRanges, EndOfBus, NextBus, AllocInv, AtWork
<1>4. CASE SkipNode \/ EnterNode \/ AssignDone \/ WriteBar \/ NodeDone
  <2>1. UNCHANGED <<b, iobase, iolen, membase, memlen, ioresavail, ioavail, memavail>> /\ AtWork
    BY <1>4 DEF SkipNode, EnterNode, AssignDone, WriteBar, NodeDone, AtWork, windows, avails
  <2> QED
    BY <2>1 DEF AllocInv
<1>5. CASE UNCHANGED busesVars
  BY <1>5 DEF busesVars, AllocInv, AtWork
<1> QED
  BY <1>1, <1>2, <1>3, <1>4, <1>5 DEF BusesNext, Done

(* What the step of a BAR adds. *)
LEMMA AddrsAssign ==
  ASSUME TypeOK, AssignBar, NEW v \in Nat, cells' = Append(cells, v)
  PROVE  /\ UNCHANGED <<tree, b, n>> /\ n \in DOMAIN tree[b].nodes /\ b \in {1, 2}
         /\ k = Len(cells) + 1 /\ ~ Node.assigned
         /\ Addrs(b, n) = cells /\ Addrs(b, n)' = Append(cells, v)
         /\ DOMAIN Append(cells, v) = 1 .. k /\ DOMAIN cells = 1 .. k - 1 /\ k \in Nat
         /\ Append(cells, v)[k] = v /\ \A j \in DOMAIN cells : Append(cells, v)[j] = cells[j]
         /\ \A c \in {1, 2} : \A m \in DOMAIN tree[c].nodes :
               ~ (c = b /\ m = n) => Addrs(c, m)' = Addrs(c, m)
<1>1. UNCHANGED <<tree, stage, b, n, prop>> /\ stage = "assign"
  BY DEF AssignBar, devices
<1>2. n \in DOMAIN tree[b].nodes /\ b \in {1, 2} /\ k = Len(cells) + 1 /\ ~ Node.assigned
      /\ cells \in Seq(Nat)
  BY <1>1 DEF TypeOK, Scalars, Progress
<1>3. Addrs(b, n) = cells /\ Addrs(b, n)' = Append(cells, v)
  BY <1>1, <1>2 DEF Addrs, Node
<1>4. /\ DOMAIN Append(cells, v) = 1 .. k /\ DOMAIN cells = 1 .. k - 1 /\ k \in Nat
      /\ Append(cells, v)[k] = v /\ \A j \in DOMAIN cells : Append(cells, v)[j] = cells[j]
  BY <1>2
<1>5. ASSUME NEW c \in {1, 2}, NEW m \in DOMAIN tree[c].nodes, ~ (c = b /\ m = n)
      PROVE  Addrs(c, m)' = Addrs(c, m)
  BY <1>1, <1>5 DEF Addrs
<1> QED
  BY <1>1, <1>2, <1>3, <1>4, <1>5

LEMMA PlacedInit == BusesInit => PlacedInv
BY DEF BusesInit, Each, PlacedInv, Addrs

LEMMA PlacedStep ==
  ASSUME TypeOK, OwnInv, UntouchedInv, AllocInv, PlacedInv, RangesFit(tree), [BusesNext]_busesVars
  PROVE  PlacedInv'
<1>1. CASE AssignBar
  <2>1. PICK v \in Nat : cells' = Append(cells, v) /\ Serves(v)
    BY <1>1, AssignServes
  <2>2. v # 0 => ThisBar.size # 0 /\ InWindow(tree[b], ThisBar, v)
    BY <2>1 DEF Serves
  <2>3. /\ UNCHANGED <<tree, b, n>> /\ n \in DOMAIN tree[b].nodes /\ b \in {1, 2}
        /\ k = Len(cells) + 1 /\ ~ Node.assigned
        /\ Addrs(b, n) = cells /\ Addrs(b, n)' = Append(cells, v)
        /\ DOMAIN Append(cells, v) = 1 .. k /\ DOMAIN cells = 1 .. k - 1 /\ k \in Nat
        /\ Append(cells, v)[k] = v /\ \A j \in DOMAIN cells : Append(cells, v)[j] = cells[j]
        /\ \A c \in {1, 2} : \A m \in DOMAIN tree[c].nodes :
              ~ (c = b /\ m = n) => Addrs(c, m)' = Addrs(c, m)
    BY <1>1, <2>1, AddrsAssign
  <2> SUFFICES ASSUME NEW c \in {1, 2}, NEW m \in DOMAIN tree[c].nodes, ~ tree[c].nodes[m].assigned,
                      NEW j \in DOMAIN Addrs(c, m)', Addrs(c, m)'[j] # 0
               PROVE  /\ tree[c].nodes[m].bars[j].size # 0
                      /\ InWindow(tree[c], tree[c].nodes[m].bars[j], Addrs(c, m)'[j])
    BY <2>3 DEF PlacedInv
  <2>4. CASE c = b /\ m = n /\ j = k
    BY <2>2, <2>3, <2>4 DEF ThisBar, Node
  <2>5. CASE c = b /\ m = n /\ j # k
    <3>1. j \in DOMAIN Addrs(c, m) /\ Addrs(c, m)'[j] = Addrs(c, m)[j]
      BY <2>3, <2>5
    <3> QED
      BY <3>1 DEF PlacedInv
  <2>6. CASE ~ (c = b /\ m = n)
    BY <2>3, <2>6 DEF PlacedInv
  <2> QED
    BY <2>4, <2>5, <2>6
<1>2. CASE ~ AssignBar
  <2>1. tree' = tree
    BY PropStep, PropDone
  <2> SUFFICES ASSUME NEW c \in {1, 2}, NEW m \in DOMAIN tree[c].nodes, ~ tree[c].nodes[m].assigned,
                      NEW j \in DOMAIN Addrs(c, m)', Addrs(c, m)'[j] # 0
               PROVE  /\ tree[c].nodes[m].bars[j].size # 0
                      /\ InWindow(tree[c], tree[c].nodes[m].bars[j], Addrs(c, m)'[j])
    BY <2>1 DEF PlacedInv
  <2>2. Addrs(c, m)' \in {Addrs(c, m), << >>}
    BY <1>2, AddrsStep
  <2>3. Addrs(c, m)' = Addrs(c, m)
    BY <2>2
  <2> QED
    BY <2>3 DEF PlacedInv
<1> QED
  BY <1>1, <1>2

(* A place that was given out is one of the addresses above. *)
LEMMA GivenAddrs ==
  ASSUME TypeOK, UntouchedInv, NEW c \in {1, 2}, NEW x \in Given(c)
  PROVE  /\ x[1] \in DOMAIN tree[c].nodes /\ ~ tree[c].nodes[x[1]].assigned
         /\ Addrs(c, x[1]) = prop[c][x[1]] /\ x[2] \in DOMAIN Addrs(c, x[1])
         /\ Addrs(c, x[1])[x[2]] # 0 /\ Addrs(c, x[1])[x[2]] \in Nat
         /\ x = <<x[1], x[2]>>
<1>1. x \in (1 .. Len(tree[c].nodes)) \X (1 .. MaxBars)
  BY DEF Given
<1>2. /\ ~ tree[c].nodes[x[1]].assigned /\ x[2] \in DOMAIN prop[c][x[1]]
      /\ prop[c][x[1]][x[2]] # 0 /\ x = <<x[1], x[2]>>
      /\ x[1] \in DOMAIN tree[c].nodes
  BY <1>1, NodeFacts DEF Given, TypeOK, Scalars
<1>3. ~ Ahead(c, x[1])
  BY <1>2 DEF UntouchedInv
<1>4. ~ (stage \in {"assign", "write"} /\ c = b /\ x[1] = n)
  BY <1>3 DEF Ahead, AtWork, TypeOK, Scalars
<1>5. Addrs(c, x[1]) = prop[c][x[1]]
  BY <1>4 DEF Addrs
<1>6. prop[c][x[1]] \in Seq(Nat)
  BY <1>2 DEF TypeOK, Tables
<1> QED
  BY <1>2, <1>5, <1>6

RangesInv == TypeOK /\ OwnInv /\ UntouchedInv /\ AllocInv /\ PlacedInv /\ RangesFit(tree)

LEMMA RangesInit == BusesInit /\ OwnRanges(tree) /\ RangesFit(tree) => RangesInv
BY TypeInit, OwnInit, UntouchedInit, AllocInit, PlacedInit DEF RangesInv

LEMMA RangesStep == RangesInv /\ [BusesNext]_busesVars => RangesInv'
<1> SUFFICES ASSUME RangesInv, [BusesNext]_busesVars PROVE RangesInv'
  OBVIOUS
<1> USE DEF RangesInv
<1>1. TypeOK' /\ OwnInv' /\ UntouchedInv' /\ AllocInv' /\ PlacedInv'
  BY TypeStep, OwnStep, UntouchedStep, AllocStep, PlacedStep
<1>2. tree' = tree
  BY PropStep, PropDone
<1>3. RangesFit(tree)'
  BY <1>2 DEF RangesFit
<1> QED
  BY <1>1, <1>3

LEMMA PlacedInWindow == RangesInv => BarsInWindow
<1> SUFFICES ASSUME RangesInv, NEW c \in {1, 2}, NEW x \in Given(c)
             PROVE  LET t == tree[c]
                        lo == IF KindOf(c, x) = "io" THEN t.io ELSE t.mem
                        size == IF KindOf(c, x) = "io" THEN t.iolen ELSE t.memlen
                    IN  lo <= Place(c, x).lo /\ Place(c, x).lo + SizeOf(c, x) <= lo + size
  BY DEF BarsInWindow
<1>1. InWindow(tree[c], tree[c].nodes[x[1]].bars[x[2]], prop[c][x[1]][x[2]])
  BY GivenAddrs DEF RangesInv, PlacedInv
<1>2. Place(c, x).lo = prop[c][x[1]][x[2]]
  BY DEF Place, Region
<1> QED
  BY <1>1, <1>2, Zenon DEF InWindow, KindOf, SizeOf

(***************************************************************************)
(* On a device tree with whole ranges that BARs do not straddle, every     *)
(* address that is given out lies in the window of its bus: what does not  *)
(* fit is refused, rounding and the rewinding of the reserved area         *)
(* included (addr_for_bar).                                                *)
(***************************************************************************)
THEOREM InWindows == BusesSpec /\ OwnRanges(tree) /\ RangesFit(tree) => []BarsInWindow
BY RangesInit, RangesStep, PlacedInWindow, PTL DEF BusesSpec
-----------------------------------------------------------------------------
(* What the step of a register changes. *)
LEMMA BarStep ==
  ASSUME TypeOK, [BusesNext]_busesVars, ~ WriteBar
  PROVE  UNCHANGED <<tree, bar>>
BY DEF BusesNext, NoRanges, BasesForBus, EndOfBus, SkipNode, EnterNode, AssignBar, AssignDone,
       NodeDone, Done, devices, busesVars

LEMMA BarWrite ==
  ASSUME TypeOK, WriteBar
  PROVE  /\ UNCHANGED <<tree, stage, b, n, cells, iobase, prop>> /\ stage = "write" /\ k' = k + 1
         /\ b \in {1, 2} /\ n \in DOMAIN tree[b].nodes /\ k \in DOMAIN cells
         /\ k \in DOMAIN Node.bars /\ cells[k] \in Nat /\ iobase \in Nat
         /\ DOMAIN bar[b][n] = DOMAIN Node.bars /\ Node' = Node
         /\ \A c \in {1, 2} : \A m \in DOMAIN tree[c].nodes :
               bar'[c][m] = IF c = b /\ m = n /\ Node.present
                            THEN [bar[b][n] EXCEPT ![k] = RegisterValue] ELSE bar[c][m]
<1>1. /\ UNCHANGED <<tree, stage, b, n, cells, iobase, prop>> /\ stage = "write" /\ k' = k + 1
      /\ k <= Len(cells) /\ Node' = Node
  BY DEF WriteBar, windows, Node
<1>2. n \in DOMAIN tree[b].nodes /\ b \in {1, 2} /\ k \in DOMAIN cells /\ k \in DOMAIN Node.bars
      /\ cells[k] \in Nat /\ iobase \in Nat
  BY <1>1, NodeFacts DEF TypeOK, Scalars, Progress, Node
<1>3. IsTable(bar) /\ DOMAIN bar[b][n] = DOMAIN Node.bars
  BY <1>2 DEF TypeOK, Tables, Node
<1>4. ASSUME NEW c \in {1, 2}, NEW m \in DOMAIN tree[c].nodes
      PROVE  bar'[c][m] = IF c = b /\ m = n /\ Node.present
                          THEN [bar[b][n] EXCEPT ![k] = RegisterValue] ELSE bar[c][m]
  <2>1. bar' = IF Node.present THEN [bar EXCEPT ![b][n][k] = RegisterValue] ELSE bar
    BY DEF WriteBar
  <2> QED
    BY <1>2, <1>3, <1>4, <2>1 DEF IsTable
<1> QED
  BY <1>1, <1>2, <1>3, <1>4

(* An address of the firmware leads to the register it had. *)
LEMMA SameRegister ==
  ASSUME TypeOK, OwnInv, FirmwareInv, FirmwareFits(tree), WriteBar, Node.assigned
  PROVE  RegisterValue = bar[b][n][k]
<1>1. /\ stage = "write" /\ b \in {1, 2} /\ n \in DOMAIN tree[b].nodes
      /\ k \in DOMAIN Node.bars /\ cells[k] \in Nat /\ iobase \in Nat
  BY BarWrite
<1>2. cells[k] = Node.addr[k] /\ iobase = tree[b].io
  BY <1>1 DEF FirmwareInv, OwnInv, WindowsAreOwn
<1>3. bar[b][n][k] = cells[k] - IF ThisBar.kind = "io" THEN iobase ELSE 0
  <2>1. bar[b][n] = FirmwareRegisters(tree[b], n)
    BY <1>1 DEF FirmwareInv, Node
  <2>2. FirmwareRegisters(tree[b], n)[k] = Node.addr[k] - IF ThisBar.kind = "io" THEN tree[b].io ELSE 0
    BY <1>1 DEF FirmwareRegisters, Node, ThisBar
  <2> QED
    BY <1>2, <2>1, <2>2
<1>4. ThisBar.kind = "io" => iobase <= cells[k] /\ cells[k] < iobase + Word
  BY <1>1, <1>2 DEF FirmwareFits, Node, ThisBar
<1>5. CASE ThisBar.kind = "io"
  <2>1. Add(cells[k], Word - iobase) = cells[k] - iobase
    BY <1>1, <1>4, <1>5, AddBack
  <2> QED
    BY <1>3, <1>5, <2>1 DEF RegisterValue
<1>6. CASE ThisBar.kind # "io"
  BY <1>1, <1>3, <1>6 DEF RegisterValue
<1> QED
  BY <1>5, <1>6

LEMMA FirmwareInit == BusesInit => FirmwareInv
BY DEF BusesInit, Each, FirmwareInv

(* So neither its property nor its registers change. *)
LEMMA FirmwareSame ==
  ASSUME TypeOK, OwnInv, FirmwareInv, FirmwareFits(tree), [BusesNext]_busesVars,
         NEW c \in {1, 2}, NEW m \in DOMAIN tree[c].nodes, tree[c].nodes[m].assigned
  PROVE  prop'[c][m] = prop[c][m] /\ bar'[c][m] = bar[c][m]
<1>1. prop'[c][m] = prop[c][m]
  <2>1. CASE NodeDone /\ c = b /\ m = n
    <3>1. cells = tree[c].nodes[m].addr /\ prop[c][m] = tree[c].nodes[m].addr
      BY <2>1, PropDone DEF FirmwareInv, Node
    <3> QED
      BY <2>1, <3>1, PropDone
  <2>2. CASE NodeDone /\ ~ (c = b /\ m = n)
    BY <2>2, PropDone
  <2>3. CASE ~ NodeDone
    BY <2>3, PropStep
  <2> QED
    BY <2>1, <2>2, <2>3
<1>2. bar'[c][m] = bar[c][m]
  <2>1. CASE WriteBar /\ c = b /\ m = n
    <3>1. RegisterValue = bar[c][m][k]
      BY <2>1, SameRegister DEF Node
    <3>2. bar[c][m] \in [DOMAIN Node.bars -> Int] /\ k \in DOMAIN Node.bars
      BY <2>1, BarWrite DEF TypeOK, Tables, Node
    <3>3. [bar[c][m] EXCEPT ![k] = RegisterValue] = bar[c][m]
      BY <3>1, <3>2
    <3> QED
      BY <2>1, <3>3, BarWrite
  <2>2. CASE WriteBar /\ ~ (c = b /\ m = n)
    BY <2>2, BarWrite
  <2>3. CASE ~ WriteBar
    BY <2>3, BarStep
  <2> QED
    BY <2>1, <2>2, <2>3
<1> QED
  BY <1>1, <1>2

LEMMA FirmwareStep ==
  ASSUME TypeOK, OwnInv, FirmwareInv, FirmwareFits(tree), [BusesNext]_busesVars
  PROVE  FirmwareInv'
<1>1. tree' = tree
  BY PropStep, PropDone
<1>2. ASSUME NEW c \in {1, 2}, NEW m \in DOMAIN tree[c].nodes, tree[c].nodes[m].assigned
      PROVE  prop'[c][m] = tree[c].nodes[m].addr /\ bar'[c][m] = FirmwareRegisters(tree[c], m)
  BY <1>2, FirmwareSame DEF FirmwareInv
<1>3. stage' = "write" /\ Node'.assigned => cells' = Node'.addr
  <2> SUFFICES ASSUME stage' = "write", Node'.assigned
               PROVE  cells' = Node'.addr
    OBVIOUS
  <2>1. CASE EnterNode
    <3>1. cells' = Node.addr /\ UNCHANGED <<tree, b, n>>
      BY <2>1 DEF EnterNode, HasAddresses
    <3> QED
      BY <3>1 DEF Node
  <2>2. CASE AssignDone
    <3>1. ~ Node.assigned /\ UNCHANGED <<tree, b, n>>
      BY <2>2 DEF AssignDone, TypeOK, Progress
    <3> QED
      BY <3>1 DEF Node
  <2>3. CASE WriteBar \/ UNCHANGED busesVars
    <3>1. UNCHANGED <<tree, b, n, stage, cells>>
      BY <2>3 DEF WriteBar, busesVars
    <3> QED
      BY <3>1 DEF FirmwareInv, Node
  <2> QED
    BY <2>1, <2>2, <2>3 DEF BusesNext, Done, NoRanges, EndOfBus, BasesForBus, NextBus, SkipNode,
       AssignBar, NodeDone
<1> QED
  BY <1>1, <1>2, <1>3 DEF FirmwareInv, FirmwareRegisters

KeptInv == TypeOK /\ OwnInv /\ FirmwareInv /\ FirmwareFits(tree)

LEMMA KeptInit == BusesInit /\ OwnRanges(tree) /\ FirmwareFits(tree) => KeptInv
BY TypeInit, OwnInit, FirmwareInit DEF KeptInv

LEMMA KeptStep == KeptInv /\ [BusesNext]_busesVars => KeptInv'
<1> SUFFICES ASSUME KeptInv, [BusesNext]_busesVars PROVE KeptInv'
  OBVIOUS
<1> USE DEF KeptInv
<1>1. TypeOK' /\ OwnInv' /\ FirmwareInv'
  BY TypeStep, OwnStep, FirmwareStep
<1>2. tree' = tree
  BY PropStep, PropDone
<1>3. FirmwareFits(tree)'
  BY <1>2 DEF FirmwareFits
<1> QED
  BY <1>1, <1>3

(***************************************************************************)
(* What a firmware has assigned on a bus that is walked keeps its entry in *)
(* the tree and its registers, whatever else is set up: the second loop of *)
(* check_one_bus() computes the value the register already has.            *)
(***************************************************************************)
THEOREM Kept == BusesSpec /\ OwnRanges(tree) /\ FirmwareFits(tree) => FirmwareKept
<1>1. KeptInv /\ [BusesNext]_busesVars =>
        [\A c \in {1, 2} : \A m \in DOMAIN tree[c].nodes :
            tree[c].nodes[m].assigned => prop'[c][m] = prop[c][m] /\ bar'[c][m] = bar[c][m]]_busesVars
  BY FirmwareSame DEF KeptInv
<1> QED
  BY <1>1, KeptInit, KeptStep, PTL DEF BusesSpec, FirmwareKept
-----------------------------------------------------------------------------
LEMMA WrittenInit == BusesInit => WrittenInv
BY DEF BusesInit, WrittenInv

LEMMA WrittenStep ==
  ASSUME TypeOK, WrittenInv, [BusesNext]_busesVars
  PROVE  WrittenInv'
<1>1. CASE EnterNode \/ AssignDone
  <2>1. k' = 1 /\ TypeOK'
    BY <1>1, TypeStep DEF EnterNode, AssignDone
  <2>2. \A j \in DOMAIN cells' : ~ (j < k')
    BY <2>1 DEF TypeOK, Scalars
  <2> QED
    BY <2>2 DEF WrittenInv
<1>2. CASE WriteBar
  <2> DEFINE W(j) == IF Node.bars[j].kind = "io" THEN Add(cells[j], Word - iobase) ELSE cells[j]
  <2>1. /\ UNCHANGED <<tree, stage, b, n, cells, iobase>> /\ stage = "write" /\ k' = k + 1 /\ Node' = Node
        /\ n \in DOMAIN tree[b].nodes /\ b \in {1, 2} /\ k \in DOMAIN Node.bars
        /\ DOMAIN bar[b][n] = DOMAIN Node.bars
        /\ Node.present => bar'[b][n] = [bar[b][n] EXCEPT ![k] = RegisterValue]
    BY <1>2, BarWrite
  <2>2. RegisterValue = W(k)
    BY DEF RegisterValue, ThisBar
  <2>3. k \in Nat /\ DOMAIN cells = 1 .. Len(cells) /\ Len(cells) \in Nat
        /\ DOMAIN Node.bars = DOMAIN cells
    BY <2>1, NodeFacts DEF TypeOK, Scalars, Progress, Node
  <2>4. ASSUME Node.present, NEW j \in DOMAIN cells, j < k'
        PROVE  bar'[b][n][j] = W(j)
    <3>1. CASE j = k
      BY <2>1, <2>2, <2>4, <3>1
    <3>2. CASE j # k
      <4>1. j < k
        BY <2>1, <2>3, <2>4, <3>2
      <4>2. bar[b][n][j] = W(j)
        BY <2>1, <2>4, <4>1 DEF WrittenInv
      <4> QED
        BY <2>1, <2>3, <2>4, <3>2, <4>2
    <3> QED
      BY <3>1, <3>2
  <2> QED
    BY <2>1, <2>4 DEF WrittenInv
<1>3. CASE stage' # "write"
  BY <1>3 DEF WrittenInv
<1>4. CASE UNCHANGED busesVars
  BY <1>4 DEF busesVars, WrittenInv, Node
<1> QED
  BY <1>1, <1>2, <1>3, <1>4 DEF BusesNext, Done, NoRanges, EndOfBus, BasesForBus, NextBus, SkipNode,
     AssignBar, NodeDone

(* An I/O address that is written is one of the window, ... *)
LEMMA CellInWindow ==
  ASSUME TypeOK, OwnInv, PlacedInv, RangesFit(tree), FirmwareInv, FirmwareFits(tree),
         stage = "write", NEW j \in DOMAIN cells, cells[j] # 0, Node.bars[j].kind = "io"
  PROVE  iobase <= cells[j] /\ cells[j] < iobase + Word
<1>1. /\ b \in {1, 2} /\ n \in DOMAIN tree[b].nodes /\ j \in DOMAIN Node.bars
      /\ cells[j] \in Nat /\ Node.bars[j] \in BarType /\ iobase \in Nat /\ iolen \in Nat
  BY NodeFacts DEF TypeOK, Scalars, Progress, Node
<1>2. iobase = tree[b].io /\ iolen = tree[b].iolen /\ Walked(tree[b])
  BY DEF OwnInv, WindowsAreOwn, AtWork
<1>3. CASE Node.assigned
  BY <1>1, <1>2, <1>3 DEF FirmwareInv, FirmwareFits, Node
<1>4. CASE ~ Node.assigned
  <2>1. Addrs(b, n) = cells
    BY <1>4 DEF Addrs, Node
  <2>2. Node.bars[j].size # 0 /\ InWindow(tree[b], Node.bars[j], cells[j])
    BY <1>1, <1>4, <2>1 DEF PlacedInv, Node
  <2>3. iobase <= cells[j] /\ cells[j] + Node.bars[j].size <= iobase + iolen
    BY <1>2, <2>2 DEF InWindow
  <2>4. iobase + iolen <= Word
    BY <1>1, <1>2 DEF RangesFit
  <2>5. Node.bars[j].size \in Nat
    BY <1>1 DEF BarType
  <2> QED
    BY <1>1, <2>2, <2>3, <2>4, <2>5, WordAssumption
<1> QED
  BY <1>3, <1>4

(* ... so that its register leads back to it. *)
LEMMA RegisterLeadsBack ==
  ASSUME TypeOK, OwnInv, PlacedInv, RangesFit(tree), FirmwareInv, FirmwareFits(tree), WrittenInv,
         NodeDone, Node.present, NEW j \in DOMAIN cells, cells[j] # 0
  PROVE  bar[b][n][j] + (IF Node.bars[j].kind = "io" THEN tree[b].io ELSE 0) = cells[j]
<1>1. stage = "write" /\ k > Len(cells)
  BY DEF NodeDone
<1>2. j < k /\ cells[j] \in Nat /\ iobase \in Nat
  BY <1>1 DEF TypeOK, Scalars
<1>3. bar[b][n][j] = IF Node.bars[j].kind = "io" THEN Add(cells[j], Word - iobase) ELSE cells[j]
  BY <1>1, <1>2 DEF WrittenInv
<1>4. iobase = tree[b].io
  BY <1>1 DEF OwnInv, WindowsAreOwn
<1>5. CASE Node.bars[j].kind = "io"
  <2>1. iobase <= cells[j] /\ cells[j] < iobase + Word
    BY <1>1, <1>5, CellInWindow
  <2>2. Add(cells[j], Word - iobase) = cells[j] - iobase
    BY <1>2, <2>1, AddBack
  <2> QED
    BY <1>2, <1>3, <1>4, <1>5, <2>2
<1>6. CASE Node.bars[j].kind # "io"
  BY <1>2, <1>3, <1>6
<1> QED
  BY <1>5, <1>6

AgreeInv == RangesInv /\ KeptInv /\ WrittenInv /\ SettledInv

LEMMA SettledInit == BusesInit => SettledInv
<1> SUFFICES ASSUME BusesInit, NEW c \in {1, 2} PROVE \A m \in DOMAIN tree[c].nodes : Ahead(c, m)
  BY DEF SettledInv
<1>1. stage = "bus" /\ b = 1
  BY DEF BusesInit
<1> QED
  BY <1>1 DEF Ahead

(* A device that was done with, and one that the walk passes by. *)
LEMMA StaysSettled ==
  ASSUME TypeOK, [BusesNext]_busesVars, NEW c \in {1, 2}, NEW m \in DOMAIN tree[c].nodes,
         ~ Ahead(c, m), Settled(c, m)
  PROVE  Settled(c, m)'
<1>1. ~ (stage = "write" /\ c = b /\ m = n)
  BY DEF Ahead, AtWork, TypeOK, Scalars
<1>2. tree' = tree /\ prop'[c][m] = prop[c][m] /\ wide'[c][m] = wide[c][m]
  BY <1>1, PropStep, PropDone
<1>3. bar'[c][m] = bar[c][m]
  BY <1>1, BarStep, BarWrite
<1> QED
  BY <1>2, <1>3 DEF Settled

LEMMA PassedSettled ==
  ASSUME UntouchedInv, NEW c \in {1, 2}, NEW m \in DOMAIN tree[c].nodes,
         ~ tree[c].nodes[m].assigned, Ahead(c, m), UNCHANGED <<tree, prop, wide, bar>>
  PROVE  Settled(c, m)'
<1>1. prop[c][m] = << >> /\ wide[c][m] = {}
  BY DEF UntouchedInv
<1>2. DOMAIN prop[c][m] = {}
  BY <1>1
<1> QED
  BY <1>1, <1>2 DEF Settled

LEMMA SettledStep ==
  ASSUME AgreeInv, [BusesNext]_busesVars
  PROVE  SettledInv'
<1>1. /\ TypeOK /\ OwnInv /\ UntouchedInv /\ PlacedInv /\ RangesFit(tree)
      /\ FirmwareInv /\ FirmwareFits(tree) /\ WrittenInv /\ SettledInv
  BY DEF AgreeInv, RangesInv, KeptInv
<1>2. tree' = tree
  BY <1>1, PropStep, PropDone
<1> SUFFICES ASSUME NEW c \in {1, 2}, NEW m \in DOMAIN tree[c].nodes, ~ Ahead(c, m)'
             PROVE  Settled(c, m)'
  BY <1>2 DEF SettledInv
<1>3. m \in Nat /\ m <= Len(tree[c].nodes) /\ Len(tree[c].nodes) \in Nat /\ n \in Nat /\ b \in {1, 2}
  BY <1>1, NodeFacts DEF TypeOK, Scalars
<1>4. CASE ~ Ahead(c, m)
  BY <1>1, <1>4, StaysSettled DEF SettledInv
<1>5. CASE Ahead(c, m) /\ (NoRanges \/ BasesForBus)
  <2>1. stage = "bus" /\ UNCHANGED <<prop, wide, bar>>
    BY <1>5 DEF NoRanges, BasesForBus, devices
  <2>2. c = b /\ stage' # "node"
    <3>1. (stage' = "node" /\ b' = b /\ n' = 1) \/ (b = 1 /\ b' = 2 /\ stage' = "bus") \/ (b = 2 /\ b' = 2 /\ stage' = "done")
      BY <1>3, <1>5 DEF NoRanges, BasesForBus, NextBus
    <3> QED
      BY <1>3, <1>5, <3>1 DEF Ahead, AtWork, TypeOK, Scalars
  <2>3. ~ Walked(tree[b])
    <3>1. CASE NoRanges
      BY <3>1 DEF NoRanges, Walked
    <3>2. CASE BasesForBus
      <4>1. ~ (iobase' # 0 /\ iolen' # 0 /\ membase' # 0 /\ memlen' # 0 /\ KnownBus(membase'))
        BY <2>2, <3>2 DEF BasesForBus
      <4> QED
        BY <1>1, <3>2, <4>1, BasesOwn DEF Walked, Whole
    <3> QED
      BY <1>5, <3>1, <3>2
  <2>4. ~ tree[c].nodes[m].assigned
    BY <1>1, <2>2, <2>3 DEF FirmwareFits
  <2> QED
    BY <1>1, <1>2, <1>5, <2>1, <2>4, PassedSettled
<1>6. CASE Ahead(c, m) /\ EndOfBus
  <2>1. stage = "node" /\ n > Len(tree[b].nodes) /\ ((b = 1 /\ b' = 2 /\ stage' = "bus") \/ b = 2)
    BY <1>3, <1>6 DEF EndOfBus, NextBus
  <2> QED
    BY <1>3, <1>6, <2>1 DEF Ahead, AtWork
<1>7. CASE Ahead(c, m) /\ SkipNode
  <2>1. b' = b /\ stage' = "node" /\ stage = "node" /\ n' = n + 1 /\ ~ Node.ok
    BY <1>7 DEF SkipNode
  <2>2. c = b /\ m = n
    BY <1>3, <1>7, <2>1 DEF Ahead, AtWork
  <2> QED
    BY <1>2, <2>1, <2>2 DEF Settled, Node
<1>8. CASE Ahead(c, m) /\ EnterNode
  <2>1. b' = b /\ AtWork' /\ stage = "node" /\ UNCHANGED <<prop, wide, bar>>
        /\ (n' = n \/ (n' = n + 1 /\ ~ Node.assigned))
    BY <1>8 DEF EnterNode, HasAddresses, AtWork
  <2>2. c = b /\ m = n /\ ~ Node.assigned
    BY <1>3, <1>8, <2>1 DEF Ahead, AtWork
  <2> QED
    BY <1>1, <1>2, <1>8, <2>1, <2>2, PassedSettled DEF Node
<1>9. CASE Ahead(c, m) /\ NodeDone
  <2>1. /\ b' = b /\ stage' = "node" /\ stage = "write" /\ n' = n + 1 /\ bar' = bar
        /\ Node.settable => prop'[b][n] = cells /\ wide'[b][n] = {}
    BY <1>1, <1>9, PropDone
  <2>2. c = b /\ m = n
    BY <1>3, <1>9, <2>1 DEF Ahead, AtWork
  <2>3. ASSUME Node.present, NEW j \in DOMAIN cells, cells[j] # 0
        PROVE  bar[b][n][j] + (IF Node.bars[j].kind = "io" THEN tree[b].io ELSE 0) = cells[j]
    BY <1>1, <1>9, <2>3, RegisterLeadsBack
  <2> QED
    BY <1>2, <2>1, <2>2, <2>3 DEF Settled, Node
<1>10. CASE Ahead(c, m) /\ (AssignBar \/ AssignDone \/ WriteBar \/ UNCHANGED busesVars)
  <2>1. UNCHANGED <<b, n>> /\ ((AtWork /\ AtWork') \/ stage' = stage)
    BY <1>10 DEF AssignBar, AssignDone, WriteBar, busesVars, AtWork
  <2> QED
    BY <1>3, <1>10, <2>1 DEF Ahead, AtWork
<1> QED
  BY <1>4, <1>5, <1>6, <1>7, <1>8, <1>9, <1>10 DEF BusesNext, Done

LEMMA SettledAtEnd == AgreeInv => TreeMatchesRegisters
<1> SUFFICES ASSUME AgreeInv, stage = "done" PROVE
      \A c \in {1, 2} : \A m \in DOMAIN tree[c].nodes : Settled(c, m)
  BY DEF TreeMatchesRegisters, Settled
<1>1. b = 2
  BY DEF AgreeInv, RangesInv, TypeOK, Progress
<1> QED
  BY <1>1 DEF AgreeInv, SettledInv, Ahead, AtWork

(***************************************************************************)
(* When both buses are done, registers and tree agree for every BAR that   *)
(* has an address and no 64-bit entry is left, whatever was assigned       *)
(* before, could not be set or was refused (check_one_bus).                *)
(***************************************************************************)
THEOREM Agreement ==
  BusesSpec /\ OwnRanges(tree) /\ RangesFit(tree) /\ FirmwareFits(tree) => []TreeMatchesRegisters
<1>1. BusesInit /\ OwnRanges(tree) /\ RangesFit(tree) /\ FirmwareFits(tree) => AgreeInv
  BY RangesInit, KeptInit, WrittenInit, SettledInit DEF AgreeInv
<1>2. AgreeInv /\ [BusesNext]_busesVars => AgreeInv'
  BY RangesStep, KeptStep, WrittenStep, SettledStep DEF AgreeInv, RangesInv
<1> QED
  BY <1>1, <1>2, SettledAtEnd, PTL DEF BusesSpec
-----------------------------------------------------------------------------
LEMMA AddrsType ==
  ASSUME TypeOK, NEW c \in {1, 2}, NEW m \in DOMAIN tree[c].nodes, NEW j \in DOMAIN Addrs(c, m)
  PROVE  /\ Addrs(c, m)[j] \in Nat /\ tree[c].nodes[m].bars[j].size \in Nat
         /\ j \in DOMAIN tree[c].nodes[m].bars
<1>1. /\ DOMAIN tree[c].nodes[m].bars = 1 .. Len(tree[c].nodes[m].bars)
      /\ Len(tree[c].nodes[m].bars) \in Nat
      /\ \A i \in DOMAIN tree[c].nodes[m].bars : tree[c].nodes[m].bars[i] \in BarType
  BY NodeFacts DEF TypeOK, Scalars
<1>2. Addrs(c, m) \in Seq(Nat) /\ Len(Addrs(c, m)) <= Len(tree[c].nodes[m].bars)
  <2>1. CASE stage \in {"assign", "write"} /\ c = b /\ m = n /\ ~ tree[c].nodes[m].assigned
    BY <1>1, <2>1 DEF Addrs, TypeOK, Scalars, Progress, Node
  <2>2. CASE ~ (stage \in {"assign", "write"} /\ c = b /\ m = n /\ ~ tree[c].nodes[m].assigned)
    <3>1. Addrs(c, m) = prop[c][m] /\ prop[c][m] \in Seq(Nat)
          /\ Len(prop[c][m]) \in {0, Len(tree[c].nodes[m].bars)}
      BY <2>2 DEF Addrs, TypeOK, Tables
    <3> QED
      BY <1>1, <3>1
  <2> QED
    BY <2>1, <2>2
<1>3. j \in DOMAIN tree[c].nodes[m].bars /\ Addrs(c, m)[j] \in Nat
  BY <1>1, <1>2
<1> QED
  BY <1>1, <1>3 DEF BarType

(* The entry that the step of a BAR adds is new, the others stay. *)
LEMMA OldAddrs ==
  ASSUME TypeOK, AssignBar, NEW v \in Nat, cells' = Append(cells, v),
         NEW c \in {1, 2}, NEW m \in DOMAIN tree[c].nodes, NEW j \in DOMAIN Addrs(c, m)'
  PROVE  \/ c = b /\ m = n /\ j = k /\ Addrs(c, m)'[j] = v
         \/ /\ ~ (c = b /\ m = n /\ j = k) /\ j \in DOMAIN Addrs(c, m)
            /\ Addrs(c, m)'[j] = Addrs(c, m)[j]
<1>1. /\ Addrs(b, n) = cells /\ Addrs(b, n)' = Append(cells, v)
      /\ DOMAIN Append(cells, v) = 1 .. k /\ DOMAIN cells = 1 .. k - 1 /\ k \in Nat
      /\ Append(cells, v)[k] = v /\ \A i \in DOMAIN cells : Append(cells, v)[i] = cells[i]
      /\ ~ (c = b /\ m = n) => Addrs(c, m)' = Addrs(c, m)
      /\ UNCHANGED <<b, n>>
  BY AddrsAssign
<1>2. CASE c = b /\ m = n
  <2>1. Addrs(c, m) = cells /\ Addrs(c, m)' = Append(cells, v)
    BY <1>1, <1>2
  <2>2. j \in 1 .. k
    BY <1>1, <2>1
  <2> QED
    BY <1>1, <1>2, <2>1, <2>2
<1>3. CASE ~ (c = b /\ m = n)
  BY <1>1, <1>3
<1> QED
  BY <1>2, <1>3

LEMMA AboveInit == BusesInit => AboveInv
BY DEF BusesInit, AboveInv, AtWork

LEMMA AboveStep ==
  ASSUME RangesInv, AboveInv, [BusesNext]_busesVars
  PROVE  AboveInv'
<1>1. TypeOK /\ OwnInv /\ UntouchedInv /\ AllocInv /\ PlacedInv /\ RangesFit(tree)
  BY DEF RangesInv
<1>2. tree' = tree /\ b \in {1, 2}
  BY <1>1, PropStep, PropDone DEF TypeOK, Scalars
<1>3. CASE BasesForBus
  <2> SUFFICES ASSUME AtWork', NEW m \in DOMAIN tree[b].nodes, ~ tree[b].nodes[m].assigned
               PROVE  DOMAIN Addrs(b, m)' = {} /\ b' = b
    <3>1. AtWork' => b' = b
      BY <1>3 DEF BasesForBus, NextBus, AtWork
    <3> QED
      BY <1>2, <3>1 DEF AboveInv, Ordinary
  <2>1. stage = "bus" /\ stage' = "node" /\ b' = b /\ prop' = prop
    BY <1>3 DEF BasesForBus, NextBus, AtWork, devices
  <2>2. prop[b][m] = << >>
    BY <1>1, <1>2, <2>1 DEF UntouchedInv, Ahead
  <2>3. Addrs(b, m)' = << >>
    BY <1>2, <2>1, <2>2 DEF Addrs
  <2> QED
    BY <2>1, <2>3
<1>4. CASE AssignBar
  <2>1. PICK v \in Nat : cells' = Append(cells, v) /\ Serves(v)
    BY <1>1, <1>4, AssignServes
  <2>2. memavail <= memavail' /\ ioavail <= ioavail'
    BY <1>1, <1>4, AssignServes DEF Moves
  <2>3. UNCHANGED <<b, iobase, n>> /\ AtWork /\ n \in DOMAIN tree[b].nodes /\ TypeOK'
    BY <1>1, <1>4, TypeStep DEF AssignBar, windows, AtWork, TypeOK, Progress
  <2>4. /\ iobase \in Nat /\ memavail \in Nat /\ memavail' \in Nat
        /\ ioavail \in Nat /\ ioavail' \in Nat
    BY <1>1, <2>3 DEF TypeOK, Scalars
  <2> SUFFICES ASSUME NEW c \in {1, 2}, c = b, NEW m \in DOMAIN tree[c].nodes, NEW j \in DOMAIN Addrs(c, m)',
                      Ordinary(c, m, j), Addrs(c, m)'[j] # 0
               PROVE  LET x == tree[c].nodes[m].bars[j]
                      IN  Addrs(c, m)'[j] + x.size <= IF x.kind = "io" THEN iobase' + ioavail' ELSE memavail'
    BY <1>2, <2>3 DEF AboveInv, Ordinary
  <2>5. CASE m = n /\ j = k /\ Addrs(c, m)'[j] = v
    <3>1. /\ ThisBar.kind # "io" => v + ThisBar.size <= memavail'
          /\ ThisBar.kind = "io" => v + ThisBar.size <= iobase + ioavail'
      BY <2>1, <2>5 DEF Serves, Ordinary, Reserved, ThisBar, Node
    <3> QED
      BY <2>3, <2>5, <3>1 DEF ThisBar, Node
  <2>6. CASE j \in DOMAIN Addrs(c, m) /\ Addrs(c, m)'[j] = Addrs(c, m)[j]
    <3> DEFINE a == Addrs(c, m)[j]
               s == tree[c].nodes[m].bars[j].size
               z == IF tree[c].nodes[m].bars[j].kind = "io" THEN iobase + ioavail ELSE memavail
               zz == IF tree[c].nodes[m].bars[j].kind = "io" THEN iobase' + ioavail' ELSE memavail'
    <3>1. a + s <= z
      BY <2>3, <2>6 DEF AboveInv
    <3>2. a \in Nat /\ s \in Nat
      BY <1>1, <1>2, <2>6, AddrsType
    <3>3. z \in Nat /\ zz \in Nat /\ z <= zz
      BY <2>2, <2>3, <2>4
    <3>4. a + s <= zz
      <4> HIDE DEF a, s, z, zz
      <4> QED
        BY <3>1, <3>2, <3>3
    <3> QED
      BY <2>6, <3>4
  <2> QED
    BY <1>1, <1>2, <1>4, <2>1, <2>5, <2>6, OldAddrs
<1>5. CASE stage' \in {"bus", "done"}
  BY <1>5 DEF AboveInv, AtWork
<1>6. CASE SkipNode \/ EnterNode \/ AssignDone \/ WriteBar \/ NodeDone \/ UNCHANGED busesVars
  <2>1. UNCHANGED <<b, iobase, ioavail, memavail>> /\ (AtWork' => AtWork) /\ ~ AssignBar
    BY <1>6 DEF SkipNode, EnterNode, AssignDone, WriteBar, NodeDone, AssignBar, busesVars, windows, avails, AtWork
  <2>2. ASSUME NEW m \in DOMAIN tree[b].nodes, ~ tree[b].nodes[m].assigned
        PROVE  Addrs(b, m)' \in {Addrs(b, m), << >>}
    <3>1. ~ AssignBar
      BY <2>1
    <3>2. \A c \in {1, 2} : \A i \in DOMAIN tree[c].nodes : ~ tree[c].nodes[i].assigned =>
             Addrs(c, i)' \in {Addrs(c, i), << >>}
      BY <1>1, <3>1, AddrsStep
    <3> QED
      BY <1>2, <2>1, <2>2, <3>2
  <2> QED
    BY <1>2, <2>1, <2>2 DEF AboveInv, Ordinary
<1> QED
  BY <1>3, <1>4, <1>5, <1>6 DEF BusesNext, Done, NoRanges, EndOfBus, NextBus

LEMMA ApartInit == BusesInit => ApartInv
<1> SUFFICES ASSUME BusesInit, NEW c \in {1, 2}, NEW m \in DOMAIN tree[c].nodes, ~ tree[c].nodes[m].assigned
             PROVE  DOMAIN Addrs(c, m) = {}
  BY DEF ApartInv, Ordinary
<1>1. Addrs(c, m) = << >>
  BY DEF BusesInit, Each, Addrs
<1> QED
  BY <1>1

LEMMA NewIsClear ==
  ASSUME RangesInv, AboveInv, AssignBar, NEW v \in Nat, Serves(v), v # 0,
         NEW c \in {1, 2}, c = b, NEW i \in DOMAIN tree[c].nodes, NEW l \in DOMAIN Addrs(c, i),
         Ordinary(c, n, k), Ordinary(c, i, l), Addrs(c, i)[l] # 0
  PROVE  /\ Clear(tree[c], n, k, i, l, v, Addrs(c, i)[l])
         /\ Clear(tree[c], i, l, n, k, Addrs(c, i)[l], v)
<1> DEFINE a == Addrs(c, i)[l]
           y == tree[c].nodes[i].bars[l]
<1>1. AtWork /\ TypeOK /\ ThisBar = tree[c].nodes[n].bars[k]
  BY DEF AssignBar, AtWork, RangesInv, ThisBar, Node
<1>2. a + y.size <= IF y.kind = "io" THEN iobase + ioavail ELSE memavail
  BY <1>1 DEF AboveInv
<1>3. /\ ThisBar.kind # "io" => memavail <= v
      /\ ThisBar.kind = "io" => iobase + ioavail <= v
  BY <1>1 DEF Serves, Ordinary, Reserved, ThisBar, Node
<1>4. a \in Nat /\ y.size \in Nat /\ iobase \in Nat /\ ioavail \in Nat /\ memavail \in Nat
  BY <1>1, AddrsType DEF TypeOK, Scalars
<1>5. (ThisBar.kind = "io" <=> y.kind = "io") => a + y.size <= v
  <2> DEFINE z == IF y.kind = "io" THEN iobase + ioavail ELSE memavail
             s == y.size
  <2>1. a + s <= z /\ z \in Nat /\ s \in Nat
    BY <1>2, <1>4
  <2>2. (ThisBar.kind = "io" <=> y.kind = "io") => z <= v
    BY <1>3
  <2> HIDE DEF a, s, z
  <2>3. z <= v => a + s <= v
    BY <1>4, <2>1
  <2> QED
    BY <2>2, <2>3 DEF s
<1> QED
  BY <1>1, <1>5, Zenon DEF Clear

LEMMA ApartStep ==
  ASSUME RangesInv, AboveInv, ApartInv, [BusesNext]_busesVars
  PROVE  ApartInv'
<1>1. TypeOK /\ OwnInv /\ UntouchedInv /\ AllocInv /\ RangesFit(tree)
  BY DEF RangesInv
<1>2. tree' = tree /\ b \in {1, 2}
  BY <1>1, PropStep, PropDone DEF TypeOK, Scalars
<1> SUFFICES ASSUME NEW c \in {1, 2}, NEW m \in DOMAIN tree[c].nodes, NEW i \in DOMAIN tree[c].nodes,
                    NEW j \in DOMAIN Addrs(c, m)', NEW l \in DOMAIN Addrs(c, i)',
                    <<m, j>> # <<i, l>>, Ordinary(c, m, j), Ordinary(c, i, l),
                    Addrs(c, m)'[j] # 0, Addrs(c, i)'[l] # 0
             PROVE  Clear(tree[c], m, j, i, l, Addrs(c, m)'[j], Addrs(c, i)'[l])
  <2>1. \A c, m, j : Ordinary(c, m, j)' <=> Ordinary(c, m, j)
    BY <1>2 DEF Ordinary
  <2> QED
    BY <1>2, <2>1 DEF ApartInv
<1>3. CASE j \in DOMAIN Addrs(c, m) /\ l \in DOMAIN Addrs(c, i)
           /\ Addrs(c, m)'[j] = Addrs(c, m)[j] /\ Addrs(c, i)'[l] = Addrs(c, i)[l]
  BY <1>3 DEF ApartInv
<1>4. CASE AssignBar
  <2>1. PICK v \in Nat : cells' = Append(cells, v) /\ Serves(v)
    BY <1>1, <1>4, AssignServes
  <2>2. \/ c = b /\ m = n /\ j = k /\ Addrs(c, m)'[j] = v
        \/ /\ ~ (c = b /\ m = n /\ j = k) /\ j \in DOMAIN Addrs(c, m)
           /\ Addrs(c, m)'[j] = Addrs(c, m)[j]
    BY <1>1, <1>4, <2>1, OldAddrs
  <2>3. \/ c = b /\ i = n /\ l = k /\ Addrs(c, i)'[l] = v
        \/ /\ ~ (c = b /\ i = n /\ l = k) /\ l \in DOMAIN Addrs(c, i)
           /\ Addrs(c, i)'[l] = Addrs(c, i)[l]
    BY <1>1, <1>4, <2>1, OldAddrs
  <2>4. CASE c = b /\ m = n /\ j = k /\ Addrs(c, m)'[j] = v
    <3>1. l \in DOMAIN Addrs(c, i) /\ Addrs(c, i)'[l] = Addrs(c, i)[l]
      BY <2>3, <2>4
    <3> QED
      BY <1>4, <2>1, <2>4, <3>1, NewIsClear
  <2>5. CASE c = b /\ i = n /\ l = k /\ Addrs(c, i)'[l] = v
    <3>1. j \in DOMAIN Addrs(c, m) /\ Addrs(c, m)'[j] = Addrs(c, m)[j]
      BY <2>2, <2>5
    <3> QED
      BY <1>4, <2>1, <2>5, <3>1, NewIsClear
  <2> QED
    BY <1>3, <2>2, <2>3, <2>4, <2>5
<1>5. CASE ~ AssignBar
  <2>1. ~ tree[c].nodes[m].assigned /\ ~ tree[c].nodes[i].assigned
    BY DEF Ordinary
  <2>2. Addrs(c, m)' \in {Addrs(c, m), << >>} /\ Addrs(c, i)' \in {Addrs(c, i), << >>}
    BY <1>1, <1>5, <2>1, AddrsStep
  <2>3. Addrs(c, m)' = Addrs(c, m) /\ Addrs(c, i)' = Addrs(c, i)
    BY <2>2
  <2> QED
    BY <1>3, <2>3
<1> QED
  BY <1>4, <1>5

(***************************************************************************)
(* No two BARs of a bus share an address, the ones from the reserved I/O   *)
(* area left out (addr_for_bar): two memory BARs, or two I/O BARs that the *)
(* plain allocator has served.                                             *)
(***************************************************************************)
OrdinaryApart ==
    \A c \in {1, 2} : \A x, y \in Given(c) :
        /\ x # y /\ (KindOf(c, x) = "io" <=> KindOf(c, y) = "io")
        /\ Ordinary(c, x[1], x[2]) /\ Ordinary(c, y[1], y[2])
        => ~ Overlap(Place(c, x), Place(c, y))

LEMMA AddrsApart == RangesInv /\ ApartInv => OrdinaryApart
<1> SUFFICES ASSUME RangesInv, ApartInv, NEW c \in {1, 2}, NEW x \in Given(c), NEW y \in Given(c),
                    x # y, KindOf(c, x) = "io" <=> KindOf(c, y) = "io",
                    Ordinary(c, x[1], x[2]), Ordinary(c, y[1], y[2])
             PROVE  ~ Overlap(Place(c, x), Place(c, y))
  BY DEF OrdinaryApart
<1> DEFINE a == prop[c][x[1]][x[2]]
           d == prop[c][y[1]][y[2]]
           r == SizeOf(c, x)
           s == SizeOf(c, y)
<1>1. TypeOK /\ UntouchedInv
  BY DEF RangesInv
<1>2. /\ x[1] \in DOMAIN tree[c].nodes /\ x[2] \in DOMAIN Addrs(c, x[1]) /\ x = <<x[1], x[2]>>
      /\ Addrs(c, x[1])[x[2]] = a /\ a # 0
  BY <1>1, GivenAddrs
<1>3. /\ y[1] \in DOMAIN tree[c].nodes /\ y[2] \in DOMAIN Addrs(c, y[1]) /\ y = <<y[1], y[2]>>
      /\ Addrs(c, y[1])[y[2]] = d /\ d # 0
  BY <1>1, GivenAddrs
<1>4. a \in Nat /\ d \in Nat /\ r \in Nat /\ s \in Nat
  BY <1>1, <1>2, <1>3, AddrsType DEF SizeOf
<1>5. a + r <= d \/ d + s <= a
  BY <1>2, <1>3 DEF ApartInv, Clear, KindOf, SizeOf
<1> HIDE DEF a, d, r, s
<1>6. ~ Overlap(Region(a, r), Region(d, s))
  BY <1>4, <1>5 DEF Overlap, Region, End
<1> QED
  BY <1>6 DEF Place, a, d, r, s

(* Only a bus with the first memory window has a reserved area: on the     *)
(* other one what would be served from it is refused.                      *)
ElsewhereInv ==
    /\ AtWork /\ membase # MemBase[1] => ioresavail = iolen
    /\ \A c \in {1, 2} : \A m \in DOMAIN tree[c].nodes : ~ tree[c].nodes[m].assigned =>
          \A j \in DOMAIN Addrs(c, m) :
              Addrs(c, m)[j] # 0 /\ ~ Ordinary(c, m, j) => tree[c].mem = MemBase[1]

LEMMA ElsewhereInit == BusesInit => ElsewhereInv
<1> SUFFICES ASSUME BusesInit, NEW c \in {1, 2}, NEW m \in DOMAIN tree[c].nodes,
                    ~ tree[c].nodes[m].assigned
             PROVE  DOMAIN Addrs(c, m) = {}
  BY DEF BusesInit, ElsewhereInv, AtWork
<1>1. Addrs(c, m) = << >>
  BY DEF BusesInit, Each, Addrs
<1> QED
  BY <1>1

LEMMA RefusedElsewhere ==
  ASSUME RangesInv, AssignBar, ioresavail = iolen
  PROVE  /\ ioresavail' = iolen
         /\ Reserved /\ ThisBar.kind = "io" => cells' = Append(cells, 0)
<1> DEFINE s == ThisBar.size
<1>1. TypeOK /\ OwnInv /\ RangesFit(tree) /\ stage = "assign" /\ k <= Len(Node.bars)
  BY DEF RangesInv, AssignBar
<1>2. /\ n \in DOMAIN tree[b].nodes /\ k \in DOMAIN Node.bars /\ b \in {1, 2} /\ s \in Nat
  BY <1>1, BarFacts DEF TypeOK, Scalars
<1>3. iobase \in Nat /\ iolen \in Nat /\ ioresavail \in Nat
  BY <1>1 DEF TypeOK, Scalars
<1>4. iobase = tree[b].io /\ iolen = tree[b].iolen /\ Walked(tree[b])
  BY <1>1 DEF OwnInv, WindowsAreOwn, AtWork
<1>5. CASE ~ (Reserved /\ ThisBar.kind = "io")
  BY <1>5 DEF AssignBar, MoveTo, avails
<1>6. CASE Reserved /\ ThisBar.kind = "io" /\ s = 0
  BY <1>6 DEF AssignBar, avails
<1>7. CASE Reserved /\ ThisBar.kind = "io" /\ s # 0
  <2>1. iolen % s = 0 /\ iolen + s < Word /\ iobase + iolen <= Word
    BY <1>1, <1>2, <1>4, <1>7 DEF RangesFit, Node, ThisBar, WindowEnd
  <2>2. Rounded = ROUND_UP(iolen, s)
    BY <1>7 DEF Rounded, IoAvail
  <2>3. \A d \in Nat : d # 0 /\ iolen % d = 0 /\ iolen + d < Word =>
                        RoundsInIo(ROUND_UP(iolen, d), iolen, d, iolen, iobase)
    BY <1>3, <2>1, IoArithmetic
  <2>4. RoundsInIo(Rounded, iolen, s, iolen, iobase)
    BY <1>2, <1>7, <2>1, <2>2, <2>3
  <2>5. Rounded = iolen /\ Add(Rounded, s) = Rounded + s
    BY <1>3, <2>4 DEF RoundsInIo
  <2>6. ~ Fits
    BY <1>2, <1>3, <1>7, <2>5 DEF Fits
  <2> QED
    BY <1>7, <2>5, <2>6 DEF AssignBar, MoveTo
<1> QED
  BY <1>5, <1>6, <1>7

LEMMA ElsewhereStep ==
  ASSUME RangesInv, ElsewhereInv, [BusesNext]_busesVars
  PROVE  ElsewhereInv'
<1>1. TypeOK /\ OwnInv /\ UntouchedInv /\ AllocInv /\ RangesFit(tree)
  BY DEF RangesInv
<1>2. tree' = tree /\ b \in {1, 2}
  BY <1>1, PropStep, PropDone DEF TypeOK, Scalars
<1>3. AtWork' /\ membase' # MemBase[1] => ioresavail' = iolen'
  <2>1. CASE BasesForBus
    BY <2>1 DEF BasesForBus, NextBus, KnownBus, AtWork
  <2>2. CASE AssignBar
    <3>1. UNCHANGED <<membase, iolen>> /\ AtWork
      BY <2>2 DEF AssignBar, windows, AtWork
    <3> QED
      BY <2>2, <3>1, RefusedElsewhere DEF ElsewhereInv
  <2>3. CASE NoRanges \/ EndOfBus
    BY <2>3 DEF NoRanges, EndOfBus, NextBus, AtWork
  <2>4. CASE SkipNode \/ EnterNode \/ AssignDone \/ WriteBar \/ NodeDone \/ UNCHANGED busesVars
    <3>1. UNCHANGED <<membase, iolen, ioresavail>> /\ (AtWork' => AtWork)
      BY <2>4 DEF SkipNode, EnterNode, AssignDone, WriteBar, NodeDone, busesVars, windows, avails, AtWork
    <3> QED
      BY <3>1 DEF ElsewhereInv
  <2> QED
    BY <2>1, <2>2, <2>3, <2>4 DEF BusesNext, Done
<1> SUFFICES ASSUME NEW c \in {1, 2}, NEW m \in DOMAIN tree[c].nodes, ~ tree[c].nodes[m].assigned,
                    NEW j \in DOMAIN Addrs(c, m)', Addrs(c, m)'[j] # 0, ~ Ordinary(c, m, j)
             PROVE  tree[c].mem = MemBase[1]
  BY <1>2, <1>3 DEF ElsewhereInv, Ordinary
<1>4. CASE j \in DOMAIN Addrs(c, m) /\ Addrs(c, m)'[j] = Addrs(c, m)[j]
  BY <1>4 DEF ElsewhereInv
<1>5. CASE AssignBar
  <2>1. PICK v \in Nat : cells' = Append(cells, v) /\ Serves(v)
    BY <1>1, <1>5, AssignServes
  <2>2. \/ c = b /\ m = n /\ j = k /\ Addrs(c, m)'[j] = v
        \/ j \in DOMAIN Addrs(c, m) /\ Addrs(c, m)'[j] = Addrs(c, m)[j]
    BY <1>1, <1>5, <2>1, OldAddrs
  <2>3. CASE c = b /\ m = n /\ j = k /\ Addrs(c, m)'[j] = v /\ tree[c].mem # MemBase[1]
    <3>1. Reserved /\ ThisBar.kind = "io" /\ AtWork /\ membase = tree[b].mem /\ cells \in Seq(Nat)
      BY <1>1, <1>5, <2>3 DEF Ordinary, Reserved, ThisBar, Node, AssignBar, AtWork, OwnInv,
                              WindowsAreOwn, TypeOK, Scalars
    <3>2. cells' = Append(cells, 0)
      BY <1>5, <2>3, <3>1, RefusedElsewhere DEF ElsewhereInv
    <3>3. \A x, y : Append(cells, x) = Append(cells, y) => x = y
      BY <3>1
    <3>4. v = 0
      BY <2>1, <3>2, <3>3
    <3> QED
      BY <2>3, <3>4
  <2> QED
    BY <1>4, <2>2, <2>3
<1>6. CASE ~ AssignBar
  <2>1. Addrs(c, m)' \in {Addrs(c, m), << >>}
    BY <1>1, <1>6, AddrsStep
  <2>2. Addrs(c, m)' = Addrs(c, m)
    BY <2>1
  <2> QED
    BY <1>4, <2>2
<1> QED
  BY <1>5, <1>6

ApartIInv == RangesInv /\ AboveInv /\ ApartInv /\ ElsewhereInv

LEMMA ApartIInit == BusesInit /\ OwnRanges(tree) /\ RangesFit(tree) => ApartIInv
BY RangesInit, AboveInit, ApartInit, ElsewhereInit DEF ApartIInv

LEMMA ApartIStep == ApartIInv /\ [BusesNext]_busesVars => ApartIInv'
BY RangesStep, AboveStep, ApartStep, ElsewhereStep DEF ApartIInv

(***************************************************************************)
(* An allocator never serves two BARs of a bus from the same addresses:    *)
(* each one starts behind all that were served before (addr_for_bar).      *)
(***************************************************************************)
THEOREM Apart == BusesSpec /\ OwnRanges(tree) /\ RangesFit(tree) => []OrdinaryApart
<1>1. ApartIInv => OrdinaryApart
  BY AddrsApart DEF ApartIInv
<1> QED
  BY <1>1, ApartIInit, ApartIStep, PTL DEF BusesSpec

LEMMA AllOrdinary ==
  ASSUME ApartIInv, SouthbridgeDone(tree)
  PROVE  BarsApart
<1>1. TypeOK /\ UntouchedInv /\ OrdinaryApart
  BY AddrsApart DEF ApartIInv, RangesInv
<1>2. ASSUME NEW c \in {1, 2}, NEW x \in Given(c)
      PROVE  Ordinary(c, x[1], x[2])
  <2>1. /\ x[1] \in DOMAIN tree[c].nodes /\ ~ tree[c].nodes[x[1]].assigned
        /\ x[2] \in DOMAIN Addrs(c, x[1])
        /\ Addrs(c, x[1])[x[2]] # 0
    BY <1>1, GivenAddrs
  <2>2. x[2] \in DOMAIN tree[c].nodes[x[1]].bars
    BY <1>1, <2>1, AddrsType
  <2>3. ~ Ordinary(c, x[1], x[2]) => tree[c].mem = MemBase[1]
    BY <2>1 DEF ApartIInv, ElsewhereInv
  <2> QED
    BY <2>1, <2>2, <2>3 DEF Ordinary, SouthbridgeDone
<1> QED
  BY <1>1, <1>2 DEF OrdinaryApart, BarsApart

(***************************************************************************)
(* When the functions of the south bridge have their addresses already, no *)
(* two BARs of a bus get the same address; the rewound reserved area, that *)
(* fits one south bridge only, is not used then (addr_for_bar).            *)
(***************************************************************************)
THEOREM ApartWithFirmware ==
  BusesSpec /\ OwnRanges(tree) /\ RangesFit(tree) /\ SouthbridgeDone(tree) => []BarsApart
<1> DEFINE I == ApartIInv /\ SouthbridgeDone(tree)
<1>1. BusesInit /\ OwnRanges(tree) /\ RangesFit(tree) /\ SouthbridgeDone(tree) => I
  BY ApartIInit
<1>2. I /\ [BusesNext]_busesVars => I'
  <2> SUFFICES ASSUME I, [BusesNext]_busesVars PROVE I'
    OBVIOUS
  <2>1. tree' = tree
    BY PropStep, PropDone DEF ApartIInv, RangesInv
  <2> QED
    BY <2>1, ApartIStep DEF SouthbridgeDone
<1>3. I => BarsApart
  BY AllOrdinary
<1> QED
  BY <1>1, <1>2, <1>3, PTL DEF BusesSpec
-----------------------------------------------------------------------------
(***************************************************************************)
(* The reserved area of a VT8231: where each BAR of a function goes, and   *)
(* where the allocator is before each BAR and behind the last one.         *)
(***************************************************************************)
Slots == << <<1024, 1026, 1028, 1030, 1032>>, <<1040>>, <<1048>>, <<1088, 1036, 1037>> >>
Heads == << <<1024, 1026, 1027, 1030, 1031, 1036>>, <<1036, 1048>>, <<1048, 1056>>,
            <<1056, 1036, 1037, 1038>> >>

(* The numbers of a BAR: its size, its place, the allocator before and     *)
(* behind it.                                                              *)
Numbers(g, j, size, slot, head, next) ==
    \/ g = 1 /\ j = 1 /\ size = 2 /\ slot = 1024 /\ head = 1024 /\ next = 1026
    \/ g = 1 /\ j = 2 /\ size = 1 /\ slot = 1026 /\ head = 1026 /\ next = 1027
    \/ g = 1 /\ j = 3 /\ size = 2 /\ slot = 1028 /\ head = 1027 /\ next = 1030
    \/ g = 1 /\ j = 4 /\ size = 1 /\ slot = 1030 /\ head = 1030 /\ next = 1031
    \/ g = 1 /\ j = 5 /\ size = 4 /\ slot = 1032 /\ head = 1031 /\ next = 1036
    \/ g = 2 /\ j = 1 /\ size = 8 /\ slot = 1040 /\ head = 1036 /\ next = 1048
    \/ g = 3 /\ j = 1 /\ size = 8 /\ slot = 1048 /\ head = 1048 /\ next = 1056
    \/ g = 4 /\ j = 1 /\ size = 64 /\ slot = 1088 /\ head = 1056 /\ next = 1036
    \/ g = 4 /\ j = 2 /\ size = 1 /\ slot = 1036 /\ head = 1036 /\ next = 1037
    \/ g = 4 /\ j = 3 /\ size = 1 /\ slot = 1037 /\ head = 1037 /\ next = 1038

LEMMA Plan ==
  ASSUME NEW g \in 1 .. 4, NEW j \in 1 .. Len(VT8231Sizes[g])
  PROVE  Numbers(g, j, VT8231Sizes[g][j], Slots[g][j], Heads[g][j], Heads[g][j + 1])
<1>1. g = 1 \/ g = 2 \/ g = 3 \/ g = 4
  OBVIOUS
<1>2. CASE g = 1
  <2>1. j = 1 \/ j = 2 \/ j = 3 \/ j = 4 \/ j = 5
    <3>1. Len(VT8231Sizes[1]) = 5
      BY DEF VT8231Sizes
    <3> QED
      BY <1>2, <3>1
  <2>2. /\ VT8231Sizes[1][1] = 2 /\ Slots[1][1] = 1024
        /\ Heads[1][1] = 1024 /\ Heads[1][1 + 1] = 1026
    BY DEF VT8231Sizes, Slots, Heads
  <2>3. /\ VT8231Sizes[1][2] = 1 /\ Slots[1][2] = 1026
        /\ Heads[1][2] = 1026 /\ Heads[1][2 + 1] = 1027
    BY DEF VT8231Sizes, Slots, Heads
  <2>4. /\ VT8231Sizes[1][3] = 2 /\ Slots[1][3] = 1028
        /\ Heads[1][3] = 1027 /\ Heads[1][3 + 1] = 1030
    BY DEF VT8231Sizes, Slots, Heads
  <2>5. /\ VT8231Sizes[1][4] = 1 /\ Slots[1][4] = 1030
        /\ Heads[1][4] = 1030 /\ Heads[1][4 + 1] = 1031
    BY DEF VT8231Sizes, Slots, Heads
  <2>6. /\ VT8231Sizes[1][5] = 4 /\ Slots[1][5] = 1032
        /\ Heads[1][5] = 1031 /\ Heads[1][5 + 1] = 1036
    BY DEF VT8231Sizes, Slots, Heads
  <2> QED
    BY <1>2, <2>1, <2>2, <2>3, <2>4, <2>5, <2>6 DEF Numbers
<1>3. CASE g = 2
  <2>1. j = 1
    <3>1. Len(VT8231Sizes[2]) = 1
      BY DEF VT8231Sizes
    <3> QED
      BY <1>3, <3>1
  <2>2. /\ VT8231Sizes[2][1] = 8 /\ Slots[2][1] = 1040
        /\ Heads[2][1] = 1036 /\ Heads[2][1 + 1] = 1048
    BY DEF VT8231Sizes, Slots, Heads
  <2> QED
    BY <1>3, <2>1, <2>2 DEF Numbers
<1>4. CASE g = 3
  <2>1. j = 1
    <3>1. Len(VT8231Sizes[3]) = 1
      BY DEF VT8231Sizes
    <3> QED
      BY <1>4, <3>1
  <2>2. /\ VT8231Sizes[3][1] = 8 /\ Slots[3][1] = 1048
        /\ Heads[3][1] = 1048 /\ Heads[3][1 + 1] = 1056
    BY DEF VT8231Sizes, Slots, Heads
  <2> QED
    BY <1>4, <2>1, <2>2 DEF Numbers
<1>5. CASE g = 4
  <2>1. j = 1 \/ j = 2 \/ j = 3
    <3>1. Len(VT8231Sizes[4]) = 3
      BY DEF VT8231Sizes
    <3> QED
      BY <1>5, <3>1
  <2>2. /\ VT8231Sizes[4][1] = 64 /\ Slots[4][1] = 1088
        /\ Heads[4][1] = 1056 /\ Heads[4][1 + 1] = 1036
    BY DEF VT8231Sizes, Slots, Heads
  <2>3. /\ VT8231Sizes[4][2] = 1 /\ Slots[4][2] = 1036
        /\ Heads[4][2] = 1036 /\ Heads[4][2 + 1] = 1037
    BY DEF VT8231Sizes, Slots, Heads
  <2>4. /\ VT8231Sizes[4][3] = 1 /\ Slots[4][3] = 1037
        /\ Heads[4][3] = 1037 /\ Heads[4][3 + 1] = 1038
    BY DEF VT8231Sizes, Slots, Heads
  <2> QED
    BY <1>5, <2>1, <2>2, <2>3, <2>4 DEF Numbers
<1> QED
  BY <1>1, <1>2, <1>3, <1>4, <1>5

(* What addr_for_bar() makes of them. *)
LEMMA PlanServes ==
  ASSUME NEW g, NEW j, NEW s, NEW r, NEW a, NEW z, Numbers(g, j, s, r, a, z)
  PROVE  /\ s \in Nat /\ s > 0 /\ a \in Nat /\ r \in Nat /\ r + s <= 1152
         /\ (a + s - 1) - ((a + s - 1) % s) = r
         /\ z = IF r + s >= 1152 THEN 1036 ELSE r + s
<1>1. s \in Nat /\ s > 0 /\ a \in Nat /\ r \in Nat /\ r + s <= 1152
  BY DEF Numbers
<1>2. z = IF r + s >= 1152 THEN 1036 ELSE r + s
  <2>1. (r + s >= 1152 /\ z = 1036) \/ (~ (r + s >= 1152) /\ z = r + s)
    BY DEF Numbers
  <2>2. CASE r + s >= 1152 /\ z = 1036
    BY <2>2
  <2>3. CASE ~ (r + s >= 1152) /\ z = r + s
    BY <2>3
  <2> QED
    BY <2>1, <2>2, <2>3
<1>3. ASSUME NEW x, x = a + s - 1
      PROVE  x - (x % s) = r
  <2>1. \/ s = 2 /\ x = 1025 /\ r = 1024
        \/ s = 1 /\ x = 1026 /\ r = 1026
        \/ s = 2 /\ x = 1028 /\ r = 1028
        \/ s = 1 /\ x = 1030 /\ r = 1030
        \/ s = 4 /\ x = 1034 /\ r = 1032
        \/ s = 8 /\ x = 1043 /\ r = 1040
        \/ s = 8 /\ x = 1055 /\ r = 1048
        \/ s = 64 /\ x = 1119 /\ r = 1088
        \/ s = 1 /\ x = 1036 /\ r = 1036
        \/ s = 1 /\ x = 1037 /\ r = 1037
    BY <1>3 DEF Numbers
  <2>2. /\ 1025 - (1025 % 2) = 1024 /\ 1026 - (1026 % 1) = 1026 /\ 1028 - (1028 % 2) = 1028
        /\ 1030 - (1030 % 1) = 1030 /\ 1034 - (1034 % 4) = 1032 /\ 1043 - (1043 % 8) = 1040
        /\ 1055 - (1055 % 8) = 1048 /\ 1119 - (1119 % 64) = 1088 /\ 1036 - (1036 % 1) = 1036
        /\ 1037 - (1037 % 1) = 1037
    OBVIOUS
  <2>3. CASE s = 2 /\ x = 1025 /\ r = 1024
    BY <2>2, <2>3
  <2>4. CASE s = 1 /\ x = 1026 /\ r = 1026
    BY <2>2, <2>4
  <2>5. CASE s = 2 /\ x = 1028 /\ r = 1028
    BY <2>2, <2>5
  <2>6. CASE s = 1 /\ x = 1030 /\ r = 1030
    BY <2>2, <2>6
  <2>7. CASE s = 4 /\ x = 1034 /\ r = 1032
    BY <2>2, <2>7
  <2>8. CASE s = 8 /\ x = 1043 /\ r = 1040
    BY <2>2, <2>8
  <2>9. CASE s = 8 /\ x = 1055 /\ r = 1048
    BY <2>2, <2>9
  <2>10. CASE s = 64 /\ x = 1119 /\ r = 1088
    BY <2>2, <2>10
  <2>11. CASE s = 1 /\ x = 1036 /\ r = 1036
    BY <2>2, <2>11
  <2>12. CASE s = 1 /\ x = 1037 /\ r = 1037
    BY <2>2, <2>12
  <2> QED
    BY <2>1, <2>3, <2>4, <2>5, <2>6, <2>7, <2>8, <2>9, <2>10, <2>11, <2>12
<1> QED
  BY <1>1, <1>2, <1>3

(* The places of two BARs are apart. *)
LEMMA PlanApart ==
  ASSUME NEW g, NEW j, NEW s, NEW r, NEW a, NEW z, Numbers(g, j, s, r, a, z),
         NEW g2, NEW j2, NEW s2, NEW r2, NEW a2, NEW z2, Numbers(g2, j2, s2, r2, a2, z2),
         <<g, j>> # <<g2, j2>>
  PROVE  r + s <= r2 \/ r2 + s2 <= r
BY DEF Numbers

(* A BAR that is served from the reserved area. *)
LEMMA ReservedServes ==
  ASSUME TypeOK, OwnInv, AllocInv, RangesFit(tree), AssignBar, Reserved, ThisBar.kind = "io",
         NEW s \in Nat, NEW r \in Nat, s > 0, ThisBar.size = s, r + s <= IORES_TOP,
         (ioresavail + s - 1) - ((ioresavail + s - 1) % s) = r
  PROVE  /\ cells' = Append(cells, iobase + r) /\ UNCHANGED ioavail
         /\ ioresavail' = IF r + s >= IORES_TOP THEN IORES_START + Rewind ELSE r + s
<1>1. stage = "assign" /\ k <= Len(Node.bars)
  BY DEF AssignBar
<1>2. n \in DOMAIN tree[b].nodes /\ k \in DOMAIN Node.bars /\ b \in {1, 2}
  BY <1>1, BarFacts DEF TypeOK, Scalars
<1>3. iobase \in Nat /\ iolen \in Nat /\ ioresavail \in Nat
  BY DEF TypeOK, Scalars
<1>4. iobase = tree[b].io /\ iolen = tree[b].iolen /\ Walked(tree[b]) /\ ioresavail <= iolen
  BY <1>1 DEF OwnInv, WindowsAreOwn, AllocInv, AtWork
<1>5. /\ IORES_TOP <= iolen /\ iobase + iolen <= Word
      /\ WindowEnd(tree[b], ThisBar) + s < Word
  BY <1>2, <1>4 DEF RangesFit, Node, ThisBar
<1>6. iolen + s < Word
  BY <1>4, <1>5 DEF WindowEnd
<1>7. Rounded = r
  <2>1. ioresavail + (s - 1) < Word
    BY <1>3, <1>4, <1>6, WordAssumption
  <2>2. Add(ioresavail, s - 1) = ioresavail + s - 1
    BY <1>3, <2>1, AddSmall
  <2>3. Rounded = ROUND_UP(ioresavail, s)
    BY DEF Rounded, IoAvail
  <2> QED
    BY <2>2, <2>3 DEF ROUND_UP, ROUND_DOWN
<1>8. Add(r, s) = r + s /\ Add(iobase, r) = iobase + r /\ r + s <= iolen
  <2>1. r + s <= iolen /\ r + s < Word /\ iobase + r < Word
    <3>1. IORES_TOP \in Nat
      BY Pegasos2Assumption
    <3> QED
      BY <1>3, <1>5, <1>6, <3>1, WordAssumption
  <2> QED
    BY <1>3, <2>1, AddSmall
<1>9. Fits /\ Behind(Rounded) = IF r + s >= IORES_TOP THEN IORES_START + Rewind ELSE r + s
  BY <1>7, <1>8 DEF Fits, Behind
<1>10. cells' = Append(cells, iobase + r) /\ MoveTo(Behind(Rounded))
  BY <1>7, <1>8, <1>9 DEF AssignBar
<1> QED
  BY <1>9, <1>10 DEF MoveTo

(* The node of a function of the VT8231, ... *)
LEMMA FunctionFacts ==
  ASSUME tree \in Trees, NEW f \in [1 .. 4 -> DOMAIN tree[1].nodes], VT8231At(tree, f), NEW g \in 1 .. 4
  PROVE  /\ f[g] \in DOMAIN tree[1].nodes /\ f[g] \in Nat /\ f[g] > 0
         /\ LET d == tree[1].nodes[f[g]]
            IN  /\ d.ok /\ d.southbridge /\ ~ d.assigned /\ d.bars # << >>
                /\ Len(d.bars) = Len(VT8231Sizes[g]) /\ DOMAIN d.bars = 1 .. Len(VT8231Sizes[g])
                /\ \A j \in DOMAIN d.bars : d.bars[j].kind = "io" /\ d.bars[j].size = VT8231Sizes[g][j]
<1>1. f[g] \in DOMAIN tree[1].nodes /\ f[g] \in Nat /\ f[g] > 0
  <2>1. f[g] \in DOMAIN tree[1].nodes
    OBVIOUS
  <2>2. DOMAIN tree[1].nodes = 1 .. Len(tree[1].nodes) /\ Len(tree[1].nodes) \in Nat
    BY NodeFacts
  <2>3. CASE g = 1
    BY <2>2, <2>3
  <2>4. CASE g = 2
    BY <2>2, <2>4
  <2>5. CASE g = 3
    BY <2>2, <2>5
  <2>6. CASE g = 4
    BY <2>2, <2>6
  <2> QED
    BY <2>1, <2>3, <2>4, <2>5, <2>6
<1> DEFINE d == tree[1].nodes[f[g]]
<1>2. /\ d.ok /\ d.southbridge /\ ~ d.assigned /\ Len(d.bars) = Len(VT8231Sizes[g])
      /\ \A j \in DOMAIN d.bars : d.bars[j] = [kind |-> "io", size |-> VT8231Sizes[g][j]]
  BY DEF VT8231At
<1>3. DOMAIN d.bars = 1 .. Len(d.bars)
  BY <1>1, NodeFacts
<1>4. Len(VT8231Sizes[g]) \in {1, 3, 5}
  <2>1. g = 1 \/ g = 2 \/ g = 3 \/ g = 4
    OBVIOUS
  <2>2. /\ Len(VT8231Sizes[1]) = 5 /\ Len(VT8231Sizes[2]) = 1
        /\ Len(VT8231Sizes[3]) = 1 /\ Len(VT8231Sizes[4]) = 3
    BY DEF VT8231Sizes
  <2> QED
    BY <2>1, <2>2, Zenon
<1>5. d.bars # << >>
  <2>1. Len(<< >>) = 0 /\ \A i \in {1, 3, 5} : i # 0
    OBVIOUS
  <2> QED
    BY <1>2, <1>4, <2>1, Zenon
<1>6. ASSUME NEW j \in DOMAIN d.bars
      PROVE  d.bars[j].kind = "io" /\ d.bars[j].size = VT8231Sizes[g][j]
  <2>1. d.bars[j] = [kind |-> "io", size |-> VT8231Sizes[g][j]]
    BY <1>2
  <2> HIDE DEF d
  <2> QED
    BY <2>1
<1> QED
  BY <1>1, <1>2, <1>3, <1>5, <1>6

(* ... and where the allocator is before a node of the bus. *)
Upto(f, m) == IF m <= f[1] THEN 1024 ELSE IF m <= f[2] THEN 1036
              ELSE IF m <= f[3] THEN 1048 ELSE IF m <= f[4] THEN 1056 ELSE 1038

LEMMA UptoFacts ==
  ASSUME tree \in Trees, NEW f \in [1 .. 4 -> DOMAIN tree[1].nodes], VT8231At(tree, f), NEW m \in Nat
  PROVE  /\ \A g \in 1 .. 4 : m = f[g] =>
               /\ Upto(f, m) = Heads[g][1]
               /\ Upto(f, m + 1) = Heads[g][Len(VT8231Sizes[g]) + 1]
         /\ (\A g \in 1 .. 4 : m # f[g]) => Upto(f, m + 1) = Upto(f, m)
         /\ m = 1 => Upto(f, m) = 1024
<1>1. \A g \in 1 .. 4 : f[g] \in Nat /\ f[g] > 0
  BY FunctionFacts
<1>2. f[1] < f[2] /\ f[2] < f[3] /\ f[3] < f[4]
  BY DEF VT8231At
<1>3. /\ f[1] \in Nat /\ f[1] > 0 /\ f[2] \in Nat /\ f[3] \in Nat /\ f[4] \in Nat
  BY <1>1
<1>4. /\ Len(VT8231Sizes[1]) = 5 /\ Len(VT8231Sizes[2]) = 1
      /\ Len(VT8231Sizes[3]) = 1 /\ Len(VT8231Sizes[4]) = 3
  BY DEF VT8231Sizes
<1>5. /\ Heads[1][1] = 1024 /\ Heads[1][5 + 1] = 1036 /\ Heads[2][1] = 1036 /\ Heads[2][1 + 1] = 1048
      /\ Heads[3][1] = 1048 /\ Heads[3][1 + 1] = 1056 /\ Heads[4][1] = 1056 /\ Heads[4][3 + 1] = 1038
  BY DEF Heads
<1>6. ASSUME NEW g \in 1 .. 4, m = f[g]
      PROVE  /\ Upto(f, m) = Heads[g][1]
             /\ Upto(f, m + 1) = Heads[g][Len(VT8231Sizes[g]) + 1]
  <2>1. g = 1 \/ g = 2 \/ g = 3 \/ g = 4
    OBVIOUS
  <2>2. CASE g = 1
    <3>1. m = f[1]
      BY <1>6, <2>2
    <3>2. Upto(f, m) = 1024 /\ Upto(f, m + 1) = 1036
      BY <1>2, <1>3, <3>1 DEF Upto
    <3>3. Heads[g][1] = 1024 /\ Len(VT8231Sizes[g]) = 5 /\ Heads[g][5 + 1] = 1036
      BY <1>4, <1>5, <2>2
    <3> QED
      BY <3>2, <3>3
  <2>3. CASE g = 2
    <3>1. m = f[2]
      BY <1>6, <2>3
    <3>2. Upto(f, m) = 1036 /\ Upto(f, m + 1) = 1048
      BY <1>2, <1>3, <3>1 DEF Upto
    <3>3. Heads[g][1] = 1036 /\ Len(VT8231Sizes[g]) = 1 /\ Heads[g][1 + 1] = 1048
      BY <1>4, <1>5, <2>3
    <3> QED
      BY <3>2, <3>3
  <2>4. CASE g = 3
    <3>1. m = f[3]
      BY <1>6, <2>4
    <3>2. Upto(f, m) = 1048 /\ Upto(f, m + 1) = 1056
      BY <1>2, <1>3, <3>1 DEF Upto
    <3>3. Heads[g][1] = 1048 /\ Len(VT8231Sizes[g]) = 1 /\ Heads[g][1 + 1] = 1056
      BY <1>4, <1>5, <2>4
    <3> QED
      BY <3>2, <3>3
  <2>5. CASE g = 4
    <3>1. m = f[4]
      BY <1>6, <2>5
    <3>2. Upto(f, m) = 1056 /\ Upto(f, m + 1) = 1038
      BY <1>2, <1>3, <3>1 DEF Upto
    <3>3. Heads[g][1] = 1056 /\ Len(VT8231Sizes[g]) = 3 /\ Heads[g][3 + 1] = 1038
      BY <1>4, <1>5, <2>5
    <3> QED
      BY <3>2, <3>3
  <2> QED
    BY <2>1, <2>2, <2>3, <2>4, <2>5
<1>7. ASSUME \A g \in 1 .. 4 : m # f[g]
      PROVE  Upto(f, m + 1) = Upto(f, m)
  <2>1. m # f[1] /\ m # f[2] /\ m # f[3] /\ m # f[4]
    BY <1>7
  <2> QED
    BY <1>2, <1>3, <2>1 DEF Upto
<1>8. m = 1 => Upto(f, m) = 1024
  BY <1>3 DEF Upto
<1> QED
  BY <1>6, <1>7, <1>8

(* Where the allocator of the reserved area is. *)
ReservedAt(f) ==
    /\ stage = "node" => ioresavail = Upto(f, n)
    /\ stage = "write" => ioresavail = Upto(f, n + 1)
    /\ stage = "assign" =>
          /\ \A g \in 1 .. 4 : n = f[g] => ioresavail = Heads[g][k]
          /\ (\A g \in 1 .. 4 : n # f[g]) => ioresavail = Upto(f, n)

ReservedInv(f) == AtWork /\ b = 1 => IORES_TOP <= ioavail /\ ReservedAt(f)

(* What it gave out: the BARs of the VT8231 are in their places, the other *)
(* I/O BARs behind the reserved area.                                      *)
At(f, m, j, a) ==
    \/ tree[1].io + IORES_TOP <= a /\ Ordinary(1, m, j)
    \/ \E g \in 1 .. 4 : m = f[g] /\ a = tree[1].io + Slots[g][j]

SlotsInv(f) ==
    \A m \in DOMAIN tree[1].nodes : ~ tree[1].nodes[m].assigned =>
        \A j \in DOMAIN Addrs(1, m) :
            Addrs(1, m)[j] # 0 /\ tree[1].nodes[m].bars[j].kind = "io" => At(f, m, j, Addrs(1, m)[j])

SouthInv(f) ==
    /\ f \in [1 .. 4 -> DOMAIN tree[1].nodes] /\ VT8231At(tree, f)
    /\ Walked(tree[1]) => tree[1].mem = MemBase[1]
    /\ tree[2].mem # MemBase[1]
    /\ ReservedInv(f) /\ SlotsInv(f)

(* The step of a BAR of the VT8231, ... *)
LEMMA FunctionStep ==
  ASSUME RangesInv, IORES_START = 1024, IORES_TOP = 1152, Rewind = 12,
         NEW f, SouthInv(f), AssignBar, b = 1, NEW g \in 1 .. 4, n = f[g]
  PROVE  /\ ThisBar.kind = "io" /\ cells' = Append(cells, tree[1].io + Slots[g][k])
         /\ ioavail' = ioavail /\ ioresavail' = Heads[g][k + 1]
<1>1. TypeOK /\ OwnInv /\ AllocInv /\ RangesFit(tree) /\ tree \in Trees
  BY DEF RangesInv, TypeOK, Scalars
<1>2. stage = "assign" /\ k <= Len(Node.bars)
  BY DEF AssignBar
<1>3. k \in DOMAIN Node.bars
  BY <1>1, <1>2, BarFacts
<1>4. /\ Node.southbridge /\ Len(Node.bars) = Len(VT8231Sizes[g])
      /\ ThisBar.kind = "io" /\ ThisBar.size = VT8231Sizes[g][k] /\ k \in 1 .. Len(VT8231Sizes[g])
  BY <1>1, <1>3, FunctionFacts DEF SouthInv, Node, ThisBar
<1>5. Reserved
  BY <1>4 DEF Reserved
<1>6. ioresavail = Heads[g][k]
  BY <1>2 DEF SouthInv, ReservedInv, ReservedAt, AtWork
<1> DEFINE s == VT8231Sizes[g][k]
           r == Slots[g][k]
           a == Heads[g][k]
           z == Heads[g][k + 1]
<1>7. Numbers(g, k, s, r, a, z)
  BY <1>4, Plan
<1> HIDE DEF s, r, a, z
<1>8. /\ s \in Nat /\ s > 0 /\ a \in Nat /\ r \in Nat /\ r + s <= 1152
      /\ (a + s - 1) - ((a + s - 1) % s) = r
      /\ z = IF r + s >= 1152 THEN 1036 ELSE r + s
  BY <1>7, PlanServes
<1>9. ThisBar.size = s /\ ioresavail = a
  BY <1>4, <1>6 DEF s, a
<1>10. /\ cells' = Append(cells, iobase + r) /\ UNCHANGED ioavail
       /\ ioresavail' = IF r + s >= IORES_TOP THEN IORES_START + Rewind ELSE r + s
  BY <1>1, <1>4, <1>5, <1>8, <1>9, ReservedServes
<1>11. iobase = tree[1].io
  BY <1>1, <1>2 DEF OwnInv, WindowsAreOwn
<1>12. ioresavail' = z
  BY <1>8, <1>10
<1> QED
  BY <1>4, <1>10, <1>11, <1>12 DEF r, z

(* ... and of another one. *)
LEMMA OtherStep ==
  ASSUME RangesInv, NEW f, SouthInv(f), AssignBar, b = 1, \A g \in 1 .. 4 : n # f[g]
  PROVE  UNCHANGED ioresavail /\ ~ (Reserved /\ ThisBar.kind = "io")
<1>1. TypeOK
  BY DEF RangesInv
<1>2. stage = "assign" /\ k <= Len(Node.bars)
  BY DEF AssignBar
<1>3. n \in DOMAIN tree[1].nodes /\ k \in DOMAIN Node.bars /\ ~ Node.assigned
  BY <1>1, <1>2, BarFacts DEF TypeOK, Progress
<1>4. ~ (Reserved /\ ThisBar.kind = "io")
  BY <1>3 DEF SouthInv, VT8231At, Reserved, Node, ThisBar
<1> QED
  BY <1>4 DEF AssignBar, MoveTo, avails

LEMMA ReservedStep ==
  ASSUME RangesInv, IORES_START = 1024, IORES_TOP = 1152, Rewind = 12,
         NEW f, SouthInv(f), [BusesNext]_busesVars
  PROVE  ReservedInv(f)'
<1>1. TypeOK /\ OwnInv /\ AllocInv /\ UntouchedInv /\ RangesFit(tree) /\ tree \in Trees
  BY DEF RangesInv, TypeOK, Scalars
<1>2. tree' = tree /\ b \in {1, 2} /\ n \in Nat /\ TypeOK' /\ OwnInv'
  BY <1>1, PropStep, PropDone, TypeStep, OwnStep DEF TypeOK, Scalars
<1>3. f \in [1 .. 4 -> DOMAIN tree[1].nodes] /\ VT8231At(tree, f)
  BY DEF SouthInv
<1>4. /\ \A g \in 1 .. 4 : n = f[g] =>
            /\ Upto(f, n) = Heads[g][1]
            /\ Upto(f, n + 1) = Heads[g][Len(VT8231Sizes[g]) + 1]
      /\ (\A g \in 1 .. 4 : n # f[g]) => Upto(f, n + 1) = Upto(f, n)
  BY <1>1, <1>2, <1>3, UptoFacts
<1> SUFFICES ASSUME AtWork', b' = 1
             PROVE  IORES_TOP <= ioavail' /\ ReservedAt(f)'
  BY DEF ReservedInv
<1>5. CASE BasesForBus
  <2>1. /\ stage' = "node" /\ n' = 1 /\ b = 1 /\ b' = b
        /\ membase' = MemBase[1] => ioresavail' = IORES_START /\ ioavail' = IORES_TOP
    BY <1>2, <1>5 DEF BasesForBus, NextBus, AtWork
  <2>2. membase' = tree[1].mem /\ Walked(tree[1])
    BY <1>2, <2>1 DEF OwnInv, WindowsAreOwn, AtWork
  <2>3. ioresavail' = 1024 /\ ioavail' = IORES_TOP
    BY <2>1, <2>2 DEF SouthInv
  <2>4. Upto(f, 1) = 1024
    BY <1>1, <1>3, UptoFacts
  <2>5. IORES_TOP <= IORES_TOP
    BY Pegasos2Assumption
  <2> QED
    BY <2>1, <2>3, <2>4, <2>5 DEF ReservedAt
<1>6. CASE NoRanges \/ EndOfBus
  BY <1>2, <1>6 DEF NoRanges, EndOfBus, NextBus, AtWork
<1>7. CASE ~ (BasesForBus \/ NoRanges \/ EndOfBus)
  <2>1. AtWork /\ b' = b
    BY <1>7 DEF BusesNext, SkipNode, EnterNode, AssignBar, AssignDone, WriteBar, NodeDone, Done, busesVars, AtWork
  <2>2. b = 1 /\ IORES_TOP <= ioavail /\ ReservedAt(f)
    BY <2>1 DEF SouthInv, ReservedInv
  <2>3. CASE SkipNode
    <3>1. /\ stage = "node" /\ stage' = "node" /\ n' = n + 1 /\ ~ tree[1].nodes[n].ok
          /\ UNCHANGED <<ioresavail, ioavail>>
      BY <2>2, <2>3 DEF SkipNode, Node, avails
    <3>2. \A g \in 1 .. 4 : n # f[g]
      BY <1>1, <1>3, <3>1, FunctionFacts
    <3> QED
      BY <1>4, <2>2, <3>1, <3>2 DEF ReservedAt
  <2>4. CASE EnterNode
    <3>1. stage = "node" /\ UNCHANGED <<ioresavail, ioavail>> /\ k' = 1
      BY <2>4 DEF EnterNode, avails
    <3>2. ioresavail = Upto(f, n)
      BY <2>2, <3>1 DEF ReservedAt
    <3>3. \/ stage' = "write" /\ n' = n /\ tree[1].nodes[n].assigned
          \/ stage' = "node" /\ n' = n + 1 /\ tree[1].nodes[n].bars = << >>
          \/ stage' = "assign" /\ n' = n
      BY <2>2, <2>4, <3>1 DEF EnterNode, HasAddresses, Node
    <3>4. ASSUME NEW g \in 1 .. 4, n = f[g]
          PROVE  ~ tree[1].nodes[n].assigned /\ tree[1].nodes[n].bars # << >>
      BY <1>1, <1>3, <3>4, FunctionFacts
    <3>5. CASE stage' = "assign" /\ n' = n
      BY <1>4, <2>2, <3>1, <3>2, <3>5 DEF ReservedAt
    <3>6. CASE ~ (stage' = "assign" /\ n' = n)
      <4>1. Upto(f, n + 1) = Upto(f, n)
        BY <1>4, <3>3, <3>4, <3>6
      <4> QED
        BY <2>2, <3>1, <3>2, <3>3, <3>6, <4>1 DEF ReservedAt
    <3> QED
      BY <3>5, <3>6
  <2>5. CASE AssignBar
    <3>1. UNCHANGED <<stage, n>> /\ stage = "assign" /\ k' = k + 1 /\ ioavail \in Nat /\ ioavail' \in Nat
      BY <1>1, <1>2, <2>5 DEF AssignBar, TypeOK, Scalars
    <3>2. ioavail <= ioavail'
      BY <1>1, <2>5, AssignServes DEF Moves
    <3>3. IORES_TOP <= ioavail'
      BY <2>2, <3>1, <3>2
    <3>4. ASSUME NEW g \in 1 .. 4, n = f[g]
          PROVE  ioresavail' = Heads[g][k + 1]
      BY <2>2, <2>5, <3>4, FunctionStep
    <3>5. ASSUME \A g \in 1 .. 4 : n # f[g]
          PROVE  ioresavail' = Upto(f, n)
      <4>1. ioresavail = Upto(f, n)
        BY <2>2, <3>1, <3>5 DEF ReservedAt
      <4> QED
        BY <2>2, <2>5, <3>5, <4>1, OtherStep
    <3> QED
      BY <3>1, <3>3, <3>4, <3>5 DEF ReservedAt
  <2>6. CASE AssignDone
    <3>1. /\ stage = "assign" /\ stage' = "write" /\ n' = n /\ k > Len(Node.bars)
          /\ UNCHANGED <<ioresavail, ioavail>>
      BY <2>6 DEF AssignDone, avails
    <3>2. k = Len(Node.bars) + 1
      <4>1. k = Len(cells) + 1 /\ Len(cells) <= Len(Node.bars) /\ n \in DOMAIN tree[b].nodes
            /\ cells \in Seq(Nat)
        BY <1>1, <3>1 DEF TypeOK, Scalars, Progress
      <4>2. Len(Node.bars) \in Nat
        BY <1>1, <1>2, <4>1, NodeFacts DEF Node
      <4> QED
        BY <3>1, <4>1, <4>2
    <3>3. ASSUME NEW g \in 1 .. 4, n = f[g]
          PROVE  Len(Node.bars) = Len(VT8231Sizes[g])
      BY <1>1, <1>3, <2>2, <3>3, FunctionFacts DEF Node
    <3>4. ioresavail = Upto(f, n + 1)
      <4>1. CASE \A g \in 1 .. 4 : n # f[g]
        BY <1>4, <2>2, <3>1, <4>1 DEF ReservedAt
      <4>2. ASSUME NEW g \in 1 .. 4, n = f[g]
            PROVE  ioresavail = Upto(f, n + 1)
        <5>1. ioresavail = Heads[g][k] /\ k = Len(VT8231Sizes[g]) + 1
          BY <2>2, <3>1, <3>2, <3>3, <4>2 DEF ReservedAt
        <5> QED
          BY <1>4, <4>2, <5>1
      <4> QED
        BY <4>1, <4>2
    <3> QED
      BY <2>2, <3>1, <3>4 DEF ReservedAt
  <2>7. CASE WriteBar
    <3>1. UNCHANGED <<stage, n, ioresavail, ioavail>> /\ stage = "write"
      BY <2>7 DEF WriteBar, avails
    <3> QED
      BY <2>2, <3>1 DEF ReservedAt
  <2>8. CASE NodeDone
    <3>1. stage = "write" /\ stage' = "node" /\ n' = n + 1 /\ UNCHANGED <<ioresavail, ioavail>>
      BY <2>8 DEF NodeDone, avails
    <3> QED
      BY <2>2, <3>1 DEF ReservedAt
  <2>9. CASE UNCHANGED busesVars
    BY <2>2, <2>9 DEF busesVars, avails, ReservedAt
  <2> QED
    BY <1>7, <2>3, <2>4, <2>5, <2>6, <2>7, <2>8, <2>9 DEF BusesNext, Done
<1> QED
  BY <1>5, <1>6, <1>7

LEMMA SlotsStep ==
  ASSUME RangesInv, IORES_START = 1024, IORES_TOP = 1152, Rewind = 12,
         NEW f, SouthInv(f), [BusesNext]_busesVars
  PROVE  SlotsInv(f)'
<1>1. TypeOK /\ OwnInv /\ AllocInv /\ UntouchedInv /\ RangesFit(tree)
  BY DEF RangesInv
<1>2. tree' = tree /\ b \in {1, 2}
  BY <1>1, PropStep, PropDone DEF TypeOK, Scalars
<1> SUFFICES ASSUME NEW m \in DOMAIN tree[1].nodes, ~ tree[1].nodes[m].assigned,
                    NEW j \in DOMAIN Addrs(1, m)', Addrs(1, m)'[j] # 0,
                    tree[1].nodes[m].bars[j].kind = "io"
             PROVE  At(f, m, j, Addrs(1, m)'[j])
  BY <1>2 DEF SlotsInv, At, Ordinary
<1>3. CASE j \in DOMAIN Addrs(1, m) /\ Addrs(1, m)'[j] = Addrs(1, m)[j]
  BY <1>3 DEF SouthInv, SlotsInv
<1>4. CASE AssignBar
  <2>1. PICK v \in Nat : cells' = Append(cells, v) /\ Serves(v)
    BY <1>1, <1>4, AssignServes
  <2>2. \/ 1 = b /\ m = n /\ j = k /\ Addrs(1, m)'[j] = v
        \/ j \in DOMAIN Addrs(1, m) /\ Addrs(1, m)'[j] = Addrs(1, m)[j]
    BY <1>1, <1>4, <2>1, OldAddrs
  <2>3. CASE 1 = b /\ m = n /\ j = k /\ Addrs(1, m)'[j] = v
    <3>1. CASE \E g \in 1 .. 4 : n = f[g]
      <4>1. PICK g \in 1 .. 4 : n = f[g]
        BY <3>1
      <4>2. cells' = Append(cells, tree[1].io + Slots[g][k])
        BY <1>4, <2>3, <4>1, FunctionStep
      <4>3. v = tree[1].io + Slots[g][k]
        <5>1. cells \in Seq(Nat)
          BY <1>1 DEF TypeOK, Scalars
        <5>2. \A x, y : Append(cells, x) = Append(cells, y) => x = y
          BY <5>1
        <5> QED
          BY <2>1, <4>2, <5>2
      <4> QED
        BY <2>3, <4>1, <4>3 DEF At
    <3>2. CASE \A g \in 1 .. 4 : n # f[g]
      <4>1. ~ (Reserved /\ ThisBar.kind = "io") /\ ThisBar.kind = "io" /\ stage = "assign"
        BY <1>4, <2>3, <3>2, OtherStep DEF ThisBar, Node, AssignBar
      <4>2. iobase + ioavail <= v
        BY <2>1, <2>3, <4>1 DEF Serves
      <4>3. iobase = tree[1].io /\ IORES_TOP <= ioavail
        BY <1>1, <2>3, <4>1 DEF OwnInv, WindowsAreOwn, SouthInv, ReservedInv, AtWork
      <4>4. iobase \in Nat /\ ioavail \in Nat /\ IORES_TOP \in Nat
        BY <1>1, Pegasos2Assumption DEF TypeOK, Scalars
      <4>5. iobase + IORES_TOP <= v
        BY <4>2, <4>3, <4>4
      <4>6. Ordinary(1, m, j)
        BY <2>3, <4>1 DEF Ordinary, Reserved, ThisBar, Node
      <4> QED
        BY <2>3, <4>3, <4>5, <4>6 DEF At
    <3> QED
      BY <3>1, <3>2
  <2> QED
    BY <1>3, <2>2, <2>3
<1>5. CASE ~ AssignBar
  <2>1. 1 \in {1, 2} /\ Addrs(1, m)' \in {Addrs(1, m), << >>}
    BY <1>1, <1>5, AddrsStep
  <2>2. Addrs(1, m)' = Addrs(1, m)
    BY <2>1
  <2> QED
    BY <1>3, <2>2
<1> QED
  BY <1>4, <1>5

(* What the reserved area and the allocators gave out is apart. *)
LEMMA SlotsApart ==
  ASSUME RangesInv, IORES_TOP = 1152, NEW f, SouthInv(f),
         NEW x \in Given(1), NEW y \in Given(1), x # y, KindOf(1, x) = "io", KindOf(1, y) = "io",
         ~ Ordinary(1, x[1], x[2])
  PROVE  ~ Overlap(Place(1, x), Place(1, y))
<1> DEFINE a == prop[1][x[1]][x[2]]
           d == prop[1][y[1]][y[2]]
<1>1. TypeOK /\ UntouchedInv /\ tree \in Trees /\ 1 \in {1, 2}
  BY DEF RangesInv, TypeOK, Scalars
<1>2. f \in [1 .. 4 -> DOMAIN tree[1].nodes] /\ VT8231At(tree, f)
  BY DEF SouthInv
<1>3. ASSUME NEW p \in Given(1), KindOf(1, p) = "io"
      PROVE  /\ p[1] \in DOMAIN tree[1].nodes /\ p = <<p[1], p[2]>>
             /\ p[2] \in DOMAIN tree[1].nodes[p[1]].bars
             /\ At(f, p[1], p[2], prop[1][p[1]][p[2]])
             /\ prop[1][p[1]][p[2]] \in Nat /\ SizeOf(1, p) \in Nat
  <2>1. /\ p[1] \in DOMAIN tree[1].nodes /\ ~ tree[1].nodes[p[1]].assigned
        /\ Addrs(1, p[1]) = prop[1][p[1]] /\ p[2] \in DOMAIN Addrs(1, p[1])
        /\ Addrs(1, p[1])[p[2]] # 0 /\ Addrs(1, p[1])[p[2]] \in Nat
        /\ p = <<p[1], p[2]>>
    BY <1>1, <1>3, GivenAddrs
  <2>2. p[2] \in DOMAIN tree[1].nodes[p[1]].bars /\ SizeOf(1, p) \in Nat
    BY <1>1, <2>1, AddrsType DEF SizeOf
  <2>3. tree[1].nodes[p[1]].bars[p[2]].kind = "io"
    BY <1>3 DEF KindOf
  <2> QED
    BY <2>1, <2>2, <2>3 DEF SouthInv, SlotsInv
<1>4. ASSUME NEW p \in Given(1), KindOf(1, p) = "io", NEW g \in 1 .. 4, p[1] = f[g]
      PROVE  /\ SizeOf(1, p) = VT8231Sizes[g][p[2]] /\ p[2] \in 1 .. Len(VT8231Sizes[g])
             /\ Numbers(g, p[2], VT8231Sizes[g][p[2]], Slots[g][p[2]], Heads[g][p[2]], Heads[g][p[2] + 1])
  <2>1. p[2] \in DOMAIN tree[1].nodes[p[1]].bars
    BY <1>3, <1>4
  <2>2. p[2] \in 1 .. Len(VT8231Sizes[g]) /\ SizeOf(1, p) = VT8231Sizes[g][p[2]]
    <3> DEFINE q == tree[1].nodes[f[g]]
    <3>1. /\ DOMAIN q.bars = 1 .. Len(VT8231Sizes[g])
          /\ \A j \in DOMAIN q.bars : q.bars[j].size = VT8231Sizes[g][j]
      BY <1>1, <1>2, FunctionFacts
    <3>2. SizeOf(1, p) = q.bars[p[2]].size /\ p[2] \in DOMAIN q.bars
      BY <1>4, <2>1 DEF SizeOf
    <3> HIDE DEF q
    <3> QED
      BY <3>1, <3>2
  <2> QED
    BY <2>2, Plan
<1>5. PICK g \in 1 .. 4 : x[1] = f[g] /\ a = tree[1].io + Slots[g][x[2]]
  BY <1>3 DEF At
<1>6. tree[1].io \in Nat
  BY <1>1, NodeFacts DEF BusType
<1> DEFINE r == Slots[g][x[2]]
           s == VT8231Sizes[g][x[2]]
           z == SizeOf(1, y)
           o == tree[1].io
<1>7. Numbers(g, x[2], s, r, Heads[g][x[2]], Heads[g][x[2] + 1]) /\ SizeOf(1, x) = s
  BY <1>4, <1>5
<1>8. s \in Nat /\ r \in Nat /\ r + s <= 1152
  <2> HIDE DEF s, r
  <2> QED
    BY <1>7, PlanServes
<1>9. d \in Nat /\ z \in Nat
  BY <1>3
<1>10. a + s <= d \/ d + z <= a
  <2>1. CASE tree[1].io + IORES_TOP <= d
    <3> HIDE DEF a, d, s, r, z
    <3>1. a = o + r /\ o + 1152 <= d
      BY <1>5, <2>1 DEF a, r
    <3> HIDE DEF o
    <3> QED
      BY <1>6, <1>8, <1>9, <3>1 DEF o
  <2>2. CASE \E h \in 1 .. 4 : y[1] = f[h] /\ d = tree[1].io + Slots[h][y[2]]
    <3>1. PICK h \in 1 .. 4 : y[1] = f[h] /\ d = tree[1].io + Slots[h][y[2]]
      BY <2>2
    <3> DEFINE r2 == Slots[h][y[2]]
               s2 == VT8231Sizes[h][y[2]]
    <3>2. Numbers(h, y[2], s2, r2, Heads[h][y[2]], Heads[h][y[2] + 1]) /\ z = s2
      BY <1>4, <3>1
    <3>3. <<g, x[2]>> # <<h, y[2]>>
      <4>1. x = <<x[1], x[2]>> /\ y = <<y[1], y[2]>>
        BY <1>3
      <4> QED
        BY <1>5, <3>1, <4>1
    <3>4. r + s <= r2 \/ r2 + s2 <= r
      <4> HIDE DEF r, s, r2, s2
      <4> QED
        BY <1>7, <3>2, <3>3, PlanApart
    <3>5. s2 \in Nat /\ r2 \in Nat
      <4> HIDE DEF r2, s2
      <4> QED
        BY <3>2, PlanServes
    <3>6. a = o + r /\ d = o + r2 /\ z = s2 /\ o \in Nat
      BY <1>5, <1>6, <3>1, <3>2
    <3> HIDE DEF a, d, r, s, r2, s2, z, o
    <3> QED
      BY <1>8, <3>4, <3>5, <3>6
  <2>3. At(f, y[1], y[2], d)
    BY <1>3
  <2> QED
    BY <2>1, <2>2, <2>3 DEF At
<1>11. a \in Nat
  BY <1>3
<1> HIDE DEF a, d, s, z
<1>12. ~ Overlap(Region(a, s), Region(d, z))
  BY <1>8, <1>9, <1>10, <1>11 DEF Overlap, Region, End
<1> QED
  BY <1>7, <1>12 DEF Place, a, d, s, z

(* An overlap is one of either to the other. *)
LEMMA OverlapSymmetric ==
  ASSUME NEW r, NEW s, Overlap(r, s)
  PROVE  Overlap(s, r)
BY DEF Overlap

LEMMA SouthApart ==
  ASSUME ApartIInv, IORES_TOP = 1152, NEW f, SouthInv(f)
  PROVE  BarsApart
<1>1. TypeOK /\ UntouchedInv /\ OrdinaryApart /\ RangesInv
  BY AddrsApart DEF ApartIInv, RangesInv
<1> SUFFICES ASSUME NEW c \in {1, 2}, NEW x \in Given(c), NEW y \in Given(c),
                    x # y, KindOf(c, x) = "io" <=> KindOf(c, y) = "io"
             PROVE  ~ Overlap(Place(c, x), Place(c, y))
  BY DEF BarsApart
<1>2. ASSUME NEW p \in Given(c), ~ Ordinary(c, p[1], p[2])
      PROVE  c = 1 /\ KindOf(c, p) = "io"
  <2>1. /\ p[1] \in DOMAIN tree[c].nodes /\ ~ tree[c].nodes[p[1]].assigned
        /\ p[2] \in DOMAIN Addrs(c, p[1]) /\ Addrs(c, p[1])[p[2]] # 0
    BY <1>1, <1>2, GivenAddrs
  <2>2. tree[c].mem = MemBase[1]
    BY <1>2, <2>1 DEF ApartIInv, ElsewhereInv
  <2> QED
    BY <1>2, <2>1, <2>2 DEF Ordinary, KindOf, SouthInv
<1>3. CASE ~ Ordinary(c, x[1], x[2])
  BY <1>1, <1>2, <1>3, SlotsApart
<1>4. CASE ~ Ordinary(c, y[1], y[2])
  <2>1. ~ Overlap(Place(c, y), Place(c, x))
    BY <1>1, <1>2, <1>4, SlotsApart
  <2> QED
    BY <2>1, OverlapSymmetric
<1>5. CASE Ordinary(c, x[1], x[2]) /\ Ordinary(c, y[1], y[2])
  BY <1>1, <1>5 DEF OrdinaryApart
<1> QED
  BY <1>3, <1>4, <1>5

(***************************************************************************)
(* The reserved I/O area of the Pegasos2 fits its south bridge: with a     *)
(* VT8231 that no firmware has set up, whatever cards lie before, between  *)
(* and behind its functions, no two BARs of a bus get the same address,    *)
(* although the area is rewound ("rewind to fit the last two sound BARs",  *)
(* addr_for_bar).                                                          *)
(***************************************************************************)
THEOREM ApartOnVT8231 ==
  BusesSpec /\ OwnRanges(tree) /\ RangesFit(tree) /\ HasVT8231(tree) => []BarsApart
<1> DEFINE R == IORES_START = 1024 /\ IORES_TOP = 1152 /\ Rewind = 12
           I == ApartIInv /\ R /\ \E f : SouthInv(f)
<1>1. BusesInit /\ OwnRanges(tree) /\ RangesFit(tree) /\ HasVT8231(tree) => I
  <2> SUFFICES ASSUME BusesInit, OwnRanges(tree), RangesFit(tree), HasVT8231(tree) PROVE I
    OBVIOUS
  <2>1. PICK f \in [1 .. 4 -> DOMAIN tree[1].nodes] : VT8231At(tree, f)
    BY DEF HasVT8231
  <2>2. ReservedInv(f)
    BY DEF BusesInit, ReservedInv, AtWork
  <2>3. \A m \in DOMAIN tree[1].nodes : ~ tree[1].nodes[m].assigned => Addrs(1, m) = << >>
    BY DEF BusesInit, Each, Addrs
  <2>4. SlotsInv(f)
    BY <2>3 DEF SlotsInv
  <2> QED
    BY <2>1, <2>2, <2>4, ApartIInit DEF SouthInv, HasVT8231
<1>2. I /\ [BusesNext]_busesVars => I'
  <2> SUFFICES ASSUME I, [BusesNext]_busesVars PROVE I'
    OBVIOUS
  <2>1. PICK f : SouthInv(f)
    OBVIOUS
  <2>2. tree' = tree /\ RangesInv
    BY PropStep, PropDone DEF ApartIInv, RangesInv
  <2>3. ReservedInv(f)' /\ SlotsInv(f)'
    BY <2>1, <2>2, ReservedStep, SlotsStep
  <2>4. SouthInv(f)'
    BY <2>1, <2>2, <2>3 DEF SouthInv
  <2> QED
    BY <2>4, ApartIStep
<1>3. I => BarsApart
  BY SouthApart
<1> QED
  BY <1>1, <1>2, <1>3, PTL DEF BusesSpec
=============================================================================
