------------------------------ MODULE PciSetup ------------------------------
(***************************************************************************)
(* The PCI setup of the boards without Open Firmware (brd_amigaone.c and   *)
(* brd_sam460.c): every function of every slot of bus 0 is found, its      *)
(* interrupt line set and its base address registers (BARs) sized and      *)
(* given addresses, from one window for I/O and one for memory, by an      *)
(* allocator that only ever moves up.                                      *)
(*                                                                         *)
(* Addresses count in units of four bytes, the smallest BAR there is, so   *)
(* that the 32-bit Word and the windows of the boards are exact in TLC.    *)
(* What a BAR reads as after all ones were written to it is abstracted to  *)
(* its kind and size; a size of 0 is a 64-bit BAR of 4 GiB or more.        *)
(***************************************************************************)
EXTENDS Memory

CONSTANTS
    Board,           \* "amigaone" or "sam460"
    Slots,           \* slots on the bus (32)
    IoStart, iolen,  \* first free I/O address, end of the I/O window
    membase, memlen, \* the memory window
    Hardware         \* the populated buses to set up

Bars == 0 .. 5
AllOnes == Word - 1          \* a BAR that was sized and not given an address

Function == (0 .. Slots - 1) \X (0 .. 7)

(* A function: multi-function bit, interrupt pin, SM502 or not, BARs. *)
DeviceType == [multi : BOOLEAN, pin : Nat, sm502 : BOOLEAN,
               bar : [Bars -> [kind : {"none", "io", "mem", "mem64"}, size : Nat]]]

memtop == membase + memlen

ASSUME PciAssumption ==
    /\ Board \in {"amigaone", "sam460"}
    /\ Slots \in Nat /\ Slots > 0
    /\ IoStart \in Nat /\ iolen \in Nat /\ 0 < IoStart /\ IoStart <= iolen
    /\ membase \in Nat /\ memlen \in Nat /\ 0 < membase /\ memtop < Word
    /\ iolen < Word
    /\ \A h \in Hardware : /\ DOMAIN h \subseteq Function
                           /\ \A f \in DOMAIN h : h[f] \in DeviceType

VARIABLES
    hw,          \* the devices on the bus: function -> device
    pc,          \* "func" (setup_pci_device starts), "bar" (its loop), "done"
    at,          \* the function being set up, <<slot, func>>
    i,           \* its BAR
    cmd,         \* the decode bits setup_pci_device has collected
    command,     \* the command register of each function
    line,        \* the interrupt line register of each function
    bar,         \* the BARs of each function, without the type bits
    ioavail, memavail

vars == <<hw, pc, at, i, cmd, command, line, bar, ioavail, memavail>>
-----------------------------------------------------------------------------
IsIo(b) == b.kind = "io"

(* Where the allocator of the space of b stands and where it has to stop. *)
availFor(b) == IF IsIo(b) THEN ioavail ELSE memavail
topFor(b) == IF IsIo(b) THEN iolen ELSE memtop

(* An allocator that does not align. *)
addr_unaligned(b) ==
    LET ret == availFor(b)
    IN  IF b.size = 0 \/ Add(ret, b.size) > topFor(b) THEN NULL ELSE ret

(* An allocator that forgets the end of the window. *)
addr_unbounded(b) == IF b.size = 0 THEN NULL ELSE ROUND_UP(availFor(b), b.size)

(***************************************************************************)
(* addr_for_bar(): the next multiple of the size, or 0 when the BAR would  *)
(* end above its window.  The sum ret + size is a 32-bit one.              *)
(***************************************************************************)
addr_for_bar(b) ==
    IF b.size = 0 THEN NULL
    ELSE LET ret == ROUND_UP(availFor(b), b.size)
         IN  IF Add(ret, b.size) > topFor(b) THEN NULL ELSE ret

(* Functions of the AmigaOne's south bridge that get no BARs. *)
IsIde(f) == Board = "amigaone" /\ f = <<7, 1>>
NoBars(f) == Board = "amigaone" /\ f[1] = 7 /\ f[2] \in {0, 1, 4, 6}

pci_irq_map(n) ==
    IF Board = "sam460" THEN 32
    ELSE CASE n = 0 -> 9 [] n = 1 -> 10 [] n = 2 -> 11 [] n = 3 -> 7

(* The interrupt line setup_pci_device writes, 255 when it writes none. *)
irq_for(f) ==
    LET pin == hw[f].pin
    IN  IF Board = "amigaone" /\ f[1] = 7 /\ f[2] \in {2, 3} THEN 5
        ELSE IF pin \notin 1 .. 4 THEN 255
        ELSE IF Board = "sam460" /\ hw[f].sm502 THEN 116
        ELSE IF Board = "amigaone" /\ f[1] = 6 THEN pci_irq_map(3)
        ELSE IF Board = "amigaone" /\ f[1] = 7 THEN pci_irq_map(pin - 1)
        ELSE pci_irq_map((f[1] + pin - 1) % 4)
-----------------------------------------------------------------------------
Init == /\ hw \in Hardware
        /\ pc = "func" /\ at = <<0, 0>> /\ i = 0 /\ cmd = {}
        /\ \E on \in {{}, {"IO", "MEM", "BM"}} : command = [f \in DOMAIN hw |-> on]
        /\ line = [f \in DOMAIN hw |-> 0]
        /\ bar = [f \in DOMAIN hw |-> [k \in Bars |-> 0]]
        /\ ioavail = IoStart /\ memavail = membase

(***************************************************************************)
(* The loops over slots and functions.  The header type of a function that *)
(* is not there reads as all ones, so its multi-function bit is set.       *)
(***************************************************************************)
Multi(slot) == <<slot, 0>> \in DOMAIN hw => hw[<<slot, 0>>].multi

(* Loops that never leave a slot. *)
Advance_wrap ==
    IF Multi(at[1])
    THEN pc' = "func" /\ at' = <<at[1], (at[2] + 1) % 8>>
    ELSE IF at[1] + 1 < Slots
    THEN pc' = "func" /\ at' = <<at[1] + 1, 0>>
    ELSE pc' = "done" /\ UNCHANGED at

Advance ==
    IF at[2] < 7 /\ Multi(at[1])
    THEN pc' = "func" /\ at' = <<at[1], at[2] + 1>>
    ELSE IF at[1] + 1 < Slots
    THEN pc' = "func" /\ at' = <<at[1] + 1, 0>>
    ELSE pc' = "done" /\ UNCHANGED at

(* The vendor ID reads as all ones (on the Sam460 all zeros too). *)
Absent ==
    /\ pc = "func" /\ at \notin DOMAIN hw
    /\ Advance
    /\ UNCHANGED <<hw, i, cmd, command, line, bar, ioavail, memavail>>

(* The south bridge functions that setup_pci_device returns from early. *)
SouthBridge ==
    /\ pc = "func" /\ at \in DOMAIN hw /\ NoBars(at)
    /\ command' = [command EXCEPT ![at] = IF IsIde(at) THEN {"IO", "MEM", "BM"} ELSE {}]
    /\ line' = IF IsIde(at) THEN [line EXCEPT ![at] = 255] ELSE line
    /\ Advance
    /\ UNCHANGED <<hw, i, cmd, bar, ioavail, memavail>>

(* Decoding off, interrupt line set, on to the BARs. *)
EnterFunction ==
    /\ pc = "func" /\ at \in DOMAIN hw /\ ~ NoBars(at)
    /\ command' = [command EXCEPT ![at] = {}]
    /\ line' = IF irq_for(at) # 255 THEN [line EXCEPT ![at] = irq_for(at)] ELSE line
    /\ pc' = "bar" /\ i' = 0 /\ cmd' = {}
    /\ UNCHANGED <<hw, at, bar, ioavail, memavail>>

ThisBar == hw[at].bar[i]

(* The sized BAR reads as 0: the device does not have it. *)
NoBar ==
    /\ pc = "bar" /\ i \in Bars
    /\ ThisBar.kind = "none"
    /\ i' = i + 1
    /\ UNCHANGED <<hw, pc, at, cmd, command, line, bar, ioavail, memavail>>

(* Decode bits of the last BAR alone. *)
Collected_last == {IF IsIo(ThisBar) THEN "IO" ELSE "MEM"}

Collected == cmd \cup {IF IsIo(ThisBar) THEN "IO" ELSE "MEM"}

(* A loop that skips the register behind every memory BAR. *)
NextBar_bug == i' = i + IF IsIo(ThisBar) THEN 1 ELSE 2

(* A 64-bit BAR takes the next register as well. *)
NextBar == i' = i + IF ThisBar.kind = "mem64" THEN 2 ELSE 1

(* An allocator that stays at the BAR it has just placed. *)
Behind_reuse(b, base) == base

Behind(b, base) == Add(base, b.size)

(* A BAR that fits gets its address and the function starts to decode. *)
MapBar ==
    /\ pc = "bar" /\ i \in Bars /\ ThisBar.kind # "none"
    /\ LET base == addr_for_bar(ThisBar)
       IN  /\ base # NULL
           /\ bar' = [bar EXCEPT ![at][i] = base]
           /\ IF IsIo(ThisBar)
              THEN ioavail' = Behind(ThisBar, base) /\ UNCHANGED memavail
              ELSE memavail' = Behind(ThisBar, base) /\ UNCHANGED ioavail
    /\ cmd' = Collected
    /\ command' = [command EXCEPT ![at] = cmd' \cup {"BM"}]
    /\ NextBar
    /\ UNCHANGED <<hw, pc, at, line>>

(* "Cannot fit BAR": it keeps the ones it was sized with. *)
CannotFit ==
    /\ pc = "bar" /\ i \in Bars /\ ThisBar.kind # "none"
    /\ addr_for_bar(ThisBar) = NULL
    /\ bar' = [bar EXCEPT ![at][i] = AllOnes]
    /\ cmd' = Collected
    /\ NextBar
    /\ UNCHANGED <<hw, pc, at, command, line, ioavail, memavail>>

FunctionDone ==
    /\ pc = "bar" /\ i \notin Bars
    /\ Advance
    /\ UNCHANGED <<hw, i, cmd, command, line, bar, ioavail, memavail>>

(* The setup has returned. *)
Done == pc = "done" /\ UNCHANGED vars

Next == \/ Absent \/ SouthBridge \/ EnterFunction
        \/ NoBar \/ MapBar \/ CannotFit \/ FunctionDone
        \/ Done

Spec == Init /\ [][Next]_vars
FairSpec == Spec /\ WF_vars(Next)
-----------------------------------------------------------------------------
(***************************************************************************)
(* Every variable has its type (brd_amigaone.c, brd_sam460.c).             *)
(***************************************************************************)
TypeOK == /\ DOMAIN hw \subseteq Function
          /\ \A f \in DOMAIN hw : hw[f] \in DeviceType
          /\ pc \in {"func", "bar", "done"}
          /\ at \in Function /\ i \in Nat
          /\ pc = "bar" => at \in DOMAIN hw
          /\ cmd \subseteq {"IO", "MEM"}
          /\ command \in [DOMAIN hw -> SUBSET {"IO", "MEM", "BM"}]
          /\ line \in [DOMAIN hw -> Nat]
          /\ bar \in [DOMAIN hw -> [Bars -> Nat]]
          /\ ioavail \in Nat /\ memavail \in Nat

(* A BAR with an address, and what it decodes. *)
Mapped(f, k) == bar[f][k] # 0 /\ bar[f][k] # AllOnes

Decoded(f, k) == Region(bar[f][k], hw[f].bar[k].size)

(***************************************************************************)
(* The sizes for which the 32-bit sums of addr_for_bar() cannot wrap.      *)
(***************************************************************************)
SizesFit ==
    \A f \in DOMAIN hw : \A k \in Bars :
        LET b == hw[f].bar[k] IN topFor(b) + 2 * b.size < Word

(***************************************************************************)
(* No two BARs of one space decode the same address, over all functions of *)
(* the bus (addr_for_bar hands out every address once).                    *)
(***************************************************************************)
BarsApart ==
    \A f, g \in DOMAIN hw : \A k, n \in Bars :
        /\ <<f, k>> # <<g, n>> /\ Mapped(f, k) /\ Mapped(g, n)
        /\ IsIo(hw[f].bar[k]) = IsIo(hw[g].bar[n])
        => ~ Overlap(Decoded(f, k), Decoded(g, n))

BarsDisjoint == SizesFit => BarsApart

(***************************************************************************)
(* Every BAR lies in the window of its space: what does not fit is refused *)
(* ("Cannot fit BAR"), never placed outside.                               *)
(***************************************************************************)
InWindow ==
    \A f \in DOMAIN hw : \A k \in Bars :
        Mapped(f, k) =>
            LET b == hw[f].bar[k]
                lo == IF IsIo(b) THEN IoStart ELSE membase
            IN  lo <= bar[f][k] /\ bar[f][k] + b.size <= topFor(b)

BarsInWindow == SizesFit => InWindow

(***************************************************************************)
(* What makes the two inductive: whatever is mapped ends at or below what  *)
(* its allocator has left, and the allocators stay in their windows.       *)
(***************************************************************************)
BelowAvail ==
    /\ IoStart <= ioavail /\ ioavail <= iolen
    /\ membase <= memavail /\ memavail <= memtop
    /\ \A f \in DOMAIN hw : \A k \in Bars :
        Mapped(f, k) => bar[f][k] + hw[f].bar[k].size <= availFor(hw[f].bar[k])

PciInv == SizesFit => BelowAvail /\ InWindow /\ BarsApart

(***************************************************************************)
(* A BAR is at a multiple of its size, as its hard-wired low bits need.    *)
(***************************************************************************)
BarsAligned ==
    \A f \in DOMAIN hw : \A k \in Bars :
        Mapped(f, k) => bar[f][k] % hw[f].bar[k].size = 0

(***************************************************************************)
(* The scan misses nothing: in the end every BAR of every function that is *)
(* reachable by its slot's multi-function bit and is not one of the south  *)
(* bridge's was given an address or refused, whatever was before it.       *)
(***************************************************************************)
UpperHalf(f, k) == k > 0 /\ hw[f].bar[k - 1].kind = "mem64"

Reachable(f) == f[2] = 0 \/ Multi(f[1])

EveryBarVisited ==
    pc = "done" =>
        \A f \in DOMAIN hw : \A k \in Bars :
            Reachable(f) /\ ~ NoBars(f) /\ ~ UpperHalf(f, k)
                => (bar[f][k] # 0 <=> hw[f].bar[k].kind # "none")

(***************************************************************************)
(* A function decodes exactly the spaces it was given addresses in, as far *)
(* as all of its BARs did fit: setup_pci_device collects the bits over the *)
(* BARs and writes them with each one.                                     *)
(***************************************************************************)
DecodesWhatIsMapped ==
    pc = "done" =>
        \A f \in DOMAIN hw :
            LET mapped == {k \in Bars : Mapped(f, k)}
                spaces == {IF IsIo(hw[f].bar[k]) THEN "IO" ELSE "MEM" : k \in mapped}
            IN  Reachable(f) /\ ~ NoBars(f) =>
                    /\ mapped = {} <=> command[f] = {}
                    /\ mapped # {} => spaces \cup {"BM"} \subseteq command[f]
                    /\ (\A k \in Bars : bar[f][k] # AllOnes)
                            => command[f] \subseteq spaces \cup {"BM"}

(***************************************************************************)
(* A BAR is refused only when it has no place left: the last multiple of   *)
(* its size that leaves room for it lies below what is still free.         *)
(***************************************************************************)
RefusedOnlyWhenFull ==
    [][\A f \in DOMAIN hw : \A k \in Bars :
          LET b == hw[f].bar[k]
          IN  bar'[f][k] = AllOnes /\ bar[f][k] # AllOnes =>
                b.size = 0 \/ ((topFor(b) \div b.size) - 1) * b.size < availFor(b)
      ]_vars

(* The scan of the bus ends. *)
ScanEnds == <>(pc = "done")
=============================================================================
