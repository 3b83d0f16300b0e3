--------------------------- MODULE PciSetupProofs ---------------------------
(***************************************************************************)
(* Proofs about PciSetup, for every board, window and population of the    *)
(* bus: BARs are aligned and none is left out; where no BAR is so large    *)
(* that the 32-bit sums could wrap around (SizesFit), they lie in their    *)
(* windows and apart from each other, are refused only for want of space,  *)
(* and each function decodes what it was given.                            *)
(***************************************************************************)
EXTENDS PciSetup, MemoryProofs, TLAPS

(* A BAR has a size, and its space an allocator and an end. *)
LEMMA BarType ==
  ASSUME TypeOK, NEW f \in DOMAIN hw, NEW k \in Bars
  PROVE  /\ hw[f].bar[k].size \in Nat
         /\ hw[f].bar[k].kind \in {"none", "io", "mem", "mem64"}
         /\ availFor(hw[f].bar[k]) \in Nat /\ topFor(hw[f].bar[k]) \in Nat
<1>1. hw[f].bar[k] \in [kind : {"none", "io", "mem", "mem64"}, size : Nat]
  BY DEF TypeOK, DeviceType
<1>2. ioavail \in Nat /\ memavail \in Nat /\ iolen \in Nat /\ memtop \in Nat
  BY PciAssumption DEF TypeOK, memtop
<1> QED
  BY <1>1, <1>2 DEF availFor, topFor

(* setup_pci_params() leaves every variable of its type. *)
LEMMA TypeInit == Init => TypeOK
<1> SUFFICES ASSUME Init PROVE TypeOK
  OBVIOUS
<1>1. DOMAIN hw \subseteq Function /\ \A f \in DOMAIN hw : hw[f] \in DeviceType
  BY PciAssumption DEF Init
<1>2. at \in Function
  BY PciAssumption DEF Init, Function
<1>3. /\ pc \in {"func", "bar", "done"} /\ (pc = "bar" => at \in DOMAIN hw)
      /\ i \in Nat /\ cmd \subseteq {"IO", "MEM"}
      /\ command \in [DOMAIN hw -> SUBSET {"IO", "MEM", "BM"}]
  BY DEF Init
<1>4. line \in [DOMAIN hw -> Nat] /\ bar \in [DOMAIN hw -> [Bars -> Nat]]
  BY DEF Init
<1>5. ioavail \in Nat /\ memavail \in Nat
  BY PciAssumption DEF Init
<1> QED
  BY <1>1, <1>2, <1>3, <1>4, <1>5 DEF TypeOK

(* The loops over slots and functions stay on the bus. *)
LEMMA AdvanceType ==
  ASSUME TypeOK, Advance
  PROVE  pc' \in {"func", "done"} /\ at' \in Function
BY PciAssumption DEF TypeOK, Advance, Function

(* The interrupt line that is written is a number. *)
LEMMA IrqType ==
  ASSUME TypeOK, NEW f \in DOMAIN hw
  PROVE  irq_for(f) \in Nat
<1>1. hw[f].pin \in Nat /\ f \in Function
  BY DEF TypeOK, DeviceType
<1>2. (f[1] + hw[f].pin - 1) % 4 \in 0 .. 3
  BY <1>1, PciAssumption DEF Function
<1>3. \A n \in 0 .. 3 : pci_irq_map(n) \in Nat
  BY DEF pci_irq_map
<1>4. hw[f].pin \in 1 .. 4 => hw[f].pin - 1 \in 0 .. 3
  BY <1>1
<1> QED
  BY <1>1, <1>2, <1>3, <1>4 DEF irq_for

(* Every step of the setup keeps the types. *)
LEMMA TypeStep == TypeOK /\ [Next]_vars => TypeOK'
<1> SUFFICES ASSUME TypeOK, [Next]_vars PROVE TypeOK'
  OBVIOUS
<1> USE DEF TypeOK
<1>1. CASE Absent
  BY <1>1, AdvanceType DEF Absent
<1>2. CASE SouthBridge
  <2>1. command' \in [DOMAIN hw -> SUBSET {"IO", "MEM", "BM"}]
    BY <1>2 DEF SouthBridge
  <2>2. line' \in [DOMAIN hw -> Nat]
    BY <1>2 DEF SouthBridge
  <2> QED
    BY <1>2, <2>1, <2>2, AdvanceType DEF SouthBridge
<1>3. CASE EnterFunction
  <2>1. command' \in [DOMAIN hw -> SUBSET {"IO", "MEM", "BM"}]
    BY <1>3 DEF EnterFunction
  <2>2. line' \in [DOMAIN hw -> Nat]
    BY <1>3, IrqType DEF EnterFunction
  <2> QED
    BY <1>3, <2>1, <2>2 DEF EnterFunction
<1>4. CASE NoBar
  BY <1>4 DEF NoBar
<1>5. CASE MapBar
  <2> DEFINE b == ThisBar
             base == addr_for_bar(b)
  <2>1. at \in DOMAIN hw /\ i \in Bars /\ b.size \in Nat /\ availFor(b) \in Nat
    BY <1>5, BarType DEF MapBar, ThisBar
  <2>2. base \in Nat
    BY <1>5, <2>1, RoundUpType DEF addr_for_bar, NULL
  <2>3. bar' \in [DOMAIN hw -> [Bars -> Nat]]
    BY <1>5, <2>1, <2>2 DEF MapBar
  <2>4. ioavail' \in Nat /\ memavail' \in Nat
    <3>1. Add(base, b.size) \in Nat
      <4> HIDE DEF base, b
      <4> QED
        BY <2>1, <2>2, WordAssumption DEF Add
    <3> QED
      BY <1>5, <3>1 DEF MapBar, Behind
  <2>5. cmd' \subseteq {"IO", "MEM"}
    BY <1>5 DEF MapBar, Collected
  <2>6. command' \in [DOMAIN hw -> SUBSET {"IO", "MEM", "BM"}]
    BY <1>5, <2>5 DEF MapBar
  <2>7. i' \in Nat
    BY <1>5 DEF MapBar, NextBar
  <2>8. UNCHANGED <<hw, pc, at, line>>
    BY <1>5 DEF MapBar
  <2> QED
    BY <2>3, <2>4, <2>5, <2>6, <2>7, <2>8
<1>6. CASE CannotFit
  <2>1. bar' \in [DOMAIN hw -> [Bars -> Nat]]
    BY <1>6, WordAssumption DEF CannotFit, AllOnes
  <2>2. cmd' \subseteq {"IO", "MEM"} /\ i' \in Nat
    BY <1>6 DEF CannotFit, Collected, NextBar
  <2> QED
    BY <1>6, <2>1, <2>2 DEF CannotFit
<1>7. CASE FunctionDone
  BY <1>7, AdvanceType DEF FunctionDone
<1>8. CASE UNCHANGED vars
  BY <1>8 DEF vars
<1> QED
  BY <1>1, <1>2, <1>3, <1>4, <1>5, <1>6, <1>7, <1>8 DEF Next, Done

(***************************************************************************)
(* Every register and counter of the PCI setup keeps its type, for every   *)
(* board and every population of the bus (setup_pci_device).               *)
(***************************************************************************)
THEOREM TypeCorrect == Spec => []TypeOK
BY TypeInit, TypeStep, PTL DEF Spec
-----------------------------------------------------------------------------
(* No BAR is mapped at first and the allocators stand at their windows. *)
LEMMA PciInit == Init => PciInv
BY PciAssumption DEF Init, PciInv, BelowAvail, InWindow, BarsApart, Mapped, memtop

(* Steps that leave the BARs and the allocators alone. *)
LEMMA PciUnchanged ==
  ASSUME PciInv, UNCHANGED <<hw, bar, ioavail, memavail>>
  PROVE  PciInv'
BY DEF PciInv, SizesFit, BelowAvail, InWindow, BarsApart, Mapped, Decoded,
       availFor, topFor, IsIo

(* Every step keeps the invariant; addr_for_bar() only moves up. *)
LEMMA PciStep == TypeOK /\ TypeOK' /\ PciInv /\ [Next]_vars => PciInv'
<1> SUFFICES ASSUME TypeOK, TypeOK', PciInv, [Next]_vars PROVE PciInv'
  OBVIOUS
<1>1. CASE Absent \/ SouthBridge \/ EnterFunction \/ NoBar \/ FunctionDone
           \/ UNCHANGED vars
  BY <1>1, PciUnchanged
     DEF Absent, SouthBridge, EnterFunction, NoBar, FunctionDone, vars
<1>2. CASE CannotFit
  <2>1. ASSUME NEW f \in DOMAIN hw, NEW k \in Bars, Mapped(f, k)'
        PROVE  Mapped(f, k) /\ bar'[f][k] = bar[f][k]
    BY <1>2, <2>1 DEF CannotFit, Mapped, TypeOK
  <2>2. UNCHANGED <<hw, ioavail, memavail>>
    BY <1>2 DEF CannotFit
  <2>3. SizesFit' => SizesFit
    BY <2>2 DEF SizesFit, topFor, IsIo
  <2>4. ASSUME BelowAvail PROVE BelowAvail'
    BY <2>1, <2>2, <2>4 DEF BelowAvail, availFor, IsIo
  <2>5. ASSUME InWindow PROVE InWindow'
    BY <2>1, <2>2, <2>5 DEF InWindow, topFor, IsIo
  <2>6. ASSUME BarsApart PROVE BarsApart'
    BY <2>1, <2>2, <2>6 DEF BarsApart, Decoded, IsIo
  <2> QED
    BY <2>3, <2>4, <2>5, <2>6 DEF PciInv
<1>3. CASE MapBar
  <2> DEFINE b == ThisBar
             size == b.size
             base == addr_for_bar(b)
             avail == availFor(b)
             top == topFor(b)
  <2>1. /\ at \in DOMAIN hw /\ i \in Bars /\ b = hw[at].bar[i]
        /\ size \in Nat /\ avail \in Nat /\ top \in Nat
    BY <1>3, BarType DEF MapBar, ThisBar, TypeOK
  <2>2. /\ bar' = [bar EXCEPT ![at][i] = base] /\ base # NULL
        /\ UNCHANGED hw
        /\ IsIo(b) => ioavail' = Add(base, size) /\ memavail' = memavail
        /\ ~ IsIo(b) => memavail' = Add(base, size) /\ ioavail' = ioavail
    BY <1>3 DEF MapBar, Behind
  <2>3. ASSUME NEW f \in DOMAIN hw, NEW k \in Bars
        PROVE  bar'[f][k] = IF f = at /\ k = i THEN base ELSE bar[f][k]
    BY <2>1, <2>2 DEF TypeOK
  <2>4. SUFFICES ASSUME SizesFit PROVE BelowAvail' /\ InWindow' /\ BarsApart'
    <3>1. SizesFit' => SizesFit
      BY <2>2 DEF SizesFit, topFor, IsIo
    <3> QED
      BY <3>1 DEF PciInv
  <2>5. BelowAvail /\ InWindow /\ BarsApart
    BY <2>4 DEF PciInv
  <2>6. avail <= top /\ top + 2 * size < Word
    BY <2>1, <2>4, <2>5 DEF BelowAvail, availFor, topFor, SizesFit
  <2>7. size > 0 /\ base = ROUND_UP(avail, size)
    BY <2>1, <2>2 DEF addr_for_bar
  <2>8. base \in Nat /\ avail <= base /\ base < avail + size
    <3>1. avail + size < Word
      BY <2>1, <2>6, <2>7, WordAssumption
    <3> HIDE DEF base, avail, size
    <3> QED
      BY <2>1, <2>7, <3>1, RoundUp
  <2>9. Add(base, size) = base + size /\ base + size <= top
    <3>1. base + size < Word
      BY <2>1, <2>6, <2>7, <2>8, WordAssumption
    <3>2. Add(base, size) = base + size
      <4> HIDE DEF base, size
      <4> QED
        BY <2>1, <2>8, <3>1, AddSmall
    <3>3. Add(base, size) <= top
      <4>1. ~ (Add(ROUND_UP(avail, size), size) > top)
        BY <2>2, <2>7 DEF addr_for_bar, NULL
      <4> HIDE DEF base, avail, size, top
      <4> QED
        BY <2>1, <2>7, <2>8, <3>2, <4>1
    <3> QED
      BY <3>2, <3>3
  <2>10. /\ IsIo(b) => /\ avail = ioavail /\ top = iolen
                       /\ ioavail' = base + size /\ memavail' = memavail
         /\ ~ IsIo(b) => /\ avail = memavail /\ top = memtop
                         /\ memavail' = base + size /\ ioavail' = ioavail
    BY <2>2, <2>9 DEF availFor, topFor
  <2>11. \A x : IsIo(x)' <=> IsIo(x)
    BY DEF IsIo
  <2>12. ASSUME NEW f \in DOMAIN hw, NEW k \in Bars, ~ (f = at /\ k = i),
                Mapped(f, k)'
         PROVE  /\ Mapped(f, k) /\ bar'[f][k] = bar[f][k]
                /\ bar[f][k] \in Nat /\ hw[f].bar[k].size \in Nat
                /\ bar[f][k] + hw[f].bar[k].size <= availFor(hw[f].bar[k])
    BY <2>3, <2>5, <2>12, BarType DEF Mapped, BelowAvail, TypeOK
  <2> HIDE DEF b, size, base, avail, top
  <2>13. BelowAvail'
    <3>1. /\ IoStart <= ioavail' /\ ioavail' <= iolen
          /\ membase <= memavail' /\ memavail' <= memtop
      BY <2>1, <2>5, <2>8, <2>9, <2>10, PciAssumption DEF BelowAvail, TypeOK, memtop
    <3>2. ASSUME NEW f \in DOMAIN hw, NEW k \in Bars, Mapped(f, k)'
          PROVE  bar'[f][k] + hw[f].bar[k].size <= availFor(hw[f].bar[k])'
      <4>1. CASE f = at /\ k = i
        BY <2>1, <2>2, <2>3, <2>8, <2>10, <4>1 DEF availFor, IsIo, size
      <4>2. CASE ~ (f = at /\ k = i)
        BY <2>1, <2>2, <2>8, <2>10, <2>12, <3>2, <4>2 DEF availFor, IsIo, TypeOK
      <4> QED
        BY <4>1, <4>2
    <3> QED
      BY <2>2, <3>1, <3>2 DEF BelowAvail
  <2>14. InWindow'
    <3>1. ASSUME NEW f \in DOMAIN hw, NEW k \in Bars, Mapped(f, k)'
          PROVE  LET x == hw[f].bar[k]
                     lo == IF IsIo(x) THEN IoStart ELSE membase
                 IN  lo <= bar'[f][k] /\ bar'[f][k] + x.size <= topFor(x)
      <4>1. CASE f = at /\ k = i
        <5>1. (IF IsIo(b) THEN IoStart ELSE membase) <= avail
          BY <2>5, <2>10 DEF BelowAvail
        <5> QED
          BY <2>1, <2>3, <2>8, <2>9, <4>1, <5>1, PciAssumption DEF size, top
      <4>2. CASE ~ (f = at /\ k = i)
        BY <2>5, <2>12, <3>1, <4>2 DEF InWindow
      <4> QED
        BY <4>1, <4>2
    <3> QED
      BY <2>2, <3>1 DEF InWindow, topFor, IsIo
  <2>15. BarsApart'
    <3>1. ASSUME NEW f \in DOMAIN hw, NEW k \in Bars, ~ (f = at /\ k = i),
                 Mapped(f, k)', IsIo(hw[f].bar[k]) = IsIo(b)
          PROVE  /\ bar'[f][k] + hw[f].bar[k].size <= base
                 /\ bar'[f][k] \in Nat /\ hw[f].bar[k].size \in Nat
      BY <2>1, <2>8, <2>12, <3>1 DEF availFor, avail
    <3>2. ASSUME NEW f \in DOMAIN hw, NEW g \in DOMAIN hw,
                 NEW k \in Bars, NEW n \in Bars,
                 <<f, k>> # <<g, n>>, Mapped(f, k)', Mapped(g, n)',
                 IsIo(hw[f].bar[k]) = IsIo(hw[g].bar[n])
          PROVE  ~ Overlap(Region(bar'[f][k], hw[f].bar[k].size),
                           Region(bar'[g][n], hw[g].bar[n].size))
      <4>1. CASE f = at /\ k = i
        <5>1. bar'[g][n] + hw[g].bar[n].size <= base /\ bar'[f][k] = base
          BY <2>1, <2>3, <3>1, <3>2, <4>1
        <5> QED
          BY <2>1, <2>8, <3>1, <3>2, <4>1, <5>1 DEF Overlap, Region, End
      <4>2. CASE g = at /\ n = i
        <5>1. bar'[f][k] + hw[f].bar[k].size <= base /\ bar'[g][n] = base
          BY <2>1, <2>3, <3>1, <3>2, <4>2
        <5> QED
          BY <2>1, <2>8, <3>1, <3>2, <4>2, <5>1 DEF Overlap, Region, End
      <4>3. CASE ~ (f = at /\ k = i) /\ ~ (g = at /\ n = i)
        <5>1. /\ Mapped(f, k) /\ bar'[f][k] = bar[f][k]
              /\ Mapped(g, n) /\ bar'[g][n] = bar[g][n]
          BY <2>12, <3>2, <4>3
        <5> QED
          BY <2>5, <3>2, <5>1 DEF BarsApart, Decoded
      <4> QED
        BY <4>1, <4>2, <4>3
    <3> QED
      BY <2>2, <3>2 DEF BarsApart, Decoded, IsIo
  <2> QED
    BY <2>13, <2>14, <2>15
<1> QED
  BY <1>1, <1>2, <1>3 DEF Next, Done

(* The inductive invariant: mapped BARs lie below what is still free. *)
LEMMA PciCorrect == Spec => []PciInv
BY TypeCorrect, PciInit, PciStep, PTL DEF Spec

(***************************************************************************)
(* addr_for_bar() never gives an address to two BARs, whatever cards are   *)
(* in the machine, as long as no sum can wrap around.                      *)
(***************************************************************************)
THEOREM Disjointness == Spec => []BarsDisjoint
<1>1. PciInv => BarsDisjoint
  BY DEF PciInv, BarsDisjoint
<1> QED
  BY <1>1, PciCorrect, PTL

(***************************************************************************)
(* Under the same condition every BAR lies in the window that the bridge   *)
(* forwards; what does not fit is refused by addr_for_bar().               *)
(***************************************************************************)
THEOREM Windows == Spec => []BarsInWindow
<1>1. PciInv => BarsInWindow
  BY DEF PciInv, BarsInWindow
<1> QED
  BY <1>1, PciCorrect, PTL
-----------------------------------------------------------------------------
(* No BAR is mapped at first; the one a step maps is at a multiple. *)
LEMMA AlignedInit == Init => BarsAligned
BY DEF Init, BarsAligned, Mapped

LEMMA AlignedStep == TypeOK /\ BarsAligned /\ [Next]_vars => BarsAligned'
<1> SUFFICES ASSUME TypeOK, BarsAligned, [Next]_vars PROVE BarsAligned'
  OBVIOUS
<1>1. CASE UNCHANGED <<hw, bar>>
  BY <1>1 DEF BarsAligned, Mapped
<1>2. CASE CannotFit
  <2>1. ASSUME NEW f \in DOMAIN hw, NEW k \in Bars, Mapped(f, k)'
        PROVE  Mapped(f, k) /\ bar'[f][k] = bar[f][k]
    BY <1>2, <2>1 DEF CannotFit, Mapped, TypeOK
  <2> QED
    BY <1>2, <2>1 DEF CannotFit, BarsAligned
<1>3. CASE MapBar
  <2> DEFINE size == ThisBar.size
             avail == availFor(ThisBar)
             base == addr_for_bar(ThisBar)
  <2>1. /\ at \in DOMAIN hw /\ i \in Bars /\ ThisBar = hw[at].bar[i]
        /\ size \in Nat /\ avail \in Nat
    BY <1>3, BarType DEF MapBar, ThisBar, TypeOK
  <2>2. bar' = [bar EXCEPT ![at][i] = base] /\ base # NULL /\ UNCHANGED hw
    BY <1>3 DEF MapBar
  <2>3. size > 0 /\ base = ROUND_UP(avail, size)
    BY <2>1, <2>2 DEF addr_for_bar
  <2>4. base % size = 0
    <3> HIDE DEF base, avail, size
    <3> QED
      BY <2>1, <2>3, RoundUpAligned
  <2>5. ASSUME NEW f \in DOMAIN hw, NEW k \in Bars, Mapped(f, k)'
        PROVE  bar'[f][k] % hw[f].bar[k].size = 0
    <3>1. CASE f = at /\ k = i
      BY <2>1, <2>2, <2>4, <3>1 DEF TypeOK
    <3>2. CASE ~ (f = at /\ k = i)
      <4>1. bar'[f][k] = bar[f][k]
        BY <2>1, <2>2, <3>2 DEF TypeOK
      <4> QED
        BY <2>5, <4>1 DEF Mapped, BarsAligned
    <3> QED
      BY <3>1, <3>2
  <2> QED
    BY <2>2, <2>5 DEF BarsAligned
<1> QED
  BY <1>1, <1>2, <1>3 DEF Next, Absent, SouthBridge, EnterFunction, NoBar, FunctionDone, Done, vars

(***************************************************************************)
(* Every BAR is at a multiple of its size, whatever the sizes are and also *)
(* where the sums of addr_for_bar() wrap around.                           *)
(***************************************************************************)
THEOREM Alignment == Spec => []BarsAligned
BY TypeCorrect, AlignedInit, AlignedStep, PTL DEF Spec
-----------------------------------------------------------------------------
(***************************************************************************)
(* A BAR with a place left: some multiple of its size from avail on ends   *)
(* at or below top.  addr_for_bar() finds it, and no sum wraps around.     *)
(***************************************************************************)
LEMMA RoomIsUsed ==
  ASSUME NEW avail \in Nat, NEW size \in Nat, size > 0, NEW top \in Nat, top < Word,
         avail <= ((top \div size) - 1) * size
  PROVE  /\ avail <= ROUND_UP(avail, size) /\ ROUND_UP(avail, size) < AllOnes
         /\ Add(ROUND_UP(avail, size), size) <= top
<1> DEFINE q == top \div size
           j == q - 1
           base == ROUND_UP(avail, size)
<1>1. q \in Nat /\ size * q <= top
  BY DivMod
<1> HIDE DEF q
<1>2. j * size = size * j /\ size * j + size = size * q
  BY <1>1
<1>3. avail <= size * j /\ size * j + size <= Word
  BY <1>1, <1>2, WordAssumption DEF q
<1>4. base \in Nat /\ base <= size * j /\ avail <= base
  <2>1. j \in Int
    BY <1>1
  <2>2. avail + size < Word
    BY <1>1, <1>2, <1>3, <2>1, WordAssumption
  <2> HIDE DEF j
  <2> QED
    BY <1>3, <2>1, <2>2, RoundUpLeast, RoundUp
<1> HIDE DEF base, j
<1>5. base + size <= top
  BY <1>1, <1>2, <1>4 DEF j
<1>6. Add(base, size) = base + size
  BY <1>4, <1>5, AddSmall, WordAssumption
<1> QED
  BY <1>4, <1>5, <1>6, WordAssumption DEF AllOnes, base

(* The devices on the bus stay what they are. *)
LEMMA SizesStay == SizesFit /\ [Next]_vars => SizesFit'
BY DEF SizesFit, topFor, IsIo, Next, Absent, SouthBridge, EnterFunction, NoBar, MapBar,
       CannotFit, FunctionDone, Done, vars

(***************************************************************************)
(* setup_pci_device() leaves a BAR at all ones only when no place is left  *)
(* for it.  (A sum that wraps around to 0 would leave the allocator at 0,  *)
(* which is no address, and every later BAR of that space refused.)        *)
(***************************************************************************)
THEOREM Refusals == Spec /\ SizesFit => RefusedOnlyWhenFull
<1> DEFINE A == \A f \in DOMAIN hw : \A k \in Bars :
                   LET b == hw[f].bar[k]
                   IN  bar'[f][k] = AllOnes /\ bar[f][k] # AllOnes =>
                         b.size = 0 \/ ((topFor(b) \div b.size) - 1) * b.size < availFor(b)
<1>1. ASSUME TypeOK, PciInv, SizesFit, [Next]_vars PROVE [A]_vars
  <2> SUFFICES ASSUME NEW f \in DOMAIN hw, NEW k \in Bars,
                      bar'[f][k] = AllOnes, bar[f][k] # AllOnes, hw[f].bar[k].size # 0
               PROVE  LET b == hw[f].bar[k]
                      IN  ((topFor(b) \div b.size) - 1) * b.size < availFor(b)
    OBVIOUS
  <2> DEFINE b == hw[f].bar[k]
             top == topFor(b)
             avail == availFor(b)
             base == ROUND_UP(avail, b.size)
  <2>1. /\ b.size \in Nat /\ b.size > 0 /\ avail \in Nat /\ avail > 0
        /\ top \in Nat /\ top < Word
    <3>1. b.size \in Nat /\ avail \in Nat /\ top \in Nat
      BY <1>1, BarType
    <3>2. top < Word /\ avail > 0
      BY <1>1, PciAssumption DEF topFor, availFor, PciInv, BelowAvail, TypeOK
    <3> QED
      BY <3>1, <3>2
  <2>2. MapBar \/ CannotFit
    BY <1>1 DEF Next, Absent, SouthBridge, EnterFunction, NoBar, FunctionDone, Done, vars
  <2>3. /\ at \in DOMAIN hw /\ i \in Bars /\ f = at /\ k = i /\ b = ThisBar
    BY <1>1, <2>2 DEF MapBar, CannotFit, TypeOK, ThisBar
  <2>4. base = NULL \/ base = AllOnes \/ Add(base, b.size) > top
    <3>1. CASE CannotFit
      <4>1. addr_for_bar(b) = NULL
        BY <2>3, <3>1 DEF CannotFit
      <4> QED
        BY <2>1, <4>1 DEF addr_for_bar
    <3>2. CASE MapBar
      <4>1. bar' = [bar EXCEPT ![at][i] = addr_for_bar(b)] /\ addr_for_bar(b) # NULL
        BY <2>3, <3>2 DEF MapBar
      <4>2. addr_for_bar(b) = AllOnes
        BY <1>1, <2>3, <4>1 DEF TypeOK
      <4> QED
        BY <2>1, <4>1, <4>2 DEF addr_for_bar
    <3> QED
      BY <2>2, <3>1, <3>2
  <2> HIDE DEF b, top, avail, base
  <2>5. ((top \div b.size) - 1) * b.size \in Int
    <3>1. top \div b.size \in Nat
      BY <2>1, DivMod
    <3> QED
      BY <2>1, <3>1
  <2>6. ~ (avail <= ((top \div b.size) - 1) * b.size)
    <3>1. base \in Nat
      BY <2>1, RoundUpType DEF base
    <3> Add(base, b.size) \in Nat
      BY <2>1, <3>1, WordAssumption DEF Add
    <3>2. SUFFICES ASSUME avail <= ((top \div b.size) - 1) * b.size PROVE FALSE
      OBVIOUS
    <3>3. avail <= base /\ base < AllOnes /\ Add(base, b.size) <= top
      BY <2>1, <3>2, RoomIsUsed DEF base
    <3> QED
      BY <2>1, <2>4, <3>1, <3>3, WordAssumption DEF AllOnes, NULL
  <2> QED
    BY <2>1, <2>5, <2>6 DEF b, top, avail
<1> QED
  BY <1>1, SizesStay, TypeCorrect, PciCorrect, PTL DEF Spec, RefusedOnlyWhenFull
-----------------------------------------------------------------------------
(***************************************************************************)
(* The scan of the bus: the functions that are behind it, in the order of  *)
(* slots and functions, and the one whose BARs it is at.                   *)
(***************************************************************************)
Passed(f) == pc = "done" \/ f[1] < at[1] \/ (f[1] = at[1] /\ f[2] < at[2])

Current(f) == pc = "bar" /\ f = at

Seen(f, k) == Passed(f) \/ (Current(f) /\ k < i)

(* BARs the scan has not come to are as they were, ... *)
Untouched == \A f \in DOMAIN hw : \A k \in Bars : ~ Seen(f, k) => bar[f][k] = 0

(* ... only BARs that exist are written, ... *)
OnlyReal == \A f \in DOMAIN hw : \A k \in Bars :
               bar[f][k] # 0 => hw[f].bar[k].kind # "none"

(* ... and none is left out on the way. *)
NoneLeftOut ==
    \A f \in DOMAIN hw : \A k \in Bars :
        /\ Seen(f, k) /\ Reachable(f) /\ ~ NoBars(f) /\ ~ UpperHalf(f, k)
        /\ hw[f].bar[k].kind # "none"
        => bar[f][k] # 0

ScanInv == Untouched /\ OnlyReal /\ NoneLeftOut

(* The spaces a function has BARs in. *)
MappedBars(f) == {k \in Bars : Mapped(f, k)}
Spaces(f) == {IF IsIo(hw[f].bar[k]) THEN "IO" ELSE "MEM" : k \in MappedBars(f)}
AllFit(f) == \A k \in Bars : bar[f][k] # AllOnes

(* What a function decodes, as DecodesWhatIsMapped states it in the end. *)
DecodesRight(f) ==
    /\ MappedBars(f) = {} <=> command[f] = {}
    /\ MappedBars(f) # {} => Spaces(f) \cup {"BM"} \subseteq command[f]
    /\ AllFit(f) => command[f] \subseteq Spaces(f) \cup {"BM"}

(* The bits that setup_pci_device() has collected for the next write. *)
Collecting == pc = "bar" => /\ Spaces(at) \subseteq cmd
                            /\ AllFit(at) => cmd \subseteq Spaces(at)

DecodeInv ==
    /\ Collecting
    /\ \A f \in DOMAIN hw : /\ Passed(f) \/ Current(f)
                            /\ Reachable(f) /\ ~ NoBars(f)
                            => DecodesRight(f)

(* The loops go on to the next function that can be reached. *)
LEMMA AdvanceScan ==
  ASSUME TypeOK, pc # "done", Advance, UNCHANGED hw, NEW f \in DOMAIN hw
  PROVE  /\ Passed(f) \/ f = at => Passed(f)'
         /\ Passed(f)' /\ Reachable(f) => Passed(f) \/ f = at
         /\ ~ Current(f)'
<1>1. /\ f \in Function /\ at \in Function /\ Slots \in Nat
      /\ f[1] \in 0 .. Slots - 1 /\ at[1] \in 0 .. Slots - 1
      /\ f[2] \in 0 .. 7 /\ at[2] \in 0 .. 7
  BY PciAssumption DEF TypeOK, Function
<1>2. f = at <=> f[1] = at[1] /\ f[2] = at[2]
  BY <1>1 DEF Function
<1>3. CASE at[2] < 7 /\ Multi(at[1])
  BY <1>1, <1>2, <1>3 DEF Advance, Passed, Current
<1>4. CASE ~ (at[2] < 7 /\ Multi(at[1])) /\ at[1] + 1 < Slots
  <2>1. pc' = "func" /\ at' = <<at[1] + 1, 0>>
    BY <1>4 DEF Advance
  <2>2. f[1] = at[1] /\ f[2] > at[2] => ~ Reachable(f)
    BY <1>1, <1>4 DEF Reachable
  <2> QED
    BY <1>1, <1>2, <2>1, <2>2 DEF Passed, Current
<1>5. CASE ~ (at[2] < 7 /\ Multi(at[1])) /\ ~ (at[1] + 1 < Slots)
  <2>1. pc' = "done" /\ at' = at
    BY <1>5 DEF Advance
  <2>2. f[1] = at[1] /\ f[2] > at[2] => ~ Reachable(f)
    BY <1>1, <1>5 DEF Reachable
  <2>3. f[1] <= at[1]
    BY <1>1, <1>5
  <2> QED
    BY <1>1, <1>2, <2>1, <2>2, <2>3 DEF Passed, Current
<1> QED
  BY <1>3, <1>4, <1>5

(* A function is not behind the scan while the scan is at it. *)
LEMMA NotPassed ==
  ASSUME TypeOK, pc # "done"
  PROVE  ~ Passed(at)
BY PciAssumption DEF TypeOK, Function, Passed

(* The steps from one function to the next: all of its BARs are behind. *)
LEMMA ScanAdvance ==
  ASSUME TypeOK, ScanInv, pc # "done", Advance, UNCHANGED <<hw, bar>>,
         at \in DOMAIN hw /\ ~ NoBars(at) => pc = "bar" /\ i \notin Bars
  PROVE  ScanInv'
<1>1. ASSUME NEW f \in DOMAIN hw, NEW k \in Bars, ~ Seen(f, k)'
      PROVE  bar'[f][k] = 0
  <2>1. ~ Seen(f, k)
    BY <1>1, AdvanceScan DEF Seen, Current
  <2> QED
    BY <2>1 DEF ScanInv, Untouched
<1>2. ASSUME NEW f \in DOMAIN hw, NEW k \in Bars, Seen(f, k)', Reachable(f)',
             ~ NoBars(f), ~ UpperHalf(f, k)', hw[f].bar[k].kind # "none"
      PROVE  bar'[f][k] # 0
  <2>1. Reachable(f) /\ ~ UpperHalf(f, k)
    BY <1>2 DEF Reachable, Multi, UpperHalf
  <2>2. Passed(f) \/ f = at
    BY <1>2, <2>1, AdvanceScan DEF Seen
  <2>3. Seen(f, k)
    BY <1>2, <2>2 DEF Seen, Current, TypeOK, Bars
  <2> QED
    BY <1>2, <2>1, <2>3 DEF ScanInv, NoneLeftOut
<1> QED
  BY <1>1, <1>2 DEF ScanInv, Untouched, OnlyReal, NoneLeftOut, NoBars

LEMMA ScanInit == Init => ScanInv
<1> SUFFICES ASSUME Init PROVE ScanInv
  OBVIOUS
<1>1. ASSUME NEW f \in DOMAIN hw, NEW k \in Bars PROVE bar[f][k] = 0 /\ ~ Seen(f, k)
  <2>1. f \in Function
    BY PciAssumption DEF Init
  <2> QED
    BY <2>1, PciAssumption DEF Init, Seen, Passed, Current, Function
<1> QED
  BY <1>1 DEF ScanInv, Untouched, OnlyReal, NoneLeftOut

(* A trip through the loop over the BARs: it writes the BAR if there is    *)
(* one and goes on, over the upper half of a 64-bit one.                   *)
LEMMA ScanBar ==
  ASSUME TypeOK, ScanInv, UNCHANGED <<hw, at, pc>>, pc = "bar", i \in Bars,
         at \in DOMAIN hw,
         \A f \in DOMAIN hw : \A k \in Bars : ~ (f = at /\ k = i) => bar'[f][k] = bar[f][k],
         ThisBar.kind = "none" => bar'[at][i] = bar[at][i],
         ThisBar.kind # "none" => bar'[at][i] # 0,
         i' = i + 1 \/ (i' = i + 2 /\ ThisBar.kind = "mem64")
  PROVE  ScanInv'
<1>1. ASSUME NEW f \in DOMAIN hw
      PROVE  /\ Passed(f)' <=> Passed(f)
             /\ Current(f)' <=> Current(f)
             /\ Reachable(f)' <=> Reachable(f)
  BY DEF Passed, Current, Reachable, Multi
<1>2. i \in 0 .. 5 /\ i' > i /\ i' \in Nat
  BY DEF Bars
<1>3. ASSUME NEW f \in DOMAIN hw, NEW k \in Bars, ~ Seen(f, k)'
      PROVE  bar'[f][k] = 0
  <2>1. ~ Seen(f, k) /\ ~ (f = at /\ k = i)
    BY <1>1, <1>2, <1>3 DEF Seen, Current, Bars
  <2> QED
    BY <2>1 DEF ScanInv, Untouched
<1>4. ASSUME NEW f \in DOMAIN hw, NEW k \in Bars, bar'[f][k] # 0
      PROVE  hw[f].bar[k].kind # "none"
  BY <1>4 DEF ScanInv, OnlyReal, ThisBar
<1>5. ASSUME NEW f \in DOMAIN hw, NEW k \in Bars, Seen(f, k)', Reachable(f)',
             ~ NoBars(f), ~ UpperHalf(f, k)', hw[f].bar[k].kind # "none"
      PROVE  bar'[f][k] # 0
  <2>1. Reachable(f) /\ ~ UpperHalf(f, k)
    BY <1>1, <1>5 DEF UpperHalf
  <2>2. CASE f = at /\ k = i
    BY <1>5, <2>2 DEF ThisBar
  <2>3. CASE ~ (f = at /\ k = i)
    <3>1. ~ (f = at /\ k = i + 1 /\ i' = i + 2)
      BY <1>2, <2>1 DEF UpperHalf, ThisBar
    <3>2. Seen(f, k)
      BY <1>1, <1>2, <1>5, <2>3, <3>1 DEF Seen, Current, Bars
    <3> QED
      BY <1>5, <2>1, <2>3, <3>2 DEF ScanInv, NoneLeftOut
  <2> QED
    BY <2>2, <2>3
<1> QED
  BY <1>3, <1>4, <1>5 DEF ScanInv, Untouched, OnlyReal, NoneLeftOut, NoBars

LEMMA ScanStep == TypeOK /\ ScanInv /\ [Next]_vars => ScanInv'
<1> SUFFICES ASSUME TypeOK, ScanInv, [Next]_vars PROVE ScanInv'
  OBVIOUS
<1>1. CASE Absent
  BY <1>1, ScanAdvance DEF Absent
<1>2. CASE SouthBridge
  BY <1>2, ScanAdvance DEF SouthBridge
<1>3. CASE FunctionDone
  BY <1>3, ScanAdvance DEF FunctionDone
<1>4. CASE EnterFunction
  <2>1. ASSUME NEW f \in DOMAIN hw, NEW k \in Bars
        PROVE  /\ Seen(f, k)' <=> Seen(f, k)
               /\ Reachable(f)' <=> Reachable(f) /\ (UpperHalf(f, k)' <=> UpperHalf(f, k))
    BY <1>4 DEF EnterFunction, Seen, Passed, Current, Reachable, Multi, UpperHalf, Bars
  <2>2. UNCHANGED <<hw, bar>>
    BY <1>4 DEF EnterFunction
  <2> QED
    BY <2>1, <2>2 DEF ScanInv, Untouched, OnlyReal, NoneLeftOut, NoBars
<1>5. CASE NoBar
  BY <1>5, ScanBar DEF NoBar, TypeOK
<1>6. CASE MapBar
  <2> DEFINE base == addr_for_bar(ThisBar)
  <2>1. /\ at \in DOMAIN hw /\ i \in Bars /\ base # 0
        /\ bar' = [bar EXCEPT ![at][i] = base]
    BY <1>6 DEF MapBar, TypeOK, NULL
  <2>2. /\ \A f \in DOMAIN hw : \A k \in Bars : ~ (f = at /\ k = i) => bar'[f][k] = bar[f][k]
        /\ bar'[at][i] # 0
    <3> HIDE DEF base
    <3> QED
      BY <2>1 DEF TypeOK
  <2>3. ThisBar.kind # "none" /\ UNCHANGED <<hw, at, pc>> /\ pc = "bar"
    BY <1>6 DEF MapBar
  <2>4. i' = i + 1 \/ (i' = i + 2 /\ ThisBar.kind = "mem64")
    BY <1>6 DEF MapBar, NextBar
  <2> QED
    BY <2>1, <2>2, <2>3, <2>4, ScanBar
<1>7. CASE CannotFit
  <2>1. /\ at \in DOMAIN hw /\ i \in Bars /\ AllOnes # 0
        /\ bar' = [bar EXCEPT ![at][i] = AllOnes]
    BY <1>7, PciAssumption, WordAssumption DEF CannotFit, TypeOK, AllOnes
  <2>2. /\ \A f \in DOMAIN hw : \A k \in Bars : ~ (f = at /\ k = i) => bar'[f][k] = bar[f][k]
        /\ bar'[at][i] # 0
    BY <2>1 DEF TypeOK
  <2>3. ThisBar.kind # "none" /\ UNCHANGED <<hw, at, pc>> /\ pc = "bar"
    BY <1>7 DEF CannotFit
  <2>4. i' = i + 1 \/ (i' = i + 2 /\ ThisBar.kind = "mem64")
    BY <1>7 DEF CannotFit, NextBar
  <2> QED
    BY <2>1, <2>2, <2>3, <2>4, ScanBar
<1>8. CASE UNCHANGED vars
  BY <1>8 DEF vars, ScanInv, Untouched, OnlyReal, NoneLeftOut, Seen, Passed, Current,
              Reachable, Multi, UpperHalf, NoBars
<1> QED
  BY <1>1, <1>2, <1>3, <1>4, <1>5, <1>6, <1>7, <1>8 DEF Next, Done

(***************************************************************************)
(* The loops over slots, functions and BARs leave no BAR out: at the end   *)
(* every one that exists and can be reached has an address or was refused, *)
(* on every board and for every population of the bus.                     *)
(***************************************************************************)
THEOREM Completeness == Spec => []EveryBarVisited
<1>1. ScanInv => EveryBarVisited
  BY DEF ScanInv, OnlyReal, NoneLeftOut, EveryBarVisited, Seen, Passed
<1> QED
  BY <1>1, TypeCorrect, ScanInit, ScanStep, PTL DEF Spec
-----------------------------------------------------------------------------
(* Decoding is as good as it was for a function whose registers and place  *)
(* in the scan did not change.                                             *)
LEMMA DecodesKept ==
  ASSUME NEW f \in DOMAIN hw, UNCHANGED hw, bar'[f] = bar[f], command'[f] = command[f]
  PROVE  /\ DecodesRight(f)' <=> DecodesRight(f)
         /\ Spaces(f)' = Spaces(f) /\ (AllFit(f)' <=> AllFit(f))
BY DEF DecodesRight, MappedBars, Spaces, AllFit, Mapped, IsIo

LEMMA DecodeInit == Init => DecodeInv
<1> SUFFICES ASSUME Init PROVE DecodeInv
  OBVIOUS
<1>1. ASSUME NEW f \in DOMAIN hw PROVE ~ Passed(f) /\ ~ Current(f)
  <2>1. f \in Function
    BY PciAssumption DEF Init
  <2> QED
    BY <2>1, PciAssumption DEF Init, Passed, Current, Function
<1>2. pc = "func"
  BY DEF Init
<1> QED
  BY <1>1, <1>2 DEF DecodeInv, Collecting

(* The steps from one function to the next. *)
LEMMA DecodeAdvance ==
  ASSUME TypeOK, DecodeInv, pc # "done", Advance, UNCHANGED <<hw, bar>>,
         \A f \in DOMAIN hw : f # at => command'[f] = command[f],
         at \in DOMAIN hw /\ ~ NoBars(at) => pc = "bar" /\ command'[at] = command[at]
  PROVE  DecodeInv'
<1>1. pc' # "bar"
  BY AdvanceType
<1>2. ASSUME NEW f \in DOMAIN hw, Passed(f)' \/ Current(f)', Reachable(f)', ~ NoBars(f)
      PROVE  DecodesRight(f)'
  <2>1. Reachable(f)
    BY <1>2 DEF Reachable, Multi
  <2>2. Passed(f) \/ f = at
    BY <1>2, <2>1, AdvanceScan
  <2>3. Passed(f) \/ Current(f)
    BY <1>2, <2>2 DEF Current
  <2>4. DecodesRight(f) /\ command'[f] = command[f]
    BY <1>2, <2>1, <2>2, <2>3 DEF DecodeInv
  <2> QED
    BY <2>4, DecodesKept
<1> QED
  BY <1>1, <1>2 DEF DecodeInv, Collecting, NoBars

(* A BAR that is mapped without a sum that wraps is not at all ones. *)
LEMMA MapsBelow ==
  ASSUME TypeOK, PciInv, SizesFit, MapBar
  PROVE  /\ addr_for_bar(ThisBar) # 0 /\ addr_for_bar(ThisBar) # AllOnes
         /\ at \in DOMAIN hw /\ i \in Bars
<1> DEFINE b == ThisBar
           size == b.size
           base == addr_for_bar(b)
           avail == availFor(b)
           top == topFor(b)
<1>1. /\ at \in DOMAIN hw /\ i \in Bars /\ b = hw[at].bar[i]
      /\ size \in Nat /\ avail \in Nat /\ top \in Nat /\ base # NULL
  BY BarType DEF MapBar, ThisBar, TypeOK
<1>2. avail <= top /\ top + 2 * size < Word
  BY <1>1 DEF PciInv, BelowAvail, availFor, topFor, SizesFit
<1>3. size > 0 /\ base = ROUND_UP(avail, size)
  BY <1>1 DEF addr_for_bar
<1> HIDE DEF b, size, base, avail, top
<1>4. base < avail + size /\ base \in Nat
  <2>1. avail + size < Word
    BY <1>1, <1>2, <1>3, WordAssumption
  <2> QED
    BY <1>1, <1>3, <2>1, RoundUp
<1>5. base < AllOnes
  BY <1>1, <1>2, <1>3, <1>4, WordAssumption DEF AllOnes
<1> QED
  BY <1>1, <1>4, <1>5, WordAssumption DEF b, base, NULL, AllOnes

LEMMA DecodeStep ==
  TypeOK /\ TypeOK' /\ PciInv /\ ScanInv /\ SizesFit /\ DecodeInv /\ [Next]_vars => DecodeInv'
<1> SUFFICES ASSUME TypeOK, TypeOK', PciInv, ScanInv, SizesFit, DecodeInv, [Next]_vars
             PROVE  DecodeInv'
  OBVIOUS
<1>1. CASE Absent
  BY <1>1, DecodeAdvance DEF Absent
<1>2. CASE SouthBridge
  BY <1>2, DecodeAdvance DEF SouthBridge, TypeOK
<1>3. CASE FunctionDone
  BY <1>3, DecodeAdvance DEF FunctionDone
<1>4. CASE EnterFunction
  <2>1. /\ pc = "func" /\ pc' = "bar" /\ at \in DOMAIN hw /\ cmd' = {}
        /\ UNCHANGED <<hw, at, bar>>
        /\ command'[at] = {}
        /\ \A f \in DOMAIN hw : f # at => command'[f] = command[f]
    BY <1>4 DEF EnterFunction, TypeOK
  <2>2. \A k \in Bars : bar'[at][k] = 0
    BY <2>1, NotPassed DEF ScanInv, Untouched, Seen, Current
  <2>3. MappedBars(at)' = {} /\ Spaces(at)' = {}
    BY <2>1, <2>2 DEF MappedBars, Spaces, Mapped
  <2>4. ASSUME NEW f \in DOMAIN hw, Passed(f)' \/ Current(f)', Reachable(f)', ~ NoBars(f)
        PROVE  DecodesRight(f)'
    <3>1. CASE f = at
      BY <2>1, <2>3, <3>1 DEF DecodesRight
    <3>2. CASE f # at
      <4>1. Passed(f) /\ Reachable(f)
        BY <2>1, <2>4, <3>2 DEF Passed, Current, Reachable, Multi
      <4> QED
        BY <2>1, <2>4, <3>2, <4>1, DecodesKept DEF DecodeInv
    <3> QED
      BY <3>1, <3>2
  <2> QED
    BY <2>1, <2>3, <2>4 DEF DecodeInv, Collecting, NoBars
<1>5. CASE NoBar
  <2>1. UNCHANGED <<hw, pc, at, cmd, command, bar>>
    BY <1>5 DEF NoBar
  <2> QED
    BY <2>1 DEF DecodeInv, Collecting, DecodesRight, MappedBars, Spaces, AllFit, Mapped, IsIo,
                Passed, Current, Reachable, Multi, NoBars
<1>6. CASE MapBar \/ CannotFit
  <2> DEFINE sp == IF IsIo(ThisBar) THEN "IO" ELSE "MEM"
  <2>1. /\ at \in DOMAIN hw /\ i \in Bars /\ pc = "bar" /\ UNCHANGED <<hw, at, pc>>
        /\ cmd' = cmd \cup {sp} /\ ThisBar = hw[at].bar[i]
    BY <1>6 DEF MapBar, CannotFit, Collected, TypeOK, ThisBar
  <2>2. /\ \A f \in DOMAIN hw : f # at => bar'[f] = bar[f] /\ command'[f] = command[f]
        /\ \A k \in Bars : k # i => bar'[at][k] = bar[at][k]
        /\ bar[at][i] = 0
    <3>1. bar[at][i] = 0
      BY <2>1, NotPassed DEF ScanInv, Untouched, Seen, Current, Bars
    <3> QED
      BY <1>6, <2>1, <3>1 DEF MapBar, CannotFit, TypeOK
  <2>3. ASSUME NEW f \in DOMAIN hw, f # at, Passed(f)' \/ Current(f)', Reachable(f)', ~ NoBars(f)
        PROVE  DecodesRight(f)'
    <3>1. Passed(f) /\ Reachable(f)
      BY <2>1, <2>3 DEF Passed, Current, Reachable, Multi
    <3> QED
      BY <2>1, <2>2, <2>3, <3>1, DecodesKept DEF DecodeInv
  <2>4. /\ Spaces(at) \subseteq cmd /\ (AllFit(at) => cmd \subseteq Spaces(at))
        /\ Reachable(at) /\ ~ NoBars(at) => DecodesRight(at)
    BY <2>1 DEF DecodeInv, Collecting, Current
  <2>5. Reachable(at)' <=> Reachable(at)
    BY <2>1 DEF Reachable, Multi
  <2>6. ASSUME MapBar
        PROVE  /\ Spaces(at)' \subseteq cmd' /\ (AllFit(at)' => cmd' \subseteq Spaces(at)')
               /\ DecodesRight(at)'
    <3>1. /\ bar'[at][i] = addr_for_bar(ThisBar) /\ command'[at] = cmd' \cup {"BM"}
      BY <2>1, <2>6 DEF MapBar, TypeOK
    <3>2. bar'[at][i] # 0 /\ bar'[at][i] # AllOnes
      BY <2>6, <3>1, MapsBelow
    <3>3. MappedBars(at)' = MappedBars(at) \cup {i}
      BY <2>1, <2>2, <3>2 DEF MappedBars, Mapped
    <3>4. Spaces(at)' = Spaces(at) \cup {sp}
      BY <2>1, <3>3 DEF Spaces, IsIo
    <3>5. AllFit(at)' => AllFit(at)
      BY <2>1, <2>2, PciAssumption, WordAssumption DEF AllFit, AllOnes
    <3>6. /\ Spaces(at)' \subseteq cmd' /\ (AllFit(at)' => cmd' \subseteq Spaces(at)')
      BY <2>1, <2>4, <3>4, <3>5
    <3>7. DecodesRight(at)'
      <4>1. MappedBars(at)' # {} /\ command'[at] # {}
        BY <3>1, <3>3
      <4> QED
        BY <2>1, <3>1, <3>6, <4>1 DEF DecodesRight
    <3> QED
      BY <3>6, <3>7
  <2>7. ASSUME CannotFit
        PROVE  /\ Spaces(at)' \subseteq cmd' /\ ~ AllFit(at)'
               /\ DecodesRight(at) => DecodesRight(at)'
    <3>1. bar'[at][i] = AllOnes /\ command' = command
      BY <2>1, <2>7 DEF CannotFit, TypeOK
    <3>2. MappedBars(at)' = MappedBars(at)
      BY <2>1, <2>2, <3>1 DEF MappedBars, Mapped
    <3>3. Spaces(at)' = Spaces(at) /\ ~ AllFit(at)'
      BY <2>1, <3>1, <3>2 DEF Spaces, IsIo, AllFit
    <3> QED
      BY <2>1, <2>4, <3>1, <3>2, <3>3 DEF DecodesRight
  <2> QED
    BY <1>6, <2>1, <2>3, <2>4, <2>5, <2>6, <2>7 DEF DecodeInv, Collecting, NoBars
<1>7. CASE UNCHANGED vars
  BY <1>7 DEF vars, DecodeInv, Collecting, DecodesRight, MappedBars, Spaces, AllFit, Mapped, IsIo,
              Passed, Current, Reachable, Multi, NoBars
<1> QED
  BY <1>1, <1>2, <1>3, <1>4, <1>5, <1>6, <1>7 DEF Next, Done

(***************************************************************************)
(* In the end a function decodes the spaces it has BARs in, and no other   *)
(* if all of them fit, as long as no sum can wrap around (a BAR could then *)
(* be placed at the address that reads as all ones).                       *)
(***************************************************************************)
THEOREM Decoding == Spec /\ SizesFit => []DecodesWhatIsMapped
<1>1. DecodeInv => DecodesWhatIsMapped
  BY DEF DecodeInv, DecodesWhatIsMapped, DecodesRight, MappedBars, Spaces, AllFit, Passed
<1> QED
  BY <1>1, SizesStay, TypeCorrect, PciCorrect, ScanInit, ScanStep, DecodeInit, DecodeStep, PTL DEF Spec
=============================================================================
