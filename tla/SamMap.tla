------------------------------- MODULE SamMap -------------------------------
(***************************************************************************)
(* What the Sam460ex sees at which address (brd_sam460.c): the TLB that    *)
(* sam460_init() writes while it runs from it, and the PCI windows that    *)
(* setup_pom() programs later.  One step is one register or TLB word.      *)
(*                                                                         *)
(* Addresses and sizes are in KiB, the smallest page of the table.  A      *)
(* physical address is <<upper four bits, lower 32 bits>>.                 *)
(***************************************************************************)
EXTENDS Integers, Sequences

CONSTANT
    MemSizes        \* sizes the device tree may give for the memory

ASSUME SamMapAssumption == MemSizes \subseteq Nat

VARIABLES
    stage,          \* "fdt", "tlb", "stack", "pom", "end"
    memsize,        \* later bd.bi_memsize
    stack_top,
    tlb,            \* the 64 entries
    step, word,     \* the entry or register that is written, and its word
    pcix            \* the registers of the PCI bridge

mapVars == <<stage, memsize, stack_top, tlb, step, word, pcix>>

M == 1024
TLB_1K == 1
TLB_16K == 16
TLB_1M == M
TLB_16M == 16 * M
TLB_256M == 256 * M
GiB4 == 16 * TLB_256M

PageFrame(epn, size, rpn, erpn, acc) ==
    [valid |-> TRUE, epn |-> epn, size |-> size, pa |-> <<erpn, rpn>>, acc |-> acc]
Unused == [valid |-> FALSE, epn |-> 0, size |-> 0, pa |-> <<0, 0>>, acc |-> "none"]

(* Addresses by their upper byte. *)
At(upper) == upper * TLB_16M

tlbtab == <<
    PageFrame(At(\hF0), TLB_256M, At(\hF0), \h4, "rwx"),
    PageFrame(At(\hD0), TLB_256M, 0, \hC, "rw"),
    PageFrame(At(\h80), TLB_256M, At(\h80), \hC, "rw"),
    PageFrame(At(\h90), TLB_256M, At(\h90), \hC, "rw"),
    PageFrame(At(\hA0), TLB_256M, At(\hA0), \hD, "rw"),
    PageFrame(At(\hB0), TLB_256M, At(\hB0), \hD, "rw"),
    PageFrame(At(\hC0), TLB_256M, At(\hC0), \hD, "rw"),
    PageFrame(At(\hE0), TLB_16M, 0, \hD, "rw"),
    PageFrame(At(\hE1), TLB_16M, At(\h20), \hD, "rw"),
    PageFrame(At(\hE3), TLB_1K, At(\h10), \hD, "rw"),
    PageFrame(At(\hE3) + 4, TLB_1K, At(\h30), \hD, "rw"),
    PageFrame(At(\hE4), TLB_16K, At(\h08) + 64, \hC, "rw"),
    PageFrame(At(\hE5), TLB_1M, 0, \h4, "rwx"),
    PageFrame(At(\hEF), TLB_16M, At(\hEF), \h4, "rwx"),
    PageFrame(At(\hE2), TLB_1M, At(\hC0) - M, \h4, "rwx")>>

ntab == Len(tlbtab)

(* A count that adds a page also to memory that ends with one. *)
pages_up == memsize \div TLB_256M + 1
(* (memsize + 0xfffffff) >> 28, in 32 bits. *)
pages == LET p == ((memsize + TLB_256M - 1) \div TLB_256M) % 16
         IN  IF p = 0 THEN 1 ELSE IF p > 64 - ntab THEN 64 - ntab ELSE p

Sdram(i) == <<ntab + i, PageFrame(i * TLB_256M, TLB_256M, i * TLB_256M, 0, "rwx")>>
Static(i) == <<i, tlbtab[i + 1]>>

(* The table first: entry 0 goes while nothing else maps the code. *)
TlbProgram_swapped == [k \in 1 .. pages + ntab |->
                  IF k <= ntab THEN Static(k - 1) ELSE Sdram(k - 1 - ntab)]
(* setup_tlb()'s writes: the memory first, then the table over entry 0. *)
TlbProgram == [k \in 1 .. pages + ntab |->
                  IF k <= pages THEN Sdram(k - 1) ELSE Static(k - 1 - pages)]
-----------------------------------------------------------------------------
pcixRegs == {"LAL", "LAH", "PCIAL", "PCIAH", "SA"}
Pom(w) == {<<"POM", w, r>> : r \in pcixRegs}
Registers == Pom(0) \cup Pom(1) \cup {<<"PIM", 0, r>> : r \in {"LAL", "LAH", "SAL"}}

(* A size register: the bits of an address that must match, or off. *)
Off == [on |-> FALSE, size |-> 0]
On(size) == [on |-> TRUE, size |-> size]

(* A window that is enabled before it is known where it leads. *)
PomWrites_early(w, upper) == <<
    << <<"POM", w, "LAL">>, At(upper)>>, << <<"POM", w, "LAH">>, \hC>>,
    << <<"POM", w, "SA">>, On(TLB_256M)>>,
    << <<"POM", w, "PCIAL">>, At(upper)>>, << <<"POM", w, "PCIAH">>, 0>> >>
(* A window of 256 MiB at PCI address upper : 000000, enabled last. *)
PomWrites(w, upper) == <<
    << <<"POM", w, "LAL">>, At(upper)>>, << <<"POM", w, "LAH">>, \hC>>,
    << <<"POM", w, "PCIAL">>, At(upper)>>, << <<"POM", w, "PCIAH">>, 0>>,
    << <<"POM", w, "SA">>, On(TLB_256M)>> >>

(* The inbound window, ~(memsize - 1) | 3. *)
PimSize == On(memsize)

PomProgram == << << <<"POM", 0, "SA">>, Off>>, << <<"POM", 1, "SA">>, Off>> >>
              \o PomWrites(0, \h80) \o PomWrites(1, \h90)
              \o << << <<"PIM", 0, "LAL">>, 0>>, << <<"PIM", 0, "LAH">>, 0>>,
                    << <<"PIM", 0, "SAL">>, PimSize>> >>

(* What setup_pci_params() tells the allocation of BARs. *)
PciWindow == At(\h80)
PciWindowLen == 512 * M
-----------------------------------------------------------------------------
(* QEMU's one entry, 2 GiB at 0; the bridge has registers of an earlier run. *)
MapInit ==
    /\ stage = "fdt" /\ memsize = 512 * M /\ stack_top = 0 /\ step = 1 /\ word = 0
    /\ tlb = [e \in 0 .. 63 |-> IF e = 0 THEN PageFrame(0, 8 * TLB_256M, 0, 0, "rwx") ELSE Unused]
    /\ \E old \in {Off, On(TLB_256M)}, a \in {0, At(\hA0)} :
          pcix = [r \in Registers |-> IF r[3] \in {"SA", "SAL"} THEN old ELSE a]

(* sam460_init(): the size of the memory, where the tree has it. *)
ReadFdt ==
    /\ stage = "fdt" /\ stage' = "tlb"
    /\ \E size \in MemSizes \cup {memsize} : memsize' = size
    /\ UNCHANGED <<stack_top, tlb, step, word, pcix>>

(* write_tlb(): three words, of which the first makes the entry valid. *)
write_tlb(index, new) ==
    tlb' = [tlb EXCEPT ![index] =
               CASE word = 0 -> [@ EXCEPT !.valid = TRUE, !.epn = new.epn, !.size = new.size]
                 [] word = 1 -> [@ EXCEPT !.pa = new.pa]
                 [] word = 2 -> [@ EXCEPT !.acc = new.acc]]

setup_tlb ==
    /\ stage = "tlb"
    /\ write_tlb(TlbProgram[step][1], TlbProgram[step][2])
    /\ word' = (word + 1) % 3
    /\ LET last == word = 2 /\ step = Len(TlbProgram)
       IN  /\ stage' = IF last THEN "stack" ELSE stage
           /\ step' = IF last THEN 1 ELSE IF word = 2 THEN step + 1 ELSE step
    /\ UNCHANGED <<memsize, stack_top, pcix>>

(* The stack for the loader: 1 MiB below the top of the mapped memory. *)
RamTop == IF memsize > 8 * TLB_256M THEN 8 * TLB_256M ELSE memsize
SetStack ==
    /\ stage = "stack" /\ stage' = "pom"
    /\ stack_top' = (RamTop - M) % GiB4
    /\ UNCHANGED <<memsize, tlb, step, word, pcix>>

(* setup_pom(), called by sam460_setup(). *)
setup_pom ==
    /\ stage = "pom"
    /\ pcix' = [pcix EXCEPT ![PomProgram[step][1]] = PomProgram[step][2]]
    /\ IF step = Len(PomProgram) THEN stage' = "end" /\ step' = 1
       ELSE step' = step + 1 /\ UNCHANGED stage
    /\ UNCHANGED <<memsize, stack_top, tlb, word>>

MapDone == stage = "end" /\ UNCHANGED mapVars

MapNext == ReadFdt \/ setup_tlb \/ SetStack \/ setup_pom \/ MapDone

MapSpec == MapInit /\ [][MapNext]_mapVars
-----------------------------------------------------------------------------
(* The entries that translate a, and what each of them makes of it. *)
Covers(e, a) == tlb[e].valid /\ tlb[e].epn <= a /\ a < tlb[e].epn + tlb[e].size
To(e, a) == <<tlb[e].pa[1], tlb[e].pa[2] + (a - tlb[e].epn)>>
Translated(a, p, acc) ==
    /\ \E e \in 0 .. 63 : Covers(e, a) /\ tlb[e].acc \in acc
    /\ \A e \in 0 .. 63 : Covers(e, a) => To(e, a) = p

(***************************************************************************)
(* Between any two words of the TLB, the code (linked at 2 MiB) and the    *)
(* stack it was entered with (just below 16 MiB) stay executable and       *)
(* writable where they are: "overwriting entry 0 ... is only safe once     *)
(* another valid entry already covers the code doing the write".           *)
(***************************************************************************)
CodeStaysMapped == \A a \in {2 * M, 16 * M - 1} : Translated(a, <<0, a>>, {"rwx"})

Written == stage \in {"stack", "pom", "end"}

(* No address is translated by two entries once the TLB is written. *)
NoneMappedTwice ==
    Written => \A e, f \in 0 .. 63 :
        e # f /\ tlb[e].valid /\ tlb[f].valid =>
            tlb[e].epn + tlb[e].size <= tlb[f].epn \/ tlb[f].epn + tlb[f].size <= tlb[e].epn

(***************************************************************************)
(* All of the memory, and the stack the loader gets, is mapped where it    *)
(* is; by entries behind the static table, because AmigaOS recycles the    *)
(* entries from the bottom.                                                *)
(***************************************************************************)
Borders(size) == {a \in {0, size - 1} \cup {i * TLB_256M : i \in 0 .. 15} : a < size}
MemoryMapped ==
    Written => \A a \in Borders(memsize) :
                  Translated(a, <<0, a>>, {"rwx"}) /\ \A e \in 0 .. ntab - 1 : ~ Covers(e, a)
StackInMemory ==
    stage \in {"pom", "end"} => stack_top - 1 < memsize /\ Translated(stack_top - 1, <<0, stack_top - 1>>, {"rwx"})

(***************************************************************************)
(* Once setup_tlb() is done no address has two translations, all memory is *)
(* mapped by entries behind the table, which AmigaOS reuses, and the stack *)
(* sam460_init() makes is in it.                                           *)
(***************************************************************************)
MemoryMap == NoneMappedTwice /\ MemoryMapped /\ StackInMemory
-----------------------------------------------------------------------------
(* A window of the bridge that is on. *)
PomOn(w) == pcix[<<"POM", w, "SA">>].on
PomTo(w, p) == <<pcix[<<"POM", w, "PCIAH">>],
                 pcix[<<"POM", w, "PCIAL">>] + (p[2] - pcix[<<"POM", w, "LAL">>])>>
PomHits(w, p) == /\ PomOn(w) /\ p[1] = pcix[<<"POM", w, "LAH">>]
                 /\ pcix[<<"POM", w, "LAL">>] <= p[2]
                 /\ p[2] < pcix[<<"POM", w, "LAL">>] + pcix[<<"POM", w, "SA">>].size

(***************************************************************************)
(* Once setup_pom() has switched off what an earlier firmware left, an     *)
(* access through the bridge never ends at a PCI address other than its    *)
(* own: a window is only on while all of its registers belong together.    *)
(***************************************************************************)
WindowsNeverStray ==
    stage = "end" \/ (stage = "pom" /\ step > 2) =>
        \A w \in {0, 1}, i \in 0 .. 15 :
            PomHits(w, <<\hC, i * TLB_256M>>) => PomTo(w, <<\hC, i * TLB_256M>>) = <<0, i * TLB_256M>>

(***************************************************************************)
(* The composition of the TLB, the outbound windows and the window given   *)
(* to the allocation of BARs: a BAR anywhere in PciWindow is reached by    *)
(* the processor at its own address, through exactly one window.           *)
(***************************************************************************)
BarsReachable ==
    stage = "end" =>
        \A a \in {PciWindow, PciWindow + TLB_256M - 1,
                  PciWindow + TLB_256M, PciWindow + PciWindowLen - 1} :
            /\ Translated(a, <<\hC, a>>, {"rw"})
            /\ \E w \in {0, 1} : /\ PomHits(w, <<\hC, a>>) /\ PomTo(w, <<\hC, a>>) = <<0, a>>
                                 /\ ~ PomHits(1 - w, <<\hC, a>>)

(***************************************************************************)
(* "all of SDRAM at PCI address 0": the inbound window, whose size is a    *)
(* mask of address bits, lets DMA reach every page of the memory.          *)
(***************************************************************************)
Bit(x, k) == (x \div 2 ^ k) % 2
Inbound(a) == LET s == pcix[<<"PIM", 0, "SAL">>]
              IN  s.on /\ \A k \in 0 .. 21 : Bit(a, k) = 1 => Bit(s.size - 1, k) = 1
DmaReachesMemory ==
    stage = "end" => \A i \in 0 .. 63 : i * 64 * M < memsize => Inbound(i * 64 * M)

(***************************************************************************)
(* TLB, outbound and inbound windows and the range BARs are placed in fit  *)
(* together: a BAR is reached at its own address through one window, no    *)
(* access strays while setup_pom() programs them, and DMA reaches all of   *)
(* the memory.                                                             *)
(***************************************************************************)
PciReachable == WindowsNeverStray /\ BarsReachable /\ DmaReachesMemory
=============================================================================
