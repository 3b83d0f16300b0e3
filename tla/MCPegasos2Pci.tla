--------------------------- MODULE MCPegasos2Pci ---------------------------
(***************************************************************************)
(* Device trees of a Pegasos2, in units of four bytes: the windows are     *)
(* those of the two bridges of the MV64361.                                *)
(***************************************************************************)
EXTENDS Pegasos2Pci

MemBases == <<2^29, 3 * 2^28>>      \* 0x80000000, 0xc0000000
Io0 == 62 * 2^24                    \* 0xf8000000
Io1 == 63 * 2^24 + 2^23             \* 0xfe000000
M == 2^18

IO(n_) == [kind |-> "io", size |-> n_]
MEM(n_) == [kind |-> "mem", size |-> n_]
MEM64(n_) == [kind |-> "mem64", size |-> n_]

\* a device that was not set up
Dev(bars) == [ok |-> TRUE, present |-> TRUE, southbridge |-> FALSE, assigned |-> FALSE,
              settable |-> TRUE, usb |-> FALSE, isa |-> FALSE, line |-> 0, bars |-> bars, addr |-> << >>]
South(bars) == [Dev(bars) EXCEPT !.southbridge = TRUE]
Bus(nodes) == [ranges |-> TRUE, stated |-> {"io", "mem"},
               io |-> Io1, iolen |-> 2^14, mem |-> 2^29, memlen |-> 2^28, nodes |-> nodes]
Agp(nodes) == [ranges |-> TRUE, stated |-> {"io", "mem"},
               io |-> Io0, iolen |-> 2^14, mem |-> 3 * 2^28, memlen |-> 2^27, nodes |-> nodes]

\* the functions of the south bridge in their order: ISA, IDE, USB, USB, sound
Ide == South(<<IO(2), IO(1), IO(2), IO(1), IO(4)>>)
Usb == [South(<<IO(8)>>) EXCEPT !.usb = TRUE]
Sound == South(<<IO(64), IO(1), IO(1)>>)
Isa == [South(<< >>) EXCEPT !.isa = TRUE]
VT8231 == <<Isa, Ide, Usb, Usb, Sound>>

\* set up by a firmware
Known(bars, addr) == [Dev(bars) EXCEPT !.assigned = TRUE, !.addr = addr, !.line = 9]
Firmware == Known(<<MEM64(64 * M), IO(64)>>, <<2^29 + 64 * M, Io1 + 8192>>)

Cards == {Dev(<<x, y>>) : x \in {IO(64), IO(2^13), MEM(0), MEM64(256 * M)},
                          y \in {IO(2^13), MEM(1), MEM(128 * M), MEM64(64 * M)}}
Others == {[Dev(<<IO(32), MEM(4)>>) EXCEPT !.present = p, !.settable = w, !.ok = o, !.line = l]
              : p \in BOOLEAN, w \in BOOLEAN, o \in BOOLEAN, l \in {5, 255}}

\* ranges that state one window only
WithoutMem(bus) == [bus EXCEPT !.stated = {"io"}, !.mem = 0, !.memlen = 0]
WithoutIo(bus) == [bus EXCEPT !.stated = {"mem"}, !.io = 0, !.iolen = 0]

\* a card in slot 12 of the second bus, which calls itself bus 0 as well
Slot12 == South(<<IO(32), MEM(4)>>)

\* first buses that are refused: no memory window, one of 0, an unknown one
BadBuses == {WithoutMem(Bus(VT8231)), WithoutIo(Bus(VT8231))}
            \cup {[Bus(VT8231) EXCEPT !.mem = m] : m \in {0, 2^28}}
            \cup {[Bus(VT8231) EXCEPT !.ranges = FALSE]}

PlainTrees ==
    {<<Bus(VT8231 \o <<c, d>>), Agp(<<d, c, o>>)>>
        : c \in Cards, d \in Cards,
          o \in {[Dev(<<IO(32), MEM(4)>>) EXCEPT !.present = FALSE]}}
    \cup {<<Bus(<<o>> \o VT8231 \o <<c>>), Agp(<<c, o, Slot12>>)>> : c \in Cards, o \in Others}
    \cup {<<t, Agp(<<c>>)>> : c \in Cards, t \in BadBuses}
    \cup {<<Bus(VT8231), [Agp(<<c>>) EXCEPT !.ranges = FALSE]>> : c \in Cards}

FirmwareTrees ==
    {<<Bus(<<Firmware>>), Agp(<<[Firmware EXCEPT !.addr = <<3 * 2^28, Io0 + 4096>>, !.settable = w]>>)>>
        : w \in BOOLEAN}

AllTrees == PlainTrees \cup FirmwareTrees

\* they are device trees that the setup is meant for
ASSUME MeantTrees ==
    \A t \in AllTrees : /\ OwnRanges(t) /\ RangesFit(t) /\ FirmwareFits(t)
                        /\ HasVT8231(t) \/ SouthbridgeDone(t)

\* second buses that state one window only
OneRangeTrees == {<<Bus(VT8231), t>> : t \in {WithoutMem(Agp(<<Slot12>>)), WithoutIo(Agp(<<Slot12>>))}}
=============================================================================
