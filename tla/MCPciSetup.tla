----------------------------- MODULE MCPciSetup -----------------------------
(***************************************************************************)
(* Buses for PciSetup.  Sizes are in units of four bytes: 2^18 is 1 MiB.   *)
(***************************************************************************)
EXTENDS PciSetup

KB == 2^8
MB == 2^18

NONE == [kind |-> "none", size |-> 0]
IO(n) == [kind |-> "io", size |-> n]
MEM(n) == [kind |-> "mem", size |-> n]
MEM64(n) == [kind |-> "mem64", size |-> n]

Barset(a, b, c) == [k \in Bars |-> CASE k = 0 -> a [] k = 2 -> b [] k = 3 -> c
                                     [] OTHER -> NONE]

Device(multi, pin, bars) == [multi |-> multi, pin |-> pin, sm502 |-> FALSE, bar |-> bars]

SamBar == {NONE, IO(64), IO(8 * KB), MEM(4 * KB), MEM(64 * MB), MEM(256 * MB),
           MEM64(256 * MB), MEM64(0)}

\* a card and a two-function card, each with up to three BARs; an SM502
SamHardware ==
    {[f \in {<<0, 0>>, <<1, 0>>, <<1, 1>>, <<2, 1>>} |->
        CASE f = <<0, 0>> -> [Device(FALSE, 1, Barset(MEM(64 * MB), x, NONE)) EXCEPT !.sm502 = TRUE]
          [] f = <<1, 0>> -> Device(TRUE, 1, Barset(a, b, IO(8 * KB)))
          [] f = <<1, 1>> -> Device(FALSE, 0, Barset(b, a, x))
          [] f = <<2, 1>> -> Device(FALSE, 2, Barset(a, NONE, NONE))]
        : a \in SamBar, b \in SamBar, x \in SamBar}

AoneBar == {NONE, IO(2^17), IO(2^19), MEM(1024), MEM(2 * MB), MEM(256 * MB),
            MEM64(4 * MB)}

\* the VIA south bridge in slot 7 and two cards
AoneHardware ==
    {[f \in {<<6, 0>>, <<6, 1>>, <<7, 0>>, <<7, 1>>, <<7, 2>>, <<7, 4>>, <<7, 5>>} |->
        CASE f = <<6, 0>> -> Device(FALSE, 1, Barset(a, b, MEM(64 * MB)))
          [] f = <<6, 1>> -> Device(FALSE, 1, Barset(a, b, NONE))
          [] f = <<7, 0>> -> Device(TRUE, 0, Barset(NONE, NONE, NONE))
          [] f = <<7, 1>> -> Device(FALSE, 1, Barset(IO(4), IO(4), IO(4)))
          [] f = <<7, 2>> -> Device(FALSE, 4, Barset(NONE, IO(8), x))
          [] f = <<7, 4>> -> Device(FALSE, 0, Barset(NONE, NONE, NONE))
          [] f = <<7, 5>> -> Device(FALSE, 3, Barset(x, a, b))]
        : a \in AoneBar, b \in AoneBar, x \in AoneBar}

\* two cards with BARs of 512 MiB to 2 GiB
BigBars ==
    {[f \in {<<0, 0>>, <<1, 0>>} |->
        CASE f = <<0, 0>> -> Device(FALSE, 1, Barset(MEM(1 * MB), NONE, NONE))
          [] f = <<1, 0>> -> Device(FALSE, 1, Barset(MEM(n * MB), NONE, NONE))]
        : n \in {512, 1024, 2048}}
=============================================================================
