--------------------------- MODULE SamInterrupts ---------------------------
(***************************************************************************)
(* The interrupt controllers and the decrementer as sam460_init() leaves   *)
(* them to AmigaOS (setup_uic(), setup_timer() of brd_sam460.c).  The code *)
(* is a list of register writes; between any two of them a line of a       *)
(* controller may be latched and the decrementer may count.                *)
(*                                                                         *)
(* A line is <<controller, sense>>: it is asserted by a "high" or a "low"  *)
(* level.  Whether it is asserted does not change while we look.           *)
(***************************************************************************)
EXTENDS Integers, Sequences

CONSTANTS
    Lines,      \* the lines looked at
    Reload      \* the decrementer's counts per tick, intfreq / 1000

ASSUME SamInterruptsAssumption ==
    Lines \subseteq (0 .. 3) \X {"high", "low"} /\ Reload \in Nat \ {0}

VARIABLES
    pos,                \* the next write
    asserted,           \* the lines on which a device asks for an interrupt
    sr, er, pr,         \* latched, enabled and active-high lines (SR, ER, PR)
    dec, decar,         \* DEC and its auto-reload value
    die, are,           \* TCR: interrupt enable, auto-reload enable
    tsr,                \* TSR: "clear", or set by an "old" or a "new" expiry
    loaded              \* DEC has been given its first value

irqVars == <<pos, asserted, sr, er, pr, dec, decar, die, are, tsr, loaded>>
uicVars == <<sr, er, pr>>
timerVars == <<dec, decar, die, are, tsr, loaded>>

Of(k) == {l \in Lines : l[1] = k}

(* PR: all inputs active high but UIC1's IRQ2 and UIC3's IRQ12. *)
Positive(k) == {l \in Of(k) : l[2] = "high"}

(* A controller's writes without the second clearing of SR. *)
Uic_once(k) == << <<"SR", k>>, <<"ER", k>>, <<"CR", k>>, <<"PR", k>>, <<"TR", k>>, <<"VR", k>> >>
Uic(k) == << <<"SR", k>>, <<"ER", k>>, <<"CR", k>>, <<"PR", k>>,
             <<"TR", k>>, <<"VR", k>>, <<"SR", k>> >>

setup_uic == Uic(0) \o Uic(1) \o Uic(2) \o Uic(3)

(* A timer that has a value to reload but is never started. *)
setup_timer_stopped ==
    << <<"TCR", "off">>, <<"DEC", 0>>, <<"DECAR", 0>>, <<"TSR", 0>>,
       <<"DECAR", Reload>>, <<"TCR", "on">>, <<"IVPR", 0>> >>
setup_timer ==
    << <<"TCR", "off">>, <<"DEC", 0>>, <<"DECAR", 0>>, <<"TSR", 0>>,
       <<"DECAR", Reload>>, <<"DEC", Reload>>, <<"TCR", "on">>, <<"IVPR", 0>> >>

Program == setup_uic \o setup_timer
-----------------------------------------------------------------------------
(* Out of reset, every input of the controllers is active low. *)
IrqInit ==
    /\ pos = 1 /\ asserted \in SUBSET Lines
    /\ sr = {} /\ er = {} /\ pr = {}
    /\ dec \in 0 .. Reload /\ decar \in {0, Reload}
    /\ die \in BOOLEAN /\ are \in BOOLEAN /\ tsr \in {"clear", "old"} /\ loaded = FALSE

WriteUic(reg, k) ==
    /\ sr' = IF reg = "SR" THEN sr \ Of(k) ELSE sr
    /\ er' = IF reg = "ER" THEN er \ Of(k) ELSE er
    /\ pr' = IF reg = "PR" THEN (pr \ Of(k)) \cup Positive(k) ELSE pr

WriteTimer(reg, val) ==
    /\ dec' = IF reg = "DEC" THEN val ELSE dec
    /\ decar' = IF reg = "DECAR" THEN val ELSE decar
    /\ tsr' = IF reg = "TSR" THEN "clear" ELSE tsr
    /\ die' = IF reg = "TCR" THEN val = "on" ELSE die
    /\ are' = IF reg = "TCR" THEN val = "on" ELSE are
    /\ loaded' = (loaded \/ (reg = "DEC" /\ val # 0))

Write ==
    /\ pos <= Len(Program) /\ pos' = pos + 1
    /\ LET w == Program[pos]
       IN  IF w[1] \in {"SR", "ER", "CR", "PR", "TR", "VR"}
           THEN WriteUic(w[1], w[2]) /\ UNCHANGED timerVars
           ELSE WriteTimer(w[1], w[2]) /\ UNCHANGED uicVars
    /\ UNCHANGED asserted

(***************************************************************************)
(* The hardware.  A line is latched when its level is the one PR calls     *)
(* active; an asserted line is at the level of its sense.                  *)
(***************************************************************************)
Level(l) == IF l \in asserted THEN l[2] ELSE IF l[2] = "high" THEN "low" ELSE "high"
Active(l) == Level(l) = IF l \in pr THEN "high" ELSE "low"

Latch(l) ==
    /\ Active(l) /\ l \notin sr /\ sr' = sr \cup {l}
    /\ UNCHANGED <<pos, asserted, er, pr>> /\ UNCHANGED timerVars

AtEnd == pos > Len(Program)

(***************************************************************************)
(* DEC counts down to 0, reloads there if ARE is set, and stays at 0 if    *)
(* not, as it does when it runs out before setup_timer() has set ARE.      *)
(***************************************************************************)
Count ==
    /\ dec > 0
    /\ dec' = IF dec > 1 THEN dec - 1 ELSE IF are THEN decar ELSE 0
    /\ tsr' = IF dec > 1 \/ tsr # "clear" THEN tsr ELSE IF loaded THEN "new" ELSE "old"
    /\ UNCHANGED <<pos, asserted, decar, die, are, loaded>> /\ UNCHANGED uicVars

(* AmigaOS answers a tick. *)
Acknowledge ==
    /\ AtEnd /\ die /\ tsr # "clear" /\ tsr' = "clear"
    /\ UNCHANGED <<pos, asserted, dec, decar, die, are, loaded>> /\ UNCHANGED uicVars

Idle == AtEnd /\ UNCHANGED irqVars

IrqNext == Write \/ (\E l \in Lines : Latch(l)) \/ Count \/ Acknowledge \/ Idle

(* The processor runs, and so do the controllers and the decrementer. *)
IrqSpec == /\ IrqInit /\ [][IrqNext]_irqVars
           /\ WF_irqVars(Write) /\ WF_irqVars(Count) /\ WF_irqVars(Acknowledge)
           /\ \A l \in Lines : WF_irqVars(Latch(l))
-----------------------------------------------------------------------------
(***************************************************************************)
(* AmigaOS finds no interrupt that nobody asked for: what was latched with *)
(* the polarity of reset is gone when setup_uic() is done.                 *)
(***************************************************************************)
NoSpuriousInterrupt == AtEnd => sr \subseteq asserted

(***************************************************************************)
(* "AmigaOS inherits it": a tick seen after setup_timer() comes from the   *)
(* new period, never from one the decrementer was in before.               *)
(***************************************************************************)
NoStaleTick == AtEnd => tsr # "old"

(* AmigaOS is left with no interrupt that was latched with the wrong       *)
(* polarity and with no tick of the time before setup_timer().             *)
NothingStale == NoSpuriousInterrupt /\ NoStaleTick

(* A device that asks for an interrupt is seen: no driver waits "forever for *)
(* interrupts that cannot arrive".                                           *)
InterruptsRegister == \A l \in Lines : l \in asserted ~> (AtEnd /\ l \in sr)

(* A tick of the new period that AmigaOS sees. *)
Tick == AtEnd /\ die /\ tsr = "new"

(* The first tick comes, even if the decrementer has run out before ARE    *)
(* was set; and if it is running when setup_timer() is done it ticks again *)
(* and again ("everything that waits on a timeout waits forever").         *)
TimerTicks == <>Tick /\ [](AtEnd /\ dec # 0 => []<>Tick)
=============================================================================
