------------------------------ MODULE Console -------------------------------
(***************************************************************************)
(* The console (drivers/console.c): a list of output drivers and puts(),   *)
(* which hands a text to each of them line by line.  A step is one call of *)
(* a driver's write().                                                     *)
(***************************************************************************)
EXTENDS Integers, Sequences, SequencesExt

CONSTANTS
    Drivers,            \* serial_consout, prom_consout
    Chars,              \* characters other than line ends
    MaxText, MaxPuts    \* bounds: length of a text, number of texts

ASSUME ConsoleAssumption == MaxText \in Nat

CR == "\r"
LF == "\n"

VARIABLES
    console_out,    \* the list of drivers, its head first
    doing,          \* "idle", "line", "eol", "last"
    s, p,           \* the text, and how much of it is written
    out,            \* the driver to be called next, by its place in the list
    told,           \* the texts put since each driver was added
    shown           \* the bytes each driver was given

consoleVars == <<console_out, doing, s, p, out, told, shown>>

Texts == UNION {[1 .. k -> Chars \cup {LF}] : k \in 0 .. MaxText}

ConsoleInit ==
    /\ console_out = << >> /\ doing = "idle" /\ s = << >> /\ p = 0 /\ out = 1
    /\ told = [d \in Drivers |-> << >>] /\ shown = [d \in Drivers |-> << >>]

(* A new driver is the head of the list; start() adds each at most once. *)
console_add_output_driver(d) ==
    /\ doing = "idle" /\ d \notin Range(console_out)
    /\ console_out' = <<d>> \o console_out
    /\ UNCHANGED <<doing, s, p, out, told, shown>>

(* The end of the line that starts at p. *)
q == LET ends == {i \in p + 1 .. Len(s) : s[i] = LF}
     IN  IF ends = {} THEN Len(s) ELSE (CHOOSE i \in ends : \A j \in ends : i <= j) - 1

(* What comes behind what has been written up to k. *)
After(k) == IF k = Len(s) THEN "last" ELSE IF s[k + 1] = LF THEN "eol" ELSE "line"

puts ==
    /\ doing = "idle" /\ \E t \in Texts :
         /\ s' = t
         /\ told' = [d \in Drivers |-> IF d \in Range(console_out) THEN Append(told[d], t) ELSE told[d]]
         /\ \A d \in Drivers : Len(told[d]) < MaxPuts
         /\ doing' = IF t = << >> THEN "last" ELSE IF t[1] = LF THEN "eol" ELSE "line"
    /\ p' = 0 /\ out' = 1
    /\ UNCHANGED <<console_out, shown>>

(* The driver that is next gets b; behind the last one, Then. *)
Write(b, Then) ==
    IF out <= Len(console_out)
    THEN /\ shown' = [shown EXCEPT ![console_out[out]] = @ \o b]
         /\ out' = out + 1 /\ UNCHANGED <<doing, p>>
    ELSE out' = 1 /\ UNCHANGED shown /\ Then

(* putchars(): a line without its end. *)
WriteLine ==
    /\ doing = "line"
    /\ Write(SubSeq(s, p + 1, q), p' = q /\ doing' = After(q))
    /\ UNCHANGED <<console_out, s, told>>

Skip(k) == k + 1

(* A line end that is passed as it is. *)
LineEnd_bare == <<LF>>
(* putchar(): a line end is two characters on a terminal. *)
LineEnd == <<CR, LF>>

putchar ==
    /\ doing \in {"eol", "last"}
    /\ Write(LineEnd, IF doing = "last" THEN doing' = "idle" /\ UNCHANGED p
                      ELSE p' = Skip(p) /\ doing' = After(Skip(p)))
    /\ UNCHANGED <<console_out, s, told>>

(* No text is left to put. *)
Quiet == doing = "idle" /\ UNCHANGED consoleVars

ConsoleNext == (\E d \in Drivers : console_add_output_driver(d)) \/ puts \/ WriteLine \/ putchar \/ Quiet

ConsoleSpec == /\ ConsoleInit /\ [][ConsoleNext]_consoleVars
               /\ WF_consoleVars(WriteLine) /\ WF_consoleVars(putchar)
-----------------------------------------------------------------------------
(* A text as it should come out: every line ends with CR and LF, also the last. *)
Expanded(t) == FlattenSeq([i \in 1 .. Len(t) |-> IF t[i] = LF THEN <<CR, LF>> ELSE <<t[i]>>]) \o <<CR, LF>>

(***************************************************************************)
(* Every driver gets all texts put since it was added, none of them cut,   *)
(* doubled or reordered, and nothing in between gets ahead of them.        *)
(***************************************************************************)
AllTextsArrive ==
    \A d \in Drivers :
        LET wanted == FlattenSeq([i \in 1 .. Len(told[d]) |-> Expanded(told[d][i])])
        IN  IsPrefix(shown[d], wanted) /\ (doing = "idle" => shown[d] = wanted)

(* puts() comes back, also from empty texts and empty lines. *)
PutsEnds == doing # "idle" ~> doing = "idle"
=============================================================================
