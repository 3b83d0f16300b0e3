-------------------------------- MODULE Cfg ---------------------------------
(***************************************************************************)
(* The configuration string (cfg.c, with strspn() and strcspn() of         *)
(* libc/string.c): cfg_init() takes blanks off both of its ends,           *)
(* cfg_is_option() and cfg_get_option() look for a setting in it.          *)
(*                                                                         *)
(* The string is grown a character at a time from the documented format,   *)
(* settings "denoted by capital letters that can be followed by lower case *)
(* option letters" with blanks between and around them, each setting once. *)
(***************************************************************************)
EXTENDS Integers, Sequences

CONSTANTS
    Settings, Letters,      \* capital letters; option letters and digits
    Blank, NewLine,         \* a space or a tab; a line end
    DefaultOpts,            \* DEFAULT_OPTS
    MaxLen                  \* bound: the length of the string

Spaces == {Blank, NewLine}

(***************************************************************************)
(* The documented format: a setting is written once and stands at the      *)
(* start or behind a space, option letters follow a setting directly.      *)
(***************************************************************************)
WellFormed(t) ==
    /\ t \in Seq(Settings \cup Letters \cup Spaces)
    /\ \A k \in DOMAIN t :
          /\ t[k] \in Settings => /\ k > 1 => t[k - 1] \in Spaces
                                 /\ \A m \in DOMAIN t : t[m] = t[k] => m = k
          /\ t[k] \in Letters => k > 1 /\ t[k - 1] \in Settings \cup Letters

ASSUME CfgAssumption ==
    /\ Settings \cap Letters = {} /\ Spaces \cap (Settings \cup Letters) = {}
    /\ WellFormed(DefaultOpts) /\ MaxLen \in Nat

VARIABLES
    phase,          \* "read", "trim", "ask"
    value,          \* the value of /options/bboot
    got,            \* prom_get_options() answered with a length above 0
    options

cfgVars == <<phase, value, got, options>>

Least(S, none) == IF S = {} THEN none ELSE CHOOSE i \in S : \A j \in S : i <= j

(* Indices are C's: the number of characters in front. *)
strspn(s, a) == Least({i \in 0 .. Len(s) - 1 : s[i + 1] \notin a}, Len(s))
strcspn(s, r) == Least({i \in 0 .. Len(s) - 1 : s[i + 1] \in r}, Len(s))
From(s, i) == SubSeq(s, i + 1, Len(s))

(* Where strchr() finds c, or Len(s) for NULL. *)
strchr(s, c) == strcspn(s, {c})
-----------------------------------------------------------------------------
CfgInit == phase = "read" /\ value = << >> /\ got = FALSE /\ options = << >>

Grow == /\ phase = "read" /\ Len(value) < MaxLen
        /\ \E c \in Settings \cup Letters \cup Spaces : WellFormed(Append(value, c)) /\ value' = Append(value, c)
        /\ UNCHANGED <<phase, got, options>>

(* An absent property leaves the default; an empty string is a property. *)
ReadOptions ==
    /\ phase = "read" /\ phase' = "trim"
    /\ got' \in BOOLEAN /\ options' = IF got' THEN value ELSE DefaultOpts
    /\ UNCHANGED value

LeadingBlanks == strspn(options, {Blank})

(* The last character that stays, never one before the first. *)
LastKept(s) ==
    LET ends == {i \in 1 .. Len(s) : \A j \in i + 1 .. Len(s) : s[j] \in Spaces}
    IN  Least({i \in ends : i = 1 \/ s[i] \notin Spaces}, Len(s))

(***************************************************************************)
(* With nothing but blanks the loop starts at options[-1].  What stands in *)
(* front of the string is not known; the string itself stays empty.        *)
(***************************************************************************)
Trim ==
    /\ phase = "trim" /\ phase' = "ask"
    /\ LET s == From(options, LeadingBlanks)
       IN  options' = IF s = << >> THEN s ELSE SubSeq(s, 1, LastKept(s))
    /\ UNCHANGED <<value, got>>

(* cfg_get_option(): what follows the letter. *)
cfg_get_option(s) == From(options, strchr(options, s) + 1)

(* A search that goes on behind the setting. *)
cfg_is_option_far(s, o) ==
    LET p == From(options, strchr(options, s)) IN \E i \in DOMAIN p : p[i] = o
cfg_is_option(s, o) ==
    LET p == From(options, strchr(options, s))
    IN  \E i \in 1 .. strcspn(p, {Blank}) : p[i] = o

(* Questions change nothing. *)
Ask == phase = "ask" /\ UNCHANGED cfgVars

CfgNext == Grow \/ ReadOptions \/ Trim \/ Ask

CfgSpec == CfgInit /\ [][CfgNext]_cfgVars
-----------------------------------------------------------------------------
Source == IF got THEN value ELSE DefaultOpts

(* The setting s of the string t has the option o. *)
HasOption(t, s, o) ==
    \E i, j \in DOMAIN t : i < j /\ t[i] = s /\ t[j] = o /\ \A k \in i + 1 .. j : t[k] \in Letters

(***************************************************************************)
(* The documented meaning: an option belongs to the setting it follows,    *)
(* whatever blanks and line ends are around, and nothing else has it.  A   *)
(* line end inside the string does not separate settings.                  *)
(***************************************************************************)
Separated(t) == \A i \in DOMAIN t : t[i] = NewLine => \A j \in i .. Len(t) : t[j] \in Spaces
OwnOptions ==
    phase = "ask" /\ Separated(Source) => \A s \in Settings, o \in Letters :
        cfg_is_option(s, o) <=> HasOption(Source, s, o)

(* The first letter behind a setting is what cfg_get_option() points at. *)
LevelAsWritten ==
    phase = "ask" => \A i \in DOMAIN Source : Source[i] \in Settings =>
        LET p == cfg_get_option(Source[i])
        IN  IF i < Len(Source) /\ Source[i + 1] \in Letters THEN p # << >> /\ p[1] = Source[i + 1]
            ELSE p = << >> \/ p[1] \in Spaces

(* Nothing but blanks is removed: the settings stay, without blanks around. *)
OnlyBlanksRemoved ==
    phase = "ask" /\ (\E i \in DOMAIN Source : Source[i] \notin Spaces) =>
        /\ \E i \in 0 .. Len(Source) :
              /\ options = SubSeq(Source, i + 1, i + Len(options))
              /\ \A k \in DOMAIN Source : k <= i \/ k > i + Len(options) => Source[k] \in Spaces
        /\ options[1] # Blank /\ options[Len(options)] \notin Spaces

(***************************************************************************)
(* cfg_is_option() and cfg_get_option() answer what the documented format  *)
(* means: an option belongs to the setting it follows, whatever blanks are *)
(* around, and cfg_init() removes nothing but blanks.                      *)
(***************************************************************************)
OptionsAsWritten == OwnOptions /\ LevelAsWritten /\ OnlyBlanksRemoved
=============================================================================
