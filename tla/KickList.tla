------------------------------ MODULE KickList ------------------------------
(***************************************************************************)
(* What loading a Kickstart promises to AmigaOS, whatever the pointers and *)
(* addresses it takes: a sequence of modules that only grows at its end,   *)
(* the loader first, each at memory of its own, and that is handed over    *)
(* once, complete and not empty, or not at all.                            *)
(***************************************************************************)
EXTENDS Memory, Sequences

VARIABLES st,        \* "loading", "booted" or "failed"
          mods       \* the modules: records [id, name, address, size]

Image(m) == Region(m.address, m.size)

(***************************************************************************)
(* One more module, at the end.  The first is the loader (id 1), the rest  *)
(* are plain modules (id 2), and its bytes are nobody else's.              *)
(***************************************************************************)
Load ==
    /\ st = "loading" /\ UNCHANGED st
    /\ Len(mods') = Len(mods) + 1
    /\ \A k \in 1 .. Len(mods) : /\ mods'[k] = mods[k]
                                 /\ ~ Overlap(Image(mods[k]),
                                              Image(mods'[Len(mods) + 1]))
    /\ mods'[Len(mods) + 1].id = IF mods = <<>> THEN 1 ELSE 2

Boot == /\ st = "loading" /\ mods # <<>>
        /\ st' = "booted" /\ UNCHANGED mods

Fail == /\ st = "loading"
        /\ st' = "failed" /\ UNCHANGED mods

Init == st = "loading" /\ mods = <<>>

Next == Load \/ Boot \/ Fail

Spec == Init /\ [][Next]_<<st, mods>>
=============================================================================
