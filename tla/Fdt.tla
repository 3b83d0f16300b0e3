-------------------------------- MODULE Fdt --------------------------------
(***************************************************************************)
(* The flattened device tree reader (fdt.c): a search through the tokens   *)
(* of the structure block for a property of a node one level below the     *)
(* root, and the three functions that read what was found.                 *)
(*                                                                         *)
(* The block is not chosen beforehand: the next token is any one a tree    *)
(* may have there (properties come before subnodes, the node looked for    *)
(* exists at most once), or one that is no token at all.  A name is TRUE   *)
(* if it is the one looked for.                                            *)
(***************************************************************************)
EXTENDS Integers, Sequences, FiniteSets

CONSTANTS
    MaxTokens, MaxDepth,    \* bounds: length and depth of the tree
    Lengths,                \* lengths of property values, in bytes
    MaxIdx, buflen          \* largest index asked for, size of the buffer

ASSUME FdtAssumption ==
    /\ MaxTokens \in Nat /\ MaxDepth \in Nat /\ Lengths \subseteq Nat
    /\ MaxIdx \in Nat /\ buflen \in Nat \ {0}

VARIABLES
    seen,        \* the tokens read so far
    depth, in_target,
    answer,      \* where the property was found, 0 for NULL
    reader,      \* "check", "walk", "found", "missing", "end"
    got          \* what a getter did: bytes read, bytes written, room for them

Nothing == [read |-> 0, written |-> 0, room |-> 0]

fdtVars == <<seen, depth, in_target, answer, reader, got>>

BEGIN(w) == [tag |-> "begin", wanted |-> w, len |-> 0]
PROP(w, n) == [tag |-> "prop", wanted |-> w, len |-> n]
END_NODE == [tag |-> "end_node", wanted |-> FALSE, len |-> 0]
NOP == [tag |-> "nop", wanted |-> FALSE, len |-> 0]
END == [tag |-> "end", wanted |-> FALSE, len |-> 0]
JUNK == [tag |-> "junk", wanted |-> FALSE, len |-> 0]

Tokens == {BEGIN(w) : w \in BOOLEAN} \cup {PROP(TRUE, n) : n \in Lengths}
          \cup {PROP(FALSE, 0), END_NODE, NOP, END, JUNK}

(* The depth of the tree behind the first k of the tokens ts. *)
Tagged(ts, tag, k) == {j \in 1 .. k : ts[j].tag = tag}
Depth(ts, k) == Cardinality(Tagged(ts, "begin", k)) - Cardinality(Tagged(ts, "end_node", k))

(* The beginnings of nodes one level below the root that token k lies in: one at most. *)
Openers(ts, k) == {j \in 1 .. k : /\ ts[j].tag = "begin" /\ Depth(ts, j) = 2
                                  /\ \A m \in j .. k : Depth(ts, m) >= 2}
InNode(ts, k) == \E j \in Openers(ts, k) : ts[j].wanted

(* The last token that is not a NOP has one of the tags. *)
LastIs(ts, tags) == \E j \in DOMAIN ts : /\ ts[j].tag \in tags
                                         /\ \A m \in j + 1 .. Len(ts) : ts[m].tag = "nop"

(* What may come next in a tree. *)
Legal(t) ==
    LET d == Depth(seen, Len(seen))
        first == \A j \in DOMAIN seen : seen[j].tag = "nop"
        once == \A j \in DOMAIN seen : seen[j].tag = "begin" /\ Depth(seen, j) = 2 => ~ seen[j].wanted
    IN  CASE t.tag = "begin" -> (first \/ d \in 1 .. MaxDepth - 1) /\ (d = 1 /\ t.wanted => once)
          [] t.tag = "prop" -> LastIs(seen, {"begin", "prop"})
          [] t.tag = "end_node" -> d > 0
          [] t.tag = "end" -> d = 0 /\ LastIs(seen, {"end_node"})
          [] OTHER -> TRUE
-----------------------------------------------------------------------------
FdtInit == /\ seen = << >> /\ depth = 0 /\ in_target = FALSE /\ answer = 0
           /\ reader = "check" /\ got = Nothing

(* fdt_check(): without the magic number there is no tree to look at. *)
fdt_check ==
    /\ reader = "check" /\ reader' \in {"walk", "missing"}
    /\ UNCHANGED <<seen, depth, in_target, answer, got>>

Read(t) == /\ reader = "walk" /\ Len(seen) < MaxTokens
           /\ t \in Tokens /\ Legal(t)
           /\ seen' = Append(seen, t) /\ UNCHANGED got

Return(i) == answer' = i /\ reader' = IF i = 0 THEN "missing" ELSE "found"

(* A search that takes every node of the name, at any depth. *)
IsTarget_deep(t) == t.wanted
IsTarget(t) == depth + 1 = 2 /\ t.wanted

BeginNode(t) ==
    /\ t.tag = "begin" /\ Read(t)
    /\ depth' = depth + 1
    /\ in_target' = (in_target \/ IsTarget(t))
    /\ UNCHANGED <<answer, reader>>

EndNode(t) ==
    /\ t.tag = "end_node" /\ Read(t)
    /\ IF depth = 2 /\ in_target THEN Return(0) /\ UNCHANGED <<depth, in_target>>
       ELSE /\ depth' = depth - 1 /\ in_target' = FALSE
            /\ IF depth - 1 < 0 THEN Return(0) ELSE UNCHANGED <<answer, reader>>

Property(t) ==
    /\ t.tag = "prop" /\ Read(t)
    /\ IF in_target /\ t.wanted THEN Return(Len(seen) + 1) ELSE UNCHANGED <<answer, reader>>
    /\ UNCHANGED <<depth, in_target>>

Nop(t) == t.tag = "nop" /\ Read(t) /\ UNCHANGED <<depth, in_target, answer, reader>>

EndOfTree(t) ==
    /\ t.tag \in {"end", "junk"} /\ Read(t) /\ Return(0)
    /\ UNCHANGED <<depth, in_target>>

(* The getters, with the length of the value that was found. *)
len == seen[answer].len

HasWord(idx) == len >= 4 * (idx + 1)

fdt_get_prop_u32_idx(idx) ==
    /\ reader = "found" /\ reader' = "end"
    /\ got' = IF HasWord(idx) THEN [read |-> 4 * (idx + 1), written |-> 4, room |-> 4] ELSE Nothing
    /\ UNCHANGED <<seen, depth, in_target, answer>>

(* fdt_get_prop_u32() is the same with a length of at least 4. *)
fdt_get_prop_u32 == fdt_get_prop_u32_idx(0)

(* A string, cut to the buffer, with a NUL behind it. *)
fdt_get_prop_str ==
    /\ reader = "found" /\ reader' = "end"
    /\ LET copy == IF len < buflen THEN len ELSE buflen - 1
       IN  got' = IF len < 1 THEN Nothing
                  ELSE [read |-> copy, written |-> copy + 1, room |-> buflen]
    /\ UNCHANGED <<seen, depth, in_target, answer>>

Finished == reader \in {"missing", "end"} /\ UNCHANGED fdtVars

(* The tree is longer than the bound. *)
Cut == reader = "walk" /\ Len(seen) = MaxTokens /\ UNCHANGED fdtVars

FdtNext == \/ fdt_check
           \/ \E t \in Tokens : BeginNode(t) \/ EndNode(t) \/ Property(t) \/ Nop(t) \/ EndOfTree(t)
           \/ fdt_get_prop_u32 \/ \E i \in 1 .. MaxIdx : fdt_get_prop_u32_idx(i)
           \/ fdt_get_prop_str
           \/ Finished \/ Cut

FdtSpec == FdtInit /\ [][FdtNext]_fdtVars
-----------------------------------------------------------------------------
(* The property looked for in the node looked for or below it, and as one  *)
(* of the node's own.                                                      *)
Wanted(ts, k) == ts[k].tag = "prop" /\ ts[k].wanted /\ InNode(ts, k)
Own(ts, k) == Wanted(ts, k) /\ Depth(ts, k) = 2

(***************************************************************************)
(* A property that the node has is never missed and is the one returned,   *)
(* and no property is returned that lies outside of the node.              *)
(***************************************************************************)
FindsInNode ==
    /\ \A i \in DOMAIN seen : Own(seen, i) => reader \in {"found", "end"} /\ Own(seen, answer)
    /\ answer # 0 => Wanted(seen, answer)

(* A getter reads no byte behind the value and fills no more than its buffer. *)
GettersInBounds ==
    reader = "end" => got.read <= len /\ got.written <= got.room

(***************************************************************************)
(* fdt_find_prop() returns the property of the node it was asked for if    *)
(* there is one, and never a property outside of that node, also in trees  *)
(* that are broken or end early; the getters stay within value and buffer. *)
(* What it does when the node has no such property but a subnode has is    *)
(* OwnPropertyOnly's matter.                                               *)
(***************************************************************************)
TreeRead == FindsInNode /\ GettersInBounds

(***************************************************************************)
(* "Only supports reading properties from top-level nodes", "a property in *)
(* a named node (one level below root) [...] or NULL if not found": what   *)
(* fdt_find_prop() returns is a property of the named node itself.         *)
(***************************************************************************)
OwnPropertyOnly == answer # 0 => Own(seen, answer)
=============================================================================
