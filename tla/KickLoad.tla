------------------------------ MODULE KickLoad ------------------------------
(***************************************************************************)
(* boot_aos.c: boot_aos_zipkick() opens the Kickstart zip, extracts the    *)
(* Kicklayout behind it, reads it line by line and loads the modules of    *)
(* one of its configurations into memory, linked into the kicklist that    *)
(* AmigaOS is started with.  Memory comes from the claim() of the board:   *)
(* no_claim() of the AmigaOne and the Sam460 only compares with the size   *)
(* of memory, of_claim() of the Pegasos2 asks Open Firmware.               *)
(*                                                                         *)
(* Contents of files are abstracted to their size and to whether they can  *)
(* be extracted; the text of the Kicklayout is a line at a time, chosen    *)
(* when it is read, and kept in text.  live holds every region of memory   *)
(* in use, claims what claim() granted and refused whether Open Firmware   *)
(* ever answered a claim with its error: these three only observe.         *)
(***************************************************************************)
EXTENDS Memory, AosList, Sequences

CONSTANTS
    KICKLIST_ADDR,   \* where the kicklist and the modules go
    Config,          \* the configuration of the Kicklayout to load
    Path,            \* what an EXEC or MODULE line can name
    NameLen,         \* length of a path's part after its last '/'
    KICKLAYOUT,      \* the path of the Kicklayout in the zip
    Machine,         \* boards and zips to boot: records [brd, zip]
    MaxLines         \* bound: lines of the Kicklayout that are read

sizeof_list == 12
sizeof_module == 36
PROM_ERROR == Word - 1       \* (void *)-1, the answer of a failed claim

(***************************************************************************)
(* A board has the size of its memory, the address AmigaOS's loader goes   *)
(* to, whether claim() is Open Firmware's and then the regions the         *)
(* firmware holds already.  stack_top is 0 when the stack is kept.         *)
(***************************************************************************)
BrdType == [of : BOOLEAN, memsize : Nat, exec_addr : Nat, stack_top : Nat,
            taken : SUBSET [lo : Nat, len : Nat]]

IsZip(z) == /\ z.addr \in Nat /\ z.len \in Nat /\ z.valid \in BOOLEAN
            /\ DOMAIN z.files \subseteq Path \cup {KICKLAYOUT}
            /\ \A p \in DOMAIN z.files : /\ z.files[p].size \in Nat
                                         /\ z.files[p].ok \in BOOLEAN

ASSUME KickLoadAssumption ==
    /\ KICKLIST_ADDR \in Nat /\ KICKLIST_ADDR > 0
    /\ Config \in Nat /\ Config > 0
    /\ MaxLines \in Nat
    /\ NameLen \in [Path -> Nat]
    /\ \A m \in Machine : m.brd \in BrdType /\ IsZip(m.zip)

VARIABLES
    brd,         \* the board
    zip,         \* the zip: addr, len, valid, files: path -> [size, ok]
    pc,          \* "open", "parse" or "ret"
    ret,         \* what boot_aos_zipkick() returned
    c,           \* LABEL lines seen
    avail,       \* where the next claim goes
    kicklist,    \* the list header and its nodes
    text,        \* the lines read so far
    live,        \* regions in use: [kind, n, lo, len], n the line number
    claims,      \* regions granted by claim()
    refused      \* a claim was answered with PROM_ERROR

vars == <<brd, zip, pc, ret, c, avail, kicklist, text, live, claims, refused>>
-----------------------------------------------------------------------------
(***************************************************************************)
(* claim() of the boards, given the regions taken so far.                  *)
(***************************************************************************)
(* A no_claim() that lets the last claim run past the end of memory. *)
no_claim_bug(addr, size) == IF addr < brd.memsize THEN addr ELSE NULL

no_claim(addr, size) == IF Add(addr, size) < brd.memsize THEN addr ELSE NULL

prom_claim(addr, size, cs) ==
    IF /\ addr + size <= brd.memsize
       /\ \A r \in cs \cup brd.taken : ~ Overlap(r, Region(addr, size))
    THEN addr ELSE PROM_ERROR

claim(addr, size, cs) ==
    IF brd.of THEN prom_claim(addr, size, cs) ELSE no_claim(addr, size)

Granted(cs, p, size) ==
    IF p \in {NULL, PROM_ERROR} THEN cs ELSE cs \cup {Region(p, size)}

Use(kind, n, lo, len) == [kind |-> kind, n |-> n, lo |-> lo, len |-> len]

Line == [kw : {"COMMENT", "LABEL", "OTHER", "NUL"}, path : {KICKLAYOUT}]
            \cup [kw : {"EXEC", "MODULE"}, path : Path]

(* The payload add_module() writes; the list fills in the two links. *)
Module(id, path, address) ==
    [n_succ |-> NULL, n_pred |-> NULL, name |-> path, id |-> id,
     address |-> address, size |-> zip.files[path].size]

(* The module struct and, right behind it, its name. *)
node_len(path) == sizeof_module + NameLen[path] + 1
-----------------------------------------------------------------------------
Init == /\ \E m \in Machine : brd = m.brd /\ zip = m.zip
        /\ pc = "open" /\ ret = NULL
        /\ c = 0 /\ avail = NULL /\ kicklist = NoList
        /\ text = <<>> /\ claims = {} /\ refused = FALSE
        /\ live = {Use("zip", 0, zip.addr, zip.len)}

Fail == pc' = "ret" /\ ret' = NULL

(***************************************************************************)
(* No initrd, not a zip, or no Kicklayout in it.                           *)
(***************************************************************************)
NoKicklayout ==
    /\ pc = "open"
    /\ \/ zip.addr = NULL \/ zip.len = 0
       \/ ~ zip.valid
       \/ KICKLAYOUT \notin DOMAIN zip.files
    /\ Fail
    /\ UNCHANGED <<brd, zip, c, avail, kicklist, text, live, claims, refused>>

kicklayout_len == zip.files[KICKLAYOUT].size

(***************************************************************************)
(* The Kicklayout is extracted right behind the zip, with two bytes more   *)
(* for the newline and the NUL that end it.                                *)
(***************************************************************************)
LoadKicklayout ==
    /\ pc = "open"
    /\ zip.addr # NULL /\ zip.len # 0 /\ zip.valid
    /\ KICKLAYOUT \in DOMAIN zip.files
    /\ LET at == Add(zip.addr, zip.len)
           p  == claim(at, Add(kicklayout_len, 2), claims)
       IN  /\ claims' = Granted(claims, p, Add(kicklayout_len, 2))
           /\ refused' = (refused \/ p = PROM_ERROR)
           /\ \/ /\ p = NULL
                 /\ Fail /\ UNCHANGED <<live, avail>>
              \/ /\ p # NULL
                 /\ live' = live \cup {Use("text", 0, p, kicklayout_len + 2)}
                 /\ \/ /\ ~ zip.files[KICKLAYOUT].ok
                       /\ Fail /\ UNCHANGED avail
                    \/ /\ zip.files[KICKLAYOUT].ok
                       /\ pc' = "parse" /\ avail' = KICKLIST_ADDR
                       /\ UNCHANGED ret
    /\ UNCHANGED <<brd, zip, c, kicklist, text>>
-----------------------------------------------------------------------------
(***************************************************************************)
(* The loop over the lines.  A line whose text has a NUL in it has no end. *)
(***************************************************************************)
ReadLine(l) == /\ pc = "parse"
               /\ Len(text) < MaxLines
               /\ text' = Append(text, l)

NewLine == Len(text) + 1

(* Blank lines, comments and what is not of the configuration. *)
SkipLine(l) ==
    /\ ReadLine(l)
    /\ \/ l.kw = "COMMENT"
       \/ l.kw \in {"EXEC", "MODULE", "OTHER"} /\ c # Config
    /\ UNCHANGED <<brd, zip, pc, ret, c, avail, kicklist, live, claims, refused>>

(* A LABEL before the one looked for. *)
EarlierLabel(l) ==
    /\ ReadLine(l)
    /\ l.kw = "LABEL" /\ c + 1 < Config
    /\ c' = c + 1
    /\ UNCHANGED <<brd, zip, pc, ret, avail, kicklist, live, claims, refused>>

(* The LABEL looked for: the list header is the first thing at avail. *)
ConfigLabel(l) ==
    /\ ReadLine(l)
    /\ l.kw = "LABEL" /\ c + 1 = Config
    /\ c' = c + 1
    /\ LET p == claim(avail, sizeof_list, claims)
       IN  /\ claims' = Granted(claims, p, sizeof_list)
           /\ refused' = (refused \/ p = PROM_ERROR)
           /\ \/ /\ p = NULL
                 /\ Fail /\ UNCHANGED <<avail, kicklist, live>>
              \/ /\ p # NULL
                 /\ kicklist' = alist_init(p)
                 /\ live' = live \cup {Use("list", NewLine, p, sizeof_list)}
                 /\ avail' = Add(avail, sizeof_list)
                 /\ UNCHANGED <<pc, ret>>
    /\ UNCHANGED <<brd, zip>>

(* load_module_from_zip() before its first claim. *)
CannotLoad(path) == NameLen[path] = 0 \/ path \notin DOMAIN zip.files

(***************************************************************************)
(* load_module_from_zip() with data: the loader itself goes to exec_addr   *)
(* and only its module struct to avail.                                    *)
(***************************************************************************)
LoadExec(path) ==
    LET size == zip.files[path].size
        clen == ROUND_UP(node_len(path), 32)
        bin  == claim(brd.exec_addr, size, claims)
        cs   == Granted(claims, bin, size)
        mod  == claim(avail, clen, cs)
        image == Use("image", NewLine, bin, size)
    IN  \/ /\ bin = NULL
           /\ Fail /\ UNCHANGED <<avail, kicklist, live, claims, refused>>
        \/ /\ bin # NULL /\ ~ zip.files[path].ok
           /\ claims' = cs /\ refused' = (refused \/ bin = PROM_ERROR)
           /\ live' = live \cup {image}
           /\ Fail /\ UNCHANGED <<avail, kicklist>>
        \/ /\ bin # NULL /\ zip.files[path].ok
           /\ claims' = Granted(cs, mod, clen)
           /\ refused' = (refused \/ PROM_ERROR \in {bin, mod})
           /\ \/ /\ mod = NULL
                 /\ live' = live \cup {image}
                 /\ Fail /\ UNCHANGED <<avail, kicklist>>
              \/ /\ mod # NULL
                 /\ live' = live \cup
                        {image, Use("node", NewLine, mod, node_len(path))}
                 /\ kicklist' = alist_add_tail(kicklist, mod, Module(1, path, bin))
                 /\ avail' = Add(avail, clen)
                 /\ UNCHANGED <<pc, ret>>

(***************************************************************************)
(* load_module_from_zip() without data: the file and, on the next word     *)
(* boundary behind it, the module struct come from one claim at avail.     *)
(***************************************************************************)
(* A struct that may start in the last word of its file. *)
mod_offset_down(path) == ROUND_DOWN(zip.files[path].size, 4)

mod_offset(path) == ROUND_UP(zip.files[path].size, 4)

(* A claim that leaves out the NUL behind the module's name. *)
module_clen_bug(path) ==
    ROUND_UP(Add(mod_offset(path), sizeof_module + NameLen[path]), 32)

module_clen(path) == ROUND_UP(Add(mod_offset(path), node_len(path)), 32)

LoadModule(path) ==
    LET size == zip.files[path].size
        clen == module_clen(path)
        bin  == claim(avail, clen, claims)
        mod  == Add(avail, mod_offset(path))
        image == Use("image", NewLine, bin, size)
    IN  \/ /\ bin = NULL
           /\ Fail /\ UNCHANGED <<avail, kicklist, live, claims, refused>>
        \/ /\ bin # NULL
           /\ claims' = Granted(claims, bin, clen)
           /\ refused' = (refused \/ bin = PROM_ERROR)
           /\ \/ /\ ~ zip.files[path].ok
                 /\ live' = live \cup {image}
                 /\ Fail /\ UNCHANGED <<avail, kicklist>>
              \/ /\ zip.files[path].ok
                 /\ live' = live \cup
                        {image, Use("node", NewLine, mod, node_len(path))}
                 /\ kicklist' = alist_add_tail(kicklist, mod, Module(2, path, bin))
                 /\ avail' = Add(avail, clen)
                 /\ UNCHANGED <<pc, ret>>

(* A test for a line of the configuration that lets them come in any order. *)
WantedLine_any(l) == c = Config /\ l.kw \in {"EXEC", "MODULE"}

(* The first line of the configuration has to be an EXEC, the others have  *)
(* to be MODULEs.                                                          *)
WantedLine(l) == /\ c = Config
                 /\ l.kw = IF IsEmpty(kicklist) THEN "EXEC" ELSE "MODULE"

ExecLine(l) ==
    /\ ReadLine(l)
    /\ WantedLine(l) /\ l.kw = "EXEC" /\ ~ CannotLoad(l.path)
    /\ LoadExec(l.path)
    /\ UNCHANGED <<brd, zip, c>>

ModuleLine(l) ==
    /\ ReadLine(l)
    /\ WantedLine(l) /\ l.kw = "MODULE" /\ ~ CannotLoad(l.path)
    /\ LoadModule(l.path)
    /\ UNCHANGED <<brd, zip, c>>

(* A line that cannot be read, is out of place or names no file. *)
BadLine(l) ==
    /\ ReadLine(l)
    /\ \/ l.kw = "NUL"
       \/ c = Config /\ l.kw \in {"EXEC", "MODULE", "OTHER"} /\ ~ WantedLine(l)
       \/ WantedLine(l) /\ CannotLoad(l.path)
    /\ Fail
    /\ UNCHANGED <<brd, zip, c, avail, kicklist, live, claims, refused>>

(* After the loop: the list is returned unless nothing was loaded. *)
Finish == IF kicklist.at = NULL \/ IsEmpty(kicklist)
          THEN Fail
          ELSE pc' = "ret" /\ ret' = kicklist.at

(* A LABEL behind the configuration that is read over. *)
LaterLabel_ignored(l) ==
    /\ ReadLine(l)
    /\ l.kw = "LABEL" /\ c + 1 > Config
    /\ UNCHANGED <<brd, zip, pc, ret, c, avail, kicklist, live, claims, refused>>

(* A LABEL behind the configuration ends the loop. *)
LaterLabel(l) ==
    /\ ReadLine(l)
    /\ l.kw = "LABEL" /\ c + 1 > Config
    /\ c' = c + 1
    /\ Finish
    /\ UNCHANGED <<brd, zip, avail, kicklist, live, claims, refused>>

(* The end of the text, or a NUL at the start of a line. *)
EndOfText ==
    /\ pc = "parse"
    /\ Finish
    /\ UNCHANGED <<brd, zip, c, avail, kicklist, text, live, claims, refused>>

(* boot_aos_zipkick() has returned. *)
Returned == pc = "ret" /\ UNCHANGED vars

Next == \/ NoKicklayout
        \/ LoadKicklayout
        \/ \E l \in Line : \/ SkipLine(l)
                           \/ EarlierLabel(l) \/ ConfigLabel(l) \/ LaterLabel(l)
                           \/ ExecLine(l) \/ ModuleLine(l)
                           \/ BadLine(l)
        \/ EndOfText
        \/ Returned

Spec == Init /\ [][Next]_vars
-----------------------------------------------------------------------------
(***************************************************************************)
(* Every variable has its type: the addresses are numbers, the list is a   *)
(* list header with module structs linked to it (boot_aos.c).              *)
(***************************************************************************)
NodeType == [n_succ : Int, n_pred : Int, name : Path, id : {1, 2},
             address : Int, size : Nat]

IsList(l) == /\ l.at \in Int /\ l.l_head \in Int /\ l.l_tail \in Int
             /\ l.l_tailpred \in Int
             /\ \A a \in DOMAIN l.node : a \in Int /\ l.node[a] \in NodeType

IsUse(u) == /\ u.kind \in {"zip", "text", "list", "image", "node"}
            /\ u.n \in Nat /\ u.lo \in Int /\ u.len \in Nat

TypeOK == /\ brd \in BrdType /\ IsZip(zip)
          /\ pc \in {"open", "parse", "ret"} /\ ret \in Int
          /\ c \in Nat /\ avail \in Int
          /\ IsList(kicklist)
          /\ text \in Seq(Line)
          /\ \A u \in live : IsUse(u)
          /\ \A r \in claims : r.lo \in Int /\ r.len \in Nat
          /\ refused \in BOOLEAN

(***************************************************************************)
(* A machine that the fixed addresses of the code suit: no sum wraps       *)
(* around, and where claim() only compares with the size of memory, the    *)
(* zip and the text behind it end below KICKLIST_ADDR and no file reaches  *)
(* from exec_addr to any of them.  Where Open Firmware decides it is       *)
(* enough that it knows of the zip.                                        *)
(***************************************************************************)
NoWrap == /\ brd.memsize < Word
          /\ KICKLIST_ADDR + sizeof_list < Word
          /\ KICKLAYOUT \in DOMAIN zip.files =>
                zip.addr + zip.len + kicklayout_len + 2 < PROM_ERROR
          /\ \A p \in DOMAIN zip.files \cap Path :
                brd.memsize + zip.files[p].size + node_len(p) + 64 < Word

InitrdRegion == Region(zip.addr, zip.len + kicklayout_len + 2)

ImageRegion(p) == Region(brd.exec_addr, zip.files[p].size)

Roomy ==
    /\ NoWrap
    /\ IF brd.of THEN Region(zip.addr, zip.len) \in brd.taken
       ELSE KICKLAYOUT \in DOMAIN zip.files =>
                /\ End(InitrdRegion) <= KICKLIST_ADDR
                /\ \A p \in DOMAIN zip.files \cap Path :
                        /\ End(ImageRegion(p)) <= KICKLIST_ADDR
                        /\ ~ Overlap(ImageRegion(p), InitrdRegion)

(***************************************************************************)
(* Nothing in use is written over.  The zip while it is read, the text of  *)
(* the Kicklayout, the list header, the loader at exec_addr, the modules   *)
(* and their structs have no byte in common, however many modules of       *)
(* whatever size the configuration has, although no_claim() never looks at *)
(* what it granted before.                                                 *)
(***************************************************************************)
NothingOverwritten ==
    ~ refused => \A u, v \in live : u # v => ~ Overlap(u, v)

LiveRegionsDisjoint == Roomy => NothingOverwritten

(***************************************************************************)
(* What load_module_from_zip() and boot_aos_zipkick() write they claimed:  *)
(* the rounded sizes they pass to claim() cover the file, its module       *)
(* struct, the name with its NUL and the terminator of the Kicklayout.     *)
(***************************************************************************)
WritesWithinClaims ==
    Roomy /\ ~ refused =>
        \A u \in live : u.kind # "zip" => \E r \in claims : Within(u, r)

(* What claim() granted is memory of the machine. *)
ClaimsWithinMemory ==
    Roomy /\ ~ refused => \A r \in claims : r.lo + r.len <= brd.memsize

(***************************************************************************)
(* The inductive invariant behind the theorems about memory: what claims   *)
(* there are and where, with the state of the list that goes with them.    *)
(***************************************************************************)
IsText(r) == r = Region(zip.addr + zip.len, kicklayout_len + 2)

IsExec(r) == \E p \in DOMAIN zip.files \cap Path : r = ImageRegion(p)

IsKick(r) == KICKLIST_ADDR <= r.lo /\ r.lo + r.len <= avail

(* The list header at KICKLIST_ADDR, and nodes behind it. *)
Shape(l) ==
    /\ l.at = KICKLIST_ADDR /\ l.l_tail = 0
    /\ DOMAIN l.node = {} => /\ l.l_head = KICKLIST_ADDR + 4
                             /\ l.l_tailpred = KICKLIST_ADDR
    /\ DOMAIN l.node # {} => {l.l_head, l.l_tailpred} \subseteq DOMAIN l.node
    /\ \A a \in DOMAIN l.node : /\ KICKLIST_ADDR + sizeof_list <= a
                                /\ l.node[a].n_succ > 0

(* Before and after the LABEL of the configuration. *)
ListInv ==
    /\ pc = "open" => /\ c = 0 /\ claims = {} /\ kicklist = NoList
                      /\ live = {Use("zip", 0, zip.addr, zip.len)}
    /\ pc # "ret" => c <= Config
    /\ pc = "parse" => KICKLAYOUT \in DOMAIN zip.files
    /\ pc = "parse" /\ c < Config =>
            avail = KICKLIST_ADDR /\ \A r \in claims : IsText(r)
    /\ pc = "parse" /\ c = Config =>
            /\ Shape(kicklist)
            /\ KICKLIST_ADDR + sizeof_list <= avail /\ avail <= brd.memsize
            /\ DOMAIN kicklist.node = {} =>
                    \A r \in claims : IsText(r) \/ IsKick(r)

ClaimsInv ==
    /\ pc # "ret" => \A r \in claims : IsText(r) \/ IsExec(r) \/ IsKick(r)
    /\ \A r \in claims : r.lo + r.len <= brd.memsize
    /\ \A u \in live : \/ u = Use("zip", 0, zip.addr, zip.len)
                       \/ u.kind # "zip" /\ \E r \in claims : Within(u, r)

KickInv == Roomy /\ ~ refused => /\ ListInv
                                 /\ ClaimsInv
                                 /\ NothingOverwritten

(***************************************************************************)
(* The kicklist can be walked both ways at any time, and its structs and   *)
(* their names start on a word boundary when the list does.                *)
(***************************************************************************)
KicklistWellFormed ==
    kicklist.at # NULL /\ ~ refused =>
        /\ WellFormed(kicklist)
        /\ \A a \in DOMAIN kicklist.node : (a - kicklist.at) % 4 = 0

(***************************************************************************)
(* A returned list has exactly the lines of the configuration asked for,   *)
(* in their order, the EXEC first with id 1 at exec_addr, each struct and  *)
(* each image in memory that was written for that line of the text.        *)
(***************************************************************************)
LabelsUpTo(t, i) == Cardinality({j \in 1 .. i : t[j].kw = "LABEL"})

ConfigLines(t) == {i \in 1 .. Len(t) : /\ LabelsUpTo(t, i) = Config
                                       /\ t[i].kw \notin {"LABEL", "COMMENT"}}

(* Line i was loaded as the k-th module, with its struct at a. *)
LoadedAs(i, k, a) ==
    LET m == kicklist.node[a]
    IN  /\ text[i] = [kw |-> IF k = 1 THEN "EXEC" ELSE "MODULE", path |-> m.name]
        /\ m.id = IF k = 1 THEN 1 ELSE 2
        /\ k = 1 => m.address = brd.exec_addr
        /\ Use("image", i, m.address, m.size) \in live
        /\ Use("node", i, a, node_len(m.name)) \in live

ListMatchesText ==
    ret # NULL /\ ~ refused =>
        /\ Size(kicklist) = Cardinality(ConfigLines(text)) /\ Size(kicklist) > 0
        /\ \A i \in ConfigLines(text) :
              LET k == Cardinality({j \in ConfigLines(text) : j <= i})
              IN  LoadedAs(i, k, Forward(kicklist)[k])

(***************************************************************************)
(* Loading implements KickList: walking the list from its header gives a   *)
(* sequence of modules that only ever grows at its end.                    *)
(***************************************************************************)
NoModule == [id |-> 0, name |-> KICKLAYOUT, address |-> NULL, size |-> 0]

ModulesOf(l) ==
    LET f == Forward(l)
    IN  [k \in 1 .. Size(l) |->
            IF f[k] \in DOMAIN l.node
            THEN LET m == l.node[f[k]]
                 IN  [id |-> m.id, name |-> m.name, address |-> m.address,
                      size |-> m.size]
            ELSE NoModule]

Modules == ModulesOf(kicklist)

Status == IF pc # "ret" THEN "loading"
          ELSE IF ret = NULL THEN "failed" ELSE "booted"

Promise == INSTANCE KickList WITH st <- Status, mods <- Modules

KickListSpec == Promise!Spec

(***************************************************************************)
(* An allocation that fails ends the boot ("Could not allocate memory" is  *)
(* printed and NULL returned at every claim of boot_aos.c).                *)
(***************************************************************************)
RefusedClaimFails == refused => pc = "ret" /\ ret = NULL

(***************************************************************************)
(* The top of memory, from the stack up, is left to the firmware           *)
(* (brd_sam460.c).                                                         *)
(***************************************************************************)
StackAreaFree ==
    brd.stack_top # 0 =>
        \A u \in live : ~ Overlap(u, Region(brd.stack_top,
                                            brd.memsize - brd.stack_top))
=============================================================================
