----------------------------- MODULE MCKickLoad -----------------------------
(***************************************************************************)
(* Small machines for KickLoad.  Addresses are scaled down (a Word is 8192 *)
(* here), the sizes of the structs and the roundings are the real ones.    *)
(***************************************************************************)
EXTENDS KickLoad

MCPath == {"loader", "dos", "dir/"}

\* 36 + 28 + 1 is one more than a multiple of 32
MCNameLen == [p \in Path |-> CASE p = "loader" -> 6 [] p = "dos" -> 28 [] p = "dir/" -> 0]

KickFile(size, ok) == [size |-> size, ok |-> ok]

Files == [p \in (Path \ {"dir/"}) \cup {KICKLAYOUT} |->
            CASE p = "loader" -> KickFile(101, TRUE)
              [] p = "dos"    -> KickFile(64, TRUE)
              [] OTHER        -> KickFile(40, TRUE)]

KickZip(addr, len) == [addr |-> addr, len |-> len, valid |-> TRUE, files |-> Files]

Brd(of, memsize, exec_addr, stack_top, taken) ==
    [of |-> of, memsize |-> memsize, exec_addr |-> exec_addr,
     stack_top |-> stack_top, taken |-> taken]

\* AmigaOne: the zip below exec_addr; Sam460: above it, and a stack
AmigaOne(memsize) == [brd |-> Brd(FALSE, memsize, 512, 0, {}),
                      zip |-> KickZip(256, 200)]
Sam460(memsize) == [brd |-> Brd(FALSE, memsize, 512, memsize - 64, {}),
                    zip |-> KickZip(640, 200)]
Pegasos2(taken) == [brd |-> Brd(TRUE, 4096, 128, 0,
                                {Region(256, 200), Region(0, 64)} \cup taken),
                    zip |-> KickZip(256, 200)]

BadZips == {[AmigaOne(4096) EXCEPT !.zip.addr = 0],
            [AmigaOne(4096) EXCEPT !.zip.len = 0],
            [AmigaOne(4096) EXCEPT !.zip.valid = FALSE],
            [AmigaOne(4096) EXCEPT !.zip.files = [p \in {"dos"} |-> Files[p]]],
            [AmigaOne(4096) EXCEPT !.zip.files["layout"].ok = FALSE],
            [AmigaOne(4096) EXCEPT !.zip.files["dos"] = KickFile(9, FALSE)],
            [AmigaOne(4096) EXCEPT !.zip.files =
                                    [p \in {"layout", "loader"} |-> Files[p]]]}

\* memories in which nothing, only the list, only the loader, the loader
\* and one module fit above KICKLIST_ADDR
MCMachine == BadZips \cup {Pegasos2({})}
                \cup {AmigaOne(m) : m \in {400, 1024, 1040, 1200, 1300, 4096}}
                \cup {Sam460(4096)}

\* firmware that holds memory just above KICKLIST_ADDR
MCRefusing == {Pegasos2({Region(1100, 64)})}

\* a zip that reaches up to exec_addr
MCLongZip == {[AmigaOne(4096) EXCEPT !.zip.len = 230]}

\* the Sam460 with its stack within reach of the modules
MCLowStack == {Sam460(1300)}
=============================================================================
