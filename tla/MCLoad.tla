------------------------------- MODULE MCLoad -------------------------------
(***************************************************************************)
(* The way of a module into memory: boot_aos_zipkick() and the Kicklayout  *)
(* (KickLoad), the directory of the archive (Zip), the blocks of a deflate *)
(* stream (Puff) and its bits and codes (Huffman).  Each relies on the one *)
(* below only for what it promises, so one of them runs at a time, chosen  *)
(* at the start.                                                           *)
(***************************************************************************)
EXTENDS MCKickLoad, Puff, Zip, Huffman, TLC

Seqs == INSTANCE SequencesExt

VARIABLE unit       \* "kick", "zip", "huffman" or "puff"

loadVars == <<unit, vars, zipVars, bitsVars, puffVars>>
-----------------------------------------------------------------------------
(* Archives laid out as zip -r does: local headers with the data behind    *)
(* them, the central directory, the end record.                            *)
Name(n, l) == [name |-> n, len |-> l]
WantedNames == {Name("Kicklayout", 20), Name("kernel", 16), Name("module", 16), Name("absent", 16)}

\* a file: name, length of the extra field and comment, method, data
File(n, x, k, m, csize, usize, expands, good) ==
    [name |-> n.name, namelen |-> n.len, extralen |-> x, commentlen |-> k, method |-> m,
     csize |-> csize, usize |-> usize, data |-> [file |-> n.name, out |-> expands, good |-> good]]

LocalLen(f) == LocalHeader + f.namelen + f.extralen + f.csize
GlobalLen(f) == GlobalHeader + f.namelen + f.extralen + f.commentlen
SumOf(Op(_), s) == Seqs!FoldSeq(LAMBDA f, n : Op(f) + n, 0, s)
OffsetOf(Op(_), s, k) == SumOf(Op, SubSeq(s, 1, k - 1))

\* extra: end records in the data; missing: entries the end record has too many or few
Archive(s, extra, known, missing, disk) ==
    LET dir == SumOf(LocalLen, s)
        end == dir + SumOf(GlobalLen, s)
        Loc(k) == OffsetOf(LocalLen, s, k)
        Glo(k) == dir + OffsetOf(GlobalLen, s, k)
        own == [disk |-> disk, dirdisk |-> disk, entries |-> Len(s) + missing,
                 here |-> Len(s) + missing, dir |-> dir]
        inner == [disk |-> 0, dirdisk |-> 0, entries |-> 1, here |-> 1, dir |-> LocalHeader]
    IN  [lfh |-> [o \in {Loc(k) : k \in DOMAIN s} |-> s[CHOOSE k \in DOMAIN s : Loc(k) = o]],
         gfh |-> [o \in {Glo(k) : k \in DOMAIN s} |->
                    LET k == CHOOSE k \in DOMAIN s : Glo(k) = o
                    IN  s[k] @@ [local |-> Loc(k)]],
         er |-> (end :> own) @@ (IF extra THEN (Loc(1) + 60 :> inner) ELSE << >>),
         size |-> end + EndRecord, end |-> end,
         given |-> IF known THEN end + EndRecord ELSE 0]

Dir == File(Name("Kickstart/", 10), 28, 0, 0, 0, 0, 0, TRUE)
Layout(k) == File(Name("Kicklayout", 20), 28, k, 8, 50, 120, 120, TRUE)
Kernel(k, x) == File(Name("kernel", 16), x, k, 0, 200, 200, 200, TRUE)
ModuleFiles == {File(Name("module", 16), 0, 0, 8, 60, 100, o, g) : o \in {80, 100, 130}, g \in BOOLEAN}
               \cup {File(Name("module", 16), 0, 0, 0, 60, 70, 70, TRUE),
                     File(Name("module", 16), 0, 0, 12, 60, 70, 70, TRUE)}
Long == File(Name("long", 256), 0, 0, 0, 10, 10, 10, TRUE)

\* directories of zip -r, with and without comments, known and unknown lengths
Plain ==
    {Archive(s, FALSE, known, 0, 0)
        : s \in UNION {{<<Dir, Layout(k), Kernel(0, x), m>>, <<Kernel(k, x), m, Layout(0)>>}
                         : k \in {0, 9}, x \in {0, 28}, m \in ModuleFiles}
               \cup {<<Layout(0), Long, m>> : m \in ModuleFiles},
          known \in BOOLEAN}
    \cup {Archive(<<Layout(0), Kernel(0, 0)>>, FALSE, known, missing, disk)
            : known \in BOOLEAN, missing \in {-1, 0, 1}, disk \in {0, 1}}

\* with a file that is itself a zip and was stored, as zip -r does
Nested == {Archive(<<Kernel(0, 0), Layout(0)>>, TRUE, known, 0, 0) : known \in BOOLEAN}
-----------------------------------------------------------------------------
(***************************************************************************)
(* A small deflate format: two literals, two lengths, two distances, codes *)
(* of up to three bits, bytes of four.  Symbol 5 is a length code that is  *)
(* not in use, as 286 and 287 are.                                         *)
(***************************************************************************)
SmallLens == <<2, 3>>
SmallLext == <<0, 1>>
SmallDists == <<1, 2>>
SmallDext == <<0, 1>>
SmallFixLens == [s \in 0 .. 5 |-> IF s < 2 THEN 2 ELSE 3]
SmallFixDists == [s \in 0 .. 1 |-> 2]
SmallOrder == <<4, 5, 6, 0, 3, 2, 1>>
SmallRepeats == [s \in 4 .. 6 |-> CASE s = 4 -> [base |-> 2, bits |-> 1]
                                    [] s = 5 -> [base |-> 2, bits |-> 0]
                                    [] s = 6 -> [base |-> 3, bits |-> 1]]
SmallCalls == {[inlen |-> 6, outlen |-> 4, types |-> {0, 1, 3}],
               [inlen |-> 7, outlen |-> 3, types |-> {0, 2}]}

SomeArchives == Plain \cup Nested
SomeNeeds == {0, 3}
(* The archives are what the theorems about Zip suppose. *)
ASSUME ArchivesLaidOut == \A a \in SomeArchives : LaidOut(a)
-----------------------------------------------------------------------------
(* What a unit that is not running has in its variables. *)
NoKick == /\ brd = AmigaOne(4096).brd /\ zip = AmigaOne(4096).zip /\ pc = "open" /\ ret = NULL
          /\ c = 0 /\ avail = NULL /\ kicklist = NoList
          /\ text = << >> /\ live = {} /\ claims = {} /\ refused = FALSE
NoZip == ZipInit /\ archive = CHOOSE a \in SomeArchives : TRUE
NoHuffman == /\ doing = "idle" /\ length = [s \in 0 .. Symbols - 1 |-> 0] /\ in = << >>
             /\ incnt = 0 /\ bitbuf = << >> /\ bitcnt = 0 /\ buf = << >> /\ rest = 0
             /\ code = 0 /\ first = 0 /\ index = 0 /\ codelen = 1 /\ answer = 0 /\ start = 0
NoPuff == /\ nil = FALSE /\ inlen = 0 /\ outlen = 0 /\ types = {}
          /\ out = << >> /\ outcnt = 0 /\ pos = 0 /\ stage = "block"
          /\ last = FALSE /\ nlen = 0 /\ ndist = 0 /\ clen = << >> /\ lengths = << >>
          /\ lencode = << >> /\ distcode = << >> /\ len = 0 /\ dist = 0
          /\ err = 0 /\ destlen = 0 /\ sourcelen = 0 /\ tokens = << >>

LoadInit ==
    \/ unit = "kick" /\ Init /\ NoZip /\ NoHuffman /\ NoPuff
    \/ unit = "zip" /\ ZipInit /\ NoKick /\ NoHuffman /\ NoPuff
    \/ unit = "huffman" /\ BitsInit /\ NoKick /\ NoZip /\ NoPuff
    \/ unit = "puff" /\ PuffInit /\ NoKick /\ NoZip /\ NoHuffman

KickStep == unit = "kick" /\ Next /\ UNCHANGED <<unit, zipVars, bitsVars, puffVars>>
ZipStep == unit = "zip" /\ ZipNext /\ UNCHANGED <<unit, vars, bitsVars, puffVars>>
HuffmanStep == unit = "huffman" /\ BitsNext /\ UNCHANGED <<unit, vars, zipVars, puffVars>>
PuffStep == unit = "puff" /\ PuffNext /\ UNCHANGED <<unit, vars, zipVars, bitsVars>>

LoadNext == KickStep \/ ZipStep \/ HuffmanStep \/ PuffStep

LoadSpec == LoadInit /\ [][LoadNext]_loadVars /\ WF_loadVars(PuffStep)
-----------------------------------------------------------------------------
(* Inflating ends, whatever the input. *)
InflateEnds == <>(unit = "puff" => stage = "done")
=============================================================================
