-------------------------------- MODULE Zip --------------------------------
(***************************************************************************)
(* The zip reader (zip/zip.c): the search for the end of an archive whose  *)
(* length is not known, the search for its end record, the walk through    *)
(* the central directory and the extraction of one file.                   *)
(*                                                                         *)
(* An archive is what the reader sees of its bytes: the records at the     *)
(* offsets where their signatures are, the bytes of a file as an identity  *)
(* with the length its compressed form expands to.  Offsets and the sizes  *)
(* of the records are the real ones.                                       *)
(***************************************************************************)
EXTENDS Integers, FiniteSetsExt

CONSTANTS
    Archives,     \* the archives to read
    Names,        \* the names looked for
    MaxName,      \* sizeof(fnbuf) - 1
    MaxZip,       \* how far boot_aos_zipkick() looks for the end (16 MiB)
    MaxFinds      \* bound: searches per archive

NoHeader == -1    \* a NULL pointer to a record

(* sizeof the packed records of junzip.h *)
LocalHeader == 30
GlobalHeader == 46
EndRecord == 22

ArchiveType(a) ==
    /\ IsFiniteSet(DOMAIN a.gfh)
    /\ \A o \in DOMAIN a.lfh : o \in Nat /\ a.lfh[o].namelen \in Nat /\ a.lfh[o].extralen \in Nat
    /\ \A o \in DOMAIN a.gfh : o \in Nat /\ a.gfh[o].local \in Nat /\ a.gfh[o].usize \in Nat
    /\ \A o \in DOMAIN a.er : o \in Nat /\ a.er[o].entries \in Nat /\ a.er[o].dir \in Nat
    /\ a.size \in Nat /\ a.given \in {0, a.size} /\ a.end \in DOMAIN a.er

(***************************************************************************)
(* What a zip file is: a local header at the start, the directory without  *)
(* gaps before the end record, which is less than MaxZip away, names that  *)
(* are as long as they say and local headers of the file they belong to.   *)
(***************************************************************************)
LaidOut(a) ==
    /\ a.size = a.end + EndRecord /\ 0 \in DOMAIN a.lfh /\ LocalHeader <= a.end /\ a.end < MaxZip
    /\ a.end \notin DOMAIN a.gfh
    /\ DOMAIN a.gfh # {} => a.er[a.end].dir \in DOMAIN a.gfh
    /\ \A o \in DOMAIN a.gfh :
          LET g == a.gfh[o]
              next == o + GlobalHeader + g.namelen + g.extralen + g.commentlen
          IN  /\ g.namelen \in Nat /\ g.extralen \in Nat /\ g.commentlen \in Nat
              /\ a.er[a.end].dir <= o /\ next <= a.end
              /\ next \in DOMAIN a.gfh \cup {a.end}
              /\ \A p \in DOMAIN a.gfh : p <= o \/ next <= p
              /\ \A name \in Names : g.name = name.name => g.namelen = name.len
              /\ g.local \in DOMAIN a.lfh =>
                    a.lfh[g.local].data.file = g.name /\ a.lfh[g.local].data.out \in Nat

ASSUME ZipAssumption ==
    /\ MaxName \in Nat /\ MaxZip \in Nat /\ MaxFinds \in Nat
    /\ \A a \in Archives : ArchiveType(a)

VARIABLES
    archive,     \* the archive in memory
    at,          \* "len", "open", "idle", "walk" (zip_file_find's loop), "failed"
    ziplen, er, gfh, \* zip_t
    seen, want,  \* zip_file_find: entries seen, name
    result,      \* what the last call returned
    buffer,      \* the caller's buffer: which file's bytes, how many of them
    finds

zipVars == <<archive, at, ziplen, er, gfh, seen, want, result, buffer, finds>>

Empty == [file |-> "none", n |-> 0]
-----------------------------------------------------------------------------
(* The first end record signature behind the first local header. *)
zip_findLen(a) ==
    LET ends == {o \in DOMAIN a.er : LocalHeader <= o /\ o < MaxZip}
    IN  IF 0 \in DOMAIN a.lfh /\ ends # {} THEN Min(ends) + EndRecord ELSE 0

(* zip_openBuffer(): the last signature that leaves room for the record. *)
LastEnd(a, n) ==
    LET ends == {o \in DOMAIN a.er : o + EndRecord <= n}
    IN  IF n <= EndRecord \/ ends = {} THEN NoHeader ELSE Max(ends)

OneDisk(e) == e.disk = 0 /\ e.dirdisk = 0 /\ e.entries = e.here

zip_numEntries == archive.er[er].entries

(* The next header as if the directory had no extra fields. *)
NextHeader_noextra(o) ==
    IF o = NoHeader THEN archive.er[er].dir
    ELSE o + GlobalHeader + archive.gfh[o].namelen

(* Where zip_readdir() looks: the start of the directory, or behind the    *)
(* header, the name and the extra field of the entry it is at.             *)
NextHeader(o) ==
    IF o = NoHeader THEN archive.er[er].dir
    ELSE o + GlobalHeader + archive.gfh[o].namelen + archive.gfh[o].extralen

(* zip_readdir(): the entry it moves to; nothing moves for an offset       *)
(* outside the archive, NULL for one without a header's signature.         *)
Outside(o) == o >= ziplen
zip_readdir_ok == LET o == NextHeader(gfh) IN ~ Outside(o) /\ o \in DOMAIN archive.gfh
zip_readdir ==
    LET o == NextHeader(gfh)
    IN  IF Outside(o) THEN gfh ELSE IF o \in DOMAIN archive.gfh THEN o ELSE NoHeader
-----------------------------------------------------------------------------
ZipInit ==
    /\ archive \in Archives
    /\ at = "len" /\ ziplen = 0 /\ er = NoHeader /\ gfh = NoHeader
    /\ seen = 0 /\ want = (CHOOSE n \in Names : TRUE) /\ result = "none" /\ buffer = Empty /\ finds = 0

(* boot_aos_zipkick() looks for the end when it was not given the length. *)
FindLen ==
    /\ at = "len"
    /\ ziplen' = IF archive.given # 0 THEN archive.given ELSE zip_findLen(archive)
    /\ at' = IF ziplen' = 0 THEN "failed" ELSE "open"
    /\ UNCHANGED <<archive, er, gfh, seen, want, result, buffer, finds>>

OpenBuffer ==
    /\ at = "open"
    /\ LET e == LastEnd(archive, ziplen)
       IN  IF e # NoHeader /\ OneDisk(archive.er[e])
           THEN er' = e /\ gfh' = NoHeader /\ at' = "idle"
           ELSE at' = "failed" /\ UNCHANGED <<er, gfh>>
    /\ UNCHANGED <<archive, ziplen, seen, want, result, buffer, finds>>

(* zip_file_find() is entered: the walk starts over. *)
Find(name) ==
    /\ at = "idle" /\ finds < MaxFinds
    /\ want' = name /\ gfh' = NoHeader /\ seen' = 0 /\ at' = "walk"
    /\ finds' = finds + 1
    /\ UNCHANGED <<archive, ziplen, er, result, buffer>>

FindReturns(r) ==
    /\ at' = "idle" /\ result' = r
    /\ UNCHANGED <<archive, ziplen, er, seen, want, buffer, finds>>

(* All entries seen, or no further header: Z_ERROR. *)
NoMoreEntries ==
    /\ at = "walk"
    /\ \/ seen >= zip_numEntries /\ UNCHANGED gfh
       \/ seen < zip_numEntries /\ ~ zip_readdir_ok /\ gfh' = zip_readdir
    /\ FindReturns("error")

Entry == archive.gfh[zip_readdir]

(* A name that does not fit fnbuf ends the search. *)
LongName ==
    /\ at = "walk" /\ seen < zip_numEntries /\ zip_readdir_ok
    /\ Entry.namelen > MaxName
    /\ gfh' = zip_readdir
    /\ FindReturns("error")

Match(e) == e.namelen = want.len /\ e.name = want.name

Found ==
    /\ at = "walk" /\ seen < zip_numEntries /\ zip_readdir_ok
    /\ Entry.namelen <= MaxName /\ Match(Entry)
    /\ gfh' = zip_readdir
    /\ FindReturns("ok")

NextEntry ==
    /\ at = "walk" /\ seen < zip_numEntries /\ zip_readdir_ok
    /\ Entry.namelen <= MaxName /\ ~ Match(Entry)
    /\ gfh' = zip_readdir /\ seen' = seen + 1
    /\ UNCHANGED <<archive, at, ziplen, er, want, result, buffer, finds>>

(* zip_file_extract(): what is behind the local header of the entry.  How  *)
(* puff() inflates is module Puff's part: here it fails on a bad stream    *)
(* and on one that needs more than the space given.                        *)
Local(e) == archive.lfh[e.local]
puff(d, space) == [ok |-> d.good /\ d.out <= space, n |-> Min({d.out, space})]

(* A limit that is not the one of the file. *)
dstlen_bug(e) == MaxZip
dstlen(e) == e.usize

zip_file_extract(e) ==
    IF e.local \notin DOMAIN archive.lfh THEN [ok |-> FALSE, n |-> 0]
    ELSE CASE Local(e).method = 0 -> [ok |-> e.csize = e.usize,
                                      n |-> IF e.csize = e.usize THEN e.usize ELSE 0]
           [] Local(e).method = 8 -> puff(Local(e).data, dstlen(e))
           [] OTHER -> [ok |-> FALSE, n |-> 0]

(* Its callers extract what they have just found. *)
Extract ==
    /\ at = "idle" /\ result = "ok" /\ gfh # NoHeader
    /\ LET x == zip_file_extract(archive.gfh[gfh])
       IN  /\ result' = IF x.ok THEN "extracted" ELSE "error"
           /\ buffer' = IF x.n = 0 THEN Empty
                        ELSE [file |-> Local(archive.gfh[gfh]).data.file, n |-> x.n]
    /\ UNCHANGED <<archive, at, ziplen, er, gfh, seen, want, finds>>

(* The archive cannot be opened, or the caller is through. *)
Stop == at = "failed" \/ (at = "idle" /\ finds = MaxFinds)

ZipFinished == Stop /\ UNCHANGED zipVars

ZipNext == \/ FindLen \/ OpenBuffer
           \/ \E name \in Names : Find(name)
           \/ NoMoreEntries \/ LongName \/ Found \/ NextEntry
           \/ Extract \/ ZipFinished

ZipSpec == ZipInit /\ [][ZipNext]_zipVars
-----------------------------------------------------------------------------
(***************************************************************************)
(* A reader that opens an archive reads its own directory: the end record  *)
(* is the one of the archive and not one in the bytes of a file            *)
(* (zip_findLen and zip_openBuffer together).                              *)
(***************************************************************************)
OpensWholeArchive == at \in {"idle", "walk"} => er = archive.end

(* Without such bytes an archive on one disk is opened, and rightly. *)
Embedded == \E o \in DOMAIN archive.er : o # archive.end
OpensPlainArchive ==
    ~ Embedded => /\ OpensWholeArchive
                  /\ at = "failed" => ~ OneDisk(archive.er[archive.end])

(***************************************************************************)
(* What zip_file_find() calls found has the name asked for and is an entry *)
(* of the directory; the cursor of an earlier search has no part in it.    *)
(***************************************************************************)
FoundIsWanted ==
    at = "idle" /\ result \in {"ok", "extracted"} =>
        /\ gfh # NoHeader
        /\ archive.gfh[gfh].name = want.name

(***************************************************************************)
(* Every file of the archive is found, as long as no entry has a comment   *)
(* or a name longer than the buffer (fileCommentLength is "unsupported").  *)
(***************************************************************************)
Supported ==
    /\ \A o \in DOMAIN archive.gfh : archive.gfh[o].commentlen = 0 /\ archive.gfh[o].namelen <= MaxName
    /\ archive.er[archive.end].entries >= Cardinality(DOMAIN archive.gfh)
Listed(n) == \E o \in DOMAIN archive.gfh : archive.gfh[o].name = n.name

FindsEveryFile ==
    at = "idle" /\ finds > 0 /\ ~ Embedded /\ Supported /\ Listed(want)
        => gfh # NoHeader /\ archive.gfh[gfh].name = want.name

(***************************************************************************)
(* An archive on one disk without end records in its files is opened with  *)
(* its own directory; zip_file_find() finds every file of it that is       *)
(* listed, unless comments or names longer than the buffer are in the way, *)
(* and nothing but the file asked for.                                     *)
(***************************************************************************)
FindsFiles == OpensPlainArchive /\ FoundIsWanted /\ FindsEveryFile

(***************************************************************************)
(* The buffer gets the bytes of the file that was found, never more than   *)
(* the directory says it is long (what the caller has claimed for it), and *)
(* all of them if the directory tells the length of the data.              *)
(***************************************************************************)
ExtractsWanted ==
    at = "idle" /\ result = "extracted" =>
        LET e == archive.gfh[gfh]
        IN  /\ buffer.n > 0 => buffer.file = want.name
            /\ buffer.n <= e.usize
            /\ Local(e).data.out = e.usize => buffer.n = e.usize
=============================================================================
