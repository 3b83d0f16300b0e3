-------------------------------- MODULE Puff --------------------------------
(***************************************************************************)
(* puff() of zip/puff.c: a deflate stream is inflated block by block,      *)
(* stored() copying bytes, fixed() and dynamic() setting up two Huffman    *)
(* codes and codes() decoding literals and copies with them.               *)
(*                                                                         *)
(* The input is not chosen beforehand: a read of n bits returns any number *)
(* of n bits, decode() any symbol of its code (what the bits mean is       *)
(* module Huffman's part), and pos counts the bits read.  The sizes of the *)
(* deflate format are constants.                                           *)
(***************************************************************************)
EXTENDS HuffmanCode, Sequences

CONSTANTS
    Lits,                       \* literal symbols (256); Lits ends a block
    lens, lext, dists, dext,    \* base and extra bits of lengths, distances
    MAXLCODES, MAXDCODES,       \* codes a dynamic block may describe (286, 30)
    FixLens, FixDists,          \* the two codes of a fixed block
    CountBits, NcodeBits,       \* bits of nlen and ndist (5), of ncode (4)
    CodeBits,                   \* bits of a code length code's length (3)
    MinCode,                    \* code length codes sent at least (4)
    order,                      \* their order
    Repeats,                    \* repeat instructions 16, 17, 18: base, bits
    ByteBits,                   \* bits in a byte (8)
    MaxStored,                  \* bound: longest stored block in a stream
    Calls                       \* bound: lengths of input and output, types of blocks

EOB == Lits
MAXCODES == MAXLCODES + MAXDCODES
Last == MAXBITS + 1             \* symbol 16: repeat the last length
CodeSymbols == 0 .. MAXBITS + 3

(* A code gives symbols their lengths. *)
IsCode(code) ==
    /\ DOMAIN code \subseteq Nat
    /\ \A s \in DOMAIN code : code[s] \in Nat

(* No two symbols share a code: construct() has none or some left over. *)
Decodable(code) == construct(code) = 0 \/ construct(code) > 0

ASSUME PuffAssumption ==
    /\ MaxBitsAssumption
    /\ Lits \in Nat \ {0} /\ MAXLCODES \in Nat /\ MAXDCODES \in Nat
    /\ lens \in Seq(Nat) /\ lext \in Seq(Nat) /\ Len(lext) = Len(lens)
    /\ dists \in Seq(Nat \ {0}) /\ dext \in Seq(Nat) /\ Len(dext) = Len(dists)
    /\ MAXDCODES = Len(dists) /\ DOMAIN FixDists = 0 .. MAXDCODES - 1
    /\ IsCode(FixLens) /\ EOB \in DOMAIN FixLens /\ FixLens[EOB] > 0
    /\ IsCode(FixDists) /\ construct(FixLens) = 0 /\ Decodable(FixDists)
    /\ CountBits \in Nat /\ NcodeBits \in Nat /\ CodeBits \in Nat /\ MinCode \in Nat
    /\ DOMAIN order = 1 .. MAXBITS + 4 /\ 2^CodeBits - 1 <= MAXBITS
    /\ \A s \in CodeSymbols : \E k \in DOMAIN order : order[k] = s
    /\ Repeats \in [Last .. Last + 2 -> [base : Nat, bits : Nat]]
    /\ ByteBits \in Nat \ {0} /\ MaxStored \in Nat
    /\ \A k \in Calls : k.inlen \in Nat /\ k.outlen \in Nat

VARIABLES
    nil,                \* dest is NIL: the output is only measured
    inlen, outlen,      \* bytes of input, of output space
    types,              \* the types of block in the input
    out, outcnt,
    pos,                \* bits of the input read
    stage,              \* which loop or step comes next
    last,               \* this is the last block
    nlen, ndist,        \* dynamic(): lengths of each code
    clen,               \* its code for code lengths
    lengths,            \* the lengths read so far
    lencode, distcode,  \* the codes of this block
    len, dist,          \* codes(): the copy under way
    err, destlen, sourcelen,
    tokens              \* history: what the stream said so far

total == ByteBits * inlen

call == <<nil, inlen, outlen, types>>
block == <<nlen, ndist, clen, lengths, lencode, distcode>>
puffVars == <<call, out, outcnt, pos, stage, last, block, len, dist,
              err, destlen, sourcelen, tokens>>

NoCode == << >>

Literal(b) == [kind |-> "byte", byte |-> b]
Copied(n, d) == [kind |-> "copy", len |-> n, dist |-> d]
-----------------------------------------------------------------------------
PuffInit ==
    /\ nil \in BOOLEAN /\ out = << >> /\ outcnt = 0
    /\ \E k \in Calls : inlen = k.inlen /\ outlen = k.outlen /\ types = k.types
    /\ pos = 0 /\ stage = "block" /\ last = FALSE
    /\ nlen = 0 /\ ndist = 0 /\ clen = NoCode /\ lengths = << >>
    /\ lencode = NoCode /\ distcode = NoCode /\ len = 0 /\ dist = 0
    /\ err = 0 /\ destlen = outlen /\ sourcelen = inlen /\ tokens = << >>

(* A return that updates them always. *)
Returns_always(e, p, o) ==
    /\ stage' = "done" /\ err' = e
    /\ destlen' = o /\ sourcelen' = (p + ByteBits - 1) \div ByteBits

(* puff() returns e with p bits read and o bytes put out: the lengths are  *)
(* not updated for a positive e.                                           *)
Returns(e, p, o) ==
    /\ stage' = "done" /\ err' = e
    /\ IF e <= 0 THEN destlen' = o /\ sourcelen' = (p + ByteBits - 1) \div ByteBits
                 ELSE UNCHANGED <<destlen, sourcelen>>

Return(e, p) == Returns(e, p, outcnt)

(* A block is through. *)
EndBlock(p, o) ==
    IF last THEN Returns(0, p, o)
    ELSE stage' = "block" /\ UNCHANGED <<err, destlen, sourcelen>>

Goto(l) == stage' = l /\ UNCHANGED <<err, destlen, sourcelen>>

(* bits() and decode() find the input used up: longjmp, error 2. *)
Enough(n) == pos + n <= total

OutOfInput == /\ Return(2, pos)
              /\ UNCHANGED <<call, out, outcnt, pos, last, block, len, dist, tokens>>

(* What decode() may return with a code, and the bits it takes for it. *)
decode(code) ==
    {[sym |-> s, n |-> code[s]] : s \in {t \in DOMAIN code : code[t] > 0}}
    \cup (IF construct(code) = 0 /\ ~ NoCodes(code) THEN {} ELSE {[sym |-> -10, n |-> MAXBITS]})

(* The header of a block. *)
Block ==
    /\ stage = "block"
    /\ \/ ~ Enough(3) /\ OutOfInput
       \/ /\ Enough(3) /\ pos' = pos + 3
          /\ last' \in BOOLEAN
          /\ \E type \in types :
                \/ type = 0 /\ Goto("stored") /\ UNCHANGED block
                \/ /\ type = 1 /\ Goto("codes")
                   /\ lencode' = FixLens /\ distcode' = FixDists
                   /\ UNCHANGED <<nlen, ndist, clen, lengths>>
                \/ type = 2 /\ Goto("dynamic") /\ UNCHANGED block
                \/ type = 3 /\ Return(-1, pos + 3) /\ UNCHANGED block
          /\ UNCHANGED <<call, out, outcnt, len, dist, tokens>>

(* stored() begins at the next byte.  Two bytes of length, two of its     *)
(* complement, then the bytes.                                             *)
Aligned == (pos + ByteBits - 1) \div ByteBits
(* A test for space that leaves out what is to be written. *)
Fits_bug(n) == outcnt <= outlen

Fits(n) == outcnt + n <= outlen

Stored ==
    /\ stage = "stored"
    /\ UNCHANGED <<call, last, block, len, dist>>
    /\ \/ /\ Aligned + 4 > inlen
          /\ Return(2, pos) /\ UNCHANGED <<out, outcnt, pos, tokens>>
       \/ /\ Aligned + 4 <= inlen           \* the third or fourth does not match
          /\ \E k \in {3, 4} : pos' = ByteBits * (Aligned + k)
          /\ Return(-2, pos') /\ UNCHANGED <<out, outcnt, tokens>>
       \/ \E n \in 0 .. MaxStored :
          /\ Aligned + 4 <= inlen
          /\ \/ /\ Aligned + 4 + n > inlen
                /\ Return(2, pos) /\ UNCHANGED <<out, outcnt, pos, tokens>>
             \/ /\ Aligned + 4 + n <= inlen /\ ~ nil /\ ~ Fits(n)
                /\ Return(1, pos)
                /\ \E s \in [1 .. n -> 0 .. Lits - 1] :
                      tokens' = tokens \o [k \in 1 .. n |-> Literal(s[k])]
                /\ UNCHANGED <<out, outcnt, pos>>
             \/ /\ Aligned + 4 + n <= inlen /\ (nil \/ Fits(n))
                /\ pos' = ByteBits * (Aligned + 4 + n)
                /\ \E s \in [1 .. n -> 0 .. Lits - 1] :
                      /\ out' = IF nil THEN out ELSE out \o s
                      /\ tokens' = tokens \o [k \in 1 .. n |-> Literal(s[k])]
                /\ outcnt' = outcnt + n
                /\ EndBlock(pos', outcnt')
-----------------------------------------------------------------------------
(* codes(): one symbol. *)
SymbolOut ==
    /\ stage = "codes"
    /\ UNCHANGED <<call, last, block, dist>>
    /\ \E d \in decode(lencode) :
       \/ /\ ~ Enough(d.n)
          /\ Return(2, pos) /\ UNCHANGED <<out, outcnt, pos, len, tokens>>
       \/ /\ Enough(d.n) /\ pos' = pos + d.n
          /\ \/ /\ d.sym < 0 /\ Return(d.sym, pos')
                /\ UNCHANGED <<out, outcnt, len, tokens>>
             \/ /\ d.sym \in 0 .. Lits - 1 /\ tokens' = Append(tokens, Literal(d.sym))
                /\ IF ~ nil /\ ~ Fits(1) THEN Return(1, pos') /\ UNCHANGED <<out, outcnt>>
                   ELSE /\ out' = IF nil THEN out ELSE Append(out, d.sym)
                        /\ outcnt' = outcnt + 1 /\ Goto("codes")
                /\ UNCHANGED len
             \/ /\ d.sym = EOB /\ EndBlock(pos', outcnt)
                /\ UNCHANGED <<out, outcnt, len, tokens>>
             \/ /\ d.sym - EOB > Len(lens) /\ Return(-10, pos')
                /\ UNCHANGED <<out, outcnt, len, tokens>>
             \/ /\ d.sym - EOB \in DOMAIN lens /\ len' = d.sym - EOB
                /\ Goto("length") /\ UNCHANGED <<out, outcnt, tokens>>

(* The extra bits of a length; len is still the index of its code. *)
LengthBits ==
    /\ stage = "length"
    /\ \/ ~ Enough(lext[len]) /\ OutOfInput
       \/ /\ Enough(lext[len]) /\ pos' = pos + lext[len]
          /\ \E x \in 0 .. 2^lext[len] - 1 : len' = lens[len] + x
          /\ Goto("dist")
          /\ UNCHANGED <<call, out, outcnt, last, block, dist, tokens>>

TooFar(d) == d > outcnt

(* The distance, the checks, and the copy begins. *)
Distance ==
    /\ stage = "dist"
    /\ UNCHANGED <<call, out, last, block, len>>
    /\ \E d \in decode(distcode) :
       \/ /\ ~ Enough(d.n)
          /\ Return(2, pos) /\ UNCHANGED <<outcnt, pos, dist, tokens>>
       \/ /\ Enough(d.n) /\ d.sym < 0
          /\ pos' = pos + d.n /\ Return(d.sym, pos') /\ UNCHANGED <<outcnt, dist, tokens>>
       \/ /\ Enough(d.n) /\ d.sym >= 0 /\ ~ Enough(d.n + dext[d.sym + 1])
          /\ Return(2, pos) /\ UNCHANGED <<outcnt, pos, dist, tokens>>
       \/ /\ d.sym >= 0 /\ Enough(d.n + dext[d.sym + 1])
          /\ pos' = pos + d.n + dext[d.sym + 1]
          /\ \E x \in 0 .. 2^dext[d.sym + 1] - 1 : dist' = dists[d.sym + 1] + x
          /\ \/ /\ TooFar(dist') /\ Return(-11, pos') /\ UNCHANGED <<outcnt, tokens>>
             \/ /\ ~ TooFar(dist') /\ tokens' = Append(tokens, Copied(len, dist'))
                /\ \/ nil /\ outcnt' = outcnt + len /\ Goto("codes")
                   \/ ~ nil /\ ~ Fits(len) /\ Return(1, pos') /\ UNCHANGED outcnt
                   \/ ~ nil /\ Fits(len) /\ Goto("copy") /\ UNCHANGED outcnt

(* One byte too far back again, and a loop that does not leave. *)
Source_bug == out[Max({1, outcnt - dist})]
CopyByte_stuck ==
    /\ stage = "copy"
    /\ out' = IF len = 0 THEN out ELSE Append(out, out[outcnt + 1 - dist])
    /\ outcnt' = IF len = 0 THEN outcnt ELSE outcnt + 1
    /\ len' = IF len = 0 THEN 0 ELSE len - 1
    /\ UNCHANGED <<call, pos, stage, last, block, dist, err, destlen, sourcelen, tokens>>

(* The loop that copies byte by byte, also from what it has just written. *)
Source == out[outcnt + 1 - dist]

CopyByte ==
    /\ stage = "copy"
    /\ IF len = 0 THEN Goto("codes") /\ UNCHANGED <<out, outcnt, len>>
       ELSE /\ out' = Append(out, Source)
            /\ outcnt' = outcnt + 1 /\ len' = len - 1
            /\ UNCHANGED <<stage, err, destlen, sourcelen>>
    /\ UNCHANGED <<call, pos, last, block, dist, tokens>>
-----------------------------------------------------------------------------
(* dynamic(): the numbers of lengths, and the code for code lengths. *)
CountsOk(n, d) == n <= MAXLCODES /\ d <= MAXDCODES

Dynamic ==
    /\ stage = "dynamic"
    /\ LET n == 2 * CountBits + NcodeBits
       IN  \/ ~ Enough(n) /\ OutOfInput
           \/ /\ Enough(n) /\ pos' = pos + n
              /\ nlen' \in EOB + 1 .. EOB + 2^CountBits
              /\ ndist' \in 1 .. 2^CountBits
              /\ IF CountsOk(nlen', ndist') THEN Goto("clen") ELSE Return(-3, pos')
              /\ UNCHANGED <<call, out, outcnt, last, clen, lengths,
                             lencode, distcode, len, dist, tokens>>

(* The lengths of the code length codes, missing ones zero; ncode was read *)
(* with the counts.                                                        *)
CodeLengths ==
    /\ stage = "clen"
    /\ \E ncode \in MinCode .. MinCode + 2^NcodeBits - 1 :
       \/ ~ Enough(CodeBits * ncode) /\ OutOfInput
       \/ /\ Enough(CodeBits * ncode) /\ pos' = pos + CodeBits * ncode
          /\ \E l \in [1 .. ncode -> 0 .. 2^CodeBits - 1] :
                clen' = [s \in CodeSymbols |->
                            LET k == CHOOSE k \in DOMAIN order : order[k] = s
                            IN  IF k <= ncode THEN l[k] ELSE 0]
          /\ lengths' = << >>
          /\ IF construct(clen') = 0 THEN Goto("lengths") ELSE Return(-4, pos')
          /\ UNCHANGED <<call, out, outcnt, last, nlen, ndist,
                         lencode, distcode, len, dist, tokens>>

(* A length, or an instruction to repeat the last one or zero. *)
Repeat(v, n) == lengths \o [k \in 1 .. n |-> v]

TooMany(n) == Len(lengths) + n > nlen + ndist

NoLast(d) == d.sym = Last /\ lengths = << >>

Lengths ==
    /\ stage = "lengths" /\ Len(lengths) < nlen + ndist
    /\ UNCHANGED <<call, out, outcnt, last, nlen, ndist, clen, lencode, distcode,
                   len, dist, tokens>>
    /\ \E d \in decode(clen) :
       LET extra == IF d.sym \in DOMAIN Repeats /\ ~ NoLast(d) THEN Repeats[d.sym].bits ELSE 0
           v == IF d.sym = Last THEN lengths[Len(lengths)] ELSE 0
       IN  \/ /\ ~ Enough(d.n + extra)
              /\ Return(2, pos) /\ UNCHANGED <<pos, lengths>>
           \/ /\ Enough(d.n + extra) /\ pos' = pos + d.n + extra
              /\ \/ d.sym < 0 /\ Return(d.sym, pos') /\ UNCHANGED lengths
                 \/ NoLast(d) /\ Return(-5, pos') /\ UNCHANGED lengths
                 \/ /\ d.sym \in 0 .. MAXBITS
                    /\ lengths' = Append(lengths, d.sym) /\ Goto("lengths")
                 \/ /\ d.sym \in DOMAIN Repeats /\ ~ NoLast(d)
                    /\ \E x \in 0 .. 2^extra - 1 :
                       LET n == Repeats[d.sym].base + x
                       IN  IF TooMany(n) THEN Return(-6, pos') /\ UNCHANGED lengths
                           ELSE lengths' = Repeat(v, n) /\ Goto("lengths")

(* A complete code, or one symbol of length 1. *)
Usable(code) == \/ construct(code) = 0
                \/ /\ construct(code) > 0
                   /\ Cardinality(DOMAIN code) = count(code)[0] + count(code)[1]

HasEnd(l) == l[EOB + 1] # 0

(* All lengths are there: the two codes are made of them. *)
MakeCodes ==
    /\ stage = "lengths" /\ Len(lengths) = nlen + ndist
    /\ LET lc == [s \in 0 .. nlen - 1 |-> lengths[s + 1]]
           dc == [s \in 0 .. ndist - 1 |-> lengths[nlen + s + 1]]
       IN  /\ lencode' = lc /\ distcode' = dc
           /\ \/ ~ HasEnd(lengths) /\ Return(-9, pos)
              \/ HasEnd(lengths) /\ ~ Usable(lc) /\ Return(-7, pos)
              \/ HasEnd(lengths) /\ Usable(lc) /\ ~ Usable(dc) /\ Return(-8, pos)
              \/ HasEnd(lengths) /\ Usable(lc) /\ Usable(dc) /\ Goto("codes")
    /\ UNCHANGED <<call, out, outcnt, pos, last, nlen, ndist, clen, lengths, len, dist, tokens>>

Finished == stage = "done" /\ UNCHANGED puffVars

PuffNext ==
    \/ Block \/ Stored \/ SymbolOut \/ LengthBits \/ Distance \/ CopyByte
    \/ Dynamic \/ CodeLengths \/ Lengths \/ MakeCodes \/ Finished

PuffSpec == PuffInit /\ [][PuffNext]_puffVars
-----------------------------------------------------------------------------
(***************************************************************************)
(* Every variable has its type: counters and lengths are numbers, the      *)
(* output is bytes, the tables are codes (puff.c, struct state).           *)
(***************************************************************************)
Byte == 0 .. Lits - 1

Token == [kind : {"byte"}, byte : Byte] \cup [kind : {"copy"}, len : Nat, dist : Nat \ {0}]

PuffTypeOK ==
    /\ nil \in BOOLEAN /\ inlen \in Nat /\ outlen \in Nat
    /\ out \in Seq(Byte) /\ outcnt \in Nat /\ pos \in Nat /\ last \in BOOLEAN
    /\ stage \in {"block", "stored", "codes", "length", "dist", "copy",
                  "dynamic", "clen", "lengths", "done"}
    /\ nlen \in Nat /\ ndist \in Nat /\ lengths \in Seq(Nat)
    /\ IsCode(clen) /\ IsCode(lencode) /\ IsCode(distcode)
    /\ len \in Nat /\ dist \in Nat
    /\ err \in Int /\ destlen \in Nat /\ sourcelen \in Nat
    /\ tokens \in Seq(Token)

(* codes() only runs with codes that can end the block, that no two        *)
(* symbols share, and whose distances are all in the table dists[].        *)
CodesUsable ==
    stage \in {"codes", "length", "dist", "copy"} =>
        /\ lencode[EOB] > 0
        /\ Decodable(lencode) /\ Decodable(distcode)
        /\ \A s \in DOMAIN distcode : distcode[s] > 0 => s + 1 \in DOMAIN dists

(***************************************************************************)
(* puff() reads no byte behind the input, writes none behind the output    *)
(* space, copies none from in front of the output, stores no length behind *)
(* lengths[] and looks up no length or distance outside its tables; no     *)
(* block is decoded with codes that cannot end it.                         *)
(***************************************************************************)
InBounds ==
    /\ pos <= total
    /\ IF nil THEN out = << >> ELSE Len(out) = outcnt /\ outcnt <= outlen
    /\ stage = "copy" => 1 <= dist /\ dist <= outcnt
    /\ stage = "length" => len \in DOMAIN lens
    /\ Len(lengths) <= MAXCODES
    /\ CodesUsable

(* What tokens stand for: a copy repeats the last dist bytes. *)
Apply(o, t) ==
    IF t.kind = "byte" THEN Append(o, t.byte)
    ELSE o \o [k \in 1 .. t.len |-> o[Len(o) - t.dist + 1 + ((k - 1) % t.dist)]]

Expansions(ts) ==
    LET f[k \in 0 .. Len(ts)] == IF k = 0 THEN << >> ELSE Apply(f[k - 1], ts[k])
    IN  f

Expansion(ts) == Expansions(ts)[Len(ts)]

(***************************************************************************)
(* The output is what the stream says: copies that overlap themselves or   *)
(* reach into earlier blocks included.  While a copy is under way it is a  *)
(* prefix of that.  Without a buffer its length is counted right.          *)
(***************************************************************************)
OutIsExpansion ==
    LET x == Expansion(tokens)
    IN  /\ stage # "copy" /\ err # 1 => outcnt = Len(x) /\ (~ nil => out = x)
        /\ stage = "copy" => out = SubSeq(x, 1, outcnt) /\ Len(x) = outcnt + len

(***************************************************************************)
(* The return codes mean what the comment on puff() says: 0 is the end of  *)
(* the last block with the exact lengths, 1 a stream that needs more space *)
(* than there is, and a positive code leaves the lengths alone.            *)
(***************************************************************************)
ReturnIsRight ==
    stage = "done" =>
        /\ err = 0 => last /\ destlen = Len(Expansion(tokens)) /\ sourcelen \in 1 .. inlen
        /\ err = 1 => ~ nil /\ Len(Expansion(tokens)) > outlen
        /\ err > 0 => destlen = outlen /\ sourcelen = inlen
=============================================================================
