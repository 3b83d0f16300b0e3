------------------------------ MODULE Huffman ------------------------------
(***************************************************************************)
(* The bit reader and the Huffman decoder of the inflate code              *)
(* (zip/puff.c): construct(), bits() and the fast decode(), which keeps    *)
(* its own copy of the bit buffer and works through it byte by byte.       *)
(*                                                                         *)
(* One behaviour is one caller that reads a stream to its end with         *)
(* decode() and bits() in any order.  A byte has ByteSize bits (8) and is  *)
(* a sequence of them, lowest first; bitbuf is such a sequence too.        *)
(***************************************************************************)
EXTENDS HuffmanCode, Sequences

CONSTANTS
    ByteSize,    \* bits in a byte (8), a power of two
    Symbols,     \* number of symbols of a code, n of construct()
    Bytes,       \* bytes of input, inlen
    Needs        \* how many bits bits() is asked for

(* decode() starts with up to a byte less one bit, which may not be more   *)
(* than a code has.                                                        *)
ASSUME HuffmanAssumption ==
    /\ MaxBitsAssumption
    /\ Symbols \in Nat \ {0} /\ Bytes \in Nat
    /\ ByteSize \in {1, 2, 4, 8} /\ ByteSize <= MAXBITS + 1
    /\ Needs \subseteq Nat

BAD == -10       \* decode() "ran out of codes"
RUNNING == -1    \* decode() has not returned yet

VARIABLES
    length,          \* the code
    in,              \* the input, all its bits in the order they are sent
    incnt, bitbuf, bitcnt,                  \* struct state
    buf, rest, code, first, index, codelen, \* decode(): bitbuf, left, ...
    doing,           \* "idle", "decode", or "end" after longjmp
    answer,          \* what the last call returned
    start            \* where in the stream it started to read

state == <<incnt, bitbuf, bitcnt>>
locals == <<buf, rest, code, first, index, codelen>>
bitsVars == <<length, in, state, locals, doing, answer, start>>

Codes == [0 .. Symbols - 1 -> 0 .. MAXBITS]

ByteAt(k) == SubSeq(in, ByteSize * k + 1, ByteSize * (k + 1))

(* The number whose bits, lowest first, are s. *)
Number(s) ==
    LET v[k \in 0 .. Len(s)] == IF k = 0 THEN 0 ELSE 2 * v[k - 1] + s[Len(s) + 1 - k]
    IN  v[Len(s)]

BitsInit ==
    /\ length \in {c \in Codes : construct(c) >= 0}
    /\ in \in [1 .. ByteSize * Bytes -> {0, 1}]
    /\ incnt = 0 /\ bitbuf = << >> /\ bitcnt = 0
    /\ buf = << >> /\ rest = 0 /\ code = 0 /\ first = 0 /\ index = 0 /\ codelen = 1
    /\ doing = "idle" /\ answer = 0 /\ start = 0

(* The bit of the stream that is read next. *)
position == ByteSize * incnt - bitcnt

(* longjmp() out of decode() or bits(). *)
InputOver ==
    /\ doing' = "end"
    /\ UNCHANGED <<length, in, state, locals, answer, start>>

(* Bytes bits() has to load to have as many bits as it needs. *)
Loads(need) == IF bitcnt < need THEN (need - bitcnt + ByteSize - 1) \div ByteSize ELSE 0

Bits(need) ==
    /\ doing = "idle"
    /\ IF incnt + Loads(need) > Bytes THEN InputOver
       ELSE LET val == bitbuf \o SubSeq(in, ByteSize * incnt + 1, ByteSize * (incnt + Loads(need)))
            IN  /\ incnt' = incnt + Loads(need)
                /\ bitcnt' = bitcnt + ByteSize * Loads(need) - need
                /\ bitbuf' = SubSeq(val, need + 1, Len(val))
                /\ answer' = Number(SubSeq(val, 1, need))
                /\ start' = position
                /\ UNCHANGED <<length, in, locals, doing>>

(* decode() is entered: its copies of the bit buffer and of bitcnt. *)
Decode ==
    /\ doing = "idle" /\ doing' = "decode"
    /\ buf' = bitbuf /\ rest' = bitcnt
    /\ code' = 0 /\ first' = 0 /\ index' = 0 /\ codelen' = 1
    /\ answer' = RUNNING /\ start' = position
    /\ UNCHANGED <<length, in, state>>

(* The code read so far with the next bit, and the codes of its length. *)
NewCode == code + buf[1]
Count == count(length)[codelen]
HasCode == NewCode - Count < first

NewBitcnt == (bitcnt - codelen) % ByteSize

(* The bits are a code: its symbol is returned. *)
CodeFound ==
    /\ doing = "decode" /\ rest > 0 /\ HasCode
    /\ bitbuf' = Tail(buf)
    /\ bitcnt' = NewBitcnt
    /\ answer' = symbol(length, index + NewCode - first)
    /\ doing' = "idle"
    /\ UNCHANGED <<length, in, incnt, locals, start>>

NextFirst == 2 * (first + Count)

(* They are not: on to the next length. *)
LongerCode ==
    /\ doing = "decode" /\ rest > 0 /\ ~ HasCode
    /\ buf' = Tail(buf) /\ rest' = rest - 1
    /\ code' = 2 * NewCode /\ index' = index + Count
    /\ first' = NextFirst /\ codelen' = codelen + 1
    /\ UNCHANGED <<length, in, state, doing, answer, start>>

(* The next byte of input, of which no more than MAXBITS bits are used. *)
NextByte ==
    /\ doing = "decode" /\ rest = 0 /\ codelen <= MAXBITS
    /\ IF incnt = Bytes THEN InputOver
       ELSE /\ buf' = ByteAt(incnt) /\ incnt' = incnt + 1
            /\ rest' = Min({ByteSize, MAXBITS + 1 - codelen})
            /\ UNCHANGED <<length, in, bitbuf, bitcnt, code, first, index, codelen, doing, answer, start>>

(* "ran out of codes": inflating ends. *)
OutOfCodes ==
    /\ doing = "decode" /\ rest = 0 /\ codelen = MAXBITS + 1
    /\ doing' = "end" /\ answer' = BAD
    /\ UNCHANGED <<length, in, state, locals, start>>

NothingLeft == doing = "end" /\ UNCHANGED bitsVars

BitsNext ==
    \/ \E n \in Needs : Bits(n)
    \/ Decode \/ CodeFound \/ LongerCode \/ NextByte \/ OutOfCodes
    \/ NothingLeft

BitsSpec == BitsInit /\ [][BitsNext]_bitsVars
-----------------------------------------------------------------------------
(***************************************************************************)
(* Between two calls the bit buffer holds exactly the bits of the last     *)
(* byte that are not read yet, fewer than a byte ("This always leaves less *)
(* than eight bits in the buffer"), whichever of decode() and bits() used  *)
(* it last.                                                                *)
(***************************************************************************)
BufferInStep ==
    doing = "idle" =>
        /\ bitcnt < ByteSize
        /\ bitbuf = SubSeq(in, position + 1, ByteSize * incnt)

(* A canonical code gives every symbol its share of the code space of      *)
(* 2^MAXBITS, by Kraft's sum: the shorter codes come first, those of a     *)
(* length in the order of their symbols.                                   *)
Pow2[k \in 0 .. MAXBITS] == IF k = 0 THEN 1 ELSE 2 * Pow2[k - 1]

Share(lens, l) == Cardinality({s \in DOMAIN lens : lens[s] = l}) * Pow2[MAXBITS - l]

Kraft(lens) ==
    LET f[l \in 0 .. MAXBITS] == IF l = 0 THEN 0 ELSE f[l - 1] + Share(lens, l)
    IN  f

Rank(s) == Cardinality({t \in DOMAIN length : t < s /\ length[t] = length[s]})

SpaceBefore(s) == Kraft(length)[length[s] - 1] + Rank(s) * Pow2[MAXBITS - length[s]]

(* The numbers that the bits of the stream behind p are, highest first. *)
Value(p) ==
    LET v[k \in 0 .. Len(in) - p] == IF k = 0 THEN 0 ELSE 2 * v[k - 1] + in[p + k]
    IN  v

(* The code of s is in the stream from bit p on. *)
CodeAt(s, p) ==
    /\ length[s] # 0 /\ p + length[s] <= Len(in)
    /\ Value(p)[length[s]] * Pow2[MAXBITS - length[s]] = SpaceBefore(s)

(***************************************************************************)
(* decode() returns the symbol whose canonical code is in the stream where *)
(* it started, and takes just the bits of that code; it fails only where   *)
(* there is no code.                                                       *)
(***************************************************************************)
DecodeStep ==
    doing = "decode" =>
        /\ doing' = "idle" => CodeAt(answer', start) /\ position' = start + length[answer']
        /\ answer' = BAD => \A s \in DOMAIN length : ~ CodeAt(s, start)

(* bits() returns the next bits of the stream and takes no more of them. *)
BitsStep ==
    doing = "idle" /\ doing' = "idle" =>
        /\ start' = position
        /\ answer' = Number(SubSeq(in, position + 1, position'))

(***************************************************************************)
(* "If the return value is zero, it is not possible for decode() using     *)
(* that table to return an error": so it is for every code that has a      *)
(* symbol.                                                                 *)
(***************************************************************************)
CompleteCodeDecodes == construct(length) = 0 /\ ~ NoCodes(length) => answer # BAD

DecodesCanonicalCode == [][DecodeStep /\ BitsStep /\ BufferInStep' /\ CompleteCodeDecodes']_bitsVars
=============================================================================
