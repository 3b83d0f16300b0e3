--------------------------- MODULE ArchiveProofs ----------------------------
(***************************************************************************)
(* Proofs about the reading of a file from the archive.  Module Puff:      *)
(* puff() stays within its input, its output and its tables, puts out what *)
(* the stream says and returns what it promises, for every stream, every   *)
(* size of the buffers and every deflate format.  Module Zip, at the end:  *)
(* the files of an archive are found and extracted.                        *)
(***************************************************************************)
EXTENDS Puff, Zip, MemoryProofs, SequenceTheorems, TLAPS

(***************************************************************************)
(* The inductive invariant.  The reader is never behind the input and has  *)
(* read the header of the block it is in.                                  *)
(***************************************************************************)
PosInv == /\ pos <= total
          /\ stage \notin {"block", "done"} => pos >= 1

(* The output fits, and what a copy has yet to write does too. *)
OutInv ==
    /\ IF nil THEN out = << >> ELSE Len(out) = outcnt /\ outcnt <= outlen
    /\ stage = "copy" => /\ ~ nil /\ 1 <= dist /\ dist <= outcnt
                         /\ outcnt + len <= outlen

(* dynamic() has checked the numbers before it reads the lengths. *)
DynamicInv ==
    /\ Len(lengths) <= MAXCODES
    /\ stage \in {"clen", "lengths"} => CountsOk(nlen, ndist) /\ nlen >= EOB + 1
    /\ stage = "lengths" => DOMAIN clen = CodeSymbols /\ Len(lengths) <= nlen + ndist

CodesInv == CodesUsable /\ (stage = "length" => len \in DOMAIN lens)

BoundsInv == PuffTypeOK /\ PosInv /\ OutInv /\ DynamicInv /\ CodesInv

(* What codes() and its callers get from decode(). *)
LEMMA DecodeType ==
  ASSUME NEW code, IsCode(code), NEW d \in decode(code)
  PROVE  /\ d.n \in Nat /\ d.sym \in Int /\ d.n > 0
         /\ d.sym >= 0 => d.sym \in DOMAIN code /\ code[d.sym] > 0
BY PuffAssumption DEF decode, IsCode, MaxBitsAssumption

LEMMA BoundsInit == PuffInit => BoundsInv
<1> SUFFICES ASSUME PuffInit PROVE BoundsInv
  OBVIOUS
<1>1. PuffTypeOK
  <2>1. /\ inlen \in Nat /\ outlen \in Nat /\ outcnt \in Nat /\ pos \in Nat
        /\ nlen \in Nat /\ ndist \in Nat /\ len \in Nat /\ dist \in Nat
        /\ err \in Int /\ destlen \in Nat /\ sourcelen \in Nat
    BY PuffAssumption DEF PuffInit
  <2>2. nil \in BOOLEAN /\ last \in BOOLEAN
    BY DEF PuffInit
  <2>3. out \in Seq(Byte) /\ lengths \in Seq(Nat) /\ tokens \in Seq(Token)
    BY DEF PuffInit
  <2>4. IsCode(NoCode)
    BY DEF NoCode, IsCode
  <2> QED
    BY <2>1, <2>2, <2>3, <2>4 DEF PuffInit, PuffTypeOK
<1>2. total \in Nat /\ 0 <= total
  BY <1>1, PuffAssumption DEF PuffTypeOK, total
<1> QED
  BY <1>1, <1>2, PuffAssumption DEF PuffInit, BoundsInv, PosInv, OutInv, DynamicInv, CodesInv,
     CodesUsable, MAXCODES
-----------------------------------------------------------------------------
(* The input and the space for the output stay what they are. *)
LEMMA CallKept ==
  ASSUME [PuffNext]_puffVars
  PROVE  UNCHANGED <<nil, inlen, outlen, types>> /\ UNCHANGED total
<1>1. UNCHANGED call
  BY DEF PuffNext, puffVars, Block, Stored, SymbolOut, LengthBits, Distance, CopyByte, Dynamic,
         CodeLengths, Lengths, MakeCodes, Finished, OutOfInput
<1> QED
  BY <1>1 DEF call, total

(* What a return leaves in the lengths. *)
LEMMA ReturnType ==
  ASSUME PuffTypeOK, NEW e \in Int, NEW p \in Nat, NEW o \in Nat, Returns(e, p, o)
  PROVE  stage' = "done" /\ err' = e /\ destlen' \in Nat /\ sourcelen' \in Nat
<1>1. p + ByteBits - 1 \in Nat /\ ByteBits \in Nat /\ ByteBits > 0
  BY PuffAssumption
<1>2. (p + ByteBits - 1) \div ByteBits \in Nat
  BY <1>1, DivMod
<1> QED
  BY <1>2 DEF Returns, PuffTypeOK

(* The variables of a block, and the others but for the output. *)
BlockTyped ==
    /\ last \in BOOLEAN /\ nlen \in Nat /\ ndist \in Nat /\ lengths \in Seq(Nat)
    /\ IsCode(clen) /\ IsCode(lencode) /\ IsCode(distcode)
    /\ len \in Nat /\ dist \in Nat /\ tokens \in Seq(Token)

(* puff() has returned without more output. *)
Ended == /\ stage' = "done" /\ err' \in Int /\ destlen' \in Nat /\ sourcelen' \in Nat
         /\ out' = out /\ outcnt' = outcnt /\ lengths' = lengths
         /\ pos' \in Nat /\ pos' <= total

LEMMA EndedBounds ==
  ASSUME BoundsInv, [PuffNext]_puffVars, Ended, BlockTyped'
  PROVE  BoundsInv'
<1>1. UNCHANGED <<nil, inlen, outlen, types>> /\ UNCHANGED total
  BY CallKept
<1>2. PuffTypeOK'
  <2>1. nil' \in BOOLEAN /\ inlen' \in Nat /\ outlen' \in Nat
    BY <1>1 DEF BoundsInv, PuffTypeOK
  <2>2. out' \in Seq(Byte) /\ outcnt' \in Nat /\ pos' \in Nat
    BY DEF BoundsInv, PuffTypeOK, Ended
  <2> QED
    BY <2>1, <2>2 DEF Ended, BlockTyped, PuffTypeOK
<1>3. PosInv' /\ DynamicInv' /\ CodesInv'
  BY <1>1 DEF BoundsInv, PosInv, DynamicInv, CodesInv, CodesUsable, Ended
<1>4. OutInv'
  BY <1>1 DEF BoundsInv, OutInv, Ended
<1> QED
  BY <1>2, <1>3, <1>4 DEF BoundsInv

(* longjmp() out of bits(). *)
LEMMA OutOfInputBounds ==
  ASSUME BoundsInv, [PuffNext]_puffVars, OutOfInput
  PROVE  BoundsInv'
<1>1. Returns(2, pos, outcnt) /\ UNCHANGED <<out, outcnt, pos, last, block, len, dist, tokens>>
  BY DEF OutOfInput, Return
<1>2. Ended
  <2>1. stage' = "done" /\ err' = 2 /\ destlen' \in Nat /\ sourcelen' \in Nat
    BY <1>1, ReturnType DEF BoundsInv, PuffTypeOK
  <2> QED
    BY <1>1, <2>1 DEF Ended, BoundsInv, PosInv, PuffTypeOK, block
<1>3. BlockTyped'
  BY <1>1 DEF BlockTyped, BoundsInv, PuffTypeOK, block
<1> QED
  BY <1>2, <1>3, EndedBounds

(* It goes on without more output. *)
Went == /\ stage' \in {"block", "stored", "codes", "length", "dist", "dynamic", "clen", "lengths"}
        /\ UNCHANGED <<out, outcnt, err, destlen, sourcelen>>
        /\ pos' \in Nat /\ pos' <= total /\ pos' >= 1

LEMMA WentBounds ==
  ASSUME BoundsInv, [PuffNext]_puffVars, Went, BlockTyped', DynamicInv', CodesInv'
  PROVE  BoundsInv'
<1>1. UNCHANGED <<nil, inlen, outlen, types>> /\ UNCHANGED total
  BY CallKept
<1>2. PuffTypeOK'
  <2>1. nil' \in BOOLEAN /\ inlen' \in Nat /\ outlen' \in Nat
    BY <1>1 DEF BoundsInv, PuffTypeOK
  <2>2. /\ out' \in Seq(Byte) /\ outcnt' \in Nat /\ pos' \in Nat
        /\ err' \in Int /\ destlen' \in Nat /\ sourcelen' \in Nat
    BY DEF BoundsInv, PuffTypeOK, Went
  <2> QED
    BY <2>1, <2>2 DEF Went, BlockTyped, PuffTypeOK
<1>3. PosInv'
  BY <1>1 DEF PosInv, Went
<1>4. OutInv'
  BY <1>1 DEF BoundsInv, OutInv, Went
<1> QED
  BY <1>2, <1>3, <1>4 DEF BoundsInv

(* Reading up to what is there. *)
LEMMA EnoughRead ==
  ASSUME PuffTypeOK, NEW k \in Nat, Enough(k)
  PROVE  total \in Nat /\ pos + k \in Nat /\ pos + k <= total
BY PuffAssumption DEF PuffTypeOK, Enough, total

(* The codes of a fixed block can be used. *)
LEMMA FixedUsable ==
  ASSUME lencode' = FixLens, distcode' = FixDists
  PROVE  CodesUsable'
<1>1. FixLens[EOB] > 0 /\ Decodable(FixLens) /\ Decodable(FixDists)
  BY PuffAssumption DEF Decodable
<1>2. \A s \in DOMAIN FixDists : s + 1 \in DOMAIN dists
  BY PuffAssumption
<1> QED
  BY <1>1, <1>2 DEF CodesUsable

(* The header of a block leaves the lengths read before alone. *)
LEMMA BlockBounds ==
  ASSUME BoundsInv, Block
  PROVE  BoundsInv'
<1> USE PuffAssumption DEF BoundsInv
<1>0. [PuffNext]_puffVars
  BY DEF PuffNext
<1>1. CASE ~ Enough(3) /\ OutOfInput
  BY <1>0, <1>1, OutOfInputBounds
<1>2. CASE /\ Enough(3) /\ pos' = pos + 3 /\ last' \in BOOLEAN
           /\ UNCHANGED <<call, out, outcnt, len, dist, tokens>>
  <2>1. pos' \in Nat /\ pos' <= total /\ pos' >= 1
    BY <1>2, EnoughRead DEF PuffTypeOK
  <2>2. CASE Goto("stored") /\ UNCHANGED block
    <3>1. Went /\ BlockTyped'
      BY <1>2, <2>1, <2>2 DEF Went, Goto, BlockTyped, PuffTypeOK, block
    <3>2. DynamicInv' /\ CodesInv'
      BY <2>2 DEF Goto, DynamicInv, CodesInv, CodesUsable, block
    <3> QED
      BY <1>0, <3>1, <3>2, WentBounds
  <2>3. CASE /\ Goto("codes") /\ lencode' = FixLens /\ distcode' = FixDists
             /\ UNCHANGED <<nlen, ndist, clen, lengths>>
    <3>1. Went /\ BlockTyped'
      BY <1>2, <2>1, <2>3 DEF Went, Goto, BlockTyped, PuffTypeOK
    <3>2. DynamicInv' /\ CodesInv'
      BY <2>3, FixedUsable DEF Goto, DynamicInv, CodesInv
    <3> QED
      BY <1>0, <3>1, <3>2, WentBounds
  <2>4. CASE Goto("dynamic") /\ UNCHANGED block
    <3>1. Went /\ BlockTyped'
      BY <1>2, <2>1, <2>4 DEF Went, Goto, BlockTyped, PuffTypeOK, block
    <3>2. DynamicInv' /\ CodesInv'
      BY <2>4 DEF Goto, DynamicInv, CodesInv, CodesUsable, block
    <3> QED
      BY <1>0, <3>1, <3>2, WentBounds
  <2>5. CASE Return(-1, pos + 3) /\ UNCHANGED block
    <3>1. stage' = "done" /\ err' = -1 /\ destlen' \in Nat /\ sourcelen' \in Nat
      BY <2>1, <2>5, <1>2, ReturnType DEF Return, PuffTypeOK
    <3>2. Ended /\ BlockTyped'
      BY <1>2, <2>1, <2>5, <3>1 DEF Ended, BlockTyped, PuffTypeOK, block
    <3> QED
      BY <1>0, <3>2, EndedBounds
  <2> QED
    BY <1>1, <1>2, <2>2, <2>3, <2>4, <2>5 DEF Block
<1> QED
  BY <1>1, <1>2 DEF Block
-----------------------------------------------------------------------------
(* A multiple of the bits in a byte up to the end of the input. *)
LEMMA WholeBytes ==
  ASSUME PuffTypeOK, NEW k \in Nat, k <= inlen, k > 0
  PROVE  /\ ByteBits * k \in Nat /\ ByteBits * k <= total /\ ByteBits * k >= 1
<1>1. ByteBits \in Nat /\ ByteBits >= 1 /\ inlen \in Nat
  BY PuffAssumption DEF PuffTypeOK
<1>2. ByteBits * (inlen - k) >= 0 /\ ByteBits * (inlen - k) = ByteBits * inlen - ByteBits * k
  BY <1>1
<1>3. ByteBits * k \in Nat /\ ByteBits * k >= ByteBits
  BY <1>1
<1> QED
  BY <1>1, <1>2, <1>3 DEF total

LEMMA AlignedType == ASSUME PuffTypeOK PROVE Aligned \in Nat
<1>1. pos + ByteBits - 1 \in Nat /\ ByteBits \in Nat /\ ByteBits > 0
  BY PuffAssumption DEF PuffTypeOK
<1> QED
  BY <1>1, DivMod DEF Aligned

(* The bytes of a stored block as tokens. *)
Literals(s) == [k \in 1 .. Len(s) |-> Literal(s[k])]

LEMMA LiteralsType ==
  ASSUME NEW s \in Seq(Byte)
  PROVE  Literals(s) \in Seq(Token) /\ Len(Literals(s)) = Len(s)
<1>1. Len(s) \in Nat /\ \A k \in 1 .. Len(s) : s[k] \in Byte
  OBVIOUS
<1>2. \A k \in 1 .. Len(s) : Literal(s[k]) \in Token
  BY <1>1 DEF Literal, Token
<1> QED
  BY <1>1, <1>2 DEF Literals

(***************************************************************************)
(* What stored() does, in one of three ways: it fails, it has no space for *)
(* the bytes s, or it puts them out.                                       *)
(***************************************************************************)
StoredFails ==
    /\ \E e \in {2, -2} : Return(e, pos')
    /\ pos' \in Nat /\ pos' <= total
    /\ UNCHANGED <<call, out, outcnt, last, block, len, dist, tokens>>

StoredTooLong(s) ==
    /\ ~ nil /\ ~ Fits(Len(s)) /\ Return(1, pos) /\ tokens' = tokens \o Literals(s)
    /\ UNCHANGED <<call, out, outcnt, pos, last, block, len, dist>>

StoredOut(s) ==
    /\ nil \/ Fits(Len(s))
    /\ pos' \in Nat /\ pos' <= total /\ pos' >= 1
    /\ out' = (IF nil THEN out ELSE out \o s) /\ outcnt' = outcnt + Len(s)
    /\ tokens' = tokens \o Literals(s)
    /\ EndBlock(pos', outcnt')
    /\ UNCHANGED <<call, last, block, len, dist>>

LEMMA StoredCases ==
  ASSUME PuffTypeOK, PosInv, Stored
  PROVE  StoredFails \/ \E s \in Seq(Byte) : StoredTooLong(s) \/ StoredOut(s)
<1> USE PuffAssumption
<1>1. Aligned \in Nat /\ inlen \in Nat /\ pos \in Nat /\ pos <= total
  BY AlignedType DEF PuffTypeOK, PosInv
<1>2. UNCHANGED <<call, last, block, len, dist>> /\ stage = "stored"
  BY DEF Stored
<1>3. CASE Return(2, pos) /\ UNCHANGED <<out, outcnt, pos, tokens>>
  BY <1>1, <1>2, <1>3 DEF StoredFails
<1>4. CASE /\ Aligned + 4 <= inlen
           /\ \E k \in {3, 4} : pos' = ByteBits * (Aligned + k)
           /\ Return(-2, pos') /\ UNCHANGED <<out, outcnt, tokens>>
  <2>k. PICK k \in {3, 4} : pos' = ByteBits * (Aligned + k)
    BY <1>4
  <2>m. Aligned + k \in Nat /\ Aligned + k <= inlen /\ Aligned + k > 0
    BY <1>1, <1>4
  <2>1. pos' \in Nat /\ pos' <= total
    BY <2>k, <2>m, WholeBytes
  <2> QED
    BY <1>2, <1>4, <2>1 DEF StoredFails
<1>5. ASSUME NEW n \in 0 .. MaxStored, NEW s \in [1 .. n -> 0 .. Lits - 1]
      PROVE  /\ s \in Seq(Byte) /\ Len(s) = n
             /\ Literals(s) = [k \in 1 .. n |-> Literal(s[k])]
  BY DEF Literals, Byte
<1>6. CASE \E n \in 0 .. MaxStored :
              /\ ~ nil /\ ~ Fits(n) /\ Return(1, pos)
              /\ \E s \in [1 .. n -> 0 .. Lits - 1] :
                    tokens' = tokens \o [k \in 1 .. n |-> Literal(s[k])]
              /\ UNCHANGED <<out, outcnt, pos>>
  <2>1. PICK n \in 0 .. MaxStored :
              /\ ~ nil /\ ~ Fits(n) /\ Return(1, pos)
              /\ \E s \in [1 .. n -> 0 .. Lits - 1] :
                    tokens' = tokens \o [k \in 1 .. n |-> Literal(s[k])]
              /\ UNCHANGED <<out, outcnt, pos>>
    BY <1>6
  <2>2. PICK s \in [1 .. n -> 0 .. Lits - 1] :
              tokens' = tokens \o [k \in 1 .. n |-> Literal(s[k])]
    BY <2>1
  <2>3. s \in Seq(Byte) /\ StoredTooLong(s)
    BY <1>2, <1>5, <2>1, <2>2 DEF StoredTooLong
  <2> QED
    BY <2>3
<1>7. CASE \E n \in 0 .. MaxStored :
              /\ Aligned + 4 + n <= inlen /\ (nil \/ Fits(n))
              /\ pos' = ByteBits * (Aligned + 4 + n)
              /\ \E s \in [1 .. n -> 0 .. Lits - 1] :
                    /\ out' = IF nil THEN out ELSE out \o s
                    /\ tokens' = tokens \o [k \in 1 .. n |-> Literal(s[k])]
              /\ outcnt' = outcnt + n
              /\ EndBlock(pos', outcnt')
  <2>1. PICK n \in 0 .. MaxStored :
              /\ Aligned + 4 + n <= inlen /\ (nil \/ Fits(n))
              /\ pos' = ByteBits * (Aligned + 4 + n)
              /\ \E s \in [1 .. n -> 0 .. Lits - 1] :
                    /\ out' = IF nil THEN out ELSE out \o s
                    /\ tokens' = tokens \o [k \in 1 .. n |-> Literal(s[k])]
              /\ outcnt' = outcnt + n
              /\ EndBlock(pos', outcnt')
    BY <1>7
  <2>2. PICK s \in [1 .. n -> 0 .. Lits - 1] :
              /\ out' = IF nil THEN out ELSE out \o s
              /\ tokens' = tokens \o [k \in 1 .. n |-> Literal(s[k])]
    BY <2>1
  <2>m. Aligned + 4 + n \in Nat /\ Aligned + 4 + n <= inlen /\ Aligned + 4 + n > 0
    BY <1>1, <2>1
  <2>3. pos' \in Nat /\ pos' <= total /\ pos' >= 1
    BY <2>1, <2>m, WholeBytes
  <2>4. s \in Seq(Byte) /\ StoredOut(s)
    BY <1>2, <1>5, <2>1, <2>2, <2>3 DEF StoredOut
  <2> QED
    BY <2>4
<1> QED
  BY <1>3, <1>4, <1>6, <1>7 DEF Stored

(* The end of a block: puff() returns or goes on to the next one. *)
LEMMA EndBlockType ==
  ASSUME PuffTypeOK, NEW p \in Nat, NEW o \in Nat, EndBlock(p, o)
  PROVE  /\ stage' \in {"done", "block"}
         /\ err' \in Int /\ destlen' \in Nat /\ sourcelen' \in Nat
<1>1. CASE last
  BY <1>1, ReturnType DEF EndBlock
<1>2. CASE ~ last
  BY <1>2 DEF EndBlock, PuffTypeOK
<1> QED
  BY <1>1, <1>2

LEMMA StoredBounds ==
  ASSUME BoundsInv, Stored
  PROVE  BoundsInv'
<1>0. [PuffNext]_puffVars /\ PuffTypeOK /\ PosInv /\ BlockTyped
  BY DEF PuffNext, BoundsInv, PuffTypeOK, BlockTyped
<1>1. CASE StoredFails
  <2>1. PICK e \in {2, -2} : Return(e, pos')
    BY <1>1 DEF StoredFails
  <2>2. pos' \in Nat /\ e \in Int /\ outcnt \in Nat
    BY <1>0, <1>1 DEF StoredFails, PuffTypeOK
  <2>3. stage' = "done" /\ err' \in Int /\ destlen' \in Nat /\ sourcelen' \in Nat
    BY <1>0, <2>1, <2>2, ReturnType DEF Return
  <2>4. Ended /\ BlockTyped'
    BY <1>0, <1>1, <2>3 DEF StoredFails, Ended, BlockTyped, block
  <2> QED
    BY <1>0, <2>4, EndedBounds
<1>2. ASSUME NEW s \in Seq(Byte), StoredTooLong(s) PROVE BoundsInv'
  <2>1. stage' = "done" /\ err' = 1 /\ destlen' \in Nat /\ sourcelen' \in Nat
    BY <1>0, <1>2, ReturnType DEF StoredTooLong, Return, PuffTypeOK
  <2>2. tokens' \in Seq(Token)
    BY <1>0, <1>2, LiteralsType DEF StoredTooLong, BlockTyped
  <2>3. Ended /\ BlockTyped'
    BY <1>0, <1>2, <2>1, <2>2 DEF StoredTooLong, Ended, BlockTyped, block, PuffTypeOK, PosInv
  <2> QED
    BY <1>0, <2>3, EndedBounds
<1>3. ASSUME NEW s \in Seq(Byte), StoredOut(s) PROVE BoundsInv'
  <2>1. UNCHANGED <<nil, inlen, outlen, types>> /\ UNCHANGED total
    BY <1>0, CallKept
  <2>2. outcnt \in Nat /\ outlen \in Nat /\ out \in Seq(Byte) /\ Len(s) \in Nat /\ outcnt' \in Nat
    BY <1>0, <1>3 DEF PuffTypeOK, StoredOut
  <2>3. /\ stage' \in {"done", "block"}
        /\ err' \in Int /\ destlen' \in Nat /\ sourcelen' \in Nat
    BY <1>0, <1>3, <2>2, EndBlockType DEF StoredOut
  <2>4. out' \in Seq(Byte) /\ (~ nil => Len(out') = Len(out) + Len(s)) /\ (nil => out' = out)
    BY <1>3, <2>2 DEF StoredOut
  <2>5. tokens' \in Seq(Token)
    BY <1>0, <1>3, LiteralsType DEF StoredOut, BlockTyped
  <2>6. BlockTyped' /\ UNCHANGED block
    BY <1>0, <1>3, <2>5 DEF StoredOut, BlockTyped, block
  <2>7. PuffTypeOK'
    <3>1. nil' \in BOOLEAN /\ inlen' \in Nat /\ outlen' \in Nat
      BY <1>0, <2>1 DEF PuffTypeOK
    <3> QED
      BY <1>3, <2>2, <2>3, <2>4, <2>6, <3>1 DEF PuffTypeOK, BlockTyped, StoredOut
  <2>8. PosInv' /\ DynamicInv' /\ CodesInv'
    BY <1>3, <2>1, <2>3, <2>6
       DEF BoundsInv, StoredOut, PosInv, DynamicInv, CodesInv, CodesUsable, block
  <2>9. OutInv'
    BY <1>3, <2>1, <2>2, <2>3, <2>4 DEF BoundsInv, OutInv, StoredOut, Fits
  <2> QED
    BY <2>7, <2>8, <2>9 DEF BoundsInv
<1> QED
  BY <1>0, <1>1, <1>2, <1>3, StoredCases
-----------------------------------------------------------------------------
(* A return of any code without more output. *)
LEMMA ReturnBounds ==
  ASSUME BoundsInv, [PuffNext]_puffVars, NEW e \in Int, NEW p \in Nat, Return(e, p), BlockTyped',
         out' = out, outcnt' = outcnt, lengths' = lengths, pos' \in Nat, pos' <= total
  PROVE  BoundsInv'
<1>1. outcnt \in Nat /\ PuffTypeOK
  BY DEF BoundsInv, PuffTypeOK
<1>2. stage' = "done" /\ err' \in Int /\ destlen' \in Nat /\ sourcelen' \in Nat
  BY <1>1, ReturnType DEF Return
<1> QED
  BY <1>2, EndedBounds DEF Ended

(* One more byte of output: a literal, or one of a copy. *)
LEMMA ByteBounds ==
  ASSUME BoundsInv, [PuffNext]_puffVars, NEW b \in Byte, nil \/ Fits(1),
         out' = (IF nil THEN out ELSE Append(out, b)), outcnt' = outcnt + 1
  PROVE  /\ out' \in Seq(Byte) /\ outcnt' \in Nat
         /\ IF nil' THEN out' = << >> ELSE Len(out') = outcnt' /\ outcnt' <= outlen'
<1>1. nil' = nil /\ outlen' = outlen
  BY CallKept
<1>2. out \in Seq(Byte) /\ outcnt \in Nat /\ outlen \in Nat
  BY DEF BoundsInv, PuffTypeOK
<1>3. CASE nil
  BY <1>1, <1>2, <1>3 DEF BoundsInv, OutInv
<1>4. CASE ~ nil
  BY <1>1, <1>2, <1>4 DEF BoundsInv, OutInv, Fits
<1> QED
  BY <1>3, <1>4

(* codes() decodes a symbol with a code that has it. *)
LEMMA SymbolBounds ==
  ASSUME BoundsInv, SymbolOut
  PROVE  BoundsInv'
<1>0. /\ [PuffNext]_puffVars /\ PuffTypeOK /\ PosInv /\ BlockTyped /\ stage = "codes"
      /\ UNCHANGED <<last, block, dist>> /\ lengths' = lengths /\ CodesUsable
  BY DEF PuffNext, BoundsInv, PuffTypeOK, BlockTyped, SymbolOut, block, CodesInv
<1>t. UNCHANGED <<nil, inlen, outlen, types>> /\ UNCHANGED total
  BY <1>0, CallKept
<1>c. CodesUsable'
  BY <1>0 DEF CodesUsable, block
<1>d. DynamicInv' \/ stage' \in {"clen", "lengths"}
  BY <1>0 DEF BoundsInv, DynamicInv
<1>1. PICK d \in decode(lencode) :
       \/ /\ ~ Enough(d.n)
          /\ Return(2, pos) /\ UNCHANGED <<out, outcnt, pos, len, tokens>>
       \/ /\ Enough(d.n) /\ pos' = pos + d.n
          /\ \/ /\ d.sym < 0 /\ Return(d.sym, pos')
                /\ UNCHANGED <<out, outcnt, len, tokens>>
             \/ /\ d.sym \in 0 .. Lits - 1 /\ tokens' = Append(tokens, Literal(d.sym))
                /\ IF ~ nil /\ ~ Fits(1) THEN Return(1, pos') /\ UNCHANGED <<out, outcnt>>
                   ELSE /\ out' = IF nil THEN out ELSE Append(out, d.sym)
                        /\ outcnt' = outcnt + 1 /\ Goto("codes")
                /\ UNCHANGED len
             \/ /\ d.sym = EOB /\ EndBlock(pos', outcnt)
                /\ UNCHANGED <<out, outcnt, len, tokens>>
             \/ /\ d.sym - EOB > Len(lens) /\ Return(-10, pos')
                /\ UNCHANGED <<out, outcnt, len, tokens>>
             \/ /\ d.sym - EOB \in DOMAIN lens /\ len' = d.sym - EOB
                /\ Goto("length") /\ UNCHANGED <<out, outcnt, tokens>>
  BY DEF SymbolOut
<1>2. d.n \in Nat /\ d.sym \in Int /\ d.n > 0 /\ pos \in Nat /\ pos <= total /\ pos >= 1
  BY <1>0, DecodeType DEF PuffTypeOK, PosInv
<1>3. CASE Return(2, pos) /\ UNCHANGED <<out, outcnt, pos, len, tokens>>
  <2>1. BlockTyped'
    BY <1>0, <1>3 DEF BlockTyped, block
  <2> QED
    BY <1>0, <1>2, <1>3, <2>1, ReturnBounds
<1>4. ASSUME Enough(d.n), pos' = pos + d.n
      PROVE  pos' \in Nat /\ pos' <= total /\ pos' >= 1
  BY <1>0, <1>2, <1>4, EnoughRead
<1>5. ASSUME NEW e \in Int, Enough(d.n), pos' = pos + d.n, Return(e, pos'),
             UNCHANGED <<out, outcnt, len>>, tokens' \in Seq(Token)
      PROVE  BoundsInv'
  <2>1. BlockTyped'
    BY <1>0, <1>5 DEF BlockTyped, block
  <2> QED
    BY <1>0, <1>4, <1>5, <2>1, ReturnBounds
<1>6. ASSUME d.sym \in 0 .. Lits - 1, tokens' = Append(tokens, Literal(d.sym))
      PROVE  tokens' \in Seq(Token) /\ d.sym \in Byte
  <2>1. Literal(d.sym) \in Token
    BY <1>6 DEF Literal, Token, Byte
  <2> QED
    BY <1>0, <1>6, <2>1 DEF BlockTyped, Byte
<1>7. CASE /\ Enough(d.n) /\ pos' = pos + d.n
           /\ d.sym \in 0 .. Lits - 1 /\ tokens' = Append(tokens, Literal(d.sym))
           /\ (nil \/ Fits(1)) /\ out' = (IF nil THEN out ELSE Append(out, d.sym))
           /\ outcnt' = outcnt + 1 /\ Goto("codes") /\ UNCHANGED len
  <2>1. tokens' \in Seq(Token) /\ d.sym \in Byte
    BY <1>6, <1>7
  <2>2. /\ out' \in Seq(Byte) /\ outcnt' \in Nat
        /\ IF nil' THEN out' = << >> ELSE Len(out') = outcnt' /\ outcnt' <= outlen'
    BY <1>0, <1>7, <2>1, ByteBounds
  <2>3. PuffTypeOK'
    <3>1. nil' \in BOOLEAN /\ inlen' \in Nat /\ outlen' \in Nat
      BY <1>0, <1>t DEF PuffTypeOK
    <3>2. BlockTyped'
      BY <1>0, <1>7, <2>1 DEF BlockTyped, block
    <3> QED
      BY <1>0, <1>4, <1>7, <2>2, <3>1, <3>2 DEF PuffTypeOK, BlockTyped, Goto
  <2>4. PosInv' /\ OutInv' /\ CodesInv' /\ DynamicInv'
    BY <1>4, <1>7, <1>t, <1>c, <1>d, <2>2 DEF PosInv, OutInv, CodesInv, Goto
  <2> QED
    BY <2>3, <2>4 DEF BoundsInv
<1>8. CASE /\ Enough(d.n) /\ pos' = pos + d.n
           /\ EndBlock(pos', outcnt) /\ UNCHANGED <<out, outcnt, len, tokens>>
  <2>1. BlockTyped'
    BY <1>0, <1>8 DEF BlockTyped, block
  <2>2. CASE last
    <3>1. Return(0, pos')
      BY <1>8, <2>2 DEF EndBlock, Return
    <3> QED
      BY <1>0, <1>4, <1>8, <2>1, <3>1, ReturnBounds
  <2>3. CASE ~ last
    <3>1. stage' = "block" /\ UNCHANGED <<err, destlen, sourcelen>>
      BY <1>8, <2>3 DEF EndBlock
    <3>2. Went
      BY <1>4, <1>8, <3>1 DEF Went
    <3> QED
      BY <1>0, <1>c, <1>d, <2>1, <3>1, <3>2, WentBounds DEF CodesInv
  <2> QED
    BY <2>2, <2>3
<1>9. CASE /\ Enough(d.n) /\ pos' = pos + d.n
           /\ d.sym - EOB \in DOMAIN lens /\ len' = d.sym - EOB
           /\ Goto("length") /\ UNCHANGED <<out, outcnt, tokens>>
  <2>1. len' \in DOMAIN lens /\ len' \in Nat
    BY <1>9, PuffAssumption
  <2>2. BlockTyped'
    BY <1>0, <1>9, <2>1 DEF BlockTyped, block
  <2>3. Went
    BY <1>4, <1>9 DEF Went, Goto
  <2> QED
    BY <1>0, <1>9, <1>c, <1>d, <2>1, <2>2, <2>3, WentBounds DEF CodesInv, Goto
<1> QED
  <2>1. tokens \in Seq(Token)
    BY <1>0 DEF BlockTyped
  <2> QED
    BY <1>1, <1>2, <1>3, <1>5, <1>6, <1>7, <1>8, <1>9, <2>1

(* The extra bits of a length come from the table's entry for it. *)
LEMMA LengthBounds ==
  ASSUME BoundsInv, LengthBits
  PROVE  BoundsInv'
<1>0. /\ [PuffNext]_puffVars /\ PuffTypeOK /\ PosInv /\ BlockTyped /\ stage = "length"
      /\ CodesUsable /\ len \in DOMAIN lens
  BY DEF PuffNext, BoundsInv, PuffTypeOK, BlockTyped, LengthBits, CodesInv
<1>1. CASE OutOfInput
  BY <1>0, <1>1, OutOfInputBounds
<1>2. CASE /\ Enough(lext[len]) /\ pos' = pos + lext[len]
           /\ \E x \in 0 .. 2^lext[len] - 1 : len' = lens[len] + x
           /\ Goto("dist")
           /\ UNCHANGED <<call, out, outcnt, last, block, dist, tokens>>
  <2>1. lext[len] \in Nat /\ lens[len] \in Nat
    <3>1. lens \in Seq(Nat) /\ lext \in Seq(Nat) /\ Len(lext) = Len(lens)
      BY PuffAssumption
    <3>2. len \in 1 .. Len(lens) /\ len \in 1 .. Len(lext)
      BY <1>0, <3>1
    <3> QED
      BY <3>1, <3>2
  <2>2. pos' \in Nat /\ pos' <= total /\ pos' >= 1
    <3>1. PICK a \in Nat : a = lext[len]
      BY <2>1
    <3>2. Enough(a) /\ pos' = pos + a /\ pos \in Nat /\ pos >= 1
      BY <1>0, <1>2, <3>1 DEF PosInv, PuffTypeOK
    <3>3. pos + a \in Nat /\ pos + a <= total
      BY <1>0, <3>2, EnoughRead
    <3> QED
      BY <3>2, <3>3
  <2>3. len' \in Nat
    BY <1>2, <2>1
  <2>4. BlockTyped'
    BY <1>0, <1>2, <2>3 DEF BlockTyped, block
  <2>5. Went
    BY <1>2, <2>2 DEF Went, Goto
  <2>6. DynamicInv' /\ CodesInv'
    BY <1>0, <1>2 DEF BoundsInv, DynamicInv, CodesInv, CodesUsable, Goto, block
  <2> QED
    BY <1>0, <2>4, <2>5, <2>6, WentBounds
<1> QED
  BY <1>1, <1>2 DEF LengthBits

(* The distance is looked up in its table and checked before the copy.     *)
LEMMA DistanceBounds ==
  ASSUME BoundsInv, Distance
  PROVE  BoundsInv'
<1>0. /\ [PuffNext]_puffVars /\ PuffTypeOK /\ PosInv /\ BlockTyped /\ stage = "dist"
      /\ UNCHANGED <<out, last, block, len>> /\ lengths' = lengths /\ CodesUsable
  BY DEF PuffNext, BoundsInv, PuffTypeOK, BlockTyped, Distance, block, CodesInv
<1>t. UNCHANGED <<nil, inlen, outlen, types>> /\ UNCHANGED total
  BY <1>0, CallKept
<1>c. CodesUsable'
  BY <1>0 DEF CodesUsable, block
<1>e. DynamicInv' \/ stage' \in {"clen", "lengths"}
  BY <1>0 DEF BoundsInv, DynamicInv
<1>1. PICK d \in decode(distcode) :
       \/ /\ ~ Enough(d.n)
          /\ Return(2, pos) /\ UNCHANGED <<outcnt, pos, dist, tokens>>
       \/ /\ Enough(d.n) /\ d.sym < 0
          /\ pos' = pos + d.n /\ Return(d.sym, pos') /\ UNCHANGED <<outcnt, dist, tokens>>
       \/ /\ Enough(d.n) /\ d.sym >= 0 /\ ~ Enough(d.n + dext[d.sym + 1])
          /\ Return(2, pos) /\ UNCHANGED <<outcnt, pos, dist, tokens>>
       \/ /\ d.sym >= 0 /\ Enough(d.n + dext[d.sym + 1])
          /\ pos' = pos + d.n + dext[d.sym + 1]
          /\ \E x \in 0 .. 2^dext[d.sym + 1] - 1 : dist' = dists[d.sym + 1] + x
          /\ \/ /\ TooFar(dist') /\ Return(-11, pos') /\ UNCHANGED <<outcnt, tokens>>
             \/ /\ ~ TooFar(dist') /\ tokens' = Append(tokens, Copied(len, dist'))
                /\ \/ nil /\ outcnt' = outcnt + len /\ Goto("codes")
                   \/ ~ nil /\ ~ Fits(len) /\ Return(1, pos') /\ UNCHANGED outcnt
                   \/ ~ nil /\ Fits(len) /\ Goto("copy") /\ UNCHANGED outcnt
  BY DEF Distance
<1>2. /\ d.n \in Nat /\ d.sym \in Int /\ d.n > 0
      /\ d.sym >= 0 => d.sym \in DOMAIN distcode /\ distcode[d.sym] > 0
  BY <1>0, DecodeType DEF PuffTypeOK
<1>p. /\ pos \in Nat /\ pos <= total /\ pos >= 1 /\ total \in Nat
      /\ outcnt \in Nat /\ outlen \in Nat /\ len \in Nat /\ dist \in Nat
  BY <1>0, PuffAssumption DEF PuffTypeOK, PosInv, total
<1>x. ASSUME d.sym >= 0
      PROVE  dext[d.sym + 1] \in Nat /\ dists[d.sym + 1] \in Nat \ {0}
  <2>1. d.sym + 1 \in DOMAIN dists
    BY <1>0, <1>2, <1>x DEF CodesUsable
  <2>2. dists \in Seq(Nat \ {0}) /\ dext \in Seq(Nat) /\ Len(dext) = Len(dists)
    BY PuffAssumption
  <2>3. DOMAIN dists = DOMAIN dext
    BY <2>2
  <2> QED
    BY <2>1, <2>2, <2>3
<1>3. CASE Return(2, pos) /\ UNCHANGED <<outcnt, pos, dist, tokens>>
  <2>1. BlockTyped'
    BY <1>0, <1>3 DEF BlockTyped, block
  <2> QED
    BY <1>0, <1>p, <1>3, <2>1, ReturnBounds
<1>4. CASE /\ Enough(d.n) /\ d.sym < 0
           /\ pos' = pos + d.n /\ Return(d.sym, pos') /\ UNCHANGED <<outcnt, dist, tokens>>
  <2>1. BlockTyped'
    BY <1>0, <1>4 DEF BlockTyped, block
  <2>2. pos' \in Nat /\ pos' <= total
    BY <1>0, <1>2, <1>4, EnoughRead
  <2> QED
    BY <1>0, <1>2, <1>4, <2>1, <2>2, ReturnBounds
<1>5. CASE /\ d.sym >= 0 /\ Enough(d.n + dext[d.sym + 1])
           /\ pos' = pos + d.n + dext[d.sym + 1]
           /\ \E x \in 0 .. 2^dext[d.sym + 1] - 1 : dist' = dists[d.sym + 1] + x
           /\ \/ /\ TooFar(dist') /\ Return(-11, pos') /\ UNCHANGED <<outcnt, tokens>>
              \/ /\ ~ TooFar(dist') /\ tokens' = Append(tokens, Copied(len, dist'))
                 /\ \/ nil /\ outcnt' = outcnt + len /\ Goto("codes")
                    \/ ~ nil /\ ~ Fits(len) /\ Return(1, pos') /\ UNCHANGED outcnt
                    \/ ~ nil /\ Fits(len) /\ Goto("copy") /\ UNCHANGED outcnt
  <2>0. /\ d.sym >= 0 /\ Enough(d.n + dext[d.sym + 1])
        /\ pos' = pos + d.n + dext[d.sym + 1]
        /\ \E x \in 0 .. 2^dext[d.sym + 1] - 1 : dist' = dists[d.sym + 1] + x
    BY <1>5
  <2>1. dist' \in Nat \ {0} /\ dist' >= 1
    <3>1. PICK a \in Nat \ {0} : a = dists[d.sym + 1]
      BY <1>x, <2>0
    <3>2. \E x \in Nat : dist' = a + x
      BY <2>0, <3>1
    <3> QED
      BY <3>1, <3>2
  <2>2. pos' \in Nat /\ pos' <= total /\ pos' >= 1
    <3>1. PICK a \in Nat : a = dext[d.sym + 1]
      BY <1>x, <2>0
    <3>2. d.n + a \in Nat /\ Enough(d.n + a) /\ pos' = pos + d.n + a /\ d.n \in Nat
      BY <1>2, <2>0, <3>1
    <3>3. pos + (d.n + a) \in Nat /\ pos + (d.n + a) <= total
      BY <1>0, <3>2, EnoughRead
    <3> QED
      BY <1>p, <3>2, <3>3
  <2>3. tokens' \in Seq(Token)
    <3>1. Copied(len, dist') \in Token
      BY <1>p, <2>1 DEF Copied, Token
    <3>2. PICK t \in Token : t = Copied(len, dist')
      BY <3>1
    <3>3. tokens' = tokens \/ tokens' = Append(tokens, t)
      BY <1>5, <3>2
    <3>4. tokens \in Seq(Token)
      BY <1>0 DEF BlockTyped
    <3> QED
      BY <3>3, <3>4
  <2>4. BlockTyped'
    BY <1>0, <2>1, <2>3 DEF BlockTyped, block
  <2>5. ASSUME NEW e \in Int, Return(e, pos'), outcnt' = outcnt PROVE BoundsInv'
    BY <1>0, <2>2, <2>4, <2>5, ReturnBounds
  <2>6. CASE /\ ~ TooFar(dist')
             /\ \/ nil /\ outcnt' = outcnt + len /\ Goto("codes")
                \/ ~ nil /\ Fits(len) /\ Goto("copy") /\ UNCHANGED outcnt
    <3>1. stage' \in {"codes", "copy"} /\ UNCHANGED <<err, destlen, sourcelen>> /\ outcnt' \in Nat
      BY <1>p, <2>6 DEF Goto
    <3>2. PuffTypeOK'
      <4>1. nil' \in BOOLEAN /\ inlen' \in Nat /\ outlen' \in Nat
        BY <1>0, <1>t DEF PuffTypeOK
      <4> QED
        BY <1>0, <2>2, <2>4, <3>1, <4>1 DEF PuffTypeOK, BlockTyped
    <3>3. PosInv' /\ CodesInv' /\ DynamicInv'
      BY <1>t, <1>c, <1>e, <2>2, <3>1 DEF PosInv, CodesInv
    <3>4. OutInv'
      BY <1>0, <1>p, <1>t, <2>1, <2>6 DEF BoundsInv, OutInv, Fits, TooFar, Goto
    <3> QED
      BY <3>2, <3>3, <3>4 DEF BoundsInv
  <2> QED
    BY <1>5, <2>5, <2>6
<1> QED
  BY <1>1, <1>3, <1>4, <1>5

(* The copy reads behind the start of the output and writes before its end. *)
LEMMA CopyBounds ==
  ASSUME BoundsInv, CopyByte
  PROVE  BoundsInv'
<1>0. /\ [PuffNext]_puffVars /\ PuffTypeOK /\ PosInv /\ BlockTyped /\ stage = "copy" /\ CodesUsable
      /\ UNCHANGED <<pos, last, block, dist, tokens>>
  BY DEF PuffNext, BoundsInv, PuffTypeOK, BlockTyped, CopyByte, CodesInv
<1>t. UNCHANGED <<nil, inlen, outlen, types>> /\ UNCHANGED total
  BY <1>0, CallKept
<1>p. /\ out \in Seq(Byte) /\ outcnt \in Nat /\ outlen \in Nat /\ len \in Nat /\ dist \in Nat
      /\ pos \in Nat /\ pos <= total /\ pos >= 1
      /\ ~ nil /\ 1 <= dist /\ dist <= outcnt /\ outcnt + len <= outlen /\ Len(out) = outcnt
  BY <1>0 DEF BoundsInv, OutInv, PuffTypeOK, PosInv
<1>d. CodesUsable' /\ (DynamicInv' \/ stage' \in {"clen", "lengths"})
  BY <1>0 DEF BoundsInv, CodesUsable, DynamicInv, block
<1>1. CASE len = 0
  <2>1. Went /\ stage' = "codes" /\ len' = len
    BY <1>0, <1>p, <1>1 DEF CopyByte, Goto, Went
  <2>2. BlockTyped'
    BY <1>0, <2>1 DEF BlockTyped, block
  <2> QED
    BY <1>0, <1>d, <2>1, <2>2, WentBounds DEF CodesInv
<1>2. CASE len # 0
  <2>1. /\ out' = Append(out, Source) /\ outcnt' = outcnt + 1 /\ len' = len - 1
        /\ UNCHANGED <<stage, err, destlen, sourcelen>>
    BY <1>2 DEF CopyByte
  <2>2. Source \in Byte
    BY <1>p DEF Source
  <2>3. /\ out' \in Seq(Byte) /\ outcnt' \in Nat /\ Len(out') = outcnt' /\ len' \in Nat
        /\ outcnt' + len' <= outlen /\ outcnt' <= outlen /\ dist <= outcnt'
    BY <1>p, <1>2, <2>1, <2>2
  <2>4. PuffTypeOK'
    <3>1. nil' \in BOOLEAN /\ inlen' \in Nat /\ outlen' \in Nat
      BY <1>0, <1>t DEF PuffTypeOK
    <3>2. BlockTyped'
      BY <1>0, <2>3 DEF BlockTyped, block
    <3> QED
      BY <1>0, <1>p, <2>1, <2>3, <3>1, <3>2 DEF PuffTypeOK, BlockTyped
  <2>5. PosInv' /\ CodesInv' /\ DynamicInv' /\ OutInv'
    BY <1>0, <1>t, <1>p, <1>d, <2>1, <2>3 DEF PosInv, CodesInv, OutInv
  <2> QED
    BY <2>4, <2>5 DEF BoundsInv
<1> QED
  BY <1>1, <1>2
-----------------------------------------------------------------------------
(* The counts of a dynamic block are checked before they are used. *)
LEMMA DynamicBounds ==
  ASSUME BoundsInv, Dynamic
  PROVE  BoundsInv'
<1>0. /\ [PuffNext]_puffVars /\ PuffTypeOK /\ PosInv /\ BlockTyped /\ stage = "dynamic"
  BY DEF PuffNext, BoundsInv, PuffTypeOK, BlockTyped, Dynamic
<1>n. 2 * CountBits + NcodeBits \in Nat
  BY PuffAssumption
<1>1. CASE OutOfInput
  BY <1>0, <1>1, OutOfInputBounds
<1>2. CASE /\ Enough(2 * CountBits + NcodeBits) /\ pos' = pos + (2 * CountBits + NcodeBits)
           /\ nlen' \in EOB + 1 .. EOB + 2^CountBits
           /\ ndist' \in 1 .. 2^CountBits
           /\ IF CountsOk(nlen', ndist') THEN Goto("clen") ELSE Return(-3, pos')
           /\ UNCHANGED <<call, out, outcnt, last, clen, lengths,
                          lencode, distcode, len, dist, tokens>>
  <2>1. pos' \in Nat /\ pos' <= total /\ pos' >= 1
    BY <1>0, <1>n, <1>2, EnoughRead DEF PosInv, PuffTypeOK
  <2>2. nlen' \in Nat /\ ndist' \in Nat /\ nlen' >= EOB + 1
    BY <1>2, PuffAssumption DEF EOB
  <2>3. BlockTyped'
    BY <1>0, <1>2, <2>2 DEF BlockTyped
  <2>4. CASE Return(-3, pos')
    BY <1>0, <1>2, <2>1, <2>3, <2>4, ReturnBounds
  <2>5. CASE CountsOk(nlen', ndist') /\ Goto("clen")
    <3>1. Went
      BY <1>2, <2>1, <2>5 DEF Went, Goto
    <3>2. DynamicInv' /\ CodesInv'
      BY <1>2, <2>2, <2>5 DEF BoundsInv, DynamicInv, CodesInv, CodesUsable, Goto, CountsOk
    <3> QED
      BY <1>0, <2>3, <3>1, <3>2, WentBounds
  <2> QED
    BY <1>2, <2>4, <2>5
<1> QED
  BY <1>1, <1>2 DEF Dynamic

(* The code for code lengths has a length for each of its symbols. *)
LEMMA ClenBounds ==
  ASSUME BoundsInv, CodeLengths
  PROVE  BoundsInv'
<1>0. /\ [PuffNext]_puffVars /\ PuffTypeOK /\ PosInv /\ BlockTyped /\ stage = "clen"
  BY DEF PuffNext, BoundsInv, PuffTypeOK, BlockTyped, CodeLengths
<1>1. CASE OutOfInput
  BY <1>0, <1>1, OutOfInputBounds
<1>2. ASSUME NEW ncode \in MinCode .. MinCode + 2^NcodeBits - 1,
             Enough(CodeBits * ncode), pos' = pos + CodeBits * ncode,
             \E l \in [1 .. ncode -> 0 .. 2^CodeBits - 1] :
                clen' = [s \in CodeSymbols |->
                            LET k == CHOOSE k \in DOMAIN order : order[k] = s
                            IN  IF k <= ncode THEN l[k] ELSE 0],
             lengths' = << >>,
             IF construct(clen') = 0 THEN Goto("lengths") ELSE Return(-4, pos'),
             UNCHANGED <<call, out, outcnt, last, nlen, ndist,
                         lencode, distcode, len, dist, tokens>>
      PROVE  BoundsInv'
  <2>1. ncode \in Nat /\ CodeBits * ncode \in Nat
    BY PuffAssumption
  <2>2. pos' \in Nat /\ pos' <= total /\ pos' >= 1
    BY <1>0, <1>2, <2>1, EnoughRead DEF PosInv, PuffTypeOK
  <2>3. IsCode(clen') /\ DOMAIN clen' = CodeSymbols
    <3>1. PICK l \in [1 .. ncode -> 0 .. 2^CodeBits - 1] :
                clen' = [s \in CodeSymbols |->
                            LET k == CHOOSE k \in DOMAIN order : order[k] = s
                            IN  IF k <= ncode THEN l[k] ELSE 0]
      BY <1>2
    <3>2. CodeSymbols \subseteq Nat
      BY PuffAssumption DEF CodeSymbols, MaxBitsAssumption
    <3>3. ASSUME NEW s \in CodeSymbols PROVE clen'[s] \in Nat
      <4> DEFINE k == CHOOSE k \in DOMAIN order : order[k] = s
      <4>1. \E j \in DOMAIN order : order[j] = s
        BY PuffAssumption
      <4>2. k \in DOMAIN order
        BY <4>1
      <4>3. k \in Nat /\ k >= 1
        BY <4>2, PuffAssumption DEF MaxBitsAssumption
      <4>4. clen'[s] = IF k <= ncode THEN l[k] ELSE 0
        BY <3>1
      <4>5. k <= ncode => l[k] \in Nat
        <5> HIDE DEF k
        <5> QED
          BY <2>1, <4>3
      <4> QED
        BY <4>4, <4>5
    <3> QED
      BY <3>1, <3>2, <3>3 DEF IsCode
  <2>4. BlockTyped'
    BY <1>0, <1>2, <2>3 DEF BlockTyped
  <2>l. Len(lengths') = 0 /\ lengths' = << >> /\ MAXCODES \in Nat
    BY <1>2, PuffAssumption DEF MAXCODES
  <2>5. CASE Return(-4, pos')
    <3>1. stage' = "done" /\ err' \in Int /\ destlen' \in Nat /\ sourcelen' \in Nat
      BY <1>0, <2>2, <2>5, ReturnType DEF Return, PuffTypeOK
    <3>2. UNCHANGED <<nil, inlen, outlen, types>> /\ UNCHANGED total
      BY <1>0, CallKept
    <3>3. PuffTypeOK'
      <4>1. nil' \in BOOLEAN /\ inlen' \in Nat /\ outlen' \in Nat
        BY <1>0, <3>2 DEF PuffTypeOK
      <4>2. out' \in Seq(Byte) /\ outcnt' \in Nat
        BY <1>0, <1>2 DEF PuffTypeOK
      <4> QED
        BY <2>2, <2>4, <3>1, <4>1, <4>2 DEF PuffTypeOK, BlockTyped
    <3>4. PosInv' /\ DynamicInv' /\ CodesInv'
      BY <2>2, <2>l, <3>1, <3>2 DEF PosInv, DynamicInv, CodesInv, CodesUsable
    <3>5. OutInv'
      BY <1>2, <3>1, <3>2 DEF BoundsInv, OutInv
    <3> QED
      BY <3>3, <3>4, <3>5 DEF BoundsInv
  <2>6. CASE Goto("lengths")
    <3>1. Went
      BY <1>2, <2>2, <2>6 DEF Went, Goto
    <3>2. nlen \in Nat /\ ndist \in Nat /\ CountsOk(nlen, ndist) /\ nlen >= EOB + 1
      BY <1>0 DEF BoundsInv, DynamicInv, PuffTypeOK
    <3>3. DynamicInv' /\ CodesInv'
      BY <1>2, <2>3, <2>6, <2>l, <3>2 DEF DynamicInv, CodesInv, CodesUsable, Goto, CountsOk
    <3> QED
      BY <1>0, <2>4, <3>1, <3>3, WentBounds
  <2> QED
    BY <1>2, <2>5, <2>6
<1> QED
  BY <1>1, <1>2 DEF CodeLengths

(* The lengths so far, n times v behind them. *)
LEMMA RepeatType ==
  ASSUME PuffTypeOK, NEW v \in Nat, NEW n \in Nat
  PROVE  Repeat(v, n) \in Seq(Nat) /\ Len(Repeat(v, n)) = Len(lengths) + n
<1> DEFINE r == [k \in 1 .. n |-> v]
<1>1. r \in Seq(Nat) /\ Len(r) = n
  OBVIOUS
<1>2. lengths \in Seq(Nat)
  BY DEF PuffTypeOK
<1> HIDE DEF r
<1>3. lengths \o r \in Seq(Nat) /\ Len(lengths \o r) = Len(lengths) + Len(r)
  BY <1>1, <1>2
<1> QED
  BY <1>1, <1>3 DEF Repeat, r

(***************************************************************************)
(* What a step of the loop over the lengths does: a return, or more        *)
(* lengths, never more than were announced.                                *)
(***************************************************************************)
LengthsFail ==
    /\ \E e \in Int \ {0, 1} : Return(e, pos')
    /\ lengths' = lengths

LEMMA LengthsCases ==
  ASSUME BoundsInv, Lengths
  PROVE  /\ pos' \in Nat /\ pos' <= total /\ pos' >= 1
         /\ \/ LengthsFail
            \/ /\ Goto("lengths") /\ lengths' \in Seq(Nat)
               /\ Len(lengths') <= nlen + ndist
<1>0. /\ PuffTypeOK /\ PosInv /\ stage = "lengths" /\ DOMAIN clen = CodeSymbols
      /\ Len(lengths) < nlen + ndist /\ lengths \in Seq(Nat) /\ IsCode(clen)
      /\ pos \in Nat /\ pos <= total /\ pos >= 1 /\ Len(lengths) \in Nat
      /\ nlen \in Nat /\ ndist \in Nat
  BY DEF BoundsInv, PuffTypeOK, Lengths, DynamicInv, PosInv
<1> DEFINE extra(d) == IF d.sym \in DOMAIN Repeats /\ ~ NoLast(d) THEN Repeats[d.sym].bits ELSE 0
           v(d) == IF d.sym = Last THEN lengths[Len(lengths)] ELSE 0
<1>1. PICK d \in decode(clen) :
           \/ /\ ~ Enough(d.n + extra(d))
              /\ Return(2, pos) /\ UNCHANGED <<pos, lengths>>
           \/ /\ Enough(d.n + extra(d)) /\ pos' = pos + d.n + extra(d)
              /\ \/ d.sym < 0 /\ Return(d.sym, pos') /\ UNCHANGED lengths
                 \/ NoLast(d) /\ Return(-5, pos') /\ UNCHANGED lengths
                 \/ /\ d.sym \in 0 .. MAXBITS
                    /\ lengths' = Append(lengths, d.sym) /\ Goto("lengths")
                 \/ /\ d.sym \in DOMAIN Repeats /\ ~ NoLast(d)
                    /\ \E x \in 0 .. 2^extra(d) - 1 :
                       LET n == Repeats[d.sym].base + x
                       IN  IF TooMany(n) THEN Return(-6, pos') /\ UNCHANGED lengths
                           ELSE lengths' = Repeat(v(d), n) /\ Goto("lengths")
  BY DEF Lengths
<1>2. d.n \in Nat /\ d.sym \in Int /\ d.n > 0 /\ (d.sym < 0 => d.sym = -10)
  <2>1. d.n \in Nat /\ d.sym \in Int /\ d.n > 0
    BY <1>0, DecodeType
  <2> QED
    BY <1>0, <2>1 DEF decode, IsCode
<1>3. DOMAIN Repeats = Last .. Last + 2 /\ \A s \in DOMAIN Repeats :
         Repeats[s].base \in Nat /\ Repeats[s].bits \in Nat
  BY PuffAssumption
<1>4. extra(d) \in Nat
  BY <1>3
<1> HIDE DEF extra
<1>5. ASSUME Enough(d.n + extra(d)), pos' = pos + d.n + extra(d)
      PROVE  pos' \in Nat /\ pos' <= total /\ pos' >= 1
  <2>1. d.n + extra(d) \in Nat
    BY <1>2, <1>4
  <2>2. pos + (d.n + extra(d)) <= total
    BY <1>0, <1>5, <2>1, EnoughRead
  <2> QED
    BY <1>0, <1>2, <1>4, <1>5, <2>2
<1>6. CASE Return(2, pos) /\ UNCHANGED <<pos, lengths>>
  BY <1>0, <1>6 DEF LengthsFail
<1>7. CASE /\ Enough(d.n + extra(d)) /\ pos' = pos + d.n + extra(d)
           /\ \/ d.sym < 0 /\ Return(d.sym, pos') /\ UNCHANGED lengths
              \/ NoLast(d) /\ Return(-5, pos') /\ UNCHANGED lengths
  <2>1. LengthsFail
    BY <1>2, <1>7 DEF LengthsFail
  <2> QED
    BY <1>5, <1>7, <2>1
<1>8. CASE /\ Enough(d.n + extra(d)) /\ pos' = pos + d.n + extra(d)
           /\ d.sym \in 0 .. MAXBITS
           /\ lengths' = Append(lengths, d.sym) /\ Goto("lengths")
  <2>1. d.sym \in Nat
    BY <1>8
  <2>2. lengths' \in Seq(Nat) /\ Len(lengths') = Len(lengths) + 1
    BY <1>0, <1>8, <2>1
  <2> QED
    BY <1>0, <1>5, <1>8, <2>2
<1>9. CASE /\ Enough(d.n + extra(d)) /\ pos' = pos + d.n + extra(d)
           /\ d.sym \in DOMAIN Repeats /\ ~ NoLast(d)
           /\ \E x \in 0 .. 2^extra(d) - 1 :
              LET n == Repeats[d.sym].base + x
              IN  IF TooMany(n) THEN Return(-6, pos') /\ UNCHANGED lengths
                  ELSE lengths' = Repeat(v(d), n) /\ Goto("lengths")
  <2>1. v(d) \in Nat
    <3>1. CASE d.sym = Last
      <4>1. lengths # << >>
        BY <1>9, <3>1 DEF NoLast
      <4>2. Len(lengths) \in 1 .. Len(lengths)
        BY <1>0, <4>1
      <4> QED
        BY <1>0, <3>1, <4>2
    <3> QED
      BY <3>1
  <2> HIDE DEF v
  <2>2. PICK x \in 0 .. 2^extra(d) - 1 :
              IF TooMany(Repeats[d.sym].base + x) THEN Return(-6, pos') /\ UNCHANGED lengths
              ELSE lengths' = Repeat(v(d), Repeats[d.sym].base + x) /\ Goto("lengths")
    BY <1>9
  <2>3. PICK n \in Nat : n = Repeats[d.sym].base + x
    BY <1>3, <1>9
  <2>4. CASE TooMany(n)
    BY <1>5, <1>9, <2>2, <2>3, <2>4 DEF LengthsFail
  <2>5. CASE ~ TooMany(n)
    <3>1. lengths' = Repeat(v(d), n) /\ Goto("lengths")
      BY <2>2, <2>3, <2>5
    <3>2. lengths' \in Seq(Nat) /\ Len(lengths') = Len(lengths) + n
      BY <1>0, <2>1, <3>1, RepeatType
    <3>3. Len(lengths') <= nlen + ndist
      BY <1>0, <2>5, <3>2 DEF TooMany
    <3> QED
      BY <1>5, <1>9, <3>1, <3>2, <3>3
  <2> QED
    BY <2>4, <2>5
<1> QED
  BY <1>1, <1>6, <1>7, <1>8, <1>9

LEMMA LengthsBounds ==
  ASSUME BoundsInv, Lengths
  PROVE  BoundsInv'
<1>0. /\ [PuffNext]_puffVars /\ PuffTypeOK /\ BlockTyped /\ stage = "lengths"
      /\ UNCHANGED <<out, outcnt, last, nlen, ndist, clen, lencode, distcode, len, dist, tokens>>
  BY DEF PuffNext, BoundsInv, PuffTypeOK, BlockTyped, Lengths
<1>1. pos' \in Nat /\ pos' <= total /\ pos' >= 1
  BY LengthsCases
<1>2. CASE LengthsFail
  <2>1. PICK e \in Int : Return(e, pos')
    BY <1>2 DEF LengthsFail
  <2>2. BlockTyped' /\ lengths' = lengths
    BY <1>0, <1>2 DEF BlockTyped, LengthsFail
  <2> QED
    BY <1>0, <1>1, <2>1, <2>2, ReturnBounds
<1>3. CASE Goto("lengths") /\ lengths' \in Seq(Nat) /\ Len(lengths') <= nlen + ndist
  <2>1. BlockTyped'
    BY <1>0, <1>3 DEF BlockTyped
  <2>2. Went
    BY <1>0, <1>1, <1>3 DEF Went, Goto
  <2>3. /\ nlen \in Nat /\ ndist \in Nat /\ CountsOk(nlen, ndist) /\ nlen >= EOB + 1
        /\ DOMAIN clen = CodeSymbols
    BY <1>0 DEF BoundsInv, DynamicInv, PuffTypeOK
  <2>4. Len(lengths') \in Nat /\ Len(lengths') <= MAXCODES
    BY <1>3, <2>3, PuffAssumption DEF CountsOk, MAXCODES
  <2>5. DynamicInv' /\ CodesInv'
    BY <1>0, <1>3, <2>3, <2>4 DEF DynamicInv, CodesInv, CodesUsable, Goto
  <2> QED
    BY <1>0, <2>1, <2>2, <2>5, WentBounds
<1> QED
  BY <1>2, <1>3, LengthsCases

(* Two codes that were found usable, with an end and no unknown distance. *)
LEMMA MakeCodesBounds ==
  ASSUME BoundsInv, MakeCodes
  PROVE  BoundsInv'
<1>0. /\ [PuffNext]_puffVars /\ PuffTypeOK /\ PosInv /\ BlockTyped /\ stage = "lengths"
      /\ UNCHANGED <<out, outcnt, pos, last, nlen, ndist, clen, lengths, len, dist, tokens>>
      /\ pos \in Nat /\ pos <= total /\ pos >= 1
  BY DEF PuffNext, BoundsInv, PuffTypeOK, BlockTyped, MakeCodes, PosInv
<1>1. /\ nlen \in Nat /\ ndist \in Nat /\ nlen >= EOB + 1 /\ ndist <= MAXDCODES
      /\ lengths \in Seq(Nat) /\ Len(lengths) = nlen + ndist /\ EOB \in Nat
  BY <1>0, PuffAssumption DEF BoundsInv, DynamicInv, PuffTypeOK, MakeCodes, CountsOk, EOB
<1> DEFINE lc == [s \in 0 .. nlen - 1 |-> lengths[s + 1]]
           dc == [s \in 0 .. ndist - 1 |-> lengths[nlen + s + 1]]
<1>2. /\ lencode' = lc /\ distcode' = dc
      /\ \/ \E e \in {-9, -7, -8} : Return(e, pos)
         \/ HasEnd(lengths) /\ Usable(lc) /\ Usable(dc) /\ Goto("codes")
  BY DEF MakeCodes
<1>3. IsCode(lc) /\ DOMAIN lc = 0 .. nlen - 1
  BY <1>1 DEF IsCode
<1>4. IsCode(dc) /\ DOMAIN dc = 0 .. ndist - 1
  BY <1>1 DEF IsCode
<1>5. lc[EOB] = lengths[EOB + 1] /\ lengths[EOB + 1] \in Nat
  BY <1>1
<1> HIDE DEF lc, dc
<1>6. BlockTyped'
  BY <1>0, <1>2, <1>3, <1>4 DEF BlockTyped
<1>7. CASE \E e \in {-9, -7, -8} : Return(e, pos)
  <2>1. PICK e \in Int : Return(e, pos)
    BY <1>7
  <2> QED
    BY <1>0, <1>6, <2>1, ReturnBounds
<1>8. CASE HasEnd(lengths) /\ Usable(lc) /\ Usable(dc) /\ Goto("codes")
  <2>1. Went
    BY <1>0, <1>8 DEF Went, Goto
  <2>2. lc[EOB] > 0
    BY <1>5, <1>8 DEF HasEnd
  <2>3. Decodable(lc) /\ Decodable(dc)
    BY <1>8 DEF Usable, Decodable
  <2>4. \A s \in DOMAIN dc : s + 1 \in DOMAIN dists
    <3>1. Len(dists) = MAXDCODES /\ dists \in Seq(Nat \ {0})
      BY PuffAssumption
    <3>2. DOMAIN dists = 1 .. MAXDCODES /\ DOMAIN dc = 0 .. ndist - 1 /\ ndist \in Nat
          /\ ndist <= MAXDCODES /\ MAXDCODES \in Nat
      BY <1>1, <1>4, <3>1
    <3>3. ASSUME NEW s \in 0 .. ndist - 1 PROVE s + 1 \in 1 .. MAXDCODES
      BY <3>2
    <3> QED
      BY <3>2, <3>3
  <2>5. CodesUsable'
    BY <1>2, <2>2, <2>3, <2>4 DEF CodesUsable
  <2>6. DynamicInv' /\ CodesInv'
    BY <1>0, <1>8, <2>5 DEF BoundsInv, DynamicInv, CodesInv, Goto
  <2> QED
    BY <1>0, <1>6, <2>1, <2>6, WentBounds
<1> QED
  BY <1>2, <1>7, <1>8

LEMMA BoundsStep == BoundsInv /\ [PuffNext]_puffVars => BoundsInv'
<1> SUFFICES ASSUME BoundsInv, [PuffNext]_puffVars PROVE BoundsInv'
  OBVIOUS
<1>1. CASE UNCHANGED puffVars
  BY <1>1 DEF puffVars, call, block, BoundsInv, PuffTypeOK, PosInv, OutInv, DynamicInv, CodesInv,
     CodesUsable, total
<1>2. CASE PuffNext
  BY <1>1, <1>2, BlockBounds, StoredBounds, SymbolBounds, LengthBounds, DistanceBounds,
     CopyBounds, DynamicBounds, ClenBounds, LengthsBounds, MakeCodesBounds DEF PuffNext, Finished
<1> QED
  BY <1>1, <1>2

(* Every variable of puff() and its helpers keeps its type. *)
THEOREM TypeCorrect == PuffSpec => []PuffTypeOK
<1>1. BoundsInv => PuffTypeOK
  BY DEF BoundsInv
<1> QED
  BY <1>1, BoundsInit, BoundsStep, PTL DEF PuffSpec

(***************************************************************************)
(* puff() stays within the input, the space for the output and its tables, *)
(* for every stream, and never decodes with a code that could not end.     *)
(***************************************************************************)
THEOREM Bounds == PuffSpec => []InBounds
<1>1. BoundsInv => InBounds
  BY DEF BoundsInv, PosInv, OutInv, DynamicInv, CodesInv, InBounds
<1> QED
  BY <1>1, BoundsInit, BoundsStep, PTL DEF PuffSpec
-----------------------------------------------------------------------------
(***************************************************************************)
(* What Expansions computes.  f is the expansion of the first 0, 1, ..., n *)
(* of the tokens ts.                                                       *)
(***************************************************************************)
Expands(ts, n, f) ==
    /\ f = [k \in 0 .. n |-> f[k]]
    /\ f[0] = << >>
    /\ \A k \in 1 .. n : f[k] = Apply(f[k - 1], ts[k])

(* f with the expansion of one more token. *)
Further(ts, n, f) ==
    [k \in 0 .. n + 1 |-> IF k = n + 1 THEN Apply(f[n], ts[n + 1]) ELSE f[k]]

LEMMA ExpandsFurther ==
  ASSUME NEW ts, NEW n \in Nat, NEW f, Expands(ts, n, f)
  PROVE  Expands(ts, n + 1, Further(ts, n, f))
<1> DEFINE g == Further(ts, n, f)
<1>1. g = [k \in 0 .. n + 1 |-> g[k]]
  BY DEF Further
<1>2. /\ g[n + 1] = Apply(f[n], ts[n + 1])
      /\ \A k \in 0 .. n : g[k] = f[k]
  BY DEF Further
<1> HIDE DEF g
<1>3. g[0] = << >>
  BY <1>2 DEF Expands
<1>4. ASSUME NEW k \in 1 .. n + 1 PROVE g[k] = Apply(g[k - 1], ts[k])
  <2>1. CASE k = n + 1
    BY <1>2, <2>1
  <2>2. CASE k # n + 1
    <3>1. k \in 1 .. n /\ k \in 0 .. n /\ k - 1 \in 0 .. n
      BY <2>2
    <3>2. f[k] = Apply(f[k - 1], ts[k])
      BY <3>1 DEF Expands
    <3> QED
      BY <1>2, <3>1, <3>2
  <2> QED
    BY <2>1, <2>2
<1>5. Expands(ts, n + 1, g)
  BY <1>1, <1>3, <1>4 DEF Expands
<1> QED
  BY <1>5 DEF g

LEMMA ExpansionsIs ==
  ASSUME NEW ts, Len(ts) \in Nat
  PROVE  Expands(ts, Len(ts), Expansions(ts))
<1> DEFINE T == {k \in 0 .. Len(ts) : \E f : Expands(ts, k, f)}
<1>1. 0 \in T
  <2> DEFINE f == [k \in 0 .. 0 |-> << >>]
  <2>1. Expands(ts, 0, f)
    BY DEF Expands
  <2> QED
    BY <2>1
<1>2. ASSUME NEW k \in 0 .. Len(ts) - 1, k \in T PROVE k + 1 \in T
  <2>1. PICK f : Expands(ts, k, f)
    BY <1>2
  <2>2. Expands(ts, k + 1, Further(ts, k, f))
    BY <2>1, ExpandsFurther
  <2> QED
    BY <2>2
<1>3. Len(ts) \in T
  <2> HIDE DEF T
  <2>1. \A k \in 0 .. Len(ts) : k \in T
    BY <1>1, <1>2, IntervalInduction
  <2> QED
    BY <2>1
<1>4. PICK f : Expands(ts, Len(ts), f)
  BY <1>3
<1> DEFINE P(g) == g = [k \in 0 .. Len(ts) |->
                            IF k = 0 THEN << >> ELSE Apply(g[k - 1], ts[k])]
<1>5. P(f)
  <2>1. f = [k \in 0 .. Len(ts) |-> f[k]]
    BY <1>4 DEF Expands
  <2>2. ASSUME NEW k \in 0 .. Len(ts)
        PROVE  f[k] = IF k = 0 THEN << >> ELSE Apply(f[k - 1], ts[k])
    <3>1. CASE k = 0
      BY <1>4, <3>1 DEF Expands
    <3>2. CASE k # 0
      <4>1. k \in 1 .. Len(ts)
        BY <3>2
      <4> QED
        BY <1>4, <3>2, <4>1 DEF Expands
    <3> QED
      BY <3>1, <3>2
  <2> QED
    BY <2>1, <2>2
<1>6. Expansions(ts) = CHOOSE g : P(g)
  BY DEF Expansions
<1> HIDE DEF P
<1>7. P(Expansions(ts))
  BY <1>5, <1>6
<1> DEFINE e == Expansions(ts)
<1>8. e = [k \in 0 .. Len(ts) |-> IF k = 0 THEN << >> ELSE Apply(e[k - 1], ts[k])]
  BY <1>7 DEF P
<1> HIDE DEF e
<1>9. Expands(ts, Len(ts), e)
  BY <1>8 DEF Expands
<1> QED
  BY <1>9 DEF e

(* Tokens that begin alike expand alike, as far as they do. *)
LEMMA ExpandsAlike ==
  ASSUME NEW ts, NEW n \in Nat, NEW f, Expands(ts, n, f),
         NEW us, NEW m \in Nat, NEW g, Expands(us, m, g),
         n <= m, \A k \in 1 .. n : ts[k] = us[k]
  PROVE  \A k \in 0 .. n : f[k] = g[k]
<1> DEFINE T == {k \in 0 .. n : f[k] = g[k]}
<1>1. 0 \in T
  BY DEF Expands
<1>2. ASSUME NEW k \in 0 .. n - 1, k \in T PROVE k + 1 \in T
  <2>1. k + 1 \in 1 .. n /\ k + 1 \in 1 .. m /\ (k + 1) - 1 = k /\ f[k] = g[k]
    BY <1>2
  <2>2. f[k + 1] = Apply(f[k], ts[k + 1]) /\ g[k + 1] = Apply(g[k], us[k + 1])
    BY <2>1 DEF Expands
  <2>3. f[k + 1] = g[k + 1]
    BY <2>1, <2>2
  <2> QED
    BY <2>1, <2>3
<1> HIDE DEF T
<1>3. \A k \in 0 .. n : k \in T
  BY <1>1, <1>2, IntervalInduction
<1> QED
  BY <1>3 DEF T

(* The tokens so far keep their expansion in front of others. *)
LEMMA ExpansionFront ==
  ASSUME NEW ts \in Seq(Token), NEW us \in Seq(Token)
  PROVE  Expansions(ts \o us)[Len(ts)] = Expansion(ts)
<1> DEFINE vs == ts \o us
<1>1. Len(ts) \in Nat /\ Len(vs) \in Nat /\ Len(ts) <= Len(vs) /\ \A k \in 1 .. Len(ts) : ts[k] = vs[k]
  OBVIOUS
<1> HIDE DEF vs
<1>2. Expands(ts, Len(ts), Expansions(ts)) /\ Expands(vs, Len(vs), Expansions(vs))
  BY <1>1, ExpansionsIs
<1>3. \A k \in 0 .. Len(ts) : Expansions(ts)[k] = Expansions(vs)[k]
  BY <1>1, <1>2, ExpandsAlike
<1>4. Expansions(ts)[Len(ts)] = Expansions(vs)[Len(ts)]
  BY <1>1, <1>3
<1> QED
  BY <1>4 DEF vs, Expansion

(* Nothing expands to nothing, and one more token to what it adds. *)
LEMMA ExpansionEmpty == Expansion(<< >>) = << >>
<1>1. Len(<< >>) = 0 /\ Len(<< >>) \in Nat
  OBVIOUS
<1>2. Expands(<< >>, 0, Expansions(<< >>))
  BY <1>1, ExpansionsIs
<1> QED
  BY <1>1, <1>2 DEF Expands, Expansion

LEMMA ExpansionAppend ==
  ASSUME NEW ts \in Seq(Token), NEW t \in Token
  PROVE  Expansion(Append(ts, t)) = Apply(Expansion(ts), t)
<1> DEFINE vs == ts \o <<t>>
           n == Len(ts)
<1>1. /\ Append(ts, t) = vs /\ <<t>> \in Seq(Token) /\ n \in Nat
      /\ Len(vs) = n + 1 /\ vs[n + 1] = t
  OBVIOUS
<1>2. Expansions(vs)[n] = Expansion(ts)
  BY <1>1, ExpansionFront
<1> HIDE DEF vs, n
<1>3. Expands(vs, n + 1, Expansions(vs))
  BY <1>1, ExpansionsIs
<1>4. n + 1 \in 1 .. n + 1 /\ (n + 1) - 1 = n
  BY <1>1
<1>5. Expansions(vs)[n + 1] = Apply(Expansions(vs)[n], t)
  BY <1>1, <1>3, <1>4 DEF Expands
<1> QED
  BY <1>1, <1>2, <1>5 DEF Expansion

(* One more literal behind the first k bytes of s. *)
LEMMA OneMore ==
  ASSUME NEW x \in Seq(Byte), NEW s \in Seq(Byte), NEW k \in 0 .. Len(s) - 1
  PROVE  Append(x \o SubSeq(s, 1, k), s[k + 1]) = x \o SubSeq(s, 1, k + 1)
<1>1. /\ SubSeq(s, 1, k) \in Seq(Byte) /\ Len(SubSeq(s, 1, k)) = k
      /\ \A j \in 1 .. k : SubSeq(s, 1, k)[j] = s[j]
  OBVIOUS
<1>2. /\ SubSeq(s, 1, k + 1) \in Seq(Byte) /\ Len(SubSeq(s, 1, k + 1)) = k + 1
      /\ \A j \in 1 .. k + 1 : SubSeq(s, 1, k + 1)[j] = s[j]
  OBVIOUS
<1>3. s[k + 1] \in Byte /\ Len(x) \in Nat /\ k \in Nat
  OBVIOUS
<1> DEFINE p == SubSeq(s, 1, k)
           q == SubSeq(s, 1, k + 1)
<1> HIDE DEF p, q
<1>4. /\ p \in Seq(Byte) /\ Len(p) = k /\ \A j \in 1 .. k : p[j] = s[j]
      /\ q \in Seq(Byte) /\ Len(q) = k + 1 /\ \A j \in 1 .. k + 1 : q[j] = s[j]
  BY <1>1, <1>2 DEF p, q
<1>5. /\ Append(x \o p, s[k + 1]) \in Seq(Byte) /\ x \o q \in Seq(Byte)
      /\ Len(Append(x \o p, s[k + 1])) = Len(x) + k + 1 /\ Len(x \o q) = Len(x) + k + 1
  <2>0. p \in Seq(Byte) /\ Len(p) = k /\ q \in Seq(Byte) /\ Len(q) = k + 1
    BY <1>4
  <2>1. x \o q \in Seq(Byte) /\ Len(x \o q) = Len(x) + Len(q)
    BY <2>0, ConcatProperties, Zenon
  <2>2. x \o p \in Seq(Byte) /\ Len(x \o p) = Len(x) + Len(p)
    BY <2>0, ConcatProperties, Zenon
  <2>3. /\ Append(x \o p, s[k + 1]) \in Seq(Byte)
        /\ Len(Append(x \o p, s[k + 1])) = Len(x \o p) + 1
    BY <1>3, <2>2
  <2> QED
    BY <1>3, <2>0, <2>1, <2>2, <2>3
<1>6. ASSUME NEW j \in 1 .. Len(x) + k + 1
      PROVE  Append(x \o p, s[k + 1])[j] = (x \o q)[j]
  <2>1. CASE j = Len(x) + k + 1
    BY <1>3, <1>4, <2>1
  <2>p. p \in Seq(Byte) /\ Len(p) = k /\ q \in Seq(Byte) /\ Len(q) = k + 1
    BY <1>4
  <2>o. x \o p \in Seq(Byte) /\ Len(x \o p) = Len(x) + k
    BY <2>p, ConcatProperties, Zenon
  <2>2. CASE j \in Len(x) + 1 .. Len(x) + k
    <3>1. PICK i \in 1 .. k : j = Len(x) + i
      <4>1. j - Len(x) \in 1 .. k /\ j = Len(x) + (j - Len(x))
        BY <1>3, <2>2
      <4> QED
        BY <4>1
    <3>2. (x \o p)[j] = p[i] /\ (x \o q)[j] = q[i]
      BY <1>3, <2>p, <3>1
    <3>3. Append(x \o p, s[k + 1])[j] = (x \o p)[j]
      BY <1>3, <2>2, <2>o
    <3>4. p[i] = s[i] /\ q[i] = s[i]
      BY <1>3, <1>4
    <3> QED
      BY <3>2, <3>3, <3>4
  <2>3. CASE j \in 1 .. Len(x)
    <3>1. (x \o p)[j] = x[j] /\ (x \o q)[j] = x[j]
      BY <1>3, <2>p, <2>3
    <3>2. Append(x \o p, s[k + 1])[j] = (x \o p)[j]
      BY <1>3, <2>3, <2>o
    <3> QED
      BY <3>1, <3>2
  <2>4. j = Len(x) + k + 1 \/ j \in Len(x) + 1 .. Len(x) + k \/ j \in 1 .. Len(x)
    BY <1>3
  <2> QED
    BY <2>1, <2>2, <2>3, <2>4
<1>7. Append(x \o p, s[k + 1]) = x \o q
  BY <1>5, <1>6, SeqEqual
<1> QED
  BY <1>7 DEF p, q

(* Literals expand to their bytes. *)
LEMMA ExpansionLiterals ==
  ASSUME NEW ts \in Seq(Token), NEW s \in Seq(Byte), Expansion(ts) \in Seq(Byte)
  PROVE  Expansion(ts \o Literals(s)) = Expansion(ts) \o s
<1> DEFINE us == Literals(s)
           vs == ts \o us
           n == Len(ts)
           m == Len(s)
           e == Expansions(vs)
           x == Expansion(ts)
           T == {k \in 0 .. m : e[n + k] = x \o SubSeq(s, 1, k)}
<1>1. us \in Seq(Token) /\ Len(us) = m /\ m \in Nat /\ \A k \in 1 .. m : us[k] = Literal(s[k])
  BY LiteralsType DEF Literals
<1> HIDE DEF us
<1>2. n \in Nat /\ Len(vs) = n + m /\ \A k \in 1 .. m : vs[n + k] = Literal(s[k])
  <2>1. us \in Seq(Token) /\ Len(us) = m /\ m \in Nat
    BY <1>1
  <2>2. n \in Nat /\ Len(vs) = n + m /\ \A k \in 1 .. m : vs[n + k] = us[k]
    BY <2>1
  <2> QED
    BY <1>1, <2>2
<1>3. e[n] = x
  BY <1>1, ExpansionFront
<1>0. Len(vs) \in Nat
  BY <1>1, <1>2
<1> HIDE DEF vs, n, m, e, x
<1>4. Expands(vs, n + m, e)
  BY <1>0, <1>2, ExpansionsIs DEF e
<1>5. x \in Seq(Byte) /\ m = Len(s)
  BY DEF x, m
<1>6. x \o SubSeq(s, 1, 0) = x /\ x \o SubSeq(s, 1, m) = x \o s
  <2>1. SubSeq(s, 1, 0) = << >> /\ SubSeq(s, 1, m) = s
    BY <1>5
  <2> QED
    BY <1>5, <2>1
<1>7. 0 \in T
  <2>1. 0 \in 0 .. m /\ n + 0 = n
    BY <1>1, <1>2
  <2> QED
    BY <1>3, <1>6, <2>1
<1>8. ASSUME NEW k \in 0 .. m - 1, k \in T PROVE k + 1 \in T
  <2>1. /\ n + (k + 1) \in 1 .. n + m /\ (n + (k + 1)) - 1 = n + k
        /\ k + 1 \in 1 .. m /\ k + 1 \in 0 .. m
    BY <1>1, <1>2
  <2>2. e[n + (k + 1)] = Apply(e[(n + (k + 1)) - 1], vs[n + (k + 1)])
    BY <1>4, <2>1 DEF Expands
  <2>3. e[n + (k + 1)] = Apply(e[n + k], Literal(s[k + 1]))
    BY <1>2, <2>1, <2>2
  <2>4. e[n + k] = x \o SubSeq(s, 1, k)
    BY <1>8
  <2>5. e[n + (k + 1)] = Append(x \o SubSeq(s, 1, k), s[k + 1])
    BY <2>3, <2>4 DEF Apply, Literal
  <2>6. e[n + (k + 1)] = x \o SubSeq(s, 1, k + 1)
    BY <1>5, <2>5, OneMore
  <2> QED
    BY <2>1, <2>6
<1> HIDE DEF T
<1>9. m \in T
  <2>1. \A k \in 0 .. m : k \in T
    BY <1>1, <1>7, <1>8, IntervalInduction
  <2> QED
    BY <1>1, <2>1
<1>10. e[n + m] = x \o s
  BY <1>6, <1>9 DEF T
<1> QED
  BY <1>2, <1>10 DEF vs, us, e, x, Expansion
-----------------------------------------------------------------------------
(***************************************************************************)
(* The output and the lengths returned.  Outside of a copy the output is   *)
(* the whole expansion; what a copy has yet to write repeats at its        *)
(* distance, which is why copying byte by byte gives the expansion.        *)
(***************************************************************************)
Whole == /\ outcnt = Len(Expansion(tokens))
         /\ ~ nil => out = Expansion(tokens)

Periodic(x) == \A m \in outcnt + 1 .. Len(x) : x[m] = x[m - dist]

OutputInv ==
    /\ Expansion(tokens) \in Seq(Byte)
    /\ OutIsExpansion
    /\ stage = "copy" => Periodic(Expansion(tokens))
    /\ stage # "done" => err = 0 /\ destlen = outlen /\ sourcelen = inlen
    /\ ReturnIsRight

FullInv == BoundsInv /\ OutputInv

LEMMA OutputInit == PuffInit => OutputInv
<1> SUFFICES ASSUME PuffInit PROVE OutputInv
  OBVIOUS
<1>1. /\ tokens = << >> /\ out = << >> /\ outcnt = 0 /\ stage = "block" /\ err = 0
      /\ destlen = outlen /\ sourcelen = inlen
  BY DEF PuffInit
<1>2. Expansion(tokens) = << >> /\ Len(<< >>) = 0 /\ << >> \in Seq(Byte)
  BY <1>1, ExpansionEmpty
<1> QED
  BY <1>1, <1>2 DEF OutputInv, OutIsExpansion, ReturnIsRight

(* Between two symbols or blocks the output is whole. *)
LEMMA WholeThen ==
  ASSUME OutputInv, stage \notin {"copy", "done"}
  PROVE  Whole /\ Expansion(tokens) \in Seq(Byte) /\ err = 0 /\ destlen = outlen /\ sourcelen = inlen
BY DEF OutputInv, OutIsExpansion, Whole

(* A failure leaves the output as it is. *)
LEMMA FailureOutput ==
  ASSUME FullInv, [PuffNext]_puffVars, stage \notin {"copy", "done"}, NEW e \in Int \ {0, 1}, NEW p, Return(e, p),
         UNCHANGED <<out, outcnt, tokens>>
  PROVE  OutputInv'
<1>1. UNCHANGED <<nil, inlen, outlen, types>>
  BY CallKept
<1>2. Whole /\ Expansion(tokens) \in Seq(Byte) /\ destlen = outlen /\ sourcelen = inlen
  BY WholeThen DEF FullInv
<1>3. stage' = "done" /\ err' = e /\ (e > 0 => destlen' = outlen /\ sourcelen' = inlen)
  BY <1>2 DEF Return, Returns
<1>4. OutIsExpansion'
  BY <1>1, <1>2, <1>3 DEF OutIsExpansion, Whole
<1>5. ReturnIsRight'
  BY <1>1, <1>3 DEF ReturnIsRight
<1> QED
  BY <1>2, <1>3, <1>4, <1>5 DEF OutputInv

(* Going on with the output whole. *)
LEMMA WholeOutput ==
  ASSUME FullInv, [PuffNext]_puffVars, stage # "done", stage' \notin {"copy", "done"},
         UNCHANGED <<err, destlen, sourcelen>>, Whole', Expansion(tokens') \in Seq(Byte)
  PROVE  OutputInv'
<1>1. UNCHANGED <<nil, inlen, outlen, types>>
  BY CallKept
<1>2. err = 0 /\ destlen = outlen /\ sourcelen = inlen
  BY DEF FullInv, OutputInv
<1>3. OutIsExpansion'
  BY DEF OutIsExpansion, Whole
<1> QED
  BY <1>1, <1>2, <1>3 DEF OutputInv, ReturnIsRight

(* Bytes of input that have been looked at. *)
LEMMA BytesRead ==
  ASSUME PuffTypeOK, NEW p \in Nat, 1 <= p, p <= total
  PROVE  (p + ByteBits - 1) \div ByteBits \in 1 .. inlen
<1> DEFINE n == p + ByteBits - 1
           q == n \div ByteBits
<1>1. ByteBits \in Nat /\ ByteBits > 0 /\ inlen \in Nat /\ p <= ByteBits * inlen /\ n \in Nat
  BY PuffAssumption DEF PuffTypeOK, total
<1>2. q \in Nat /\ n % ByteBits \in Nat /\ n % ByteBits < ByteBits
      /\ n = ByteBits * q + (n % ByteBits)
  <2> HIDE DEF n
  <2> QED
    BY <1>1, DivMod
<1>3. n >= ByteBits /\ n < ByteBits * inlen + ByteBits
  BY <1>1
<1> HIDE DEF n, q
<1>4. q >= 1
  <2> SUFFICES ASSUME q = 0 PROVE FALSE
    BY <1>2
  <2>1. ByteBits * q = 0
    BY <1>1
  <2> QED
    BY <1>1, <1>2, <1>3, <2>1
<1>5. q <= inlen
  <2> SUFFICES ASSUME q >= inlen + 1 PROVE FALSE
    BY <1>1, <1>2
  <2>1. ByteBits * (q - (inlen + 1)) >= 0
    BY <1>1, <1>2
  <2>2. ByteBits * (q - (inlen + 1)) = ByteBits * q - ByteBits * inlen - ByteBits
    BY <1>1, <1>2
  <2>3. ByteBits * q \in Nat /\ ByteBits * inlen \in Nat
    BY <1>1, <1>2
  <2> QED
    BY <1>1, <1>2, <1>3, <2>1, <2>2, <2>3
<1> QED
  BY <1>1, <1>2, <1>4, <1>5 DEF n, q

(* The end of a block with the output whole. *)
LEMMA EndBlockOutput ==
  ASSUME FullInv, [PuffNext]_puffVars, stage # "done", EndBlock(pos', outcnt'), last' = last,
         pos' \in Nat, 1 <= pos', pos' <= total, Whole', Expansion(tokens') \in Seq(Byte)
  PROVE  OutputInv'
<1>1. UNCHANGED <<nil, inlen, outlen, types>>
  BY CallKept
<1>2. CASE ~ last
  <2>1. stage' = "block" /\ UNCHANGED <<err, destlen, sourcelen>>
    BY <1>2 DEF EndBlock
  <2> QED
    BY <2>1, WholeOutput
<1>3. CASE last
  <2>1. /\ stage' = "done" /\ err' = 0 /\ destlen' = outcnt'
        /\ sourcelen' = (pos' + ByteBits - 1) \div ByteBits
    BY <1>3 DEF EndBlock, Returns
  <2>2. sourcelen' \in 1 .. inlen'
    <3>1. PICK p \in Nat : p = pos' /\ 1 <= p /\ p <= total
      OBVIOUS
    <3>2. (p + ByteBits - 1) \div ByteBits \in 1 .. inlen
      BY <3>1, BytesRead DEF FullInv, BoundsInv
    <3> QED
      BY <1>1, <2>1, <3>1, <3>2
  <2>3. OutIsExpansion'
    BY <2>1 DEF OutIsExpansion, Whole
  <2>4. ReturnIsRight'
    BY <1>3, <2>1, <2>2 DEF ReturnIsRight, Whole
  <2> QED
    BY <2>1, <2>3, <2>4 DEF OutputInv
<1> QED
  BY <1>2, <1>3

(* More is to be put out than there is space for. *)
LEMMA TooLongOutput ==
  ASSUME FullInv, [PuffNext]_puffVars, stage \notin {"copy", "done"}, NEW p, Return(1, p), ~ nil,
         Expansion(tokens') \in Seq(Byte), Len(Expansion(tokens')) > outlen
  PROVE  OutputInv'
<1>1. UNCHANGED <<nil, inlen, outlen, types>>
  BY CallKept
<1>2. destlen = outlen /\ sourcelen = inlen
  BY WholeThen DEF FullInv
<1>3. stage' = "done" /\ err' = 1 /\ destlen' = outlen /\ sourcelen' = inlen
  BY <1>2 DEF Return, Returns
<1> QED
  BY <1>1, <1>3 DEF OutputInv, OutIsExpansion, ReturnIsRight

(* The steps that put nothing out. *)
LEMMA QuietOutput ==
  ASSUME FullInv, [PuffNext]_puffVars, stage \notin {"copy", "done"}, UNCHANGED <<out, outcnt, tokens>>,
         \/ \E e \in Int \ {0, 1} : \E p : Return(e, p)
         \/ \E l : l \notin {"copy", "done"} /\ Goto(l)
  PROVE  OutputInv'
<1>1. CASE \E e \in Int \ {0, 1} : \E p : Return(e, p)
  BY <1>1, FailureOutput
<1>2. CASE \E l : l \notin {"copy", "done"} /\ Goto(l)
  <2>1. stage' \notin {"copy", "done"} /\ UNCHANGED <<err, destlen, sourcelen>>
    BY <1>2 DEF Goto
  <2>2. Whole /\ Expansion(tokens) \in Seq(Byte) /\ nil' = nil
    BY WholeThen, CallKept DEF FullInv
  <2>3. Whole' /\ Expansion(tokens') \in Seq(Byte)
    BY <2>2 DEF Whole
  <2> QED
    BY <2>1, <2>3, WholeOutput
<1> QED
  BY <1>1, <1>2

LEMMA QuietSteps ==
  ASSUME FullInv, Block \/ LengthBits \/ Dynamic \/ CodeLengths \/ Lengths \/ MakeCodes
  PROVE  OutputInv'
<1>0. [PuffNext]_puffVars
  BY DEF PuffNext
<1>o. ASSUME OutOfInput PROVE Return(2, pos) /\ UNCHANGED <<out, outcnt, tokens>>
  BY <1>o DEF OutOfInput
<1>1. CASE Block
  <2>1. stage = "block" /\ UNCHANGED <<out, outcnt, tokens>>
    BY <1>1, <1>o DEF Block
  <2>2. Return(2, pos) \/ Return(-1, pos + 3) \/ Goto("stored") \/ Goto("codes") \/ Goto("dynamic")
    BY <1>1, <1>o DEF Block
  <2> QED
    BY <1>0, <2>1, <2>2, QuietOutput
<1>2. CASE LengthBits
  <2>1. stage = "length" /\ UNCHANGED <<out, outcnt, tokens>>
    BY <1>2, <1>o DEF LengthBits
  <2>2. Return(2, pos) \/ Goto("dist")
    BY <1>2, <1>o DEF LengthBits
  <2> QED
    BY <1>0, <2>1, <2>2, QuietOutput
<1>3. CASE Dynamic
  <2>1. stage = "dynamic" /\ UNCHANGED <<out, outcnt, tokens>>
    BY <1>3, <1>o DEF Dynamic
  <2>2. Return(2, pos) \/ Return(-3, pos') \/ Goto("clen")
    BY <1>3, <1>o DEF Dynamic
  <2> QED
    BY <1>0, <2>1, <2>2, QuietOutput
<1>4. CASE CodeLengths
  <2>1. stage = "clen" /\ UNCHANGED <<out, outcnt, tokens>>
    BY <1>4, <1>o DEF CodeLengths
  <2>2. Return(2, pos) \/ Return(-4, pos') \/ Goto("lengths")
    BY <1>4, <1>o DEF CodeLengths
  <2> QED
    BY <1>0, <2>1, <2>2, QuietOutput
<1>5. CASE Lengths
  <2>1. stage = "lengths" /\ UNCHANGED <<out, outcnt, tokens>>
    BY <1>5 DEF Lengths
  <2>2. LengthsFail \/ Goto("lengths")
    BY <1>5, LengthsCases DEF FullInv
  <2> QED
    BY <1>0, <2>1, <2>2, QuietOutput DEF LengthsFail
<1>6. CASE MakeCodes
  <2>1. stage = "lengths" /\ UNCHANGED <<out, outcnt, tokens>>
    BY <1>6 DEF MakeCodes
  <2>2. Return(-9, pos) \/ Return(-7, pos) \/ Return(-8, pos) \/ Goto("codes")
    BY <1>6 DEF MakeCodes
  <2> QED
    BY <1>0, <2>1, <2>2, QuietOutput
<1> QED
  BY <1>1, <1>2, <1>3, <1>4, <1>5, <1>6

(* A stored block adds its bytes to the expansion and to the output. *)
LEMMA StoredOutput ==
  ASSUME FullInv, Stored
  PROVE  OutputInv'
<1>0. [PuffNext]_puffVars /\ PuffTypeOK /\ PosInv /\ stage = "stored" /\ OutputInv
  BY DEF PuffNext, FullInv, BoundsInv, Stored
<1>w. Whole /\ Expansion(tokens) \in Seq(Byte)
  BY <1>0, WholeThen
<1>t. UNCHANGED <<nil, inlen, outlen, types>>
  BY <1>0, CallKept
<1>p. tokens \in Seq(Token) /\ out \in Seq(Byte) /\ outcnt \in Nat /\ outlen \in Nat
  BY <1>0 DEF PuffTypeOK
<1>1. CASE StoredFails
  <2>1. \E e \in Int \ {0, 1} : \E p : Return(e, p)
    BY <1>1 DEF StoredFails
  <2>2. UNCHANGED <<out, outcnt, tokens>>
    BY <1>1 DEF StoredFails
  <2> QED
    BY <1>0, <2>1, <2>2, QuietOutput
<1>2. ASSUME NEW s \in Seq(Byte), tokens' = tokens \o Literals(s)
      PROVE  /\ Expansion(tokens') = Expansion(tokens) \o s
             /\ Expansion(tokens') \in Seq(Byte)
             /\ Len(Expansion(tokens')) = outcnt + Len(s)
  <2>1. Expansion(tokens \o Literals(s)) = Expansion(tokens) \o s
    BY <1>p, <1>w, ExpansionLiterals
  <2>2. PICK x \in Seq(Byte) : x = Expansion(tokens) /\ outcnt = Len(x)
    BY <1>w DEF Whole
  <2>3. x \o s \in Seq(Byte) /\ Len(x \o s) = Len(x) + Len(s)
    OBVIOUS
  <2> QED
    BY <1>2, <2>1, <2>2, <2>3
<1>3. ASSUME NEW s \in Seq(Byte), StoredTooLong(s) PROVE OutputInv'
  <2>1. tokens' = tokens \o Literals(s) /\ ~ nil /\ Return(1, pos) /\ ~ Fits(Len(s))
    BY <1>3 DEF StoredTooLong
  <2>2. Expansion(tokens') \in Seq(Byte) /\ Len(Expansion(tokens')) = outcnt + Len(s)
    BY <1>2, <2>1
  <2>3. Len(Expansion(tokens')) > outlen
    BY <1>p, <2>1, <2>2 DEF Fits
  <2> QED
    BY <1>0, <2>1, <2>2, <2>3, TooLongOutput
<1>4. ASSUME NEW s \in Seq(Byte), StoredOut(s) PROVE OutputInv'
  <2>1. /\ tokens' = tokens \o Literals(s) /\ EndBlock(pos', outcnt') /\ last' = last
        /\ pos' \in Nat /\ 1 <= pos' /\ pos' <= total
        /\ out' = (IF nil THEN out ELSE out \o s) /\ outcnt' = outcnt + Len(s)
    BY <1>4 DEF StoredOut
  <2>2. /\ Expansion(tokens') = Expansion(tokens) \o s /\ Expansion(tokens') \in Seq(Byte)
        /\ Len(Expansion(tokens')) = outcnt + Len(s)
    BY <1>2, <2>1
  <2>3. Whole'
    BY <1>t, <1>w, <2>1, <2>2 DEF Whole
  <2> QED
    BY <1>0, <2>1, <2>2, <2>3, EndBlockOutput
<1> QED
  BY <1>0, <1>1, <1>3, <1>4, StoredCases

(* A literal adds one byte to the expansion and to the output. *)
LEMMA SymbolOutput ==
  ASSUME FullInv, SymbolOut
  PROVE  OutputInv'
<1>0. /\ [PuffNext]_puffVars /\ PuffTypeOK /\ PosInv /\ stage = "codes" /\ OutputInv /\ last' = last
  BY DEF PuffNext, FullInv, BoundsInv, SymbolOut
<1>w. Whole /\ Expansion(tokens) \in Seq(Byte)
  BY <1>0, WholeThen
<1>t. UNCHANGED <<nil, inlen, outlen, types>>
  BY <1>0, CallKept
<1>p. /\ tokens \in Seq(Token) /\ out \in Seq(Byte) /\ outcnt \in Nat /\ outlen \in Nat
      /\ pos \in Nat /\ pos >= 1
  BY <1>0 DEF PuffTypeOK, PosInv
<1>1. PICK d \in decode(lencode) :
       \/ /\ ~ Enough(d.n)
          /\ Return(2, pos) /\ UNCHANGED <<out, outcnt, pos, len, tokens>>
       \/ /\ Enough(d.n) /\ pos' = pos + d.n
          /\ \/ /\ d.sym < 0 /\ Return(d.sym, pos')
                /\ UNCHANGED <<out, outcnt, len, tokens>>
             \/ /\ d.sym \in 0 .. Lits - 1 /\ tokens' = Append(tokens, Literal(d.sym))
                /\ IF ~ nil /\ ~ Fits(1) THEN Return(1, pos') /\ UNCHANGED <<out, outcnt>>
                   ELSE /\ out' = IF nil THEN out ELSE Append(out, d.sym)
                        /\ outcnt' = outcnt + 1 /\ Goto("codes")
                /\ UNCHANGED len
             \/ /\ d.sym = EOB /\ EndBlock(pos', outcnt)
                /\ UNCHANGED <<out, outcnt, len, tokens>>
             \/ /\ d.sym - EOB > Len(lens) /\ Return(-10, pos')
                /\ UNCHANGED <<out, outcnt, len, tokens>>
             \/ /\ d.sym - EOB \in DOMAIN lens /\ len' = d.sym - EOB
                /\ Goto("length") /\ UNCHANGED <<out, outcnt, tokens>>
  BY DEF SymbolOut
<1>2. d.n \in Nat /\ d.sym \in Int
  BY <1>0, DecodeType DEF PuffTypeOK
<1>3. CASE /\ UNCHANGED <<out, outcnt, tokens>>
           /\ \/ \E e \in Int \ {0, 1} : \E p : Return(e, p)
              \/ Goto("length")
  BY <1>0, <1>3, QuietOutput
<1>4. CASE /\ d.sym \in 0 .. Lits - 1 /\ tokens' = Append(tokens, Literal(d.sym))
           /\ IF ~ nil /\ ~ Fits(1) THEN Return(1, pos') /\ UNCHANGED <<out, outcnt>>
              ELSE /\ out' = IF nil THEN out ELSE Append(out, d.sym)
                   /\ outcnt' = outcnt + 1 /\ Goto("codes")
  <2>1. d.sym \in Byte /\ Literal(d.sym) \in Token
    BY <1>4 DEF Literal, Token, Byte
  <2>2. PICK x \in Seq(Byte) : x = Expansion(tokens) /\ outcnt = Len(x) /\ (~ nil => out = x)
    BY <1>w DEF Whole
  <2>3. Expansion(tokens') = Append(x, d.sym)
    <3>1. Expansion(Append(tokens, Literal(d.sym))) = Apply(x, Literal(d.sym))
      BY <1>p, <2>1, <2>2, ExpansionAppend
    <3> QED
      BY <1>4, <3>1 DEF Apply, Literal
  <2>4. Expansion(tokens') \in Seq(Byte) /\ Len(Expansion(tokens')) = outcnt + 1
    BY <2>1, <2>2, <2>3
  <2>5. CASE ~ nil /\ ~ Fits(1)
    <3>1. Return(1, pos') /\ Len(Expansion(tokens')) > outlen
      BY <1>4, <1>p, <2>4, <2>5 DEF Fits
    <3> QED
      BY <1>0, <2>4, <2>5, <3>1, TooLongOutput
  <2>6. CASE nil \/ Fits(1)
    <3>1. /\ out' = (IF nil THEN out ELSE Append(out, d.sym)) /\ outcnt' = outcnt + 1
          /\ stage' = "codes" /\ UNCHANGED <<err, destlen, sourcelen>>
      BY <1>4, <2>6 DEF Goto
    <3>2. Whole'
      BY <1>t, <2>2, <2>3, <2>4, <3>1 DEF Whole
    <3> QED
      BY <1>0, <2>4, <3>1, <3>2, WholeOutput
  <2> QED
    BY <2>5, <2>6
<1>5. CASE /\ Enough(d.n) /\ pos' = pos + d.n
           /\ EndBlock(pos', outcnt) /\ UNCHANGED <<out, outcnt, len, tokens>>
  <2>1. pos' \in Nat /\ 1 <= pos' /\ pos' <= total
    BY <1>0, <1>2, <1>p, <1>5, EnoughRead
  <2>2. Whole' /\ Expansion(tokens') \in Seq(Byte)
    BY <1>t, <1>w, <1>5 DEF Whole
  <2>3. EndBlock(pos', outcnt')
    BY <1>5
  <2> QED
    BY <1>0, <2>1, <2>2, <2>3, EndBlockOutput
<1> QED
  <2>1. d.sym < 0 => d.sym \in Int \ {0, 1}
    BY <1>2
  <2> QED
    BY <1>1, <1>2, <1>3, <1>4, <1>5, <2>1

(* Counting on from k in steps of d finds the same remainder. *)
LEMMA RemainderBack ==
  ASSUME NEW d \in Nat, d > 0, NEW a \in Nat
  PROVE  /\ a % d \in Nat /\ a % d < d
         /\ a < d => a % d = a
         /\ a >= d => (a - d) % d = a % d
<1>1. a % d \in Nat /\ a % d < d /\ (a < d => a % d = a)
  OBVIOUS
<1>2. CASE a >= d
  <2> DEFINE b == a - d
             r == a % d
             s == b % d
             q == a \div d
             p == b \div d
  <2>1. b \in Nat
    BY <1>2
  <2>2. q \in Nat /\ r \in Nat /\ r < d /\ a = d * q + r
    BY DivMod
  <2>3. p \in Nat /\ s \in Nat /\ s < d /\ b = d * p + s
    <3> HIDE DEF b
    <3> QED
      BY <2>1, DivMod
  <2>4. a = b + d
    OBVIOUS
  <2> HIDE DEF b, r, s, q, p
  <2>5. d * (q - p - 1) = s - r
    BY <2>2, <2>3, <2>4
  <2>6. d * (q - p - 1) < d /\ d * (q - p - 1) > -d /\ q - p - 1 \in Int
    BY <2>2, <2>3, <2>5
  <2>7. q - p - 1 = 0
    <3>1. CASE d * (q - p - 1) >= 0
      BY <2>6, <3>1, SmallMultiple
    <3>2. CASE d * (q - p - 1) < 0
      <4>1. d * (p + 1 - q) = 0 - (d * (q - p - 1)) /\ p + 1 - q \in Int
        BY <2>2, <2>3
      <4>2. 0 <= d * (p + 1 - q) /\ d * (p + 1 - q) < d
        BY <2>6, <3>2, <4>1
      <4>3. p + 1 - q = 0
        BY <4>1, <4>2, SmallMultiple
      <4> QED
        BY <2>2, <2>3, <4>3
    <3> QED
      BY <2>6, <3>1, <3>2
  <2>8. s = r
    BY <2>2, <2>3, <2>5, <2>7
  <2> QED
    BY <2>8, <1>1 DEF s, r, b
<1> QED
  BY <1>1, <1>2

(* A copy adds n bytes, each equal to the one d before it. *)
LEMMA CopyApplied ==
  ASSUME NEW x \in Seq(Byte), NEW n \in Nat, NEW d \in Nat, 1 <= d, d <= Len(x)
  PROVE  \E y \in Seq(Byte) :
            /\ y = Apply(x, Copied(n, d))
            /\ Len(y) = Len(x) + n
            /\ \A m \in 1 .. Len(x) : y[m] = x[m]
            /\ \A m \in Len(x) + 1 .. Len(y) : y[m] = y[m - d]
<1> DEFINE b == Len(x) - d + 1
           z == [k \in 1 .. n |-> x[Len(x) - d + 1 + ((k - 1) % d)]]
           y == x \o z
<1>1. Apply(x, Copied(n, d)) = y
  BY DEF Apply, Copied
<1>2. Len(x) \in Nat /\ d > 0 /\ b \in Nat /\ b >= 1
  OBVIOUS
<1>3. ASSUME NEW a \in Nat
      PROVE  b + (a % d) \in 1 .. Len(x)
  <2>1. a % d \in Nat /\ a % d < d
    BY <1>2, RemainderBack
  <2> QED
    BY <1>2, <2>1
<1>4. \A k \in 1 .. n : k - 1 \in Nat /\ z[k] = x[b + ((k - 1) % d)]
  OBVIOUS
<1>5. z \in Seq(Byte) /\ Len(z) = n
  <2>1. \A k \in 1 .. n : x[Len(x) - d + 1 + ((k - 1) % d)] \in Byte
    <3> SUFFICES ASSUME NEW k \in 1 .. n PROVE x[b + ((k - 1) % d)] \in Byte
      OBVIOUS
    <3>1. b + ((k - 1) % d) \in 1 .. Len(x)
      <4>1. PICK a \in Nat : a = k - 1
        OBVIOUS
      <4>2. b + (a % d) \in 1 .. Len(x)
        BY <1>3
      <4> QED
        BY <4>1, <4>2
    <3> QED
      BY <3>1
  <2>2. z \in [1 .. n -> Byte]
    BY <2>1
  <2> HIDE DEF z
  <2> QED
    BY <2>2, SeqDef
<1> HIDE DEF z
<1>6. y \in Seq(Byte) /\ Len(y) = Len(x) + n
  BY <1>2, <1>5
<1>7. (\A m \in 1 .. Len(x) : y[m] = x[m]) /\ \A k \in 1 .. n : y[Len(x) + k] = z[k]
  BY <1>2, <1>5
<1> HIDE DEF y, b
<1>8. ASSUME NEW m \in Len(x) + 1 .. Len(x) + n PROVE y[m] = y[m - d]
  <2>1. PICK a \in Nat : m = Len(x) + (a + 1) /\ a + 1 \in 1 .. n
    <3>1. m - Len(x) - 1 \in Nat /\ m = Len(x) + ((m - Len(x) - 1) + 1)
          /\ (m - Len(x) - 1) + 1 \in 1 .. n
      BY <1>2
    <3> QED
      BY <3>1
  <2>2. y[m] = x[b + (a % d)]
    <3>1. y[Len(x) + (a + 1)] = z[a + 1]
      BY <1>7, <2>1
    <3>2. z[a + 1] = x[b + (((a + 1) - 1) % d)] /\ (a + 1) - 1 = a
      BY <1>4, <2>1
    <3> QED
      BY <2>1, <3>1, <3>2
  <2>3. CASE a < d
    <3>1. a % d = a
      BY <1>2, <2>3, RemainderBack
    <3>2. m - d = b + a /\ b + a \in 1 .. Len(x)
      BY <1>2, <2>1, <2>3 DEF b
    <3>3. y[b + a] = x[b + a]
      BY <1>7, <3>2
    <3> QED
      BY <2>2, <3>1, <3>2, <3>3
  <2>4. CASE a >= d
    <3>1. (a - d) % d = a % d
      BY <1>2, <2>4, RemainderBack
    <3>2. PICK c \in Nat : c = a - d /\ m - d = Len(x) + (c + 1) /\ c + 1 \in 1 .. n
      <4>1. a - d \in Nat /\ m - d = Len(x) + ((a - d) + 1) /\ (a - d) + 1 \in 1 .. n
        BY <1>2, <2>1, <2>4
      <4> QED
        BY <4>1
    <3>3. y[Len(x) + (c + 1)] = z[c + 1]
      BY <1>7, <3>2
    <3>4. z[c + 1] = x[b + (((c + 1) - 1) % d)] /\ (c + 1) - 1 = c
      BY <1>4, <3>2
    <3> QED
      BY <2>2, <3>1, <3>2, <3>3, <3>4
  <2> QED
    BY <1>2, <2>3, <2>4
<1> QED
  BY <1>1, <1>6, <1>7, <1>8

(* A distance within the output: the copy is set up, or measured. *)
LEMMA DistanceOutput ==
  ASSUME FullInv, Distance
  PROVE  OutputInv'
<1>0. /\ [PuffNext]_puffVars /\ PuffTypeOK /\ CodesUsable /\ stage = "dist" /\ OutputInv
      /\ UNCHANGED <<out, len>>
  BY DEF PuffNext, FullInv, BoundsInv, CodesInv, Distance
<1>w. Whole /\ Expansion(tokens) \in Seq(Byte) /\ err = 0 /\ destlen = outlen /\ sourcelen = inlen
  BY <1>0, WholeThen
<1>t. UNCHANGED <<nil, inlen, outlen, types>>
  BY <1>0, CallKept
<1>p. /\ tokens \in Seq(Token) /\ out \in Seq(Byte) /\ outcnt \in Nat /\ outlen \in Nat
      /\ len \in Nat
  BY <1>0 DEF PuffTypeOK
<1>1. PICK d \in decode(distcode) :
       \/ /\ ~ Enough(d.n)
          /\ Return(2, pos) /\ UNCHANGED <<outcnt, pos, dist, tokens>>
       \/ /\ Enough(d.n) /\ d.sym < 0
          /\ pos' = pos + d.n /\ Return(d.sym, pos') /\ UNCHANGED <<outcnt, dist, tokens>>
       \/ /\ Enough(d.n) /\ d.sym >= 0 /\ ~ Enough(d.n + dext[d.sym + 1])
          /\ Return(2, pos) /\ UNCHANGED <<outcnt, pos, dist, tokens>>
       \/ /\ d.sym >= 0 /\ Enough(d.n + dext[d.sym + 1])
          /\ pos' = pos + d.n + dext[d.sym + 1]
          /\ \E x \in 0 .. 2^dext[d.sym + 1] - 1 : dist' = dists[d.sym + 1] + x
          /\ \/ /\ TooFar(dist') /\ Return(-11, pos') /\ UNCHANGED <<outcnt, tokens>>
             \/ /\ ~ TooFar(dist') /\ tokens' = Append(tokens, Copied(len, dist'))
                /\ \/ nil /\ outcnt' = outcnt + len /\ Goto("codes")
                   \/ ~ nil /\ ~ Fits(len) /\ Return(1, pos') /\ UNCHANGED outcnt
                   \/ ~ nil /\ Fits(len) /\ Goto("copy") /\ UNCHANGED outcnt
  BY DEF Distance
<1>2. /\ d.n \in Nat /\ d.sym \in Int
      /\ d.sym >= 0 => d.sym \in DOMAIN distcode /\ distcode[d.sym] > 0
  BY <1>0, DecodeType DEF PuffTypeOK
<1>3. CASE /\ UNCHANGED <<outcnt, tokens>>
           /\ \E e \in Int \ {0, 1} : \E p : Return(e, p)
  BY <1>0, <1>3, QuietOutput
<1>4. CASE /\ d.sym >= 0
           /\ \E x \in 0 .. 2^dext[d.sym + 1] - 1 : dist' = dists[d.sym + 1] + x
           /\ ~ TooFar(dist') /\ tokens' = Append(tokens, Copied(len, dist'))
           /\ \/ nil /\ outcnt' = outcnt + len /\ Goto("codes")
              \/ ~ nil /\ ~ Fits(len) /\ Return(1, pos') /\ UNCHANGED outcnt
              \/ ~ nil /\ Fits(len) /\ Goto("copy") /\ UNCHANGED outcnt
  <2>1. PICK q \in Nat : q = dist' /\ 1 <= q /\ q <= outcnt
    <3>1. d.sym + 1 \in DOMAIN dists /\ dists \in Seq(Nat \ {0})
      BY <1>0, <1>2, <1>4, PuffAssumption DEF CodesUsable
    <3>2. dists[d.sym + 1] \in Nat \ {0}
      BY <3>1
    <3>3. PICK a \in Nat \ {0} : a = dists[d.sym + 1]
      BY <3>2
    <3>4. (\E x \in Nat : dist' = a + x) /\ ~ dist' > outcnt
      BY <1>4, <3>3 DEF TooFar
    <3>5. dist' \in Nat /\ 1 <= dist' /\ dist' <= outcnt
      BY <1>p, <3>3, <3>4
    <3> QED
      BY <3>5
  <2>2. PICK x \in Seq(Byte) : x = Expansion(tokens) /\ outcnt = Len(x) /\ (~ nil => out = x)
    BY <1>w DEF Whole
  <2>3. PICK y \in Seq(Byte) :
            /\ y = Apply(x, Copied(len, q))
            /\ Len(y) = Len(x) + len
            /\ \A m \in 1 .. Len(x) : y[m] = x[m]
            /\ \A m \in Len(x) + 1 .. Len(y) : y[m] = y[m - q]
    <3>1. x \in Seq(Byte) /\ len \in Nat /\ q \in Nat /\ 1 <= q /\ q <= Len(x)
      BY <1>p, <2>1, <2>2
    <3> QED
      BY <3>1, CopyApplied, Zenon
  <2>4. Expansion(tokens') = y
    <3>1. Copied(len, q) \in Token
      BY <1>p, <2>1 DEF Copied, Token
    <3>2. Expansion(Append(tokens, Copied(len, q))) = Apply(x, Copied(len, q))
      BY <1>p, <2>2, <3>1, ExpansionAppend
    <3> QED
      BY <1>4, <2>1, <2>3, <3>2
  <2>5. Expansion(tokens') \in Seq(Byte) /\ Len(Expansion(tokens')) = outcnt + len
    BY <2>2, <2>3, <2>4
  <2>6. CASE nil /\ outcnt' = outcnt + len /\ Goto("codes")
    <3>1. stage' = "codes" /\ UNCHANGED <<err, destlen, sourcelen>>
      BY <2>6 DEF Goto
    <3>2. Whole'
      BY <1>t, <2>5, <2>6 DEF Whole
    <3> QED
      BY <1>0, <2>5, <3>1, <3>2, WholeOutput
  <2>7. CASE ~ nil /\ ~ Fits(len) /\ Return(1, pos')
    <3>1. Len(Expansion(tokens')) > outlen
      BY <1>p, <2>5, <2>7 DEF Fits
    <3> QED
      BY <1>0, <2>5, <2>7, <3>1, TooLongOutput
  <2>8. CASE ~ nil /\ Goto("copy") /\ UNCHANGED outcnt
    <3>1. stage' = "copy" /\ UNCHANGED <<err, destlen, sourcelen>> /\ outcnt' = outcnt /\ out' = x
      BY <1>0, <2>2, <2>8 DEF Goto
    <3>2. SubSeq(y, 1, outcnt) = x
      <4>1. /\ SubSeq(y, 1, outcnt) \in Seq(Byte) /\ Len(SubSeq(y, 1, outcnt)) = outcnt
            /\ \A m \in 1 .. outcnt : SubSeq(y, 1, outcnt)[m] = y[m]
        BY <1>p, <2>2, <2>3
      <4>2. \A m \in 1 .. outcnt : SubSeq(y, 1, outcnt)[m] = x[m]
        BY <2>2, <2>3, <4>1
      <4> QED
        BY <2>2, <4>1, <4>2, SeqEqual
    <3>3. OutIsExpansion'
      BY <1>0, <2>4, <2>5, <3>1, <3>2 DEF OutIsExpansion
    <3>4. Periodic(Expansion(tokens))'
      BY <2>1, <2>2, <2>3, <2>4, <3>1 DEF Periodic
    <3>5. Expansion(tokens)' \in Seq(Byte)
      BY <2>5
    <3> QED
      BY <1>t, <1>w, <3>1, <3>3, <3>4, <3>5 DEF OutputInv, ReturnIsRight
  <2> QED
    BY <1>4, <2>6, <2>7, <2>8
<1> QED
  <2>1. d.sym < 0 => d.sym \in Int \ {0, 1}
    BY <1>2
  <2> QED
    BY <1>1, <1>2, <1>3, <1>4, <2>1

(* The next byte of a copy is the next byte of the expansion. *)
LEMMA CopyOutput ==
  ASSUME FullInv, CopyByte
  PROVE  OutputInv'
<1>0. /\ [PuffNext]_puffVars /\ PuffTypeOK /\ OutInv /\ stage = "copy" /\ OutputInv
      /\ UNCHANGED <<dist, tokens>>
  BY DEF PuffNext, FullInv, BoundsInv, CopyByte
<1>t. UNCHANGED <<nil, inlen, outlen, types>>
  BY <1>0, CallKept
<1>p. /\ out \in Seq(Byte) /\ outcnt \in Nat /\ len \in Nat /\ dist \in Nat
      /\ ~ nil /\ 1 <= dist /\ dist <= outcnt /\ Len(out) = outcnt
  BY <1>0 DEF OutInv, PuffTypeOK
<1>1. PICK x \in Seq(Byte) : x = Expansion(tokens) /\ out = SubSeq(x, 1, outcnt)
                             /\ Len(x) = outcnt + len /\ Periodic(x)
  BY <1>0 DEF OutputInv, OutIsExpansion
<1>2. Expansion(tokens') = x
  BY <1>0, <1>1
<1>3. CASE len = 0
  <2>1. stage' = "codes" /\ UNCHANGED <<err, destlen, sourcelen>> /\ UNCHANGED <<out, outcnt>>
    BY <1>3 DEF CopyByte, Goto
  <2>2. out = x /\ outcnt = Len(x)
    <3>1. outcnt = Len(x)
      BY <1>1, <1>3, <1>p
    <3> QED
      BY <1>1, <3>1
  <2>3. Whole' /\ Expansion(tokens') \in Seq(Byte)
    BY <1>1, <1>2, <2>1, <2>2 DEF Whole
  <2> QED
    BY <1>0, <2>1, <2>3, WholeOutput
<1>4. CASE len # 0
  <2>1. /\ out' = Append(out, Source) /\ outcnt' = outcnt + 1 /\ len' = len - 1
        /\ UNCHANGED <<stage, err, destlen, sourcelen>>
    BY <1>4 DEF CopyByte
  <2>2. /\ outcnt + 1 \in outcnt + 1 .. Len(x) /\ outcnt + 1 - dist \in 1 .. outcnt
        /\ outcnt + 1 <= Len(x)
    BY <1>1, <1>4, <1>p
  <2>3. \A m \in 1 .. outcnt : out[m] = x[m]
    BY <1>1, <1>p
  <2>4. Source = x[outcnt + 1]
    <3>1. \A m \in outcnt + 1 .. Len(x) : x[m] = x[m - dist]
      BY <1>1 DEF Periodic
    <3>2. x[outcnt + 1] = x[outcnt + 1 - dist]
      <4>1. PICK j \in Nat : j = outcnt + 1
        BY <1>p
      <4>2. j \in outcnt + 1 .. Len(x)
        BY <2>2, <4>1
      <4>3. x[j] = x[j - dist]
        BY <3>1, <4>2, Zenon
      <4>4. j - dist = outcnt + 1 - dist
        BY <1>p, <4>1
      <4> QED
        BY <4>1, <4>3, <4>4
    <3> QED
      BY <2>2, <2>3, <3>2 DEF Source
  <2>5. Append(out, x[outcnt + 1]) = SubSeq(x, 1, outcnt + 1)
    <3>1. /\ SubSeq(x, 1, outcnt + 1) \in Seq(Byte) /\ Len(SubSeq(x, 1, outcnt + 1)) = outcnt + 1
          /\ \A m \in 1 .. outcnt + 1 : SubSeq(x, 1, outcnt + 1)[m] = x[m]
      BY <1>p, <2>2
    <3>2. x[outcnt + 1] \in Byte
      BY <1>p, <2>2
    <3>3. Append(out, x[outcnt + 1]) \in Seq(Byte) /\ Len(Append(out, x[outcnt + 1])) = outcnt + 1
      BY <1>p, <3>2
    <3>4. ASSUME NEW m \in 1 .. outcnt + 1
          PROVE  Append(out, x[outcnt + 1])[m] = x[m]
      <4>1. CASE m = outcnt + 1
        BY <1>p, <4>1
      <4>2. CASE m \in 1 .. outcnt
        BY <1>p, <2>3, <4>2
      <4> QED
        BY <1>p, <4>1, <4>2
    <3> QED
      BY <3>1, <3>3, <3>4, SeqEqual
  <2>6. OutIsExpansion'
    <3>1. Len(x) = outcnt' + len' /\ out' = SubSeq(x, 1, outcnt') /\ stage' = "copy"
      BY <1>0, <1>1, <1>p, <2>1, <2>4, <2>5
    <3> QED
      BY <1>2, <3>1 DEF OutIsExpansion
  <2>7. Periodic(Expansion(tokens))'
    <3>1. \A m \in outcnt + 1 + 1 .. Len(x) : m \in outcnt + 1 .. Len(x)
      BY <1>p, <2>2
    <3> QED
      BY <1>0, <1>1, <1>2, <2>1, <3>1 DEF Periodic
  <2> QED
    BY <1>0, <1>1, <1>2, <1>t, <2>1, <2>6, <2>7 DEF OutputInv, ReturnIsRight
<1> QED
  BY <1>3, <1>4

LEMMA FullStep == FullInv /\ [PuffNext]_puffVars => FullInv'
<1> SUFFICES ASSUME FullInv, [PuffNext]_puffVars PROVE FullInv'
  OBVIOUS
<1>1. BoundsInv'
  BY BoundsStep DEF FullInv
<1>2. CASE UNCHANGED puffVars
  <2>1. OutputInv
    BY DEF FullInv
  <2>2. UNCHANGED <<nil, inlen, outlen, out, outcnt, stage, last, len, dist, err, destlen,
                    sourcelen, tokens>>
    BY <1>2 DEF puffVars, call
  <2> QED
    BY <1>1, <2>1, <2>2 DEF FullInv, OutputInv, OutIsExpansion, ReturnIsRight, Periodic
<1>3. CASE PuffNext
  BY <1>1, <1>2, <1>3, QuietSteps, StoredOutput, SymbolOutput, DistanceOutput, CopyOutput
     DEF PuffNext, Finished, FullInv
<1> QED
  BY <1>2, <1>3

(***************************************************************************)
(* What puff() writes is what the tokens of the stream expand to, copies   *)
(* that overlap themselves or reach into earlier blocks included, byte for *)
(* byte while a copy is under way; with no buffer the length is right.     *)
(***************************************************************************)
THEOREM Inflates == PuffSpec => []OutIsExpansion
<1>1. PuffInit => FullInv
  BY BoundsInit, OutputInit DEF FullInv
<1>2. FullInv => OutIsExpansion
  BY DEF FullInv, OutputInv
<1> QED
  BY <1>1, <1>2, FullStep, PTL DEF PuffSpec

(***************************************************************************)
(* The value puff() returns is right: 0 only behind the last block, with   *)
(* the length of the whole expansion and of the input read, 1 only when    *)
(* the expansion is longer than the space, and a positive value leaves the *)
(* caller's lengths as they were.                                          *)
(***************************************************************************)
THEOREM ReturnsRight == PuffSpec => []ReturnIsRight
<1>1. PuffInit => FullInv
  BY BoundsInit, OutputInit DEF FullInv
<1>2. FullInv => ReturnIsRight
  BY DEF FullInv, OutputInv
<1> QED
  BY <1>1, <1>2, FullStep, PTL DEF PuffSpec

-----------------------------------------------------------------------------
(***************************************************************************)
(* The directory of an archive that is laid out as zip files are: what     *)
(* zip_findLen() and zip_openBuffer() find, and that zip_readdir() goes    *)
(* through the directory from one entry to the next and leaves none out.   *)
(***************************************************************************)
LEMMA OneMember ==
    ASSUME NEW x \in Int
    PROVE  Min({x}) = x /\ Max({x}) = x
BY DEF Min, Max

LEMMA EndFound ==
    ASSUME NEW a, ArchiveType(a), LaidOut(a), \A o \in DOMAIN a.er : o = a.end
    PROVE  /\ a.end \in Nat /\ a.end + EndRecord > 0 /\ a.size = a.end + EndRecord
           /\ zip_findLen(a) = a.end + EndRecord /\ LastEnd(a, a.end + EndRecord) = a.end
<1>1. a.end \in Nat /\ a.end \in DOMAIN a.er BY Zenon DEF ArchiveType
<1>2. a.size = a.end + EndRecord /\ 0 \in DOMAIN a.lfh /\ LocalHeader <= a.end /\ a.end < MaxZip
  BY Zenon DEF LaidOut
<1>3. {o \in DOMAIN a.er : LocalHeader <= o /\ o < MaxZip} = {a.end} BY <1>1, <1>2
<1>4. zip_findLen(a) = a.end + EndRecord
  <2>1. zip_findLen(a) = Min({a.end}) + EndRecord BY <1>2, <1>3, Zenon DEF zip_findLen
  <2>. QED BY <2>1, <1>1, OneMember
<1>5. LastEnd(a, a.end + EndRecord) = a.end
  <2>1. {o \in DOMAIN a.er : o + EndRecord <= a.end + EndRecord} = {a.end} BY <1>1 DEF EndRecord
  <2>2. ~ (a.end + EndRecord <= EndRecord) BY <1>1, <1>2 DEF EndRecord, LocalHeader
  <2>3. {a.end} # {} OBVIOUS
  <2>4. LastEnd(a, a.end + EndRecord) = Max({a.end}) BY <2>1, <2>2, <2>3, Zenon DEF LastEnd
  <2>. QED BY <2>4, <1>1, OneMember
<1>. QED BY <1>1, <1>2, <1>4, <1>5 DEF EndRecord

LEMMA EntryFacts ==
    ASSUME NEW a, ArchiveType(a), LaidOut(a), NEW o \in DOMAIN a.gfh, NEW next,
           next = o + GlobalHeader + a.gfh[o].namelen + a.gfh[o].extralen + a.gfh[o].commentlen
    PROVE  /\ o \in Nat /\ next \in Nat /\ o < next /\ next <= a.end
           /\ a.gfh[o].namelen \in Nat /\ a.gfh[o].extralen \in Nat
           /\ next \in DOMAIN a.gfh \cup {a.end}
           /\ a.er[a.end].dir <= o
           /\ \A p \in DOMAIN a.gfh : p <= o \/ next <= p
<1>1. o \in Nat BY Zenon DEF ArchiveType
<1>2. /\ a.gfh[o].namelen \in Nat /\ a.gfh[o].extralen \in Nat /\ a.gfh[o].commentlen \in Nat
      /\ a.er[a.end].dir <= o /\ next <= a.end /\ next \in DOMAIN a.gfh \cup {a.end}
      /\ \A p \in DOMAIN a.gfh : p <= o \/ next <= p
  BY Zenon DEF LaidOut
<1>. QED BY <1>1, <1>2 DEF GlobalHeader

LEMMA DirectoryStep ==
    ASSUME ArchiveType(archive), LaidOut(archive), Supported, er = archive.end, ziplen = archive.end + EndRecord,
           gfh = NoHeader \/ gfh \in DOMAIN archive.gfh, NEW o, o = NextHeader(gfh)
    PROVE  /\ zip_readdir_ok => /\ zip_readdir = o /\ o \in DOMAIN archive.gfh /\ o \in Nat
                                /\ gfh \in Int /\ gfh < o
                                /\ \A p \in DOMAIN archive.gfh : p <= o => p <= gfh \/ p = o
           /\ ~ zip_readdir_ok => \A p \in DOMAIN archive.gfh : p <= gfh
<1>1. archive.end \in Nat BY Zenon DEF ArchiveType
<1>2. \A p \in DOMAIN archive.gfh : p \in Nat BY Zenon DEF ArchiveType
<1>3. zip_readdir_ok <=> ~ Outside(o) /\ o \in DOMAIN archive.gfh BY Zenon DEF zip_readdir_ok
<1>4. ~ Outside(o) /\ o \in DOMAIN archive.gfh => zip_readdir = o BY Zenon DEF zip_readdir
<1>5. CASE gfh = NoHeader
  <2>1. o = archive.er[archive.end].dir BY <1>5, Zenon DEF NextHeader
  <2>2. ASSUME NEW p \in DOMAIN archive.gfh PROVE o <= p /\ p < archive.end
    <3>1. PICK n : n = p + GlobalHeader + archive.gfh[p].namelen + archive.gfh[p].extralen + archive.gfh[p].commentlen
      OBVIOUS
    <3>2. n \in Nat /\ p < n /\ n <= archive.end /\ archive.er[archive.end].dir <= p BY <3>1, EntryFacts
    <3>. QED BY <2>1, <3>2, <1>1, <1>2
  <2>3. DOMAIN archive.gfh # {} => o \in DOMAIN archive.gfh BY <2>1, Zenon DEF LaidOut
  <2>4. o \in DOMAIN archive.gfh => ~ Outside(o) BY <2>2, <1>1, <1>2 DEF Outside, EndRecord
  <2>5. zip_readdir_ok \/ DOMAIN archive.gfh = {} BY <1>3, <2>3, <2>4
  <2>6. gfh \in Int /\ gfh = -1 BY <1>5 DEF NoHeader
  <2>7. ASSUME o \in DOMAIN archive.gfh PROVE o \in Nat /\ gfh < o /\ \A p \in DOMAIN archive.gfh : p <= o => p = o
    BY <2>2, <2>6, <2>7, <1>2
  <2>. QED BY <1>3, <1>4, <2>5, <2>6, <2>7, Zenon
<1>6. CASE gfh \in DOMAIN archive.gfh /\ gfh # NoHeader
  <2>0. archive.gfh[gfh].commentlen = 0 BY <1>6, Zenon DEF Supported
  <2>1. o = gfh + GlobalHeader + archive.gfh[gfh].namelen + archive.gfh[gfh].extralen
    BY <1>6, Zenon DEF NextHeader
  <2>2. archive.gfh[gfh].namelen \in Nat /\ archive.gfh[gfh].extralen \in Nat /\ gfh \in Nat
    BY <1>6, EntryFacts
  <2>3. o = gfh + GlobalHeader + archive.gfh[gfh].namelen + archive.gfh[gfh].extralen + archive.gfh[gfh].commentlen
    BY <2>0, <2>1, <2>2 DEF GlobalHeader
  <2>4. /\ o \in Nat /\ gfh < o /\ o <= archive.end /\ o \in DOMAIN archive.gfh \cup {archive.end}
        /\ \A p \in DOMAIN archive.gfh : p <= gfh \/ o <= p
    BY <1>6, <2>3, EntryFacts, Zenon
  <2>5. ~ Outside(o) BY <2>4, <1>1 DEF Outside, EndRecord
  <2>6. ASSUME ~ zip_readdir_ok, NEW p \in DOMAIN archive.gfh PROVE p <= gfh
    <3>1. o = archive.end BY <1>3, <2>4, <2>5, <2>6, Zenon
    <3>2. p < archive.end BY EntryFacts, <1>1, <1>2
    <3>. QED BY <3>1, <3>2, <2>4, <1>1, <1>2
  <2>7. ASSUME NEW p \in DOMAIN archive.gfh, p <= o PROVE p <= gfh \/ p = o
    BY <2>4, <2>7, <1>2
  <2>. QED BY <1>3, <1>4, <2>2, <2>4, <2>5, <2>6, <2>7
<1>. QED BY <1>5, <1>6

-----------------------------------------------------------------------------
(***************************************************************************)
(* The inductive invariant.  A search has gone past Passed and none of     *)
(* them has the name; the number of entries seen is theirs.                *)
(***************************************************************************)
ZipTypeInv ==
    /\ archive \in Archives /\ seen \in Nat /\ finds \in Nat
    /\ at \in {"len", "open", "idle", "walk", "failed"}
    /\ finds > 0 => want \in Names
    /\ at = "walk" => finds > 0
    /\ at \in {"len", "open"} => finds = 0 /\ result = "none"
LengthInv ==
    ~ Embedded /\ at \in {"open", "idle", "walk"} => ziplen = archive.end + EndRecord
CursorInv == at = "walk" => gfh = NoHeader \/ gfh \in DOMAIN archive.gfh
FoundInv ==
    at = "idle" /\ result \in {"ok", "extracted"} =>
        gfh \in DOMAIN archive.gfh /\ archive.gfh[gfh].name = want.name
Passed == {o \in DOMAIN archive.gfh : o <= gfh}
WalkInv ==
    at = "walk" /\ ~ Embedded /\ Supported =>
        /\ seen = Cardinality(Passed)
        /\ \A o \in Passed : archive.gfh[o].name # want.name
ZipInv == /\ ZipTypeInv /\ LengthInv /\ CursorInv /\ FoundInv /\ WalkInv
          /\ OpensPlainArchive /\ FindsEveryFile /\ ExtractsWanted

LEMMA ArchiveFacts ==
    ASSUME \A a \in Archives : LaidOut(a), ZipTypeInv
    PROVE  ArchiveType(archive) /\ LaidOut(archive)
BY ZipAssumption, Zenon DEF ZipTypeInv

LEMMA PassedFacts ==
    ASSUME ArchiveType(archive)
    PROVE  IsFiniteSet(DOMAIN archive.gfh) /\ IsFiniteSet(Passed) /\ Passed \subseteq DOMAIN archive.gfh
<1>1. IsFiniteSet(DOMAIN archive.gfh) BY Zenon DEF ArchiveType
<1>2. Passed \in SUBSET DOMAIN archive.gfh BY DEF Passed
<1>. QED BY <1>1, <1>2, FS_Subset, Zenon

LEMMA ZipInitInv ==
    ASSUME ZipInit PROVE ZipInv
<1>1. ZipTypeInv BY DEF ZipInit, ZipTypeInv
<1>2. at = "len" /\ result = "none" BY DEF ZipInit
<1>3. LengthInv /\ CursorInv /\ FoundInv /\ WalkInv BY <1>2 DEF LengthInv, CursorInv, FoundInv, WalkInv
<1>4. OpensPlainArchive /\ FindsEveryFile /\ ExtractsWanted
  BY <1>2 DEF OpensPlainArchive, OpensWholeArchive, FindsEveryFile, ExtractsWanted
<1>. QED BY <1>1, <1>3, <1>4 DEF ZipInv

(* zip_findLen() and zip_openBuffer() *)
LEMMA OpenStep ==
    ASSUME \A a \in Archives : LaidOut(a), ZipInv, FindLen \/ OpenBuffer
    PROVE  ZipInv'
<1>. USE DEF ZipInv
<1>1. ArchiveType(archive) /\ LaidOut(archive) BY ArchiveFacts
<1>2. archive' = archive /\ seen' = seen /\ finds' = finds /\ want' = want /\ result' = result
  BY DEF FindLen, OpenBuffer
<1>3. at \in {"len", "open"} /\ at' \in {"open", "failed", "idle"} BY DEF FindLen, OpenBuffer
<1>4. ~ Embedded => \A o \in DOMAIN archive.er : o = archive.end BY Zenon DEF Embedded
<1>5. Embedded' = Embedded BY <1>2 DEF Embedded
<1>6. ZipTypeInv' BY <1>2, <1>3 DEF ZipTypeInv
<1>7. CursorInv' /\ WalkInv' BY <1>3 DEF CursorInv, WalkInv
<1>8. ASSUME ~ Embedded PROVE LengthInv' /\ OpensPlainArchive'
  <2>1. /\ archive.end \in Nat /\ archive.end + EndRecord > 0 /\ archive.size = archive.end + EndRecord
        /\ zip_findLen(archive) = archive.end + EndRecord /\ LastEnd(archive, archive.end + EndRecord) = archive.end
    BY <1>1, <1>4, <1>8, EndFound, Zenon
  <2>2. CASE FindLen
    <3>1. archive.given \in {0, archive.size} BY <1>1, Zenon DEF ArchiveType
    <3>2. ziplen' = archive.end + EndRecord BY <2>1, <2>2, <3>1 DEF FindLen
    <3>3. at' = "open"
      <4>1. ziplen' # 0 BY <3>2, <2>1 DEF EndRecord
      <4>. QED BY <2>2, <4>1, Zenon DEF FindLen
    <3>. QED BY <1>2, <3>2, <3>3 DEF LengthInv, OpensPlainArchive, OpensWholeArchive
  <2>3. CASE OpenBuffer
    <3>1. ziplen = archive.end + EndRecord /\ ziplen' = ziplen BY <1>8, <2>3, Zenon DEF LengthInv, OpenBuffer
    <3>2. LastEnd(archive, ziplen) = archive.end /\ archive.end # NoHeader BY <2>1, <3>1 DEF NoHeader
    <3>3. CASE OneDisk(archive.er[archive.end])
      <4>1. er' = archive.end /\ at' = "idle" BY <2>3, <3>2, <3>3, Zenon DEF OpenBuffer
      <4>. QED BY <1>2, <3>1, <4>1 DEF LengthInv, OpensPlainArchive, OpensWholeArchive
    <3>4. CASE ~ OneDisk(archive.er[archive.end])
      <4>1. at' = "failed" BY <2>3, <3>2, <3>4, Zenon DEF OpenBuffer
      <4>2. (~ OneDisk(archive.er[archive.end]))' BY <1>2, <3>4, Zenon DEF OneDisk
      <4>. QED BY <1>2, <3>1, <4>1, <4>2 DEF LengthInv, OpensPlainArchive, OpensWholeArchive
    <3>. QED BY <3>3, <3>4
  <2>. QED BY <2>2, <2>3
<1>9. ASSUME Embedded PROVE LengthInv' /\ OpensPlainArchive'
  BY <1>5, <1>9, Zenon DEF LengthInv, OpensPlainArchive
<1>10. FoundInv' /\ FindsEveryFile' /\ ExtractsWanted'
  <2>1. finds' = 0 /\ result' = "none" BY <1>2, <1>3 DEF ZipTypeInv
  <2>2. ~ (finds' > 0) BY <2>1
  <2>. QED BY <2>1, <2>2 DEF FoundInv, FindsEveryFile, ExtractsWanted
<1>. QED BY <1>6, <1>7, <1>8, <1>9, <1>10

(* zip_file_find() is entered: nothing is passed. *)
LEMMA FindStep ==
    ASSUME \A a \in Archives : LaidOut(a), ZipInv, NEW name \in Names, Find(name)
    PROVE  ZipInv'
<1>. USE DEF ZipInv
<1>1. ArchiveType(archive) /\ LaidOut(archive) BY ArchiveFacts
<1>2. /\ archive' = archive /\ ziplen' = ziplen /\ er' = er /\ at = "idle" /\ at' = "walk"
      /\ want' = name /\ gfh' = NoHeader /\ seen' = 0 /\ finds' = finds + 1
  BY DEF Find
<1>3. ZipTypeInv' BY <1>2 DEF ZipTypeInv
<1>4. LengthInv' /\ CursorInv' /\ FoundInv' /\ OpensPlainArchive' /\ FindsEveryFile' /\ ExtractsWanted'
  BY <1>2 DEF LengthInv, CursorInv, FoundInv, OpensPlainArchive, OpensWholeArchive, FindsEveryFile,
              ExtractsWanted, Embedded
<1>5. Passed' = {}
  <2>1. \A o \in DOMAIN archive.gfh : o \in Nat BY <1>1, Zenon DEF ArchiveType
  <2>. QED BY <1>2, <2>1 DEF Passed, NoHeader
<1>6. WalkInv' BY <1>2, <1>5, FS_EmptySet DEF WalkInv
<1>. QED BY <1>3, <1>4, <1>6

(* One entry of the directory. *)
LEMMA NextEntryStep ==
    ASSUME \A a \in Archives : LaidOut(a), ZipInv, NextEntry
    PROVE  ZipInv'
<1>. USE DEF ZipInv
<1>1. ArchiveType(archive) /\ LaidOut(archive) BY ArchiveFacts
<1>2. /\ archive' = archive /\ ziplen' = ziplen /\ er' = er /\ at = "walk" /\ at' = "walk"
      /\ want' = want /\ result' = result /\ finds' = finds
      /\ gfh' = zip_readdir /\ seen' = seen + 1 /\ zip_readdir_ok /\ ~ Match(archive.gfh[zip_readdir])
  BY Zenon DEF NextEntry, Entry
<1>3. ZipTypeInv' BY <1>2 DEF ZipTypeInv
<1>4. LengthInv' /\ FoundInv' /\ OpensPlainArchive' /\ FindsEveryFile' /\ ExtractsWanted'
  BY <1>2 DEF LengthInv, FoundInv, OpensPlainArchive, OpensWholeArchive, FindsEveryFile,
              ExtractsWanted, Embedded
<1>5. gfh' \in DOMAIN archive.gfh BY <1>2, Zenon DEF zip_readdir, zip_readdir_ok
<1>6. CursorInv' BY <1>2, <1>5 DEF CursorInv
<1>7. ASSUME ~ Embedded, Supported
      PROVE  seen' = Cardinality(Passed') /\ \A o \in Passed' : archive.gfh[o].name # want.name
  <2>0. er = archive.end /\ ziplen = archive.end + EndRecord
    BY <1>2, <1>7 DEF OpensPlainArchive, OpensWholeArchive, LengthInv
  <2>1. PICK o : o = NextHeader(gfh) OBVIOUS
  <2>2. /\ gfh' = o /\ o \in DOMAIN archive.gfh /\ o \in Nat /\ gfh \in Int /\ gfh < o
        /\ \A p \in DOMAIN archive.gfh : p <= o => p <= gfh \/ p = o
    BY <1>1, <1>2, <1>7, <2>0, <2>1, DirectoryStep, Zenon DEF CursorInv
  <2>3. \A p \in DOMAIN archive.gfh : p \in Nat BY <1>1, Zenon DEF ArchiveType
  <2>4. Passed' = Passed \cup {o} /\ o \notin Passed
    <3>1. Passed' = {p \in DOMAIN archive.gfh : p <= o} BY <1>2, <2>2, Zenon DEF Passed
    <3>. QED BY <3>1, <2>2, <2>3 DEF Passed
  <2>5. seen = Cardinality(Passed) /\ \A p \in Passed : archive.gfh[p].name # want.name
    BY <1>2, <1>7, Zenon DEF WalkInv
  <2>6. Cardinality(Passed \cup {o}) = Cardinality(Passed) + 1
    BY <1>1, <2>4, PassedFacts, FS_AddElement, Zenon
  <2>7. archive.gfh[o].name # want.name
    <3>1. want \in Names BY <1>2 DEF ZipTypeInv
    <3>2. archive.gfh[o].name = want.name => archive.gfh[o].namelen = want.len
      BY <1>1, <2>2, <3>1, Zenon DEF LaidOut
    <3>3. ~ Match(archive.gfh[o]) BY <1>2, <2>2, Zenon
    <3>. QED BY <3>2, <3>3, Zenon DEF Match
  <2>8. seen' = Cardinality(Passed') BY <1>2, <2>4, <2>5, <2>6
  <2>9. \A p \in Passed' : archive.gfh[p].name # want.name BY <2>4, <2>5, <2>7
  <2>. QED BY <2>8, <2>9
<1>8. WalkInv' BY <1>2, <1>7 DEF WalkInv, Embedded, Supported
<1>. QED BY <1>3, <1>4, <1>6, <1>8

(* A search ends without success only when every entry is passed. *)
LEMMA FailStep ==
    ASSUME \A a \in Archives : LaidOut(a), ZipInv, NoMoreEntries \/ LongName
    PROVE  ZipInv'
<1>. USE DEF ZipInv
<1>1. ArchiveType(archive) /\ LaidOut(archive) BY ArchiveFacts
<1>2. /\ archive' = archive /\ ziplen' = ziplen /\ er' = er /\ at = "walk" /\ at' = "idle" /\ seen' = seen
      /\ want' = want /\ result' = "error" /\ finds' = finds
  BY Zenon DEF NoMoreEntries, LongName, FindReturns
<1>3. ZipTypeInv' BY <1>2 DEF ZipTypeInv
<1>4. LengthInv' /\ CursorInv' /\ FoundInv' /\ WalkInv' /\ OpensPlainArchive' /\ ExtractsWanted'
  BY <1>2 DEF LengthInv, CursorInv, FoundInv, WalkInv, OpensPlainArchive, OpensWholeArchive,
              ExtractsWanted, Embedded
<1>5. ASSUME ~ Embedded, Supported, Listed(want) PROVE FALSE
  <2>0. er = archive.end /\ ziplen = archive.end + EndRecord
    BY <1>2, <1>5 DEF OpensPlainArchive, OpensWholeArchive, LengthInv
  <2>1. seen = Cardinality(Passed) /\ \A p \in Passed : archive.gfh[p].name # want.name
    BY <1>2, <1>5, Zenon DEF WalkInv
  <2>2. PICK p \in DOMAIN archive.gfh : archive.gfh[p].name = want.name BY <1>5, Zenon DEF Listed
  <2>3. Passed # DOMAIN archive.gfh BY <2>1, <2>2, Zenon
  <2>4. ~ LongName
    <3>1. zip_readdir_ok => zip_readdir \in DOMAIN archive.gfh BY Zenon DEF zip_readdir_ok, zip_readdir
    <3>2. \A o \in DOMAIN archive.gfh : archive.gfh[o].namelen <= MaxName /\ archive.gfh[o].namelen \in Nat
      BY <1>1, <1>5, Zenon DEF Supported, LaidOut
    <3>3. SUFFICES ASSUME LongName PROVE FALSE OBVIOUS
    <3>4. zip_readdir \in DOMAIN archive.gfh /\ archive.gfh[zip_readdir].namelen > MaxName
      BY <3>1, <3>3, Zenon DEF LongName, Entry
    <3>5. MaxName \in Nat BY ZipAssumption
    <3>. QED BY <3>2, <3>4, <3>5
  <2>5. seen < zip_numEntries
    <3>1. Cardinality(Passed) \in Nat /\ Cardinality(DOMAIN archive.gfh) \in Nat
          /\ Cardinality(Passed) <= Cardinality(DOMAIN archive.gfh)
          /\ Cardinality(Passed) # Cardinality(DOMAIN archive.gfh)
      BY <1>1, <2>3, PassedFacts, FS_Subset, FS_CardinalityType
    <3>2. zip_numEntries >= Cardinality(DOMAIN archive.gfh) BY <1>5, <2>0, Zenon DEF zip_numEntries, Supported
    <3>3. zip_numEntries \in Nat BY <1>1, <2>0, Zenon DEF zip_numEntries, ArchiveType
    <3>. QED BY <2>1, <3>1, <3>2, <3>3
  <2>6. ~ zip_readdir_ok
    <3>1. ~ (seen >= zip_numEntries)
      <4>1. seen \in Nat BY DEF ZipTypeInv
      <4>2. zip_numEntries \in Nat BY <1>1, <2>0, Zenon DEF zip_numEntries, ArchiveType
      <4>. QED BY <2>5, <4>1, <4>2
    <3>. QED BY <3>1, <2>4, Zenon DEF NoMoreEntries
  <2>7. \A o \in DOMAIN archive.gfh : o <= gfh
    BY <1>1, <1>2, <1>5, <2>0, <2>6, DirectoryStep DEF CursorInv
  <2>8. Passed = DOMAIN archive.gfh BY <2>7 DEF Passed
  <2>. QED BY <2>3, <2>8
<1>6. FindsEveryFile'
  <2>1. Embedded' = Embedded /\ Supported' = Supported /\ Listed(want)' = Listed(want)
    BY <1>2 DEF Embedded, Supported, Listed
  <2>. QED BY <1>5, <2>1, Zenon DEF FindsEveryFile
<1>. QED BY <1>3, <1>4, <1>6

LEMMA FoundStep ==
    ASSUME \A a \in Archives : LaidOut(a), ZipInv, Found
    PROVE  ZipInv'
<1>. USE DEF ZipInv
<1>1. ArchiveType(archive) /\ LaidOut(archive) BY ArchiveFacts
<1>2. /\ archive' = archive /\ ziplen' = ziplen /\ er' = er /\ at = "walk" /\ at' = "idle" /\ seen' = seen
      /\ want' = want /\ result' = "ok" /\ finds' = finds
      /\ gfh' = zip_readdir /\ zip_readdir_ok /\ Match(archive.gfh[zip_readdir])
  BY Zenon DEF Found, FindReturns, Entry
<1>3. ZipTypeInv' BY <1>2 DEF ZipTypeInv
<1>4. LengthInv' /\ CursorInv' /\ WalkInv' /\ OpensPlainArchive' /\ ExtractsWanted'
  BY <1>2 DEF LengthInv, CursorInv, WalkInv, OpensPlainArchive, OpensWholeArchive,
              ExtractsWanted, Embedded
<1>5. gfh' \in DOMAIN archive.gfh /\ archive.gfh[gfh'].name = want.name
  BY <1>2, Zenon DEF zip_readdir, zip_readdir_ok, Match
<1>6. gfh' # NoHeader
  <2>1. gfh' \in Nat BY <1>1, <1>5, Zenon DEF ArchiveType
  <2>. QED BY <2>1 DEF NoHeader
<1>7. FoundInv' /\ FindsEveryFile' BY <1>2, <1>5, <1>6 DEF FoundInv, FindsEveryFile
<1>. QED BY <1>3, <1>4, <1>7

LEMMA LesserOf ==
    ASSUME NEW x \in Nat, NEW y \in Nat
    PROVE  Min({x, y}) \in Nat /\ Min({x, y}) <= y /\ (x = y => Min({x, y}) = y)
<1>. DEFINE Least(z) == z \in {x, y} /\ \A w \in {x, y} : z <= w
<1>1. \E z : Least(z)
  <2>1. CASE x <= y
    <3>1. Least(x) BY <2>1
    <3>. QED BY <3>1
  <2>2. CASE y <= x
    <3>1. Least(y) BY <2>2
    <3>. QED BY <3>1
  <2>. QED BY <2>1, <2>2
<1>2. Min({x, y}) = CHOOSE z \in {x, y} : \A w \in {x, y} : z <= w BY Zenon DEF Min
<1>3. Least(Min({x, y})) BY <1>1, <1>2
<1>. QED BY <1>3

(* zip_file_extract(), of what was found last. *)
LEMMA ExtractStep ==
    ASSUME \A a \in Archives : LaidOut(a), ZipInv, Extract
    PROVE  ZipInv'
<1>. USE DEF ZipInv
<1>1. ArchiveType(archive) /\ LaidOut(archive) BY ArchiveFacts
<1>2. /\ archive' = archive /\ ziplen' = ziplen /\ er' = er /\ at = "idle" /\ at' = at /\ seen' = seen
      /\ want' = want /\ finds' = finds /\ gfh' = gfh /\ result = "ok"
  BY Zenon DEF Extract
<1>3. result' \in {"extracted", "error"} BY Zenon DEF Extract
<1>4. ZipTypeInv' BY <1>2, <1>3 DEF ZipTypeInv
<1>5. /\ LengthInv' /\ CursorInv' /\ WalkInv' /\ OpensPlainArchive' /\ FoundInv' /\ FindsEveryFile'
  BY <1>2, <1>3 DEF LengthInv, CursorInv, WalkInv, OpensPlainArchive, OpensWholeArchive,
              FoundInv, FindsEveryFile, Embedded, Supported, Listed
<1>6. ASSUME result' = "extracted"
      PROVE  /\ buffer'.n > 0 => buffer'.file = want.name
             /\ buffer'.n <= archive.gfh[gfh].usize
             /\ Local(archive.gfh[gfh]).data.out = archive.gfh[gfh].usize => buffer'.n = archive.gfh[gfh].usize
  <2>. DEFINE e == archive.gfh[gfh]
              x == zip_file_extract(e)
              long == Local(e).data.out
  <2>1. gfh \in DOMAIN archive.gfh /\ e.name = want.name BY <1>2, Zenon DEF FoundInv
  <2>2. e.usize \in Nat BY <1>1, <2>1, Zenon DEF ArchiveType
  <2>3. x.ok /\ buffer' = IF x.n = 0 THEN Empty ELSE [file |-> Local(e).data.file, n |-> x.n]
    <3>1. "extracted" # "error" OBVIOUS
    <3>. QED BY <1>6, <3>1, Zenon DEF Extract
  <2>4. e.local \in DOMAIN archive.lfh
    <3>. SUFFICES ASSUME e.local \notin DOMAIN archive.lfh PROVE FALSE OBVIOUS
    <3>1. x = [ok |-> FALSE, n |-> 0] BY Zenon DEF zip_file_extract
    <3>2. x.ok = FALSE BY <3>1
    <3>. QED BY <2>3, <3>2
  <2>5. Local(e).data.file = want.name /\ long \in Nat
    BY <1>1, <2>1, <2>4, Zenon DEF LaidOut, Local
  <2>6. x.n \in Nat /\ x.n <= e.usize /\ (long = e.usize => x.n = e.usize)
    <3>1. CASE Local(e).method = 0
      <4>1. x = [ok |-> e.csize = e.usize, n |-> IF e.csize = e.usize THEN e.usize ELSE 0]
        BY <2>4, <3>1 DEF zip_file_extract
      <4>2. e.csize = e.usize
        <5>. SUFFICES ASSUME e.csize # e.usize PROVE FALSE OBVIOUS
        <5>1. (e.csize = e.usize) = FALSE OBVIOUS
        <5>3. x = [ok |-> FALSE, n |-> 0] BY <4>1, <5>1, Zenon
        <5>2. x.ok = FALSE BY <5>3
        <5>. QED BY <2>3, <5>2
      <4>3. x.n = e.usize BY <4>1, <4>2
      <4>. HIDE DEF e, x, long
      <4>. QED BY <2>2, <4>3
    <3>2. CASE Local(e).method = 8
      <4>1. x = puff(Local(e).data, e.usize) BY <2>4, <3>2 DEF zip_file_extract, dstlen
      <4>2. x.n = Min({long, e.usize}) BY <4>1 DEF puff
      <4>. HIDE DEF e, x, long
      <4>. QED BY <2>2, <2>5, <4>2, LesserOf
    <3>3. CASE Local(e).method \notin {0, 8}
      <4>1. x = [ok |-> FALSE, n |-> 0] BY <2>4, <3>3 DEF zip_file_extract
      <4>. QED BY <2>3, <4>1
    <3>. QED BY <3>1, <3>2, <3>3
  <2>7. buffer'.n = x.n /\ (buffer'.n > 0 => buffer'.file = Local(e).data.file)
    <3>1. CASE x.n = 0
      <4>1. buffer' = [file |-> "none", n |-> 0] BY <2>3, <3>1, Zenon DEF Empty
      <4>2. buffer'.n = 0 BY <4>1
      <4>. HIDE DEF e, x, long
      <4>. QED BY <3>1, <4>2
    <3>2. CASE x.n # 0
      <4>1. buffer' = [file |-> Local(e).data.file, n |-> x.n] BY <2>3, <3>2, Zenon
      <4>. HIDE DEF e, x, long
      <4>. QED BY <4>1
    <3>. QED BY <3>1, <3>2
  <2>8. buffer'.n > 0 => buffer'.file = want.name BY <2>5, <2>7, Zenon
  <2>9. buffer'.n <= e.usize /\ (long = e.usize => buffer'.n = e.usize) BY <2>6, <2>7, Zenon
  <2>. QED BY <2>8, <2>9
<1>7. ExtractsWanted' BY <1>2, <1>6 DEF ExtractsWanted, Local
<1>. QED BY <1>4, <1>5, <1>7

LEMMA ZipStepInv ==
    ASSUME \A a \in Archives : LaidOut(a), ZipInv, [ZipNext]_zipVars
    PROVE  ZipInv'
<1>1. CASE ZipFinished \/ UNCHANGED zipVars
  <2>1. UNCHANGED zipVars BY <1>1 DEF ZipFinished
  <2>. QED BY <2>1 DEF zipVars, ZipInv, ZipTypeInv, LengthInv, CursorInv, FoundInv, WalkInv, Passed,
              OpensPlainArchive, OpensWholeArchive, FindsEveryFile, ExtractsWanted, Embedded, Supported,
              Listed, Local
<1>2. CASE \E name \in Names : Find(name) BY <1>2, FindStep
<1>3. CASE FindLen \/ OpenBuffer BY <1>3, OpenStep
<1>4. CASE NoMoreEntries \/ LongName BY <1>4, FailStep
<1>5. CASE Found BY <1>5, FoundStep
<1>6. CASE NextEntry BY <1>6, NextEntryStep
<1>7. CASE Extract BY <1>7, ExtractStep
<1>. QED BY <1>1, <1>2, <1>3, <1>4, <1>5, <1>6, <1>7 DEF ZipNext

LEMMA ZipInvariance ==
    ASSUME \A a \in Archives : LaidOut(a)
    PROVE  ZipSpec => []ZipInv
<1>1. ZipInit => ZipInv BY ZipInitInv
<1>2. ZipInv /\ [ZipNext]_zipVars => ZipInv' BY ZipStepInv
<1>. QED BY <1>1, <1>2, PTL DEF ZipSpec

(***************************************************************************)
(* zip_findLen() and zip_openBuffer() find the end record of an archive    *)
(* that has no bytes like one elsewhere, and zip_file_find() every file of *)
(* it, and no other than the one asked for: for every archive that is laid *)
(* out as zip files are, however many entries it has and whatever was      *)
(* looked for before.                                                      *)
(***************************************************************************)
THEOREM ZipFindsFiles ==
    ASSUME \A a \in Archives : LaidOut(a)
    PROVE  ZipSpec => []FindsFiles
<1>1. ZipInv => FindsFiles
  <2>. SUFFICES ASSUME ZipInv PROVE FindsFiles OBVIOUS
  <2>1. FoundIsWanted
    <3>1. ArchiveType(archive) BY ArchiveFacts DEF ZipInv
    <3>2. \A o \in DOMAIN archive.gfh : o # NoHeader BY <3>1 DEF ArchiveType, NoHeader
    <3>. QED BY <3>2 DEF ZipInv, FoundInv, FoundIsWanted
  <2>. QED BY <2>1 DEF ZipInv, FindsFiles
<1>2. ZipSpec => []ZipInv BY ZipInvariance
<1>. QED BY <1>1, <1>2, PTL

(***************************************************************************)
(* zip_file_extract() leaves the bytes of the file found, never more than  *)
(* its length in the directory, which is what its callers claimed.         *)
(***************************************************************************)
THEOREM ZipExtractsWanted ==
    ASSUME \A a \in Archives : LaidOut(a)
    PROVE  ZipSpec => []ExtractsWanted
<1>1. ZipInv => ExtractsWanted BY DEF ZipInv
<1>2. ZipSpec => []ZipInv BY ZipInvariance
<1>. QED BY <1>1, <1>2, PTL
=============================================================================
