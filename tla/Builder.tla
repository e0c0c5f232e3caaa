------------------------------- MODULE Builder -------------------------------
(***************************************************************************)
(* The block and vector operations of the circuit builder, by the value    *)
(* the interpreter gives them.  A ciphertext is the sequence of its        *)
(* blocks, least significant first, each of them a message.                *)
(***************************************************************************)
EXTENDS Blocks

(* "\o <<>>" makes TLC evaluate a sequence once, where it is defined.      *)
Each(F(_), s) == [i \in DOMAIN s |-> F(s[i])] \o <<>>

Ceiling(x, y) == (x + y - 1) \div y

(* s cut into pieces of n elements, the last one possibly shorter.         *)
Chunks(s, n) ==
  [k \in 1 .. Ceiling(Len(s), n) |->
     SubSeq(s, (k - 1) * n + 1, IF k * n > Len(s) THEN Len(s) ELSE k * n)]
  \o <<>>

Zeros(n) == [i \in 1 .. n |-> 0]

-----------------------------------------------------------------------------
BlockAdd(a, b)       == ProtectAdd(a, b)
BlockTemperAdd(a, b) == TemperAdd(a, b)
BlockSub(a, b)       == ProtectSub(a, b)
BlockAddPlaintext(a, p)         == ProtectAddPt(a, p)
BlockWrappingAddPlaintext(a, p) == WrappingAddPt(a, p)
BlockPlaintextSub(p, a)         == ProtectSubCt(p, a)

BlockMac(a, b, mul) == PackCt(a, b, mul)
BlockPack(a, b) ==
  IF CarrySize = MessageSize THEN PackCt(a, b, MessageSpan) ELSE Panic

BlockLookup(b, lut)         == LookupChecked(lut, b, FALSE, FALSE)
BlockPaddingLookup(b, lut)  == LookupChecked(lut, b, FALSE, TRUE)
BlockWrappingLookup(b, lut) == LookupChecked(lut, b, TRUE, TRUE)
BlockLookup2(b, lut)        == Lookup2(lut, b)

BlockPackThenLookup(a, b, lut) == BlockLookup(BlockPack(a, b), lut)

-----------------------------------------------------------------------------
VectorLookup(s, lut)  == Each(LAMBDA b : BlockLookup(b, lut), s)
VectorLookup2(s, lut) == Each(LAMBDA b : BlockLookup2(b, lut), s)

(* Pairs of blocks, the second one above the first; a last block without a *)
(* partner is kept as it is.                                               *)
VectorPack(s) ==
  Each(LAMBDA c : IF Len(c) = 2 THEN BlockPack(c[2], c[1]) ELSE c[1],
       Chunks(s, 2))

VectorPackThenLookup(s, lut) ==
  Each(LAMBDA c : IF Len(c) = 2 THEN BlockPackThenLookup(c[2], c[1], lut)
                  ELSE c[1], Chunks(s, 2))

VectorPackThenClean(s) == VectorPackThenLookup(s, None)

(* With ExtensionBehavior::Panic.                                          *)
VectorZipThenLookup(l, r, lut) ==
  IF Len(l) # Len(r) THEN <<Panic>>
  ELSE [i \in DOMAIN l |-> BlockPackThenLookup(l[i], r[i], lut)] \o <<>>

(* With ExtensionBehavior::Passthrough: the longer operand's last blocks   *)
(* are kept.                                                               *)
VectorAdd(l, r) ==
  [i \in DOMAIN l \cup DOMAIN r |->
     IF i \notin DOMAIN r THEN l[i]
     ELSE IF i \notin DOMAIN l THEN r[i] ELSE BlockAdd(l[i], r[i])] \o <<>>

VectorUnsignedExtension(s, size) == s \o Zeros(size - Len(s))

VectorAddReduce(s) == FoldLeft(BlockAdd, s[1], Tail(s))

(* A ciphertext of n blocks, those that are not given zero.  Storing a     *)
(* block with an active carry or padding bit fails.                        *)
CiphertextJoin(s, n) ==
  IF Len(s) > n \/ ToSet(s) \ Message # {} THEN <<Panic>>
  ELSE s \o Zeros(n - Len(s))

IntSize(ct) == Len(ct) * MessageSize
=============================================================================
