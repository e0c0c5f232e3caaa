------------------------------ MODULE Additions ------------------------------
(***************************************************************************)
(* Addition and subtraction: the ripple-carry, the Hillis-Steele and the   *)
(* Kogge-Stone circuits, one per range of integer sizes.  A missing carry  *)
(* in is the empty sequence, a given one a sequence of one block.          *)
(***************************************************************************)
EXTENDS Builder

IopBitwiseInv(ct) ==
  CiphertextJoin(Each(LAMBDA b : BlockPlaintextSub(MessageSpan - 1, b), ct),
                 Len(ct))

RECURSIVE RippleFrom(_, _, _)
RippleFrom(l, r, carry) ==
  IF l = <<>> THEN <<>>
  ELSE LET sum == BlockAdd(BlockAdd(Head(l), Head(r)), carry)
       IN  <<BlockLookup(sum, MsgOnly)>>
           \o RippleFrom(Tail(l), Tail(r), BlockLookup(sum, CarryInMsg))

IopRippleCarryAdd(l, r, cin) ==
  CiphertextJoin(RippleFrom(l, r, IF cin = <<>> THEN 0 ELSE cin[1]), Len(l))

-----------------------------------------------------------------------------
(* Hillis-Steele: the digits are treated in groups of four.                *)

RECURSIVE NextPowerOfTwo(_)
NextPowerOfTwo(n) == IF n = 1 THEN 1 ELSE 2 * NextPowerOfTwo(Ceiling(n, 2))

RawSums(l, r, cin) ==
  LET sums == VectorAdd(l, r)
  IN  IF cin = <<>> THEN sums
      ELSE <<BlockAdd(sums[1], cin[1])>> \o Tail(sums)

(* The statuses of the four sums of a group, weighted with their position. *)
(* Nothing propagates into the first digit of the first group, so that it  *)
(* gives a carry, and the positions of that group are one less.            *)
BlockStates(sum, first) ==
  IF first
  THEN <<BlockLookup2(sum[1], ManyCarryMsg)[2],
         BlockLookup(sum[2], ExtractPropGroup0),
         BlockLookup(sum[3], ExtractPropGroup1),
         BlockLookup(sum[4], ExtractPropGroup2)>>
  ELSE <<BlockLookup(sum[1], ExtractPropGroup0),
         BlockLookup(sum[2], ExtractPropGroup1),
         BlockLookup(sum[3], ExtractPropGroup2),
         BlockPaddingLookup(sum[4], ExtractPropGroup3)>>

(* The partial sums of the statuses; the last one is turned into a carry   *)
(* in the first group, into the status of the whole group in the others.   *)
GroupStates(states, first) ==
  LET b2 == BlockAdd(states[1], states[2])
      b3 == BlockAdd(b2, states[3])
      b4 == BlockTemperAdd(b3, states[4])
  IN  <<states[1], b2, b3,
        IF first THEN BlockLookup(b4, SolvePropGroupFinal2)
        ELSE BlockWrappingAddPlaintext(
               BlockWrappingLookup(b4, ReduceCarryPad), 1)>>

(* One stage of the prefix network: each chunk of "stride" groups takes    *)
(* what the chunk before it has, a carry for the second chunk.             *)
RECURSIVE GroupCarriesFrom(_, _)
GroupCarriesFrom(carries, stride) ==
  IF stride >= Len(carries) THEN carries
  ELSE GroupCarriesFrom(
         [g \in DOMAIN carries |->
            IF g <= stride THEN carries[g]
            ELSE BlockPackThenLookup(carries[g], carries[g - stride],
                   IF g <= 2 * stride THEN SolvePropCarry ELSE SolveProp)]
         \o <<>>, 2 * stride)

(* The carries out of the four digits of a group.                          *)
FinalCarries(states, previous, carry, first) ==
  IF first
  THEN <<states[1], BlockLookup(states[2], SolvePropGroupFinal0),
         BlockLookup(states[3], SolvePropGroupFinal1), carry>>
  ELSE <<BlockLookup(BlockAdd(states[1], previous), SolvePropGroupFinal0),
         BlockLookup(BlockAdd(states[2], previous), SolvePropGroupFinal1),
         BlockLookup(BlockAdd(states[3], previous), SolvePropGroupFinal2),
         carry>>

(* The statuses of the groups, then the carry out of every digit.          *)
AllStates(sums) ==
  LET state(quad, first) == GroupStates(BlockStates(quad, first), first)
      of(quads) == [g \in DOMAIN quads |-> state(quads[g], g = 1)] \o <<>>
  IN  of(Chunks(sums, 4))

AllCarries(groups, into) ==
  FlattenSeq([g \in DOMAIN groups |->
    FinalCarries(groups[g], IF g = 1 THEN 0 ELSE into[g - 1], into[g], g = 1)])

DigitsFrom(sums, carries, n) ==
  [i \in 1 .. n |->
     IF i = 1 THEN BlockLookup2(sums[1], ManyCarryMsg)[1]
     ELSE BlockAdd(sums[i], carries[i - 1])] \o <<>>

IopAddHillisSteeleRaw(l, r, cin, clean) ==
  LET padded(raw) == VectorUnsignedExtension(
                       raw, NextPowerOfTwo(4 * Ceiling(Len(raw), 4)))
      carries(groups) == AllCarries(
                           groups, GroupCarriesFrom(Each(LAMBDA s : s[4], groups), 1))
      digits(sums, n) == DigitsFrom(sums, carries(AllStates(sums)), n)
      result(raw) == digits(padded(raw), Len(raw))
      cleaned(s) == IF clean THEN VectorLookup(s, MsgOnly) ELSE s
  IN  cleaned(result(RawSums(l, r, cin)))

IopAddHillisSteele(l, r, cin) ==
  CiphertextJoin(IopAddHillisSteeleRaw(l, r, cin, TRUE), Len(l))

-----------------------------------------------------------------------------
(* Kogge-Stone: a tree of entries, each the status of a range of digits.   *)
(* "block" holds the statuses of "cpos" ranges side by side, "fresh" that  *)
(* of the whole range, recomputed by a lookup.                             *)

KoggeEntry(block, cpos, fresh) ==
  [block |-> block, cpos |-> cpos, fresh |-> fresh]

TotalWidth == CarrySize + MessageSize

RECURSIVE Log2(_)
Log2(n) == IF n <= 1 THEN 0 ELSE 1 + Log2(n \div 2)

(* The first index of the upper half of a range.                           *)
MiddleOf(start, end) ==
  LET range == end - start + 1
      pow   == 2 ^ Log2(range)
  IN  IF pow = range THEN start + pow \div 2 ELSE start + pow

(* The entry of two adjacent ranges, fresh statuses taken in place of the  *)
(* accumulated ones when these do not fit side by side.                    *)
Combined(lsb, msb) ==
  LET trial   == lsb.cpos + msb.cpos
      tooWide == trial > TotalWidth
      alone   == msb.cpos + 1 > TotalWidth
      low     == IF tooWide THEN lsb.fresh ELSE lsb.block
      high    == IF tooWide /\ alone THEN msb.fresh ELSE msb.block
      cpos    == IF ~tooWide THEN trial ELSE IF alone THEN 2 ELSE msb.cpos + 1
      mac     == BlockMac(high, low, IF tooWide THEN 2 ELSE 2 ^ lsb.cpos)
  IN  KoggeEntry(mac, cpos,
        CASE cpos = 2 -> BlockLookup(mac, ReduceCarry2)
          [] cpos = 3 -> BlockLookup(mac, ReduceCarry3)
          [] cpos = TotalWidth ->
               BlockWrappingAddPlaintext(
                 BlockWrappingLookup(mac, ReduceCarryPad), 1)
          [] OTHER -> Panic)

RECURSIVE KoggePrefix(_, _, _)
KoggePrefix(leaves, start, end) ==
  IF start = end THEN leaves[start]
  ELSE LET middle == MiddleOf(start, end)
       IN  Combined(KoggePrefix(leaves, start, middle - 1),
                    KoggePrefix(leaves, middle, end))

(* Mutant of KoggePropagateCarry: the carry out misses the last digit.     *)
KoggeCarryTooEarly(sums, cin) ==
  LET looked == VectorLookup2(sums, ManyGenProp)
      leaves == <<cin>> \o Each(LAMBDA l : KoggeEntry(l[1], 1, l[1]), looked)
  IN  [digits |-> [i \in DOMAIN sums |->
                     BlockPackThenLookup(KoggePrefix(leaves, 1, i).fresh,
                                         looked[i][2], GenPropAdd)] \o <<>>,
       cout   |-> KoggePrefix(leaves, 1, Len(sums))]

(* The resolved digits of a chunk and its carry out.                       *)
KoggePropagateCarry(sums, cin) ==
  LET looked == VectorLookup2(sums, ManyGenProp)
      leaves == <<cin>> \o Each(LAMBDA l : KoggeEntry(l[1], 1, l[1]), looked)
  IN  [digits |-> [i \in DOMAIN sums |->
                     BlockPackThenLookup(KoggePrefix(leaves, 1, i).fresh,
                                         looked[i][2], GenPropAdd)] \o <<>>,
       cout   |-> KoggePrefix(leaves, 1, Len(sums) + 1)]

RECURSIVE KoggeChunks(_, _)
KoggeChunks(chunks, cin) ==
  IF chunks = <<>> THEN <<>>
  ELSE LET solved == KoggePropagateCarry(Head(chunks), cin)
       IN  solved.digits \o KoggeChunks(Tail(chunks), solved.cout)

IopAddKoggeStone(l, r, cin, parW) ==
  LET pg == IF cin = <<>> THEN 0 ELSE BlockLookup(cin[1], Ripple2GenProp)
  IN  CiphertextJoin(KoggeChunks(Chunks(VectorAdd(l, r), parW),
                                 KoggeEntry(pg, 1, pg)), Len(l))

-----------------------------------------------------------------------------
IopAdd(l, r, cin) ==
  LET size == IntSize(l)
  IN  IF size < 8 THEN IopRippleCarryAdd(l, r, cin)
      ELSE IF size < 17 THEN IopAddHillisSteele(l, r, cin)
      ELSE IopAddKoggeStone(l, r, cin, IF size < 24 THEN 7 ELSE 12)

Add(l, r) == IopAdd(l, r, <<>>)
Sub(l, r) == IopAdd(l, IopBitwiseInv(r), <<1>>)
=============================================================================
