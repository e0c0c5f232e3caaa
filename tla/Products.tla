------------------------------ MODULE Products ------------------------------
(***************************************************************************)
(* Multiplication, with its overflow flag, and division.                   *)
(***************************************************************************)
EXTENDS Additions, Counting

(* The partial products of weight k, in the order the double loop over the *)
(* digits pushes them; cut is the number of digits kept.                   *)
PartialProducts(a, b, k, cut) ==
  LET of(i, j, lut) == IF j \in DOMAIN b /\ i + j - 1 <= cut
                       THEN <<BlockPackThenLookup(a[i], b[j], lut)>> ELSE <<>>
  IN  FlattenSeq([i \in DOMAIN a |->
                    of(i, k - i, MultCarryMsgMsb)
                    \o of(i, k + 1 - i, MultCarryMsgLsb)])

(* Adds the blocks of a column to an accumulator that already holds "held" *)
(* of them, emptied into a carry whenever it holds NU.                     *)
RECURSIVE Accumulate(_, _, _)
Accumulate(column, held, acc) ==
  IF column = <<>>
  THEN IF held = 1 THEN [digit |-> acc, carries |-> <<>>]
       ELSE [digit   |-> BlockLookup(acc, MsgOnly),
             carries |-> <<BlockLookup(acc, CarryInMsg)>>]
  ELSE LET sum == BlockAdd(Head(column), acc)
       IN  IF held + 1 < NU THEN Accumulate(Tail(column), held + 1, sum)
           ELSE LET rest == Accumulate(Tail(column), 1, BlockLookup(sum, MsgOnly))
                IN  [rest EXCEPT !.carries =
                       <<BlockLookup(sum, CarryInMsg)>> \o @]

(* The digits from weight k on, and the carries into the weight cut + 1.   *)
RECURSIVE ReduceColumns(_, _, _, _, _)
ReduceColumns(a, b, k, cut, carries) ==
  IF k > cut THEN [digits |-> <<>>, carries |-> carries]
  ELSE LET column == PartialProducts(a, b, k, cut) \o carries
           reduced == Accumulate(Tail(column), 1, column[1])
           rest == ReduceColumns(a, b, k + 1, cut, reduced.carries)
       IN  [rest EXCEPT !.digits = <<reduced.digit>> \o @]

SomeIn(chunk) == BlockLookup(VectorAddReduce(chunk), IsSome)

RECURSIVE MergeFlags(_)
MergeFlags(flags) ==
  IF flags = <<>> THEN 0
  ELSE IF Len(flags) = 1 THEN flags[1]
  ELSE MergeFlags(Each(SomeIn, Chunks(flags, NU_BOOL)))

IopMulRaw(a, b, cut) ==
  LET reduced == ReduceColumns(a, b, 1, cut, <<>>)
      dropped == FlattenSeq([i \in DOMAIN a |-> FlattenSeq([j \in DOMAIN b |->
                   IF i + j - 1 <= cut THEN <<>>
                   ELSE <<BlockPackThenLookup(a[i], b[j], MultCarryMsgIsSome)>>])])
      carryIn == Each(SomeIn,
                   Chunks(PartialProducts(a, b, cut + 1, cut) \o reduced.carries,
                          NU))
  IN  [flag |-> MergeFlags(dropped \o carryIn), digits |-> reduced.digits]

MulLsb(a, b) == CiphertextJoin(IopMulRaw(a, b, Len(a)).digits, Len(a))

OverflowMulLsb(a, b) ==
  LET product == IopMulRaw(a, b, Len(a))
  IN  <<CiphertextJoin(<<product.flag>>, 1),
        CiphertextJoin(product.digits, Len(a))>>

-----------------------------------------------------------------------------
(* Division, two bits of the quotient at a time.                           *)

IopOppositeNoprop(s) ==
  <<BlockPlaintextSub(MessageSpan, s[1])>>
  \o Each(LAMBDA b : BlockPlaintextSub(MessageSpan - 1, b), Tail(s))
  \o <<MessageSpan - 1>>

IopX2(s) ==
  LET halves == VectorLookup2(s, ManyMsgSplitShift1)
  IN  [i \in 1 .. Len(s) + 1 |->
         CASE i = 1          -> halves[1][1]
           [] i = Len(s) + 1 -> halves[Len(s)][2]
           [] OTHER          -> BlockAdd(halves[i][1], halves[i - 1][2])] \o <<>>

(* The divisor's multiples by 1, 2 and 3: their digits, for each digit     *)
(* whether it or one above is not null, and their opposites.               *)
IopDivInit(b) ==
  LET x2 == IopX2(b)
      x3 == IopAddHillisSteeleRaw(x2, b, <<>>, TRUE)
  IN  Each(LAMBDA x : [digits   |-> x,
                       notNull  |-> PropagateBlocks(x, 1, TRUE),
                       opposite |-> IopOppositeNoprop(x)], <<b, x2, x3>>)

(* The first n digits of the opposite of a multiple, and a sign digit.     *)
ExtendedOpposite(x, n) ==
  [i \in 1 .. n + 1 |-> IF i <= n /\ i <= Len(x.opposite) THEN x.opposite[i]
                        ELSE MessageSpan - 1] \o <<>>

(* Mutant of RemainderBelow: the digits of the multiple that the           *)
(* remainder does not have are forgotten.                                  *)
RemainderBelowLow(x, difference, n) ==
  BlockLookup(difference[n + 1], MsgNotNullPos1)

(* At bit 1: is the remainder of n digits, minus the multiple, negative?   *)
RemainderBelow(x, difference, n) ==
  BlockLookup(IF n < Len(x.digits)
              THEN BlockSub(difference[n + 1], x.notNull[n + 1])
              ELSE difference[n + 1], MsgNotNullPos1)

Selected(s, select, lut) ==
  Each(LAMBDA b : BlockPackThenLookup(select, b, lut), s)

(* Which of the remainder and its differences with the multiples is the    *)
(* smallest that is not negative: one block at bit 1 among four.           *)
OneHot(below) ==
  <<below[1],
    BlockPackThenLookup(below[1], below[2], BwXor),
    BlockPackThenLookup(below[2], below[3], BwXor),
    BlockLookup(below[3], IsNullPos1)>>

Masked(s, oneHot, n) ==
  [x \in 1 .. 4 |->
     Selected(SubSeq(s[x], 1, n), oneHot[x], IfPos1FalseZeroed)] \o <<>>

(* The sum of the four candidates, of which three are null.                *)
Chosen(candidates, n) ==
  [i \in 1 .. n |->
     BlockLookup(BlockAdd(BlockAdd(candidates[1][i], candidates[2][i]),
                          BlockAdd(candidates[3][i], candidates[4][i])), None)]
  \o <<>>

Solved(remain, differences, below) ==
  [remain |-> Chosen(Masked(<<remain>> \o differences, OneHot(below), Len(remain)),
                     Len(remain)),
   digit  |-> BlockLookup(BlockAdd(below[1], BlockAdd(below[2], below[3])),
                          SolveQuotientPos1)]

Below(multiples, differences, n) ==
  [x \in 1 .. 3 |-> RemainderBelow(multiples[x], differences[x], n)] \o <<>>

(* One digit of the quotient, and the remainder it leaves.                 *)
DivStep(remain, multiples) ==
  LET n == Len(remain)
      differences == Each(LAMBDA x :
        IopAddHillisSteeleRaw(remain, ExtendedOpposite(x, n), <<>>, FALSE),
        multiples)
      solved(d) == Solved(remain, d, Below(multiples, d, n))
  IN  solved(differences)

(* The digits of a, most significant first, brought down one by one.       *)
RECURSIVE DivFrom(_, _, _, _)
DivFrom(a, multiples, quotient, remain) ==
  LET next(step) == DivFrom(Front(a), multiples, <<step.digit>> \o quotient,
                            step.remain)
  IN  IF a = <<>> THEN [quotient |-> quotient, remain |-> remain]
      ELSE next(DivStep(<<Last(a)>> \o remain, multiples))

(* The digits of the quotient are zeroed when the divisor is null.         *)
Quotients(result, divisorNotNull, n) ==
  <<CiphertextJoin(Selected(result.quotient, divisorNotNull, IfFalseZeroed), n),
    CiphertextJoin(result.remain, n)>>

DivideBy(a, multiples) ==
  Quotients(DivFrom(a, multiples, <<>>, <<>>), multiples[1].notNull[1], Len(a))

IopDivx(a, b) == DivideBy(a, IopDivInit(b))
=============================================================================
