----------------------------- MODULE IntegerOps -----------------------------
(***************************************************************************)
(* The last circuits - bitwise operations, selections by a condition,      *)
(* comparisons - and the interpretation of all: operands are chosen, one   *)
(* of the circuits is evaluated on them, and its outputs are kept.         *)
(***************************************************************************)
EXTENDS Products

CONSTANTS
  Operands,      \* the pairs of ciphertexts the circuits are evaluated on
  PairLimit,     \* the longest operands of an operation on two integers
  ProductLimit   \* the longest operands multiplied or divided

VARIABLES lhs, rhs, run

-----------------------------------------------------------------------------
IopBitwise(a, b, lut) ==
  CiphertextJoin(VectorZipThenLookup(a, b, lut), Len(a))

(* The condition is an integer of one block.                               *)
IopIfThenElse(a, b, cond) ==
  CiphertextJoin(
    [i \in DOMAIN a |-> BlockAdd(BlockPackThenLookup(cond, a[i], IfFalseZeroed),
                                 BlockPackThenLookup(cond, b[i], IfTrueZeroed))],
    Len(a))

IopIfThenZero(a, cond) ==
  CiphertextJoin(Each(LAMBDA d : BlockPackThenLookup(cond, d, IfFalseZeroed), a),
                 Len(a))

-----------------------------------------------------------------------------
CmpKinds == {"gt", "gte", "lt", "lte", "eq", "neq"}

CmpKindMerge ==
  [gt |-> CmpGtMrg, gte |-> CmpGteMrg, lt |-> CmpLtMrg,
   lte |-> CmpLteMrg, eq |-> CmpEqMrg, neq |-> CmpNeqMrg]
CmpKindCompare ==
  [gt |-> CmpGt, gte |-> CmpGte, lt |-> CmpLt,
   lte |-> CmpLte, eq |-> CmpEq, neq |-> CmpNeq]

(* 0, 1 or 2: one more than the sign of the difference of two packed       *)
(* digits.                                                                 *)
CompareBlocks(l, r) ==
  BlockAddPlaintext(BlockLookup(BlockSub(l, r), CmpSign), 1)

RECURSIVE ReduceComparison(_)
ReduceComparison(merged) ==
  IF Len(merged) <= 2 THEN merged
  ELSE ReduceComparison(VectorLookup(VectorPack(merged), CmpReduce))

IopCmp(a, b, kind) ==
  LET packedA == VectorPackThenClean(a)
      packedB == VectorPackThenClean(b)
      merged  == ReduceComparison(
                   [i \in DOMAIN packedA |->
                      CompareBlocks(packedA[i], packedB[i])] \o <<>>)
      result  == IF Len(merged) = 2
                 THEN BlockLookup(VectorPack(merged)[1], CmpKindMerge[kind])
                 ELSE BlockLookup(merged[1], CmpKindCompare[kind])
  IN  CiphertextJoin(<<result>>, 1)

-----------------------------------------------------------------------------
opsVars == <<lhs, rhs, run>>

Idle == [iop |-> "none", outputs |-> <<>>, cond |-> 0]

OpsInit ==
  /\ \E o \in Operands : lhs = o[1] /\ rhs = o[2]
  /\ run = Idle

Evaluated(iop, outputs) ==
  /\ run = Idle
  /\ run' = [iop |-> iop, outputs |-> outputs, cond |-> 0]
  /\ UNCHANGED <<lhs, rhs>>

InPairs   == Len(lhs) <= PairLimit
InProduct == Len(lhs) <= ProductLimit

EvaluateSum ==
  /\ InPairs
  /\ \/ Evaluated("add", <<Add(lhs, rhs)>>)
     \/ Evaluated("sub", <<Sub(lhs, rhs)>>)

EvaluateNamedAdder ==
  /\ InPairs
  /\ \/ Evaluated("add_ripple", <<IopRippleCarryAdd(lhs, rhs, <<>>)>>)
     \/ Evaluated("add_hillis_steele", <<IopAddHillisSteele(lhs, rhs, <<>>)>>)
     \/ \E parW \in {1, 3} :
          Evaluated("add_kogge_stone",
                    <<IopAddKoggeStone(lhs, rhs, <<>>, parW)>>)

EvaluateProduct ==
  /\ InProduct
  /\ \/ Evaluated("mul_lsb", <<MulLsb(lhs, rhs)>>)
     \/ Evaluated("overflow_mul_lsb", OverflowMulLsb(lhs, rhs))
     \/ Evaluated("div", IopDivx(lhs, rhs))

(* The operations on one integer.                                          *)
EvaluateCount ==
  \/ Evaluated("count_0", <<IopCount(lhs, 0)>>)
  \/ Evaluated("count_1", <<IopCount(lhs, 1)>>)
  \/ Evaluated("lead0", <<IopLead0(lhs)>>)
  \/ Evaluated("lead1", <<IopLead1(lhs)>>)
  \/ Evaluated("trail0", <<IopTrail0(lhs)>>)
  \/ Evaluated("trail1", <<IopTrail1(lhs)>>)
  \/ Evaluated("ilog2", <<IopIlog2(lhs)>>)

EvaluateBitwise ==
  /\ InPairs
  /\ \/ Evaluated("bitwise_and", <<IopBitwise(lhs, rhs, BwAnd)>>)
     \/ Evaluated("bitwise_or", <<IopBitwise(lhs, rhs, BwOr)>>)
     \/ Evaluated("bitwise_xor", <<IopBitwise(lhs, rhs, BwXor)>>)
     \/ Evaluated("bitwise_inv", <<IopBitwiseInv(lhs)>>)

EvaluateSelection ==
  /\ InPairs
  /\ run = Idle
  /\ \E cond \in Message :
       \E chosen \in {[iop |-> "if_then_else", ct |-> IopIfThenElse(lhs, rhs, cond)],
                      [iop |-> "if_then_zero", ct |-> IopIfThenZero(lhs, cond)]} :
         run' = [iop |-> chosen.iop, outputs |-> <<chosen.ct>>, cond |-> cond]
  /\ UNCHANGED <<lhs, rhs>>

EvaluateComparison ==
  /\ InPairs
  /\ \E kind \in CmpKinds : Evaluated(kind, <<IopCmp(lhs, rhs, kind)>>)

OpsNext ==
  \/ EvaluateSum
  \/ EvaluateNamedAdder
  \/ EvaluateProduct
  \/ EvaluateCount
  \/ EvaluateBitwise
  \/ EvaluateSelection
  \/ EvaluateComparison

OpsSpec == OpsInit /\ [][OpsNext]_opsVars

-----------------------------------------------------------------------------
(* What the outputs should be.                                             *)

Value(ct) ==
  FoldRight(LAMBDA d, acc : d + MessageSpan * acc, ct, 0)

Modulus == MessageSpan ^ Len(lhs)

(* The bits of the left operand, from bit 0.                               *)
LhsBit(i) == Bit(lhs[i \div MessageSize + 1], i % MessageSize)
BitIds    == 0 .. IntSize(lhs) - 1
BitsAt(v) == {i \in BitIds : LhsBit(i) = v}

(* The number of bits before the first one equal to v, from the top, from  *)
(* the bottom.                                                             *)
Leading(v)  == Cardinality({i \in BitIds : \A j \in BitsAt(v) : j < i})
Trailing(v) == Cardinality({i \in BitIds : \A j \in BitsAt(v) : j > i})

Returns(iops, values) ==
  run.iop \in iops =>
    /\ Len(run.outputs) = Len(values)
    /\ \A k \in DOMAIN values : Value(run.outputs[k]) = values[k]

Fails == \E k \in DOMAIN run.outputs : Panic \in ToSet(run.outputs[k])

(* No circuit but the comparisons ever fails an assertion of the blocks'   *)
(* arithmetic: no sum overflows its carry, no lookup is given a padding    *)
(* bit it does not allow, no dirty block is stored in an integer, whatever *)
(* the operands (iops/*.rs, ops.rs, Lut1::lookup).                         *)
NothingOverflows == run.iop \notin CmpKinds => ~Fails

(* Every adder adds modulo the size of the integer, whatever the carry     *)
(* chain across groups of four digits and chunks of a prefix tree, and     *)
(* subtraction is the addition of the complement (add.rs).                 *)
SumsRight ==
  InPairs =>
    /\ Returns({"add", "add_ripple", "add_hillis_steele", "add_kogge_stone"},
               <<(Value(lhs) + Value(rhs)) % Modulus>>)
    /\ Returns({"sub"}, <<(Value(lhs) - Value(rhs)) % Modulus>>)

(* The product modulo the size, a flag that is 1 exactly when digits were  *)
(* lost, and the quotient and the remainder by a divisor that is not null  *)
(* (mul.rs, div.rs).                                                       *)
ProductsRight ==
  LET product == Value(lhs) * Value(rhs)
  IN  InProduct =>
        /\ Returns({"mul_lsb"}, <<product % Modulus>>)
        /\ Returns({"overflow_mul_lsb"},
                   <<Flag(product >= Modulus), product % Modulus>>)
        /\ Value(rhs) # 0 =>
             Returns({"div"}, <<Value(lhs) \div Value(rhs),
                                Value(lhs) % Value(rhs)>>)

(* The numbers of zeros and ones, of leading and trailing ones, and the    *)
(* position of the highest one of an integer that is not null, however     *)
(* many columns the counting tree reduces and however many levels of       *)
(* groups the search for the first bit crosses (count.rs, lead_trail.rs).  *)
CountsRight ==
  /\ Returns({"count_0"}, <<Cardinality(BitsAt(0))>>)
  /\ Returns({"count_1"}, <<Cardinality(BitsAt(1))>>)
  /\ Returns({"lead0"}, <<Leading(1)>>)
  /\ Returns({"lead1"}, <<Leading(0)>>)
  /\ Returns({"trail0"}, <<Trailing(1)>>)
  /\ Returns({"trail1"}, <<Trailing(0)>>)
  /\ BitsAt(1) # {} => Returns({"ilog2"}, <<Max(BitsAt(1))>>)

Holds(kind) ==
  LET a == Value(lhs) b == Value(rhs)
  IN  CASE kind = "gt" -> a > b [] kind = "gte" -> a >= b
        [] kind = "lt" -> a < b [] kind = "lte" -> a <= b
        [] kind = "eq" -> a = b [] kind = "neq" -> a # b

(* The bitwise operations act digit by digit, a selection keeps the        *)
(* operand its condition names, and a comparison of integers whose number  *)
(* of packed digits is a power of two is right whenever it does not fail   *)
(* (bitwise.rs, if_then_else.rs, if_then_zero.rs, cmp.rs).                 *)
SelectionsRight ==
  LET a == Value(lhs) b == Value(rhs)
      ofBits(Op(_, _)) ==
        FoldRight(LAMBDA d, acc : d + MessageSpan * acc,
                  [i \in DOMAIN lhs |-> Bitwise(Op, lhs[i], rhs[i])], 0)
  IN  InPairs =>
      /\ Returns({"bitwise_and"}, <<ofBits(LAMBDA x, y : x * y)>>)
      /\ Returns({"bitwise_or"}, <<ofBits(LAMBDA x, y : Flag(x + y > 0))>>)
      /\ Returns({"bitwise_xor"}, <<ofBits(LAMBDA x, y : (x + y) % 2)>>)
      /\ Returns({"bitwise_inv"}, <<Modulus - 1 - a>>)
      /\ Returns({"if_then_else"}, <<IF run.cond # 0 THEN a ELSE b>>)
      /\ Returns({"if_then_zero"}, <<IF run.cond # 0 THEN a ELSE 0>>)
      /\ (run.iop \in CmpKinds /\ Ceiling(Len(lhs), 2) \in {1, 2, 4} /\ ~Fails) =>
           Returns({run.iop}, <<Flag(Holds(run.iop))>>)

(* iop_cmp documents "encoding the boolean result: 1 when the relation     *)
(* holds, 0 otherwise", for any two integers of one size (cmp.rs).         *)
ComparesRight ==
  run.iop \in CmpKinds => Returns({run.iop}, <<Flag(Holds(run.iop))>>)
=============================================================================
