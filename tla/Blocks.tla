------------------------------- MODULE Blocks -------------------------------
(***************************************************************************)
(* The emulated ciphertext block: from the least significant bit, a        *)
(* message, a carry and one padding bit.  A block is the natural number it *)
(* stores.  Every operation asserts that its operands and its result stay  *)
(* in the part of the block it may use; a failed assertion gives Panic,    *)
(* which lies outside every range, so that it fails every later operation. *)
(* An operation whose result is never used is not seen: optimize_ir        *)
(* removes it.                                                             *)
(***************************************************************************)
EXTENDS Integers, Sequences, FiniteSetsExt, SequencesExt

CONSTANTS CarrySize, MessageSize

ASSUME BlockSizes ==
  /\ CarrySize \in Nat \ {0}
  /\ MessageSize \in Nat \ {0}

Panic == -1

Message  == 0 .. 2 ^ MessageSize - 1
Data     == 0 .. 2 ^ (MessageSize + CarrySize) - 1
Complete == 0 .. 2 ^ (MessageSize + CarrySize + 1) - 1

MessageSpan  == 2 ^ MessageSize
DataSpan     == 2 ^ (MessageSize + CarrySize)
CompleteSpan == 2 * DataSpan

FromMessage(v)  == IF v \in Message THEN v ELSE Panic
FromData(v)     == IF v \in Data THEN v ELSE Panic
FromComplete(v) == IF v \in Complete THEN v ELSE Panic

MsgOf(b)   == b % MessageSpan
CarryOf(b) == (b \div MessageSpan) % 2 ^ CarrySize

Neg(b) == (CompleteSpan - b) % CompleteSpan

ProtectAdd(l, r) ==
  IF l \in Data /\ r \in Data THEN FromData(l + r) ELSE Panic

TemperAdd(l, r) ==
  IF l \in Complete /\ r \in Complete THEN FromComplete(l + r) ELSE Panic

(* The plaintext operand p of the next operations is a constant of the     *)
(* program: a plaintext block as wide as a complete block.                 *)
ProtectAddPt(l, p) == IF l \in Data THEN FromData(l + p) ELSE Panic

WrappingAddPt(l, p) ==
  IF l \in Complete THEN (l + p) % CompleteSpan ELSE Panic

ProtectSub(l, r) ==
  IF l \in Data /\ r \in Data /\ l >= r THEN l - r ELSE Panic

ProtectSubCt(p, r) == IF r \in Data /\ p >= r THEN p - r ELSE Panic

(* l * mul + r, on the complete blocks: PackCt.                            *)
PackCt(l, r, mul) ==
  IF l \in Complete /\ r \in Complete THEN FromComplete(l * mul + r)
  ELSE Panic

-----------------------------------------------------------------------------
(* A lookup table has one entry per value of the data bits; an active      *)
(* padding bit in the input negates the entry found.  "inputPadding" and   *)
(* "outputPadding" say which padding bits the lookup may leave active.     *)
LookupChecked(lut, b, inputPadding, outputPadding) ==
  IF b \notin (IF inputPadding THEN Complete ELSE Data) THEN Panic
  ELSE LET entry  == lut[b % DataSpan]
           output == IF b \in Data \/ entry = Panic THEN entry ELSE Neg(entry)
       IN  IF outputPadding \/ output \in Data THEN output ELSE Panic

(* A table with two outputs gives up the top data bit of its input.        *)
Lookup2(lut, b) ==
  IF b \in 0 .. DataSpan \div 2 - 1 THEN lut[b] ELSE <<Panic, Panic>>

-----------------------------------------------------------------------------
(* The tables the integer operations look up, each a function on the data  *)
(* bits of a block, built by Lut1::from_fn and Lut2::from_fn.  "pos0" etc. *)
(* in a name tell the bit the boolean is at.                               *)
Lut1(Entry(_)) == [d \in Data |-> Entry(d)]
Lut2(First(_), Second(_)) ==
  [d \in 0 .. DataSpan \div 2 - 1 |-> <<First(d), Second(d)>>]

Flag(condition) == IF condition THEN 1 ELSE 0

(* The bit at position i, counted from the least significant one.          *)
Bit(v, i) == (v \div 2 ^ i) % 2

None       == Lut1(LAMBDA d : d)
MsgOnly    == Lut1(LAMBDA d : MsgOf(d))
CarryInMsg == Lut1(LAMBDA d : CarryOf(d))

Product(d) == CarryOf(d) * MsgOf(d)

MultCarryMsgLsb    == Lut1(LAMBDA d : FromMessage(Product(d) % MessageSpan))
MultCarryMsgMsb    ==
  Lut1(LAMBDA d : FromMessage((Product(d) \div MessageSpan) % MessageSpan))
MultCarryMsgIsSome == Lut1(LAMBDA d : Flag(Product(d) % DataSpan # 0))

(* The number whose bit i is the operation applied to the bits i.          *)
Bitwise(Op(_, _), x, y) ==
  MapThenSumSet(LAMBDA i : 2 ^ i * Op(Bit(x, i), Bit(y, i)),
                0 .. MessageSize - 1)

BwAnd == Lut1(LAMBDA d : Bitwise(LAMBDA x, y : x * y, CarryOf(d), MsgOf(d)))
BwOr  ==
  Lut1(LAMBDA d : Bitwise(LAMBDA x, y : Flag(x + y > 0), CarryOf(d), MsgOf(d)))
BwXor ==
  Lut1(LAMBDA d : Bitwise(LAMBDA x, y : (x + y) % 2, CarryOf(d), MsgOf(d)))

-----------------------------------------------------------------------------
(* Comparison: 0 inferior, 1 equal, 2 superior.  The carry holds the       *)
(* result for the more significant digits, the message the other.          *)
Inferior == 0
Equal    == 1
Superior == 2

CmpSign == Lut1(LAMBDA d : Flag(d # 0))
(* Mutant of CmpReduce: the less significant result is never looked at.    *)
CmpReduceHigh == Lut1(LAMBDA d : FromMessage(CarryOf(d)))

CmpReduce ==
  Lut1(LAMBDA d : FromMessage(IF CarryOf(d) = Equal THEN MsgOf(d)
                              ELSE CarryOf(d)))

CmpGt  == Lut1(LAMBDA d : Flag(MsgOf(d) = Superior))
CmpGte == Lut1(LAMBDA d : Flag(MsgOf(d) \in {Superior, Equal}))
CmpLt  == Lut1(LAMBDA d : Flag(MsgOf(d) = Inferior))
CmpLte == Lut1(LAMBDA d : Flag(MsgOf(d) \in {Inferior, Equal}))
CmpEq  == Lut1(LAMBDA d : Flag(MsgOf(d) = Equal))
CmpNeq == Lut1(LAMBDA d : Flag(MsgOf(d) # Equal))

CmpGtMrg ==
  Lut1(LAMBDA d : Flag(\/ CarryOf(d) = Superior
                       \/ CarryOf(d) = Equal /\ MsgOf(d) = Superior))
CmpGteMrg ==
  Lut1(LAMBDA d : Flag(\/ CarryOf(d) = Superior
                       \/ CarryOf(d) = Equal /\ MsgOf(d) \in {Superior, Equal}))
CmpLtMrg ==
  Lut1(LAMBDA d : Flag(\/ CarryOf(d) = Inferior
                       \/ CarryOf(d) = Equal /\ MsgOf(d) = Inferior))
CmpLteMrg ==
  Lut1(LAMBDA d : Flag(\/ CarryOf(d) = Inferior
                       \/ CarryOf(d) = Equal /\ MsgOf(d) \in {Inferior, Equal}))
CmpEqMrg  == Lut1(LAMBDA d : Flag(CarryOf(d) = Equal /\ MsgOf(d) = Equal))
CmpNeqMrg == Lut1(LAMBDA d : Flag(CarryOf(d) # Equal \/ MsgOf(d) # Equal))

-----------------------------------------------------------------------------
(* Carry propagation.  The status of a digit is 0 (no carry), 1 (it        *)
(* propagates the carry it is given) or 2 (it generates one).              *)
ManyCarryMsg ==
  Lut2(LAMBDA d : FromMessage(MsgOf(d)), LAMBDA d : FromData(d \div MessageSpan))

ManyGenProp ==
  Lut2(LAMBDA d : FromData(2 * CarryOf(d) + Flag(MsgOf(d) = MessageSpan - 1)),
       LAMBDA d : MsgOf(d))

Ripple2GenProp == Lut1(LAMBDA d : FromData(2 * MsgOf(d)))
GenPropAdd     ==
  Lut1(LAMBDA d : FromMessage((MsgOf(d) + CarryOf(d) \div 2) % MessageSpan))

(* Status of n digits whose statuses were added, the i-th weighted 2^i.    *)
Reduced(d, n) == FromData(2 * (d \div 2 ^ n) + Flag(d % 2 ^ n = 2 ^ n - 1))

ReduceCarry2 == Lut1(LAMBDA d : Reduced(d, 2))
ReduceCarry3 == Lut1(LAMBDA d : Reduced(d, 3))
(* One less than the status: the padding bit makes it -1, 0 or 1.          *)
ReduceCarryPad ==
  Lut1(LAMBDA d : IF d = DataSpan - 1 THEN 0 ELSE CompleteSpan - 1)

(* The status of a sum with its carry in the lowest carry bit, weighted    *)
(* with its position in a group of four.                                   *)
Extracted(d, position) ==
  (IF CarryOf(d) % 2 = 1 THEN 2
   ELSE IF MsgOf(d) = MessageSpan - 1 THEN 1 ELSE 0) * 2 ^ position

ExtractPropGroup0 == Lut1(LAMBDA d : FromMessage(Extracted(d, 0)))
ExtractPropGroup1 == Lut1(LAMBDA d : FromData(Extracted(d, 1)))
ExtractPropGroup2 == Lut1(LAMBDA d : FromData(Extracted(d, 2)))
ExtractPropGroup3 == Lut1(LAMBDA d : FromComplete(Extracted(d, 3)))

SolvePropGroupFinal0 == Lut1(LAMBDA d : Bit(d, 1))
SolvePropGroupFinal1 == Lut1(LAMBDA d : Bit(d, 2))
SolvePropGroupFinal2 == Lut1(LAMBDA d : Bit(d, 3))

SolveProp ==
  Lut1(LAMBDA d : FromMessage(IF CarryOf(d) = 1 THEN MsgOf(d) ELSE CarryOf(d)))
SolvePropCarry ==
  Lut1(LAMBDA d : FromMessage(IF CarryOf(d) = 1 THEN MsgOf(d)
                              ELSE CarryOf(d) \div 2))

-----------------------------------------------------------------------------
(* Selections and tests.                                                   *)
IfTrueZeroed  == Lut1(LAMBDA d : IF CarryOf(d) # 0 THEN 0 ELSE MsgOf(d))
IfFalseZeroed == Lut1(LAMBDA d : IF CarryOf(d) # 0 THEN MsgOf(d) ELSE 0)
IfPos1FalseZeroed ==
  Lut1(LAMBDA d : IF Bit(d, MessageSize + 1) = 1 THEN MsgOf(d) ELSE 0)

IsSome          == Lut1(LAMBDA d : Flag(d # 0))
NotNull         == Lut1(LAMBDA d : Flag(CarryOf(d) # 0 \/ MsgOf(d) # 0))
IsNullPos1      ==
  Lut1(LAMBDA d : FromMessage(2 * Flag(CarryOf(d) = 0 /\ MsgOf(d) = 0)))
MsgNotNullPos1  == Lut1(LAMBDA d : FromMessage(2 * Flag(MsgOf(d) # 0)))

(* The quotient digit from the number of multiples of the divisor greater  *)
(* than the remainder, that number at bit 1.                               *)
SolveQuotientPos1 ==
  Lut1(LAMBDA d : FromMessage(IF d = 0 THEN 3 ELSE IF d = 2 THEN 2
                              ELSE IF d = 4 THEN 1 ELSE 0))

-----------------------------------------------------------------------------
(* A message cut into its two halves.                                      *)
HalfSpan == 2 ^ ((MessageSize + 1) \div 2)

ManyMsgSplit ==
  Lut2(LAMBDA d : MsgOf(d) % HalfSpan, LAMBDA d : MsgOf(d) \div HalfSpan)

ManyMsgSplitShift1 ==
  Lut2(LAMBDA d : FromMessage((MsgOf(d) % HalfSpan) * HalfSpan),
       LAMBDA d : MsgOf(d) \div HalfSpan)

(* n minus the value, its message and the rest: one of ManyInv1CarryMsg to *)
(* ManyInv7CarryMsg.                                                       *)
Inverted(d, n) == IF d > n THEN 0 ELSE n - d
ManyInvCarryMsg(n) ==
  Lut2(LAMBDA d : MsgOf(Inverted(d, n)), LAMBDA d : Inverted(d, n) \div MessageSpan)

(* A message in which every bit that comes after a bit equal to "kind", in *)
(* the direction of travel, is made equal to "kind" as well; a nonzero     *)
(* carry says that such a bit was met in an earlier digit.                 *)
Propagated(d, kind, before(_)) ==
  MapThenSumSet(LAMBDA i : 2 ^ i *
      (IF d >= MessageSpan \/ (\E j \in before(i) : Bit(d, j) = kind)
       THEN kind ELSE Bit(d, i)), 0 .. MessageSize - 1)

PropBitMsgSplit(kind, before(_)) ==
  Lut2(LAMBDA d : Propagated(d, kind, before) % HalfSpan,
       LAMBDA d : Propagated(d, kind, before) \div HalfSpan)

MsbSide(i) == i + 1 .. MessageSize - 1
LsbSide(i) == 0 .. i - 1

Manym2lPropBit1MsgSplit == PropBitMsgSplit(1, MsbSide)
Manym2lPropBit0MsgSplit == PropBitMsgSplit(0, MsbSide)
Manyl2mPropBit1MsgSplit == PropBitMsgSplit(1, LsbSide)
Manyl2mPropBit0MsgSplit == PropBitMsgSplit(0, LsbSide)
=============================================================================
