------------------------------- MODULE Words -------------------------------
(***************************************************************************)
(* The words of a DOp stream, thirty-two bits each: the opcode in the six  *)
(* highest, and below it the operands, in fields laid out by the unit that *)
(* executes the instruction.  A word is [opcode, body] here; an operand of *)
(* a DOp is the number of its register, its constant or the number of its  *)
(* table, and a place in memory is [mode, slot].                           *)
(***************************************************************************)
EXTENDS Naturals, Sequences

DOpCode ==
  [ADD |-> 1, SUB |-> 2, MAC |-> 5, ADDS |-> 9, SUBS |-> 10, SSUB |-> 11, MULS |-> 12,
   LD |-> 32, ST |-> 33,
   PBS |-> 48, PBS_ML2 |-> 49, PBS_ML4 |-> 50, PBS_ML8 |-> 51,
   PBS_F |-> 56, PBS_ML2_F |-> 57, PBS_ML4_F |-> 58, PBS_ML8_F |-> 59]

ArithOps == {"ADD", "SUB", "MAC"}
MsgOps   == {"ADDS", "SUBS", "SSUB", "MULS"}
MemOps   == {"LD", "ST"}

(* A field of width bits from bit low up.  What does not fit loses its     *)
(* high bits; a build with assertions stops, and so does a value too wide  *)
(* for a half word.                                                        *)
At(value, low, width) == (value % 2 ^ width) * 2 ^ low
Field(word, low, width) == (word.body \div 2 ^ low) % 2 ^ width

-----------------------------------------------------------------------------
(* Memory: the heap the allocator spills to, and the blocks of the         *)
(* ciphertext arguments of the program.  A variable and its block share    *)
(* the sixteen bits of a slot.                                             *)
(* Mutant: the variable is added to the block.                             *)
VariableUnshifted(id, block) == id + block
Variable(id, block) == (id * 2 ^ 8 + block) % 2 ^ 16

MEM_HEAP == 1
MEM_SRC  == 2
MEM_DST  == 3
CtHeap(slot)        == [mode |-> MEM_HEAP, slot |-> slot]
CtSrcVar(id, block) == [mode |-> MEM_SRC, slot |-> Variable(id, block)]
CtDstVar(id, block) == [mode |-> MEM_DST, slot |-> Variable(id, block)]

IMM_CST == 0

-----------------------------------------------------------------------------
(* The DOps, and their words.                                              *)
Arith(op, dst, src1, src2, cst) == [op |-> op, dst |-> dst, src1 |-> src1, src2 |-> src2, cst |-> cst]
ArithMsg(op, dst, src, cst)     == [op |-> op, dst |-> dst, src |-> src, cst |-> cst]
Memory(op, reg, place)          == [op |-> op, reg |-> reg, place |-> place]
Lookup(op, dst, src, lut)       == [op |-> op, dst |-> dst, src |-> src, lut |-> lut]

(* dst_rid, src0_rid, src1_rid, mul_factor                                 *)
PeArithHex(dop) ==
  At(dop.dst, 0, 7) + At(dop.src1, 7, 7) + At(dop.src2, 14, 7) + At(dop.cst, 21, 5)

(* dst_rid, src_rid, msg_mode, msg_cst                                     *)
PeArithMsgHex(dop) ==
  At(dop.dst, 0, 7) + At(dop.src, 7, 7) + At(IMM_CST, 14, 1) + At(dop.cst, 15, 11)

(* rid, padding, mode, slot                                                *)
PeMemHex(dop) ==
  At(dop.reg, 0, 7) + At(dop.place.mode, 8, 2) + At(dop.place.slot, 10, 16)

(* dst_rid, src_rid, gid                                                   *)
PePbsHex(dop) == At(dop.dst, 0, 7) + At(dop.src, 7, 7) + At(dop.lut, 14, 12)

Encode(dop) ==
  [opcode |-> DOpCode[dop.op],
   body   |-> CASE dop.op \in ArithOps -> PeArithHex(dop)
                [] dop.op \in MsgOps   -> PeArithMsgHex(dop)
                [] dop.op \in MemOps   -> PeMemHex(dop)
                [] OTHER               -> PePbsHex(dop)]

-----------------------------------------------------------------------------
(* What the machine does with a word.                                      *)
Is(word, ops) == \E op \in ops : word.opcode = DOpCode[op]

(* The registers it reads, in the order of the operands.                   *)
ReadRegs(word) ==
  CASE Is(word, ArithOps) -> <<Field(word, 7, 7), Field(word, 14, 7)>>
    [] Is(word, MsgOps)   -> <<Field(word, 7, 7)>>
    [] Is(word, {"LD"})   -> << >>
    [] Is(word, {"ST"})   -> <<Field(word, 0, 7)>>
    [] OTHER              -> <<Field(word, 7, 7)>>

NumberOutputs(word) ==
  CASE Is(word, {"ST"}) -> 0
    [] Is(word, {"PBS_ML2", "PBS_ML2_F"}) -> 2
    [] OTHER -> 1

(* The registers it writes: those of a lookup start at an aligned base.    *)
WriteBase(word) ==
  LET n == NumberOutputs(word) IN (Field(word, 0, 7) \div n) * n
WriteRegs(word) ==
  IF NumberOutputs(word) = 0 THEN {} ELSE WriteBase(word) .. WriteBase(word) + NumberOutputs(word) - 1

(* The place in memory a load reads or a store writes.                     *)
Place(word) == [mode |-> Field(word, 8, 2), slot |-> Field(word, 10, 16)]
=============================================================================
