-------------------------------- MODULE Dop --------------------------------
(***************************************************************************)
(* The instruction set of the HPU (zhc_langs/src/doplang), reduced to what *)
(* the simulator asks of an instruction: the lane that executes it, whether*)
(* it flushes a PBS batch, how many ciphertexts it writes, and the operands*)
(* it reads and writes.                                                    *)
(*                                                                         *)
(* An operand is [file, addr, width].  A register operand carries in the   *)
(* code a mask that clears its low bits; "width" is the number of registers*)
(* that mask makes indistinguishable (1, 2, 4 or 8).  An optional operand  *)
(* (get_dst, get_src1, get_src2) is a set with at most one member, so "dst"*)
(* is {} or a singleton and "srcs" holds the ciphertext sources.           *)
(***************************************************************************)
EXTENDS Integers

Files == {"CtReg", "CtHeap", "CtIo", "CtSrcVar", "CtDstVar"}

Widths == {1, 2, 4, 8}

Argument == [file : Files, addr : Nat, width : Widths]

AluOps == {"ADD", "SUB", "MAC", "ADDS", "SUBS", "SSUB", "MULS"}
MemOps == {"LD", "ST"}
PbsFlushOps == {"PBS_F", "PBS_ML2_F", "PBS_ML4_F", "PBS_ML8_F"}
PbsOps == {"PBS", "PBS_ML2", "PBS_ML4", "PBS_ML8"} \cup PbsFlushOps
CtlOps == {"_INIT", "SYNC"}
Opcodes == AluOps \cup MemOps \cup PbsOps \cup CtlOps

(* Control instructions have no operand, the others a destination and one  *)
(* or two ciphertext sources.                                              *)
DopInstruction ==
  {d \in [op : Opcodes, dst : SUBSET Argument, srcs : SUBSET Argument] :
     IF d.op \in CtlOps
     THEN d.dst = {} /\ d.srcs = {}
     ELSE /\ \E t \in d.dst : d.dst = {t}
          /\ \E s1, s2 \in d.srcs : d.srcs = {s1, s2}}

(* The lane of an instruction.                                             *)
Affinity(d) ==
  CASE d.op \in AluOps -> "Alu"
    [] d.op \in MemOps -> "Mem"
    [] d.op \in PbsOps -> "Pbs"
    [] OTHER -> "Ctl"

IsPbsFlush(d) == d.op \in PbsFlushOps

(* Number of ciphertexts a PBS leaves in the destination registers.        *)
NumberOutputs(d) ==
  CASE d.op \in {"PBS", "PBS_F"} -> 1
    [] d.op \in {"PBS_ML2", "PBS_ML2_F"} -> 2
    [] d.op \in {"PBS_ML4", "PBS_ML4_F"} -> 4
    [] OTHER -> 8

(* Argument::eq.  Two registers are "equal" when they agree on the bits    *)
(* kept by both masks, that is on the block number at the wider width.     *)
(* Mutant: the masks are forgotten.                                        *)
SameExactAddress(a, b) == a.file = b.file /\ a.addr = b.addr
Same(a, b) ==
  /\ a.file = b.file
  /\ LET w == IF a.width > b.width THEN a.width ELSE b.width
     IN  a.addr \div w = b.addr \div w

(* has_source: does instruction d read an operand equal to a?              *)
HasSource(d, a) == \E s \in d.srcs : Same(a, s)

(* Does d write an operand equal to a?                                     *)
HasDestination(d, a) == \E t \in d.dst : Same(t, a)

-----------------------------------------------------------------------------
(* The registers an operand stands for: the aligned block of its width.    *)
Cells(a) == {a.file} \X {c \in a.addr - a.width + 1 .. a.addr + a.width - 1 :
                             c \div a.width = a.addr \div a.width}
CellsOf(args) == UNION {Cells(a) : a \in args}
=============================================================================
