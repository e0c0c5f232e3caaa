------------------------------ MODULE Streams ------------------------------
(***************************************************************************)
(* Short names for the DOps the model-checking instances are made of.      *)
(***************************************************************************)
EXTENDS Dop

R(a) == [file |-> "CtReg", addr |-> a, width |-> 1]
R2(a) == [file |-> "CtReg", addr |-> a, width |-> 2]
H(a) == [file |-> "CtHeap", addr |-> a, width |-> 1]

LOCAL Ins(op, dst, srcs) == [op |-> op, dst |-> dst, srcs |-> srcs]
ADD(d, a, b) == Ins("ADD", {R(d)}, {R(a), R(b)})
LD(d, h) == Ins("LD", {R(d)}, {H(h)})
ST(h, a) == Ins("ST", {H(h)}, {R(a)})
PBS(d, a) == Ins("PBS", {R(d)}, {R(a)})
PBSF(d, a) == Ins("PBS_F", {R(d)}, {R(a)})
PBS2F(d, a) == Ins("PBS_ML2_F", {R2(d)}, {R(a)})
SYNC == Ins("SYNC", {}, {})
INIT == Ins("_INIT", {}, {})
=============================================================================
