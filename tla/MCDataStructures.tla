-------------------------- MODULE MCDataStructures --------------------------
(***************************************************************************)
(* Instances for TLC of the data structures the compiler stands on: the IR *)
(* with the two passes of its crate, the collections and the iterator      *)
(* adapters.  They share nothing, so that one of the four is chosen at the *)
(* start and the others stay as they are.                                  *)
(*                                                                         *)
(* The IR is over one type: an input with two results, a commutative       *)
(* operation and an effect.                                                *)
(***************************************************************************)
EXTENDS Fifo, SmallCollections, Iterators, IrPasses

VARIABLE subject

mcVars == <<subject, fifoVars, smallVars, iterVars, ir>>

MCKeys == {1, 2, 3}
MCValues == {1, 2}

(* The buffer of a VArray or StackVec is as long as its type says; those   *)
(* of a SmallVec, SmallMap and SmallSet hold 64 bytes.                     *)
MCRoom == [VArray |-> 3, StackVec |-> 3, SmallVec |-> 2, SmallMap |-> 2, SmallSet |-> 2]

MCSignature ==
  [input  |-> [args |-> << >>, rets |-> <<"T", "T">>],
   binary |-> [args |-> <<"T", "T">>, rets |-> <<"T">>],
   effect |-> [args |-> <<"T", "T">>, rets |-> << >>]]

(* Bound on the histories of the IR.                                       *)
Count(name) == Cardinality({o \in OpIds(ir) : ir.ops[o].ins = name})
FewEffects == Count("input") <= 2 /\ Count("effect") <= 1

NoInput == kind = "VArray" /\ adapter.name = "Zip" /\ source \o second = <<>>

MCInit ==
  /\ FifoInit /\ SmallInit /\ IteratorsInit /\ IrInit
  /\ \/ subject = "Ir" /\ NoInput
     \/ subject = "Fifo" /\ NoInput
     \/ subject = "SmallCollections" /\ adapter.name = "Zip" /\ source \o second = <<>>
     \/ subject = "Iterators" /\ kind = "VArray"

MCNext ==
  \/ subject = "Ir" /\ IrPassesNext /\ UNCHANGED <<subject, fifoVars, smallVars, iterVars>>
  \/ subject = "Fifo" /\ FifoNext /\ UNCHANGED <<subject, smallVars, iterVars, ir>>
  \/ subject = "SmallCollections" /\ SmallNext /\ UNCHANGED <<subject, fifoVars, iterVars, ir>>
  \/ subject = "Iterators" /\ IteratorsNext /\ UNCHANGED <<subject, fifoVars, smallVars, ir>>

MCSpec == MCInit /\ [][MCNext]_mcVars

(* The iterators alone.                                                    *)
IteratorsOnly == MCInit /\ subject = "Iterators" /\ [][MCNext]_mcVars
=============================================================================
