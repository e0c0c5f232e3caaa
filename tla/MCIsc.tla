------------------------------- MODULE MCIsc -------------------------------
(***************************************************************************)
(* Instances for TLC of the scheduler, and of the dataflow with values     *)
(* that it implements.  One of the two is chosen at the start and the      *)
(* variables of the other stay as they are.                                *)
(*                                                                         *)
(* The streams of the scheduler are short and chosen for their conflicts:  *)
(* chains of every kind of dependency, registers that overlap because of   *)
(* their width, PBS batches with and without flush whose members wait for  *)
(* a load, batches that are one flush, and the two control instructions.   *)
(* Those of the dataflow are all of four DOps over instructions whose      *)
(* registers overlap, two of them blocks of registers.                     *)
(***************************************************************************)
EXTENDS Isc, DataflowValues, Streams

VARIABLE subject

IscStreams == {
  <<LD(0, 0), ADD(1, 0, 0), ST(0, 1)>>,
  <<ST(0, 0), LD(0, 1), LD(0, 0)>>,
  <<ADD(2, 3, 0), PBS2F(2, 3), ADD(0, 3, 3)>>,
  <<LD(1, 0), PBS(0, 1), PBSF(2, 3)>>,
  <<PBSF(0, 1), PBS(2, 3), PBSF(4, 0)>>,
  <<LD(1, 0), PBSF(0, 1), PBS(2, 3)>>,
  <<LD(1, 0), PBS(2, 0), PBSF(3, 1), PBSF(4, 0)>>,
  <<ADD(0, 1, 2), LD(2, 0), ADD(1, 0, 2), ST(0, 1)>>,
  <<INIT, ADD(0, 1, 2), SYNC>>,
  <<SYNC, PBS(0, 1), SYNC>> }

ValueStreams ==
  [1 .. 4 -> {ADD(1, 0, 2), ADD(2, 1, 1), LD(3, 0), ST(0, 2), PBS2F(2, 0),
              PBS(0, 3), SYNC}]

MCPrograms == IscStreams \cup ValueStreams

mcVars == <<subject, iscVars, valuesVars>>

MCInit ==
  /\ IscInit /\ ValuesInit
  /\ \/ subject = "Isc" /\ prog \in IscStreams
     \/ subject = "DataflowValues" /\ prog \in ValueStreams

MCNext ==
  \/ subject = "Isc" /\ IscNext /\ UNCHANGED <<subject, valuesVars>>
  \/ subject = "DataflowValues" /\ ValuesNext /\ UNCHANGED <<subject, iscVars>>

MCSpec == MCInit /\ [][MCNext]_mcVars
=============================================================================
