------------------------------ MODULE Program ------------------------------
(***************************************************************************)
(* The DOp stream the simulated HPU executes.  A DOp is identified by its  *)
(* place in the stream: compute_latency numbers the DOps in the order in   *)
(* which it pushes them, and the instruction pool, a vector that is only   *)
(* pushed at its end, keeps them in that order.                            *)
(***************************************************************************)
EXTENDS Dop, Sequences

CONSTANT Programs   \* the streams to execute

ASSUME ProgramsAssumption == Programs \subseteq Seq(DopInstruction)

VARIABLE prog       \* the stream of this execution, chosen once

Ids == 1 .. Len(prog)

(* What instruction j must wait for: an earlier i that writes a source of  *)
(* j, that reads the destination of j, or that writes it too.              *)
ReadAfterWrite(i, j) ==
  i < j /\ \E s \in prog[j].srcs : HasDestination(prog[i], s)
WriteAfterRead(i, j) ==
  i < j /\ \E t \in prog[j].dst : HasSource(prog[i], t)
WriteAfterWrite(i, j) ==
  i < j /\ \E t \in prog[j].dst : HasDestination(prog[i], t)

(* SYNC ends only after everything before it.                              *)
Barrier(i, j) == i < j /\ prog[j].op = "SYNC"
=============================================================================
