------------------------------ MODULE Dataflow ------------------------------
(***************************************************************************)
(* What an out-of-order execution of a DOp stream promises: the operands   *)
(* of an instruction are read only once every earlier write to them has    *)
(* happened, and its result is written only once every earlier access to   *)
(* the destination has happened.  "read" and "written" are the             *)
(* instructions whose operands have been fetched and whose results have    *)
(* been stored.  The instruction scheduler of the HPU is checked and       *)
(* proved to implement this specification.                                 *)
(***************************************************************************)
EXTENDS Program

VARIABLES read, written

dataflowVars == <<prog, read, written>>

DataflowInit ==
  /\ prog \in Programs
  /\ read = {}
  /\ written = {}

(* Instruction j fetches its operands.                                     *)
Fetch(j) ==
  /\ j \notin read
  /\ \A i \in Ids : ReadAfterWrite(i, j) => i \in written
  /\ read' = read \cup {j}
  /\ UNCHANGED <<prog, written>>

(* Instruction j stores its result.  Control instructions have no operands *)
(* and may complete without fetching.                                      *)
Store(j) ==
  /\ j \notin written
  /\ j \in read \/ Affinity(prog[j]) = "Ctl"
  /\ \A i \in Ids :
       /\ WriteAfterWrite(i, j) => i \in written
       /\ WriteAfterRead(i, j) => i \in read
       /\ Barrier(i, j) => i \in written
  /\ written' = written \cup {j}
  /\ UNCHANGED <<prog, read>>

DataflowNext == \E j \in Ids : Fetch(j) \/ Store(j)

DataflowSpec == DataflowInit /\ [][DataflowNext]_dataflowVars
=============================================================================
