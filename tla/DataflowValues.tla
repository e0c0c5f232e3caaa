--------------------------- MODULE DataflowValues ---------------------------
(***************************************************************************)
(* Why respecting the dataflow is enough.  Dataflow with a memory: every   *)
(* register holds the number of the instruction that wrote it last (0      *)
(* before any write), and "got" records what each instruction found in the *)
(* registers it read.  Sequential execution would give it, for each of its *)
(* registers, the last earlier instruction that writes it.                 *)
(***************************************************************************)
EXTENDS Dataflow

VARIABLES mem, got

valuesVars == <<dataflowVars, mem, got>>

Sources(j) == CellsOf(prog[j].srcs)
Destinations(j) == CellsOf(prog[j].dst)
AllCells == UNION {Sources(j) \cup Destinations(j) : j \in Ids}

ValuesInit ==
  /\ DataflowInit
  /\ mem = [c \in AllCells |-> 0]
  /\ got = [j \in Ids |-> [c \in Sources(j) |-> 0]]

FetchValues(j) ==
  /\ Fetch(j)
  /\ got' = [got EXCEPT ![j] = [c \in Sources(j) |-> mem[c]]]
  /\ UNCHANGED mem

StoreValue(j) ==
  /\ Store(j)
  /\ mem' = [c \in AllCells |-> IF c \in Destinations(j) THEN j ELSE mem[c]]
  /\ UNCHANGED got

ValuesNext == \E j \in Ids : FetchValues(j) \/ StoreValue(j)

ValuesSpec == ValuesInit /\ [][ValuesNext]_valuesVars

-----------------------------------------------------------------------------
(* w is the last of the instructions before j that write c, 0 if none does.*)
LastWriter(w, c, j) ==
  /\ w = 0 \/ (w \in Ids /\ w < j /\ c \in Destinations(w))
  /\ \A i \in Ids : w < i /\ i < j => c \notin Destinations(i)

(* Every instruction computes from the values of sequential execution,     *)
(* although the instructions overlap and overtake each other, and although *)
(* a multi-output PBS writes a block of registers through one operand.     *)
SequentialOperands ==
  \A j \in read : \A c \in Sources(j) : LastWriter(got[j][c], c, j)

(* When everything has been written, every register holds the value of its *)
(* last writer in the stream.                                              *)
SequentialResult ==
  written = Ids => \A c \in AllCells : LastWriter(mem[c], c, Len(prog) + 1)
=============================================================================
