--------------------------- MODULE DataflowProofs ---------------------------
(***************************************************************************)
(* Proofs, for every stream: the masked comparison of operands detects     *)
(* every overlap of registers, and an execution that respects the dataflow *)
(* computes from the values of sequential execution.                       *)
(***************************************************************************)
EXTENDS DataflowValues, TLAPS

USE ProgramsAssumption

-----------------------------------------------------------------------------
(* Operands.                                                               *)

(* The block number of a narrower operand determines that of a wider one.  *)
LEMMA WiderBlock ==
  ASSUME NEW x \in Nat, NEW y \in Nat, NEW v \in Widths, NEW w \in Widths,
         v <= w, x \div v = y \div v
  PROVE  x \div w = y \div w
<1>1. CASE v = 1
  BY <1>1 DEF Widths
<1>2. CASE v = 2
  BY <1>2 DEF Widths
<1>3. CASE v = 4
  BY <1>3 DEF Widths
<1>4. CASE v = 8
  BY <1>4 DEF Widths
<1> QED
  BY <1>1, <1>2, <1>3, <1>4 DEF Widths

(* An operand stands for its own address, at least.                        *)
LEMMA OwnCell ==
  ASSUME NEW a \in Argument, NEW n \in Nat, n \div a.width = a.addr \div a.width
  PROVE  <<a.file, n>> \in Cells(a)
<1>1. a.addr \in Nat /\ a.width \in Widths
  BY DEF Argument
<1>2. n \in a.addr - a.width + 1 .. a.addr + a.width - 1
  <2>1. CASE a.width = 1
    BY <1>1, <2>1
  <2>2. CASE a.width = 2
    BY <1>1, <2>2
  <2>3. CASE a.width = 4
    BY <1>1, <2>3
  <2>4. CASE a.width = 8
    BY <1>1, <2>4
  <2> QED
    BY <1>1, <2>1, <2>2, <2>3, <2>4 DEF Widths
<1> QED
  BY <1>2 DEF Cells

(* The masked comparison of two operands (Argument::eq) answers exactly    *)
(* whether they stand for a common register, at every address.             *)
THEOREM SameMeansOverlap ==
  ASSUME NEW a \in Argument, NEW b \in Argument
  PROVE  Same(a, b) <=> Cells(a) \cap Cells(b) # {}
<1>0. /\ a.addr \in Nat /\ a.width \in Widths
      /\ b.addr \in Nat /\ b.width \in Widths
  BY DEF Argument
<1>1. ASSUME Same(a, b) PROVE Cells(a) \cap Cells(b) # {}
  <2>1. CASE a.width <= b.width
    <3>1. a.file = b.file /\ a.addr \div b.width = b.addr \div b.width
      BY <1>0, <1>1, <2>1 DEF Same, Widths
    <3>2. <<a.file, a.addr>> \in Cells(a) /\ <<a.file, a.addr>> \in Cells(b)
      BY <1>0, <3>1, OwnCell
    <3> QED
      BY <3>2
  <2>2. CASE b.width < a.width
    <3>1. a.file = b.file /\ b.addr \div a.width = a.addr \div a.width
      BY <1>0, <1>1, <2>2 DEF Same, Widths
    <3>2. <<a.file, b.addr>> \in Cells(a) /\ <<a.file, b.addr>> \in Cells(b)
      BY <1>0, <3>1, OwnCell
    <3> QED
      BY <3>2
  <2> QED
    BY <1>0, <2>1, <2>2 DEF Widths
<1>2. ASSUME NEW c \in Cells(a) \cap Cells(b) PROVE Same(a, b)
  <2>1. PICK n \in a.addr - a.width + 1 .. a.addr + a.width - 1 :
          c = <<a.file, n>> /\ n \div a.width = a.addr \div a.width
    BY <1>2 DEF Cells
  <2>2. a.file = b.file /\ n \div b.width = b.addr \div b.width
    BY <1>2, <2>1 DEF Cells
  <2>3. n \in Nat
    <3>1. CASE a.width = 1
      BY <1>0, <2>1, <3>1
    <3>2. CASE a.width = 2
      BY <1>0, <2>1, <3>2
    <3>3. CASE a.width = 4
      BY <1>0, <2>1, <3>3
    <3>4. CASE a.width = 8
      BY <1>0, <2>1, <3>4
    <3> QED
      BY <1>0, <3>1, <3>2, <3>3, <3>4 DEF Widths
  <2>4. CASE a.width <= b.width
    <3>1. n \div b.width = a.addr \div b.width
      BY <1>0, <2>1, <2>3, <2>4, WiderBlock
    <3> QED
      BY <1>0, <2>2, <2>4, <3>1 DEF Same, Widths
  <2>5. CASE b.width < a.width
    <3>1. b.width <= a.width
      BY <1>0, <2>5 DEF Widths
    <3>2. n \div a.width = b.addr \div a.width
      BY <1>0, <2>2, <2>3, <3>1, WiderBlock
    <3> QED
      BY <1>0, <2>1, <2>2, <2>5, <3>2 DEF Same, Widths
  <2> QED
    BY <1>0, <2>4, <2>5 DEF Widths
<1> QED
  BY <1>1, <1>2

-----------------------------------------------------------------------------
(* Values.                                                                 *)

(* Sharing a register is a dependency.                                     *)
LEMMA SharedRegister ==
  ASSUME prog \in Programs, NEW i \in Ids, NEW j \in Ids, i < j, NEW c
  PROVE  /\ c \in Destinations(i) /\ c \in Sources(j) => ReadAfterWrite(i, j)
         /\ c \in Sources(i) /\ c \in Destinations(j) => WriteAfterRead(i, j)
         /\ c \in Destinations(i) /\ c \in Destinations(j) => WriteAfterWrite(i, j)
<1>1. /\ prog[i].dst \subseteq Argument /\ prog[i].srcs \subseteq Argument
      /\ prog[j].dst \subseteq Argument /\ prog[j].srcs \subseteq Argument
  <2>1. prog[i] \in DopInstruction /\ prog[j] \in DopInstruction
    BY DEF Ids
  <2> QED
    BY <2>1 DEF DopInstruction
<1>2. ASSUME c \in Destinations(i), c \in Sources(j) PROVE ReadAfterWrite(i, j)
  <2>1. PICK t \in prog[i].dst, s \in prog[j].srcs : c \in Cells(t) \cap Cells(s)
    BY <1>2 DEF Destinations, Sources, CellsOf
  <2>2. Same(t, s)
    BY <1>1, <2>1, SameMeansOverlap
  <2> QED
    BY <2>2 DEF ReadAfterWrite, HasDestination
<1>3. ASSUME c \in Sources(i), c \in Destinations(j) PROVE WriteAfterRead(i, j)
  <2>1. PICK s \in prog[i].srcs, t \in prog[j].dst : c \in Cells(t) \cap Cells(s)
    BY <1>3 DEF Destinations, Sources, CellsOf
  <2>2. Same(t, s)
    BY <1>1, <2>1, SameMeansOverlap
  <2> QED
    BY <2>2 DEF WriteAfterRead, HasSource
<1>4. ASSUME c \in Destinations(i), c \in Destinations(j) PROVE WriteAfterWrite(i, j)
  <2>1. PICK t \in prog[i].dst, u \in prog[j].dst : c \in Cells(t) \cap Cells(u)
    BY <1>4 DEF Destinations, CellsOf
  <2>2. Same(t, u)
    BY <1>1, <2>1, SameMeansOverlap
  <2> QED
    BY <2>2 DEF WriteAfterWrite, HasDestination
<1> QED
  BY <1>2, <1>3, <1>4

(* Control instructions read no register.                                  *)
LEMMA ControlHasNoSource ==
  ASSUME prog \in Programs, NEW j \in Ids, Affinity(prog[j]) = "Ctl"
  PROVE  Sources(j) = {}
<1>1. prog[j] \in DopInstruction
  BY DEF Ids
<1>2. prog[j].op \in CtlOps
  BY <1>1 DEF Affinity, DopInstruction, Opcodes
<1>3. prog[j].srcs = {}
  BY <1>1, <1>2 DEF DopInstruction
<1> QED
  BY <1>3 DEF Sources, CellsOf

(* Instructions that have stored have waited for the earlier accesses to   *)
(* their destination, and a register holds the number of the last          *)
(* instruction to store to it.                                             *)
OrderInv ==
  \A i, j \in Ids : j \in written =>
    /\ WriteAfterRead(i, j) => i \in read
    /\ WriteAfterWrite(i, j) => i \in written
    /\ j \in read \/ Affinity(prog[j]) = "Ctl"

MemoryInv ==
  \A c \in AllCells :
    /\ mem[c] = 0 \/ (mem[c] \in written /\ c \in Destinations(mem[c]))
    /\ \A i \in written : c \in Destinations(i) => i <= mem[c]

ValuesTypeOK ==
  /\ prog \in Programs
  /\ read \subseteq Ids /\ written \subseteq Ids
  /\ DOMAIN mem = AllCells
  /\ DOMAIN got = Ids

ValuesInv == ValuesTypeOK /\ OrderInv /\ MemoryInv /\ SequentialOperands

LEMMA ValuesInvInit ==
  ASSUME ValuesInit
  PROVE  ValuesInv
BY DEF ValuesInit, DataflowInit, ValuesInv, ValuesTypeOK, OrderInv, MemoryInv,
       SequentialOperands

(* Before j has fetched, a source of j holds its last earlier writer.      *)
LEMMA SourceIsCurrent ==
  ASSUME ValuesTypeOK, OrderInv, MemoryInv, NEW j \in Ids, Fetch(j),
         NEW c \in Sources(j)
  PROVE  LastWriter(mem[c], c, j)
<1>0. c \in AllCells
  BY DEF AllCells
<1>1. \A i \in Ids : i < j /\ c \in Destinations(i) => i \in written
  BY SharedRegister DEF Fetch, ValuesTypeOK
<1>2. ASSUME NEW i \in written, c \in Destinations(i) PROVE i <= j
  <2>1. i \in Ids /\ i \in Nat /\ j \in Nat
    BY DEF ValuesTypeOK, Ids
  <2>2. CASE j < i
    <3>1. WriteAfterRead(j, i)
      BY <1>2, <2>1, <2>2, SharedRegister DEF ValuesTypeOK
    <3> QED
      BY <1>2, <2>1, <3>1 DEF OrderInv, Fetch
  <2> QED
    BY <2>1, <2>2
<1>3. j \notin written
  BY ControlHasNoSource DEF OrderInv, Fetch, ValuesTypeOK
<1>4. mem[c] = 0 \/ (mem[c] \in Ids /\ mem[c] < j /\ c \in Destinations(mem[c]))
  <2> SUFFICES ASSUME mem[c] # 0
               PROVE  mem[c] \in Ids /\ mem[c] < j /\ c \in Destinations(mem[c])
    OBVIOUS
  <2>1. mem[c] \in written /\ c \in Destinations(mem[c])
    BY <1>0 DEF MemoryInv
  <2>2. mem[c] \in Ids /\ mem[c] <= j /\ mem[c] # j
    BY <1>2, <1>3, <2>1 DEF ValuesTypeOK
  <2> QED
    BY <2>1, <2>2 DEF Ids
<1>5. ASSUME NEW i \in Ids, mem[c] < i, i < j, c \in Destinations(i) PROVE FALSE
  <2>1. i <= mem[c]
    BY <1>0, <1>1, <1>5 DEF MemoryInv
  <2> QED
    BY <1>4, <1>5, <2>1 DEF Ids
<1> QED
  BY <1>4, <1>5 DEF LastWriter

(* A step changes neither the stream nor what it means.                    *)
LEMMA ValuesStable ==
  ASSUME [ValuesNext]_valuesVars
  PROVE  /\ prog' = prog
         /\ Ids' = Ids /\ AllCells' = AllCells
         /\ \A j : Sources(j)' = Sources(j) /\ Destinations(j)' = Destinations(j)
         /\ \A i, j : /\ WriteAfterRead(i, j)' <=> WriteAfterRead(i, j)
                      /\ WriteAfterWrite(i, j)' <=> WriteAfterWrite(i, j)
         /\ \A w, c, j : LastWriter(w, c, j)' <=> LastWriter(w, c, j)
         /\ \A j : Affinity(prog[j])' = Affinity(prog[j])
<1>1. prog' = prog
  BY DEF ValuesNext, FetchValues, StoreValue, Fetch, Store, valuesVars, dataflowVars
<1> QED
  BY <1>1 DEF Ids, AllCells, Sources, Destinations, WriteAfterRead, WriteAfterWrite,
              LastWriter

(* Fetching keeps the invariant.                                           *)
LEMMA FetchKeepsInv ==
  ASSUME ValuesInv, NEW j \in Ids, FetchValues(j)
  PROVE  ValuesInv'
<1> USE DEF ValuesInv
<1>0. ValuesNext
  BY DEF ValuesNext
<1>1. /\ read' = read \cup {j} /\ written' = written /\ mem' = mem
      /\ got' = [got EXCEPT ![j] = [c \in Sources(j) |-> mem[c]]]
  BY DEF FetchValues, Fetch
<1>2. ValuesTypeOK'
  BY <1>0, <1>1, ValuesStable DEF ValuesTypeOK
<1>3. OrderInv'
  BY <1>0, <1>1, ValuesStable DEF OrderInv
<1>4. MemoryInv'
  BY <1>0, <1>1, ValuesStable DEF MemoryInv
<1>5. SequentialOperands'
  <2> SUFFICES ASSUME NEW k \in read', NEW c \in Sources(k)
               PROVE  LastWriter(got'[k][c], c, k)
    BY <1>0, ValuesStable DEF SequentialOperands
  <2>1. CASE k = j
    <3>1. got'[k][c] = mem[c]
      BY <1>1, <2>1 DEF ValuesTypeOK
    <3> QED
      BY <2>1, <3>1, SourceIsCurrent DEF FetchValues
  <2>2. CASE k # j
    <3>1. k \in read /\ got'[k] = got[k]
      BY <1>1, <2>2 DEF ValuesTypeOK
    <3> QED
      BY <3>1 DEF SequentialOperands
  <2> QED
    BY <2>1, <2>2
<1> QED
  BY <1>2, <1>3, <1>4, <1>5

(* Storing keeps the invariant.                                            *)
LEMMA StoreKeepsInv ==
  ASSUME ValuesInv, NEW j \in Ids, StoreValue(j)
  PROVE  ValuesInv'
<1> USE DEF ValuesInv
<1>0. ValuesNext
  BY DEF ValuesNext
<1>1. /\ read' = read /\ written' = written \cup {j} /\ got' = got
      /\ mem' = [c \in AllCells |-> IF c \in Destinations(j) THEN j ELSE mem[c]]
  BY DEF StoreValue, Store
<1>2. ValuesTypeOK'
  BY <1>0, <1>1, ValuesStable DEF ValuesTypeOK
<1>3. OrderInv'
  BY <1>0, <1>1, ValuesStable DEF OrderInv, StoreValue, Store
<1>4. MemoryInv'
  <2> SUFFICES ASSUME NEW c \in AllCells
               PROVE  /\ mem'[c] = 0 \/ (mem'[c] \in written' /\ c \in Destinations(mem'[c]))
                      /\ \A i \in written' : c \in Destinations(i) => i <= mem'[c]
    BY <1>0, ValuesStable DEF MemoryInv
  <2>0. j \in Nat /\ written \subseteq Ids /\ Ids \subseteq Nat
    BY DEF ValuesTypeOK, Ids
  <2>1. CASE c \in Destinations(j)
    <3>1. mem'[c] = j
      BY <1>1, <2>1
    <3>2. ASSUME NEW i \in written, c \in Destinations(i) PROVE i <= j
      <4>1. CASE j < i
        <5>1. WriteAfterWrite(j, i)
          BY <2>0, <2>1, <3>2, <4>1, SharedRegister DEF ValuesTypeOK
        <5> QED
          BY <2>0, <3>2, <5>1 DEF OrderInv, StoreValue, Store
      <4> QED
        BY <2>0, <4>1
    <3> QED
      BY <1>1, <2>0, <2>1, <3>1, <3>2
  <2>2. CASE c \notin Destinations(j)
    BY <1>1, <2>2 DEF MemoryInv
  <2> QED
    BY <2>1, <2>2
<1>5. SequentialOperands'
  BY <1>0, <1>1, ValuesStable DEF SequentialOperands
<1> QED
  BY <1>2, <1>3, <1>4, <1>5

LEMMA ValuesInvStep ==
  ASSUME ValuesInv, [ValuesNext]_valuesVars
  PROVE  ValuesInv'
<1>1. CASE UNCHANGED valuesVars
  <2>1. UNCHANGED <<prog, read, written, mem, got>>
    BY <1>1 DEF valuesVars, dataflowVars
  <2> QED
    BY <2>1, ValuesStable DEF ValuesInv, ValuesTypeOK, OrderInv, MemoryInv,
                              SequentialOperands
<1> QED
  BY <1>1, FetchKeepsInv, StoreKeepsInv DEF ValuesNext

(* The operands of every instruction have the values that sequential       *)
(* execution gives them, in every execution that respects the dataflow.    *)
THEOREM OperandsAreSequential == ValuesSpec => []SequentialOperands
<1>1. ValuesInit => ValuesInv
  BY ValuesInvInit
<1>2. ValuesInv /\ [ValuesNext]_valuesVars => ValuesInv'
  BY ValuesInvStep
<1>3. ValuesInv => SequentialOperands
  BY DEF ValuesInv
<1> QED
  BY <1>1, <1>2, <1>3, PTL DEF ValuesSpec

(* And so have all registers at the end.                                   *)
THEOREM ResultIsSequential == ValuesSpec => []SequentialResult
<1>1. ValuesInit => ValuesInv
  BY ValuesInvInit
<1>2. ValuesInv /\ [ValuesNext]_valuesVars => ValuesInv'
  BY ValuesInvStep
<1>3. ValuesInv => SequentialResult
  <2> SUFFICES ASSUME ValuesInv, written = Ids, NEW c \in AllCells
               PROVE  LastWriter(mem[c], c, Len(prog) + 1)
    BY DEF SequentialResult
  <2>1. Len(prog) \in Nat
    <3>1. prog \in Seq(DopInstruction)
      BY DEF ValuesInv, ValuesTypeOK
    <3> QED
      BY <3>1
  <2>2. \A i \in Ids : c \in Destinations(i) => i <= mem[c]
    BY DEF ValuesInv, MemoryInv
  <2>3. mem[c] = 0 \/ (mem[c] \in Ids /\ c \in Destinations(mem[c]))
    BY DEF ValuesInv, MemoryInv
  <2> QED
    BY <2>1, <2>2, <2>3 DEF LastWriter, Ids
<1> QED
  BY <1>1, <1>2, <1>3, PTL DEF ValuesSpec
=============================================================================
