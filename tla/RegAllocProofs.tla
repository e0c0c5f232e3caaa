--------------------------- MODULE RegAllocProofs ---------------------------
(***************************************************************************)
(* Proofs about the register allocator and the words it leads to, for      *)
(* every well-formed program, every register file and any number of spills *)
(* and reuses: what is alive is kept, every word reads the registers of    *)
(* its operands, every destination gets the value stored there, and on a   *)
(* program that fits the file no assertion fails.                          *)
(***************************************************************************)
EXTENDS RegAlloc, FiniteSetTheorems, TLAPS

-----------------------------------------------------------------------------
(* The invariant.                                                          *)

(* Register r holds v until the current operation writes its results: a    *)
(* register in transition still holds the value it is taken from.          *)
Holding(r, v) ==
  \/ regs[r].st \in {"Storing", "Unspilled", "Retiring"} /\ regs[r].val = v
  \/ regs[r].st = "Transitioning" /\ regs[r].old = v

(* The types of the state, and how far the program has come.               *)
RegType ==
  /\ WellFormed(input)
  /\ point \in Nat \ {0} /\ phase \in {"sources", "results", "emit", "done"}
  /\ phase # "done" => point \in Ops(input)
  /\ phase = "done" /\ input # << >> => point = Len(input) + 1
  /\ phase = "sources" => todo \in Seq(ValuesOf(input))
  /\ phase \in {"results", "emit"} => todo \in Seq(Parts(input, point))
  /\ victims \in Seq(Reg)
  /\ victims # << >> => phase \in {"sources", "results"} /\ todo # << >>
  /\ regs \in [Reg -> [st : {"Empty", "Storing", "Unspilled", "Fresh", "Retiring", "Transitioning"},
                       val : ValuesOf(input) \cup {None}, old : ValuesOf(input) \cup {None}]]
  /\ map \in [ValuesOf(input) -> [st : {"Unseen", "Registered", "Spilled", "Retired"}, at : Nat]]
  /\ heap \in Seq(ValuesOf(input)) /\ Len(heap) <= HeapSlots
  /\ spills \in Seq([from : Reg, to : Nat]) /\ unspills \in Seq([from : Nat, to : Reg])

(* Before a program is given, everything is as AllocInit left it.          *)
Unstarted ==
  input = << >> =>
    /\ phase = "done" /\ point = 1 /\ todo = << >> /\ victims = << >>
    /\ regs = [r \in Reg |-> EmptyReg]
    /\ heap = << >> /\ spills = << >> /\ unspills = << >> /\ DOMAIN delivered = {}

(* The register file and the value map are each other's inverse at all     *)
(* times, and a spilled value has its slot.                                *)
MapsAgree ==
  /\ \A r \in Reg :
       /\ regs[r].st # "Empty" => regs[r].val \in ValuesOf(input) /\ map[regs[r].val] = Registered(r)
       /\ regs[r].st = "Transitioning" => regs[r].old \in ValuesOf(input) /\ map[regs[r].old] = Registered(r)
  /\ \A v \in ValuesOf(input) :
       /\ map[v].st = "Registered" =>
            /\ map[v].at \in Reg /\ regs[map[v].at].st # "Empty"
            /\ Holding(map[v].at, v) \/ regs[map[v].at].val = v
       /\ map[v].st = "Spilled" => map[v].at \in DOMAIN heap /\ heap[map[v].at] = v

(* What is registered or spilled was defined before, what is fresh is      *)
(* defined now, and what retires or has retired is not read any more.      *)
Ages ==
  /\ \A r \in Reg :
       /\ regs[r].st \in {"Storing", "Unspilled", "Retiring"} => regs[r].val[1] < point
       /\ regs[r].st \in {"Fresh", "Transitioning"} => regs[r].val[1] = point
       /\ regs[r].st = "Transitioning" => regs[r].old[1] < point /\ RetiresAt(regs[r].old, point)
       /\ regs[r].st = "Retiring" => RetiresAt(regs[r].val, point)
  /\ \A v \in ValuesOf(input) :
       /\ map[v].st = "Spilled" => v[1] < point
       /\ map[v].st = "Unseen" => v[1] >= point
       /\ map[v].st = "Retired" => \A u \in Uses(v) : u < point

(* The states of registers that each stage of the loop body knows.         *)
Stages ==
  /\ phase = "sources" => \A r \in Reg : regs[r].st \in {"Empty", "Storing", "Unspilled"}
  /\ phase \in {"results", "emit"} =>
       \A r \in Reg :
         /\ regs[r].st = "Transitioning" => ~IsBatch
         /\ regs[r].st \in {"Fresh", "Transitioning"} =>
              \E j \in Parts(input, point) : regs[r].val \in Range(Targets(input, point, j))
  /\ phase = "results" /\ Operation.kind = "st" => todo = << >>
  /\ phase = "emit" =>
       /\ \A v \in Range(Operation.args) \cup Range(Results(input, point)) : map[v].st = "Registered"
       /\ ~IsBatch => Len(todo) <= 1
       /\ spills # << >> \/ unspills # << >> => Range(todo) = Parts(input, point)

(* The results of a part that has its registers are in consecutive ones    *)
(* from an aligned base on.                                                *)
Base(j) == map[Targets(input, point, j)[1]].at
Placed(j) ==
  \A k \in DOMAIN Targets(input, point, j) :
    /\ map[Targets(input, point, j)[k]] = Registered(Base(j) + k - 1)
    /\ Base(j) % Len(Targets(input, point, j)) = 0
ResultsPlaced ==
  phase \in {"results", "emit"} =>
    \A j \in Parts(input, point) : (phase = "emit" \/ j \notin Range(todo)) /\ Operation.kind # "st" => Placed(j)

(* A pending spill finds its value in the register file; a slot without    *)
(* one holds its value.                                                    *)
SpillsRight ==
  /\ \A i \in DOMAIN spills : spills[i].to \in DOMAIN heap /\ file[spills[i].from] = heap[spills[i].to]
  /\ \A s \in DOMAIN heap :
       (\E i \in DOMAIN spills : spills[i].to = s) \/ (s \in DOMAIN cells /\ cells[s] = heap[s])

(* A pending unspill brings back what its register is to hold.             *)
UnspillsRight ==
  \A i \in DOMAIN unspills :
    /\ unspills[i].from \in DOMAIN heap /\ Holding(unspills[i].to, heap[unspills[i].from])
    /\ regs[unspills[i].to].st # "Storing"

(* At run time a register has the value it holds, unless an unspill is yet *)
(* to bring it or the one part of the operation has taken the register     *)
(* over; and the parts that have run have left their results.              *)
FileRight ==
  /\ \A r \in Reg : \A v \in ValuesOf(input) :
       Holding(r, v) =>
         \/ file[r] = v \/ \E i \in DOMAIN unspills : unspills[i].to = r
         \/ phase = "emit" /\ todo = << >> /\ regs[r].st = "Transitioning"
  /\ phase = "emit" =>
       \A j \in Parts(input, point) \ Range(todo) : \A k \in DOMAIN Targets(input, point, j) :
         file[map[Targets(input, point, j)[k]].at] = Targets(input, point, j)[k]

(* The stores that have run have delivered their values.                   *)
Stored ==
  {o \in Ops(input) : input[o].kind = "st" /\ (o < point \/ (o = point /\ phase = "emit" /\ todo = << >>))}
DeliveredRight ==
  /\ DOMAIN delivered = {SlotOf(o) : o \in Stored}
  /\ \A o \in Stored : delivered[SlotOf(o)] = input[o].args[1]

RegInv ==
  /\ RegType /\ Unstarted /\ MapsAgree /\ Ages /\ Stages /\ ResultsPlaced
  /\ SpillsRight /\ UnspillsRight /\ FileRight /\ DeliveredRight

-----------------------------------------------------------------------------
(* Numbers.                                                                *)

(* The powers of two that name the fields of a word.                       *)
LEMMA Powers ==
  /\ 2 ^ 0 = 1 /\ 2 ^ 1 = 2 /\ 2 ^ 2 = 4 /\ 2 ^ 5 = 32 /\ 2 ^ 7 = 128 /\ 2 ^ 8 = 256
  /\ 2 ^ 10 = 1024 /\ 2 ^ 11 = 2048 /\ 2 ^ 12 = 4096 /\ 2 ^ 14 = 16384 /\ 2 ^ 15 = 32768 /\ 2 ^ 16 = 65536
  /\ 2 ^ 21 = 2097152
OBVIOUS

-----------------------------------------------------------------------------
(* The words: what the fields of an encoded DOp decode to.                 *)

(* The fields of the body of a load or a store, by their numbers.          *)
LEMMA MemoryBits ==
  ASSUME NEW a \in Nat, NEW b \in Nat, NEW c \in Nat, a < 128, b < 4, c < 65536,
         NEW n \in Nat, n = a + b * 256 + c * 1024
  PROVE  (n \div 1) % 128 = a /\ (n \div 256) % 4 = b /\ (n \div 1024) % 65536 = c
<1>1. n \div 1 = n
  OBVIOUS
<1>2. n \div 256 = b + 4 * c
  OBVIOUS
<1>3. n \div 1024 = c
  OBVIOUS
<1>4. n % 128 = a
  OBVIOUS
<1>5. (b + 4 * c) % 4 = b
  OBVIOUS
<1>6. c % 65536 = c
  OBVIOUS
<1> QED
  BY <1>1, <1>2, <1>3, <1>4, <1>5, <1>6

(* The word of a load or a store names its register and its place          *)
(* (dop.rs).                                                               *)
LEMMA MemoryWord ==
  ASSUME NEW op \in MemOps, NEW reg \in Nat, NEW mode \in Nat, NEW slot \in Nat,
         reg < 128, mode < 4, slot < 65536
  PROVE  LET word == Encode(Memory(op, reg, [mode |-> mode, slot |-> slot]))
         IN  /\ Field(word, 0, 7) = reg
             /\ Place(word) = [mode |-> mode, slot |-> slot]
             /\ word.opcode = DOpCode[op]
<1> DEFINE dop == Memory(op, reg, [mode |-> mode, slot |-> slot])
           word == Encode(dop)
<1>1. word.body = PeMemHex(dop) /\ word.opcode = DOpCode[op]
  BY DEF Encode, Memory, ArithOps, MsgOps, MemOps
<1>2. PeMemHex(dop) = At(reg, 0, 7) + At(mode, 8, 2) + At(slot, 10, 16)
  BY DEF Memory, PeMemHex
<1>3. At(reg, 0, 7) = reg
  <2>1. reg % 128 = reg /\ reg * 1 = reg
    OBVIOUS
  <2> QED
    BY <2>1, Powers DEF At
<1>4. At(mode, 8, 2) = mode * 256
  <2>1. mode % 4 = mode
    OBVIOUS
  <2> QED
    BY <2>1, Powers DEF At
<1>5. At(slot, 10, 16) = slot * 1024
  <2>1. slot % 65536 = slot
    OBVIOUS
  <2> QED
    BY <2>1, Powers DEF At
<1>6. word.body = reg + mode * 256 + slot * 1024
  BY <1>1, <1>2, <1>3, <1>4, <1>5
<1> HIDE DEF word
<1>7. DEFINE n == reg + mode * 256 + slot * 1024
<1>8. (n \div 1) % 128 = reg /\ (n \div 256) % 4 = mode /\ (n \div 1024) % 65536 = slot
  <2>1. n \in Nat
    OBVIOUS
  <2> QED
    BY <2>1, MemoryBits
<1>9. word.body = n
  BY <1>6
<1> HIDE DEF n
<1> QED
  BY <1>1, <1>8, <1>9, Powers DEF Field, Place, word, dop

(* The fields of the body of an arithmetic instruction.                    *)
LEMMA ArithBits ==
  ASSUME NEW a \in Nat, NEW b \in Nat, NEW c \in Nat, NEW d \in Nat, a < 128, b < 128, c < 128, d < 4096,
         NEW n \in Nat, n = a + b * 128 + c * 16384 + d * 2097152
  PROVE  (n \div 1) % 128 = a /\ (n \div 128) % 128 = b /\ (n \div 16384) % 128 = c
<1>1. n \div 1 = n
  OBVIOUS
<1>2. n \div 128 = b + 128 * c + 16384 * d
  OBVIOUS
<1>3. n \div 16384 = c + 128 * d
  OBVIOUS
<1>4. n % 128 = a
  OBVIOUS
<1>5. (b + 128 * c + 16384 * d) % 128 = b
  OBVIOUS
<1>6. (c + 128 * d) % 128 = c
  OBVIOUS
<1> QED
  BY <1>1, <1>2, <1>3, <1>4, <1>5, <1>6

(* The fields of the body of a lookup.                                     *)
LEMMA LookupBits ==
  ASSUME NEW a \in Nat, NEW b \in Nat, NEW c \in Nat, a < 128, b < 128,
         NEW n \in Nat, n = a + b * 128 + c * 16384
  PROVE  (n \div 1) % 128 = a /\ (n \div 128) % 128 = b
<1>1. n \div 1 = n
  OBVIOUS
<1>2. n \div 128 = b + 128 * c
  OBVIOUS
<1>4. n % 128 = a
  OBVIOUS
<1>5. (b + 128 * c) % 128 = b
  OBVIOUS
<1> QED
  BY <1>1, <1>2, <1>4, <1>5

(* The number of a register fits a register field.                         *)
LEMMA SevenBits ==
  ASSUME NEW v \in Nat, v < 128
  PROVE  At(v, 0, 7) = v /\ At(v, 7, 7) = v * 128 /\ At(v, 14, 7) = v * 16384
<1>1. v % 128 = v /\ v * 1 = v
  OBVIOUS
<1> QED
  BY <1>1, Powers DEF At

(* The word of an addition names its three registers.                      *)
LEMMA ArithWord ==
  ASSUME NEW op \in ArithOps, NEW d \in Nat, NEW a \in Nat, NEW b \in Nat, d < 128, a < 128, b < 128
  PROVE  LET word == Encode(Arith(op, d, a, b, 0))
         IN  /\ Field(word, 0, 7) = d /\ Field(word, 7, 7) = a /\ Field(word, 14, 7) = b
             /\ word.opcode = DOpCode[op]
<1> DEFINE dop == Arith(op, d, a, b, 0)
           word == Encode(dop)
<1>1. word.body = PeArithHex(dop) /\ word.opcode = DOpCode[op]
  BY DEF Encode, Arith, ArithOps, MsgOps, MemOps
<1>2. PeArithHex(dop) = At(d, 0, 7) + At(a, 7, 7) + At(b, 14, 7) + At(0, 21, 5)
  BY DEF Arith, PeArithHex
<1>3. At(0, 21, 5) = 0
  <2>1. (0 % 32) * 2097152 = 0
    OBVIOUS
  <2> QED
    BY <2>1, Powers DEF At
<1> DEFINE n == d + a * 128 + b * 16384 + 0 * 2097152
<1>4. word.body = n
  BY <1>1, <1>2, <1>3, SevenBits
<1>5. (n \div 1) % 128 = d /\ (n \div 128) % 128 = a /\ (n \div 16384) % 128 = b
  <2>1. n \in Nat
    OBVIOUS
  <2> QED
    BY <2>1, ArithBits
<1> HIDE DEF n, word
<1> QED
  BY <1>1, <1>4, <1>5, Powers DEF Field, word, dop

(* The word of an addition of a constant names its two registers.          *)
LEMMA ArithMsgWord ==
  ASSUME NEW d \in Nat, d < 128
  PROVE  LET word == Encode(ArithMsg("ADDS", d, d, 1))
         IN  Field(word, 0, 7) = d /\ word.opcode = DOpCode["ADDS"]
<1> DEFINE dop == ArithMsg("ADDS", d, d, 1)
           word == Encode(dop)
<1>1. word.body = PeArithMsgHex(dop) /\ word.opcode = DOpCode["ADDS"]
  BY DEF Encode, ArithMsg, ArithOps, MsgOps, MemOps
<1>2. PeArithMsgHex(dop) = At(d, 0, 7) + At(d, 7, 7) + At(IMM_CST, 14, 1) + At(1, 15, 11)
  BY DEF ArithMsg, PeArithMsgHex
<1>3. At(1, 15, 11) = 32768 /\ At(IMM_CST, 14, 1) = 0
  <2>1. (1 % 2048) * 32768 = 32768 /\ (0 % 2) * 16384 = 0
    OBVIOUS
  <2> QED
    BY <2>1, Powers DEF At, IMM_CST
<1> DEFINE n == d + d * 128 + 2 * 16384
<1>4. word.body = n
  BY <1>1, <1>2, <1>3, SevenBits
<1>5. (n \div 1) % 128 = d
  <2>1. n \in Nat
    OBVIOUS
  <2> QED
    BY <2>1, LookupBits
<1> HIDE DEF n, word
<1> QED
  BY <1>1, <1>4, <1>5, Powers DEF Field, word, dop

(* The lookups of a table of one or of two entries.                        *)
PbsNames == {"PBS", "PBS_ML2", "PBS_F", "PBS_ML2_F"}

(* The word of a lookup names its two registers.                           *)
LEMMA PbsWord ==
  ASSUME NEW op \in PbsNames, NEW d \in Nat, NEW s \in Nat, NEW lut \in Nat, d < 128, s < 128
  PROVE  LET word == Encode(Lookup(op, d, s, lut))
         IN  /\ Field(word, 0, 7) = d /\ Field(word, 7, 7) = s
             /\ word.opcode = DOpCode[op]
<1> DEFINE dop == Lookup(op, d, s, lut)
           word == Encode(dop)
<1>1. word.body = PePbsHex(dop) /\ word.opcode = DOpCode[op]
  BY DEF Encode, Lookup, ArithOps, MsgOps, MemOps, PbsNames
<1>2. PePbsHex(dop) = At(d, 0, 7) + At(s, 7, 7) + At(lut, 14, 12)
  BY DEF Lookup, PePbsHex
<1> DEFINE c == lut % 4096
<1>3. At(lut, 14, 12) = c * 16384
  BY Powers DEF At
<1> DEFINE n == d + s * 128 + c * 16384
<1>4. word.body = n
  BY <1>1, <1>2, <1>3, SevenBits
<1>5. (n \div 1) % 128 = d /\ (n \div 128) % 128 = s
  <2>1. c \in Nat
    OBVIOUS
  <2> HIDE DEF c
  <2>2. n \in Nat
    BY <2>1
  <2> QED
    BY <2>1, <2>2, LookupBits
<1> HIDE DEF n, word
<1> QED
  BY <1>1, <1>4, <1>5, Powers DEF Field, word, dop

(* What the machine makes of the words.                                    *)
LEMMA StoreWord ==
  ASSUME NEW reg \in Nat, NEW mode \in Nat, NEW slot \in Nat, reg < 128, mode < 4, slot < 65536
  PROVE  LET word == Encode(Memory("ST", reg, [mode |-> mode, slot |-> slot]))
         IN  /\ ReadRegs(word) = <<reg>> /\ WriteRegs(word) = {}
             /\ Place(word) = [mode |-> mode, slot |-> slot]
             /\ Is(word, {"ST"}) /\ ~ Is(word, {"LD"})
<1> DEFINE word == Encode(Memory("ST", reg, [mode |-> mode, slot |-> slot]))
<1>1. /\ Field(word, 0, 7) = reg /\ Place(word) = [mode |-> mode, slot |-> slot]
      /\ word.opcode = DOpCode["ST"]
  BY MemoryWord DEF MemOps
<1> HIDE DEF word
<1>2. /\ ~ Is(word, ArithOps) /\ ~ Is(word, MsgOps) /\ ~ Is(word, {"LD"}) /\ Is(word, {"ST"})
      /\ ~ Is(word, {"PBS_ML2", "PBS_ML2_F"})
  BY <1>1 DEF Is, ArithOps, MsgOps, DOpCode
<1>3. NumberOutputs(word) = 0
  BY <1>2 DEF NumberOutputs
<1>5. ReadRegs(word) = <<reg>>
  BY <1>1, <1>2 DEF ReadRegs
<1>4. WriteRegs(word) = {}
  BY <1>3 DEF WriteRegs
<1> QED
  BY <1>1, <1>2, <1>5, <1>4 DEF word

(* A load writes the register it names.                                    *)
LEMMA LoadWord ==
  ASSUME NEW reg \in Nat, NEW mode \in Nat, NEW slot \in Nat, reg < 128, mode < 4, slot < 65536
  PROVE  LET word == Encode(Memory("LD", reg, [mode |-> mode, slot |-> slot]))
         IN  /\ WriteRegs(word) = {reg} /\ WriteBase(word) = reg
             /\ Place(word) = [mode |-> mode, slot |-> slot]
             /\ Is(word, {"LD"}) /\ ~ Is(word, {"ST"})
<1> DEFINE word == Encode(Memory("LD", reg, [mode |-> mode, slot |-> slot]))
<1>1. /\ Field(word, 0, 7) = reg /\ Place(word) = [mode |-> mode, slot |-> slot]
      /\ word.opcode = DOpCode["LD"]
  BY MemoryWord DEF MemOps
<1> HIDE DEF word
<1>2. /\ Is(word, {"LD"}) /\ ~ Is(word, {"ST"}) /\ ~ Is(word, {"PBS_ML2", "PBS_ML2_F"})
  BY <1>1 DEF Is, ArithOps, MsgOps, DOpCode
<1>3. NumberOutputs(word) = 1
  BY <1>2 DEF NumberOutputs
<1>4. WriteBase(word) = reg
  <2>1. (reg \div 1) * 1 = reg
    OBVIOUS
  <2> QED
    BY <1>1, <1>3, <2>1 DEF WriteBase
<1>5. WriteRegs(word) = reg .. reg
  <2>1. reg + 1 - 1 = reg
    OBVIOUS
  <2> QED
    BY <1>3, <1>4, <2>1 DEF WriteRegs
<1> QED
  BY <1>1, <1>2, <1>4, <1>5 DEF word

(* An addition reads two registers and writes one.                         *)
LEMMA AddWord ==
  ASSUME NEW d \in Nat, NEW a \in Nat, NEW b \in Nat, d < 128, a < 128, b < 128
  PROVE  LET word == Encode(Arith("ADD", d, a, b, 0))
         IN  /\ ReadRegs(word) = <<a, b>> /\ WriteRegs(word) = {d} /\ WriteBase(word) = d
             /\ ~ Is(word, {"LD"}) /\ ~ Is(word, {"ST"})
<1> DEFINE word == Encode(Arith("ADD", d, a, b, 0))
<1>1. /\ Field(word, 0, 7) = d /\ Field(word, 7, 7) = a /\ Field(word, 14, 7) = b
      /\ word.opcode = DOpCode["ADD"]
  BY ArithWord DEF ArithOps
<1> HIDE DEF word
<1>2. /\ Is(word, ArithOps) /\ ~ Is(word, {"LD"}) /\ ~ Is(word, {"ST"})
      /\ ~ Is(word, {"PBS_ML2", "PBS_ML2_F"}) /\ ~ Is(word, MsgOps)
  BY <1>1 DEF Is, ArithOps, MsgOps, DOpCode
<1>3. NumberOutputs(word) = 1
  BY <1>2 DEF NumberOutputs
<1>4. WriteBase(word) = d
  <2>1. (d \div 1) * 1 = d
    OBVIOUS
  <2> QED
    BY <1>1, <1>3, <2>1 DEF WriteBase
<1>5. WriteRegs(word) = d .. d
  <2>1. d + 1 - 1 = d
    OBVIOUS
  <2> QED
    BY <1>3, <1>4, <2>1 DEF WriteRegs
<1> QED
  BY <1>1, <1>2, <1>4, <1>5 DEF word, ReadRegs

(* The addition of a constant reads a register and writes one.             *)
LEMMA AddsWord ==
  ASSUME NEW d \in Nat, d < 128
  PROVE  LET word == Encode(ArithMsg("ADDS", d, d, 1))
         IN  /\ WriteRegs(word) = {d} /\ WriteBase(word) = d
             /\ ~ Is(word, {"LD"}) /\ ~ Is(word, {"ST"})
<1> DEFINE word == Encode(ArithMsg("ADDS", d, d, 1))
<1>1. Field(word, 0, 7) = d /\ word.opcode = DOpCode["ADDS"]
  BY ArithMsgWord
<1> HIDE DEF word
<1>2. ~ Is(word, {"LD"}) /\ ~ Is(word, {"ST"}) /\ ~ Is(word, {"PBS_ML2", "PBS_ML2_F"})
  BY <1>1 DEF Is, ArithOps, MsgOps, DOpCode
<1>3. NumberOutputs(word) = 1
  BY <1>2 DEF NumberOutputs
<1>4. WriteBase(word) = d
  <2>1. (d \div 1) * 1 = d
    OBVIOUS
  <2> QED
    BY <1>1, <1>3, <2>1 DEF WriteBase
<1>5. WriteRegs(word) = d .. d
  <2>1. d + 1 - 1 = d
    OBVIOUS
  <2> QED
    BY <1>3, <1>4, <2>1 DEF WriteRegs
<1> QED
  BY <1>2, <1>4, <1>5 DEF word

(* A lookup with nret results, from a register to an aligned one.          *)
IsLookup(nret, op, d, s) ==
  /\ nret \in {1, 2} /\ op \in PbsNames /\ (nret = 2 <=> op \in {"PBS_ML2", "PBS_ML2_F"})
  /\ d \in Nat /\ s \in Nat /\ d < 128 /\ s < 128 /\ d % nret = 0

(* A lookup writes its results from the register it names on.              *)
LEMMA LookupWord ==
  ASSUME NEW nret, NEW op, NEW d, NEW s, NEW lut \in Nat, IsLookup(nret, op, d, s)
  PROVE  LET word == Encode(Lookup(op, d, s, lut))
         IN  /\ ReadRegs(word) = <<s>> /\ WriteRegs(word) = d .. d + nret - 1 /\ WriteBase(word) = d
             /\ ~ Is(word, {"LD"}) /\ ~ Is(word, {"ST"})
<1> DEFINE word == Encode(Lookup(op, d, s, lut))
<1>0. /\ nret \in {1, 2} /\ op \in PbsNames /\ (nret = 2 <=> op \in {"PBS_ML2", "PBS_ML2_F"})
      /\ d \in Nat /\ s \in Nat /\ d < 128 /\ s < 128 /\ d % nret = 0
  BY DEF IsLookup
<1>1. /\ Field(word, 0, 7) = d /\ Field(word, 7, 7) = s /\ word.opcode = DOpCode[op]
  BY <1>0, PbsWord
<1> HIDE DEF word
<1>2. /\ ~ Is(word, ArithOps) /\ ~ Is(word, MsgOps) /\ ~ Is(word, {"LD"}) /\ ~ Is(word, {"ST"})
      /\ Is(word, {"PBS_ML2", "PBS_ML2_F"}) <=> nret = 2
  <2>1. CASE op = "PBS"
    BY <1>0, <1>1, <2>1 DEF Is, ArithOps, MsgOps, DOpCode
  <2>2. CASE op = "PBS_F"
    BY <1>0, <1>1, <2>2 DEF Is, ArithOps, MsgOps, DOpCode
  <2>3. CASE op = "PBS_ML2"
    BY <1>0, <1>1, <2>3 DEF Is, ArithOps, MsgOps, DOpCode
  <2>4. CASE op = "PBS_ML2_F"
    BY <1>0, <1>1, <2>4 DEF Is, ArithOps, MsgOps, DOpCode
  <2> QED
    BY <1>0, <2>1, <2>2, <2>3, <2>4 DEF PbsNames
<1>3. NumberOutputs(word) = nret
  BY <1>0, <1>2 DEF NumberOutputs
<1>4. WriteBase(word) = d
  <2>1. (d \div nret) * nret = d
    <3>1. CASE nret = 1
      BY <1>0, <3>1
    <3>2. CASE nret = 2
      BY <1>0, <3>2
    <3> QED
      BY <1>0, <3>1, <3>2
  <2> QED
    BY <1>1, <1>3, <2>1 DEF WriteBase
<1>5. WriteRegs(word) = d .. d + nret - 1
  BY <1>0, <1>3, <1>4 DEF WriteRegs
<1> QED
  BY <1>1, <1>2, <1>4, <1>5 DEF word, ReadRegs

-----------------------------------------------------------------------------
(* Ascending lists.                                                        *)

(* The elements of a finite set, each with the set of those below it: there *)
(* is one with each number below it.                                        *)
Ranks(S, below) ==
  /\ IsFiniteSet(S) /\ below \in [S -> SUBSET S]
  /\ \A x \in S : x \notin below[x]
  /\ \A x, z \in S : x # z => \/ x \in below[z] /\ below[x] \subseteq below[z]
                              \/ z \in below[x] /\ below[z] \subseteq below[x]

(* Of the elements of such a set, each has its own number of lower ones.   *)
LEMMA Ranking ==
  ASSUME NEW S, NEW below, Ranks(S, below)
  PROVE  /\ \A x \in S : Cardinality(below[x]) + 1 \in 1 .. Cardinality(S)
         /\ \A x, z \in S : Cardinality(below[x]) = Cardinality(below[z]) => x = z
         /\ \A n \in 1 .. Cardinality(S) : \E x \in S : Cardinality(below[x]) = n - 1
<1> DEFINE N == Cardinality(S)
<1> USE DEF Ranks
<1>0. N \in Nat
  BY FS_CardinalityType
<1>1. \A x \in S : IsFiniteSet(below[x]) /\ Cardinality(below[x]) \in Nat
  BY FS_Subset, FS_CardinalityType
<1>2. ASSUME NEW x \in S, NEW T \in SUBSET S, below[x] \cup {x} \subseteq T
      PROVE  Cardinality(below[x]) + 1 <= Cardinality(T)
  <2>1. Cardinality(below[x] \cup {x}) = Cardinality(below[x]) + 1
    BY <1>1, FS_AddElement
  <2>2. IsFiniteSet(T)
    BY FS_Subset
  <2> QED
    BY <1>2, <2>1, <2>2, FS_Subset
<1>3. \A x \in S : Cardinality(below[x]) + 1 \in 1 .. N
  <2> TAKE x \in S
  <2>1. Cardinality(below[x]) + 1 <= N
    BY <1>2
  <2> QED
    BY <1>0, <1>1, <2>1
<1>4. ASSUME NEW x \in S, NEW z \in S, x # z
      PROVE  Cardinality(below[x]) # Cardinality(below[z])
  <2>1. CASE x \in below[z] /\ below[x] \subseteq below[z]
    BY <1>1, <1>2, <2>1
  <2>2. CASE z \in below[x] /\ below[z] \subseteq below[x]
    BY <1>1, <1>2, <2>2
  <2> QED
    BY <1>4, <2>1, <2>2
<1> DEFINE f == [x \in S |-> Cardinality(below[x]) + 1]
<1>5. f \in Injection(S, 1 .. N)
  <2>1. f \in [S -> 1 .. N]
    BY <1>3
  <2>2. \A x, z \in S : f[x] = f[z] => x = z
    BY <1>1, <1>4
  <2> QED
    BY <2>1, <2>2 DEF Injection, IsInjective
<1>6. IsFiniteSet(1 .. N) /\ Cardinality(1 .. N) = N
  BY <1>0, FS_Interval
<1>7. f \in Surjection(S, 1 .. N)
  BY <1>5, <1>6, FS_Injection
<1>8. \A n \in 1 .. N : \E x \in S : f[x] = n
  BY <1>7 DEF Surjection
<1>9. \A n \in 1 .. N : \E x \in S : Cardinality(below[x]) = n - 1
  <2> TAKE n \in 1 .. N
  <2>1. PICK x \in S : Cardinality(below[x]) + 1 = n
    BY <1>8
  <2>2. Cardinality(below[x]) = n - 1
    BY <1>0, <1>1, <2>1
  <2> QED
    BY <2>2
<1> QED
  BY <1>3, <1>4, <1>9

(* The same, with the elements counted from 1.                             *)
LEMMA RankHeld ==
  ASSUME NEW S, NEW below, Ranks(S, below), NEW n \in 1 .. Cardinality(S)
  PROVE  \E x \in S : Cardinality(below[x]) + 1 = n
<1>0. Cardinality(S) \in Nat
  BY FS_CardinalityType DEF Ranks
<1>1. PICK x \in S : Cardinality(below[x]) = n - 1
  BY Ranking
<1>2. Cardinality(below[x]) + 1 = n
  BY <1>0, <1>1
<1> QED
  BY <1>2

(* The numbers of a set that are below each of them.                       *)
IsBelow(S, below) == below = [x \in S |-> {y \in S : y < x}]

(* Ascending lists a finite set of numbers, given what is below each.      *)
LEMMA AscendingBy ==
  ASSUME NEW S, \A x \in S : x \in Nat, IsFiniteSet(S), NEW below, IsBelow(S, below)
  PROVE  /\ Ascending(S) \in Seq(S) /\ Len(Ascending(S)) = Cardinality(S)
         /\ Range(Ascending(S)) = S
<1> DEFINE N == Cardinality(S)
           s == Ascending(S)
<1>0. N \in Nat
  BY FS_CardinalityType
<1>a. \A x \in S : x \in Nat
  OBVIOUS
<1>b. below = [x \in S |-> {y \in S : y < x}]
  BY DEF IsBelow
<1>c. \A x, y \in S : y \in below[x] <=> y < x
  BY <1>b
<1>1. below \in [S -> SUBSET S]
  BY <1>b
<1>d. \A x \in S : x \notin below[x]
  BY <1>a, <1>c
<1>2. ASSUME NEW x \in S, NEW z \in S, x < z
      PROVE  x \in below[z] /\ below[x] \subseteq below[z]
  <2>1. x \in below[z]
    BY <1>c, <1>2
  <2>2. ASSUME NEW y \in below[x]
        PROVE  y \in below[z]
    <3>1. y \in S
      BY <1>1
    <3>2. y < x
      BY <1>c, <3>1
    <3>3. y < z
      BY <1>a, <1>2, <3>1, <3>2
    <3> QED
      BY <1>c, <3>1, <3>3
  <2> QED
    BY <2>1, <2>2
<1>3. /\ \A x \in S : Cardinality(below[x]) + 1 \in 1 .. N
      /\ \A x, z \in S : Cardinality(below[x]) = Cardinality(below[z]) => x = z
      /\ \A n \in 1 .. N : \E x \in S : Cardinality(below[x]) = n - 1
  <2>1. \A x, z \in S : x # z => \/ x \in below[z] /\ below[x] \subseteq below[z]
                                 \/ z \in below[x] /\ below[z] \subseteq below[x]
    <3>1. \A x, z \in S : x # z => x < z \/ z < x
      BY <1>a
    <3>2. \A x, z \in S : x < z => x \in below[z] /\ below[x] \subseteq below[z]
      BY <1>2
    <3> QED
      BY <3>1, <3>2
  <2>2. Ranks(S, below)
    BY <1>1, <1>d, <2>1 DEF Ranks
  <2> QED
    <3>1. \A x \in S : Cardinality(below[x]) + 1 \in 1 .. N
      BY <2>2, Ranking
    <3>2. \A x, z \in S : Cardinality(below[x]) = Cardinality(below[z]) => x = z
      BY <2>2, Ranking
    <3>3. \A n \in 1 .. N : \E x \in S : Cardinality(below[x]) = n - 1
      <4> TAKE n \in 1 .. N
      <4>1. PICK x \in S : Cardinality(below[x]) + 1 = n
        BY <2>2, RankHeld
      <4>2. x \in S /\ Cardinality(below[x]) \in Nat
        <5>1. IsFiniteSet(below[x])
          BY <1>1, FS_Subset
        <5> QED
          BY <5>1, FS_CardinalityType
      <4>3. Cardinality(below[x]) = n - 1
        BY <1>0, <4>1, <4>2
      <4> QED
        BY <4>2, <4>3
    <3> QED
      BY <3>1, <3>2, <3>3
<1>4. \A n \in 1 .. N : \E x \in S : Cardinality({y \in S : y < x}) = n - 1
  BY <1>3, <1>b
<1>5. \A n \in 1 .. N : s[n] \in S /\ Cardinality(below[s[n]]) = n - 1
  <2> TAKE n \in 1 .. N
  <2>1. s[n] = CHOOSE x \in S : Cardinality({y \in S : y < x}) = n - 1
    BY DEF Ascending
  <2>2. s[n] \in S /\ Cardinality({y \in S : y < s[n]}) = n - 1
    BY <1>4, <2>1
  <2> QED
    BY <1>b, <2>2
<1>6. s \in [1 .. N -> S]
  BY <1>5 DEF Ascending
<1>7. s \in Seq(S) /\ Len(s) = N /\ DOMAIN s = 1 .. N
  BY <1>0, <1>6
<1>8. \A x \in S : \E n \in 1 .. N : s[n] = x
  <2> TAKE x \in S
  <2> DEFINE n == Cardinality(below[x]) + 1
  <2>1. n \in 1 .. N /\ Cardinality(below[x]) = n - 1
    <3>1. Cardinality(below[x]) \in Nat
      <4>1. IsFiniteSet(below[x])
        BY <1>1, FS_Subset
      <4> QED
        BY <4>1, FS_CardinalityType
    <3> QED
      BY <1>3, <3>1
  <2>2. s[n] = x
    BY <1>3, <1>5, <2>1
  <2> QED
    BY <2>1, <2>2
<1>9. Range(s) = S
  BY <1>5, <1>7, <1>8 DEF Range
<1> QED
  BY <1>7, <1>9

(* Ascending lists a finite set of numbers, each once.                     *)
LEMMA AscendingList ==
  ASSUME NEW S, \A x \in S : x \in Nat, IsFiniteSet(S)
  PROVE  /\ Ascending(S) \in Seq(S) /\ Len(Ascending(S)) = Cardinality(S)
         /\ Range(Ascending(S)) = S
<1>1. PICK below : IsBelow(S, below)
  BY DEF IsBelow
<1> QED
  BY <1>1, AscendingBy

-----------------------------------------------------------------------------
(* Lists: sequences that hold each element of a set once.                  *)

(* The sequence s lists the elements of S, each once.                      *)
Lists(s, S) ==
  /\ s \in Seq(S) /\ \A x \in S : \E n \in DOMAIN s : s[n] = x
  /\ \A n, m \in DOMAIN s : s[n] = s[m] => n = m

(* The elements of a list, and its length.                                 *)
LEMMA ListFacts ==
  ASSUME NEW S, NEW s, Lists(s, S)
  PROVE  /\ Range(s) = S /\ DOMAIN s = 1 .. Len(s) /\ Len(s) \in Nat
         /\ \A n \in DOMAIN s : s[n] \in S
         /\ s = << >> <=> S = {}
<1>1. s \in Seq(S) /\ \A x \in S : \E n \in DOMAIN s : s[n] = x
  BY DEF Lists
<1>2. DOMAIN s = 1 .. Len(s) /\ Len(s) \in Nat /\ \A n \in DOMAIN s : s[n] \in S
  BY <1>1
<1>3. Range(s) = S
  BY <1>1, <1>2 DEF Range
<1>4. s = << >> <=> S = {}
  BY <1>1, <1>2
<1> QED
  BY <1>2, <1>3, <1>4

(* A list is as long as what it lists is large.                            *)
LEMMA ListLength ==
  ASSUME NEW S, NEW s, Lists(s, S)
  PROVE  IsFiniteSet(S) /\ Cardinality(S) = Len(s)
<1>1. DOMAIN s = 1 .. Len(s) /\ Len(s) \in Nat /\ s \in [1 .. Len(s) -> S]
  BY DEF Lists
<1>2. \A x \in S : \E n \in 1 .. Len(s) : s[n] = x
  BY <1>1 DEF Lists
<1>3. \A n, m \in 1 .. Len(s) : s[n] = s[m] => n = m
  BY <1>1 DEF Lists
<1>4. s \in Bijection(1 .. Len(s), S)
  BY <1>1, <1>2, <1>3 DEF Bijection, Injection, Surjection, IsInjective
<1>5. IsFiniteSet(1 .. Len(s)) /\ Cardinality(1 .. Len(s)) = Len(s)
  BY <1>1, FS_Interval
<1>6. s \in Surjection(1 .. Len(s), S) /\ s \in Injection(1 .. Len(s), S)
  BY <1>4 DEF Bijection
<1>7. IsFiniteSet(S)
  BY <1>5, <1>6, FS_Surjection
<1>8. Cardinality(S) = Cardinality(1 .. Len(s))
  BY <1>5, <1>6, <1>7, FS_Surjection
<1> QED
  BY <1>5, <1>7, <1>8

(* Nothing is listed by the empty list.                                    *)
LEMMA EmptyList ==
  Lists(<< >>, {})
BY DEF Lists

(* One element is listed by itself.                                        *)
LEMMA OneList ==
  ASSUME NEW x
  PROVE  Lists(<<x>>, {x})
BY DEF Lists

(* Ascending lists a finite set of numbers.                                *)
LEMMA AscendingOnce ==
  ASSUME NEW S, \A x \in S : x \in Nat, IsFiniteSet(S)
  PROVE  Lists(Ascending(S), S)
<1> DEFINE s == Ascending(S)
<1>1. s \in Seq(S) /\ Len(s) = Cardinality(S) /\ Range(s) = S
  BY AscendingList
<1> HIDE DEF s
<1>2. \A x \in S : \E n \in DOMAIN s : s[n] = x
  BY <1>1 DEF Range
<1>3. DOMAIN s = 1 .. Len(s) /\ Len(s) \in Nat
  BY <1>1
<1>4. s \in Surjection(1 .. Len(s), S)
  BY <1>1, <1>2, <1>3 DEF Surjection
<1>5. IsFiniteSet(1 .. Len(s)) /\ Cardinality(1 .. Len(s)) = Len(s)
  BY <1>3, FS_Interval
<1>6. s \in Injection(1 .. Len(s), S)
  BY <1>1, <1>4, <1>5, FS_Surjection
<1>7. \A n, m \in DOMAIN s : s[n] = s[m] => n = m
  BY <1>3, <1>6 DEF Injection, IsInjective
<1> QED
  BY <1>1, <1>2, <1>7 DEF Lists, s

-----------------------------------------------------------------------------
(* Programs: values, parts, operands and targets.                          *)

(* The values of a program, by the operation that defines them.            *)
LEMMA Values ==
  ASSUME NEW code, WellFormed(code), NEW v \in ValuesOf(code)
  PROVE  /\ v[1] \in Ops(code) /\ v[1] \in Nat \ {0} /\ v # None
         /\ v \in Range(Results(code, v[1]))
<1>1. PICK o \in Ops(code) : v \in Range(Results(code, o))
  BY DEF ValuesOf
<1>2. PICK k \in 1 .. code[o].nret : v = <<o, k>>
  BY <1>1 DEF Range, Results
<1>3. o \in 1 .. Len(code) /\ Len(code) \in Nat
  BY DEF WellFormed, Ops
<1> QED
  BY <1>1, <1>2, <1>3 DEF None

(* The results of an operation are values.                                 *)
LEMMA ResultsAreValues ==
  ASSUME NEW code, NEW n \in Ops(code), NEW v \in Range(Results(code, n))
  PROVE  v \in ValuesOf(code) /\ v[1] = n
<1>1. v \in ValuesOf(code)
  BY DEF ValuesOf
<1>2. PICK k \in DOMAIN Results(code, n) : v = Results(code, n)[k]
  BY DEF Range
<1>3. v[1] = n
  BY <1>2 DEF Results
<1> QED
  BY <1>1, <1>3

(* What an operation reads are values, defined before it.                  *)
LEMMA Arguments ==
  ASSUME NEW code, WellFormed(code), NEW n \in Ops(code)
  PROVE  /\ code[n].args \in Seq(ValuesOf(code))
         /\ \A v \in Range(code[n].args) : v \in ValuesOf(code) /\ v[1] < n
<1> DEFINE earlier == UNION {Range(Results(code, o)) : o \in 1 .. n - 1}
<1>1. code[n].args \in Seq(earlier)
  BY DEF WellFormed
<1>2. n \in Nat /\ 1 .. n - 1 \subseteq Ops(code)
  <2>1. Len(code) \in Nat /\ Ops(code) = 1 .. Len(code)
    BY DEF WellFormed, Ops
  <2> QED
    BY <2>1
<1>3. ASSUME NEW v \in earlier
      PROVE  v \in ValuesOf(code) /\ v[1] < n
  <2>1. PICK o \in 1 .. n - 1 : v \in Range(Results(code, o))
    OBVIOUS
  <2>2. o \in Ops(code) /\ o < n
    BY <1>2
  <2>3. v \in ValuesOf(code) /\ v[1] = o
    BY <2>1, <2>2, ResultsAreValues
  <2> QED
    BY <2>2, <2>3
<1> HIDE DEF earlier
<1>4. earlier \subseteq ValuesOf(code)
  BY <1>3
<1>5. code[n].args \in Seq(ValuesOf(code))
  BY <1>1, <1>4
<1>6. \A v \in Range(code[n].args) : v \in earlier
  BY <1>1 DEF Range
<1> QED
  BY <1>3, <1>5, <1>6

(* An operation that is no batch is one part, of its kind's arity.         *)
LEMMA PartsOfOne ==
  ASSUME NEW code, WellFormed(code), NEW n \in Ops(code)
  PROVE  /\ \A j \in Parts(code, n) : j \in Nat
         /\ IsFiniteSet(Parts(code, n))
         /\ code[n].kind # "batch" => Parts(code, n) \in {{}, {1}}
         /\ code[n].kind \notin {"batch", "imm"} => Parts(code, n) = {1}
<1>1. CASE code[n].kind = "batch"
  <2>1. Parts(code, n) = DOMAIN code[n].body
    BY <1>1 DEF Parts
  <2>2. code[n].body \in Seq(Range(code[n].body))
    BY <1>1 DEF WellFormed
  <2> DEFINE m == Len(code[n].body)
  <2>3. DOMAIN code[n].body = 1 .. m /\ m \in Nat
    BY <2>2
  <2> HIDE DEF m
  <2>4. IsFiniteSet(1 .. m) /\ \A j \in 1 .. m : j \in Nat
    BY <2>3, FS_Interval
  <2> QED
    BY <1>1, <2>1, <2>3, <2>4
<1>2. CASE code[n].kind # "batch"
  <2>1. Parts(code, n) \in {{}, {1}} /\ (code[n].kind # "imm" => Parts(code, n) = {1})
    BY <1>2 DEF Parts
  <2>2. IsFiniteSet({}) /\ IsFiniteSet({1})
    BY FS_EmptySet, FS_Singleton
  <2> QED
    BY <1>2, <2>1, <2>2
<1> QED
  BY <1>1, <1>2

(* What a part reads and writes.                                           *)
LEMMA PartOfBatch ==
  ASSUME NEW code, WellFormed(code), NEW n \in Ops(code), NEW j \in Parts(code, n), code[n].kind = "batch"
  PROVE  /\ IsMember(code[n], code[n].body[j])
         /\ Operands(code, n, j) = <<code[n].args[code[n].body[j].args[1]]>>
         /\ code[n].body[j].args[1] \in DOMAIN code[n].args
<1> DEFINE member == code[n].body[j]
<1>1. j \in DOMAIN code[n].body
  BY DEF Parts
<1>2. IsMember(code[n], member)
  BY <1>1 DEF WellFormed
<1>3. member.args \in [1 .. 1 -> DOMAIN code[n].args]
  BY <1>2 DEF IsMember
<1>4. Operands(code, n, j) = [i \in DOMAIN member.args |-> code[n].args[member.args[i]]]
  BY DEF Operands
<1>5. DOMAIN member.args = {1}
  BY <1>3
<1>6. Operands(code, n, j) = <<code[n].args[member.args[1]]>>
  <2> HIDE DEF member
  <2>1. [i \in {1} |-> code[n].args[member.args[i]]] = <<code[n].args[member.args[1]]>>
    OBVIOUS
  <2> QED
    BY <1>4, <1>5, <2>1
<1> QED
  BY <1>2, <1>3, <1>6

(* A part writes different values of its operation.                        *)
LEMMA TargetsOfPart ==
  ASSUME NEW code, WellFormed(code), NEW n \in Ops(code), NEW j \in Parts(code, n), code[n].kind # "st"
  PROVE  /\ Targets(code, n, j) \in Seq(ValuesOf(code)) /\ Len(Targets(code, n, j)) \in {1, 2}
         /\ \A v \in Range(Targets(code, n, j)) : v \in Range(Results(code, n)) /\ v[1] = n
         /\ \A k, l \in DOMAIN Targets(code, n, j) : Targets(code, n, j)[k] = Targets(code, n, j)[l] => k = l
         /\ code[n].kind # "batch" => Targets(code, n, j) = <<<<n, 1>>>>
<1>1. CASE code[n].kind = "batch"
  <2> DEFINE rets == code[n].body[j].rets
             m == code[n].body[j].nret
             targets == [k \in DOMAIN rets |-> <<n, rets[k]>>]
  <2>1. m \in {1, 2} /\ rets \in [1 .. m -> 1 .. code[n].nret] /\ IsInjective(rets)
    BY <1>1, PartOfBatch DEF IsMember
  <2>2. Targets(code, n, j) = targets
    BY <1>1 DEF Targets
  <2>3. DOMAIN targets = 1 .. m /\ DOMAIN rets = 1 .. m
    BY <2>1
  <2>4. ASSUME NEW k \in 1 .. m
        PROVE  targets[k] \in Range(Results(code, n)) /\ targets[k][1] = n /\ targets[k][2] = rets[k]
    <3>1. rets[k] \in 1 .. code[n].nret /\ targets[k] = <<n, rets[k]>>
      BY <2>1, <2>3
    <3>2. Results(code, n)[rets[k]] = <<n, rets[k]>> /\ rets[k] \in DOMAIN Results(code, n)
      BY <3>1 DEF Results
    <3>3. <<n, rets[k]>> \in Range(Results(code, n))
      BY <3>2 DEF Range
    <3> HIDE DEF targets, rets
    <3> QED
      BY <3>1, <3>3
  <2>5. \A k, l \in 1 .. m : targets[k] = targets[l] => k = l
    <3>1. \A k, l \in 1 .. m : rets[k] = rets[l] => k = l
      BY <2>1, <2>3 DEF IsInjective
    <3> QED
      BY <3>1, <2>4
  <2>6. \A k \in 1 .. m : targets[k] \in ValuesOf(code)
    BY <2>4, ResultsAreValues
  <2>7. targets \in [1 .. m -> ValuesOf(code)]
    BY <2>3, <2>6
  <2> HIDE DEF targets
  <2>8. targets \in Seq(ValuesOf(code)) /\ Len(targets) = m
    <3>1. m \in Nat
      BY <2>1
    <3> HIDE DEF m
    <3> QED
      BY <2>7, <3>1
  <2> QED
    BY <1>1, <2>1, <2>2, <2>3, <2>4, <2>5, <2>8 DEF Range
<1>2. CASE code[n].kind # "batch"
  <2>1. code[n].nret = 1
    BY <1>2 DEF WellFormed
  <2>2. Targets(code, n, j) = [k \in 1 .. 1 |-> <<n, k>>]
    BY <1>2, <2>1 DEF Targets, Results
  <2>3. Targets(code, n, j) = <<<<n, 1>>>>
    BY <2>2
  <2>4. <<n, 1>> \in Range(Results(code, n))
    BY <2>1 DEF Range, Results
  <2>5. <<n, 1>> \in ValuesOf(code)
    BY <2>4, ResultsAreValues
  <2> QED
    BY <2>3, <2>4, <2>5 DEF Range
<1> QED
  BY <1>1, <1>2

-----------------------------------------------------------------------------
(* The slots of ciphertext blocks.                                         *)

(* What Block makes of the number of an operation.                         *)
LEMMA Digits ==
  ASSUME NEW s \in Nat, s < 65536
  PROVE  /\ s \div 512 \in Nat /\ s \div 512 < 128
         /\ (s \div 2) % 256 \in Nat /\ (s \div 2) % 256 < 256
         /\ s % 2 \in Nat /\ s % 2 < 2
         /\ s = 512 * (s \div 512) + 2 * ((s \div 2) % 256) + (s % 2)
<1> DEFINE h == s \div 2
<1>1. h \in Nat /\ h < 32768 /\ s = 2 * h + (s % 2) /\ s % 2 \in Nat /\ s % 2 < 2
  BY SMT
<1>2. s \div 512 = h \div 256
  BY SMT
<1> HIDE DEF h
<1>3. h \div 256 \in Nat /\ h \div 256 < 128 /\ h % 256 \in Nat /\ h % 256 < 256
  BY <1>1, SMT
<1>4. h = 256 * (h \div 256) + (h % 256)
  BY <1>1, SMT
<1> QED
  BY <1>1, <1>2, <1>3, <1>4, SMT DEF h

(* The pieces of a slot are those of one number.                           *)
LEMMA DigitsUnique ==
  ASSUME NEW a \in Nat, NEW b \in Nat, NEW c \in Nat, NEW d \in Nat, NEW e \in Nat, NEW f \in Nat,
         b < 256, c < 2, e < 256, f < 2,
         (2 * a + c) * 256 + b = (2 * d + f) * 256 + e
  PROVE  a = d /\ b = e /\ c = f
BY SMT

(* The variable and the block of a ciphertext share a slot without loss.   *)
LEMMA SlotDigits ==
  ASSUME NEW id \in Nat, NEW b \in Nat, id < 256, b < 256
  PROVE  Variable(id, b) = id * 256 + b /\ Variable(id, b) < 65536
<1>1. (id * 256 + b) % 65536 = id * 256 + b /\ id * 256 + b < 65536
  BY SMT
<1> QED
  BY <1>1, Powers DEF Variable

(* Operations of different numbers have different slots.                   *)
LEMMA Places ==
  ASSUME NEW o \in Ops(input), NEW p \in Ops(input), 
         input[o].src \in Nat, input[o].src < 65536, input[p].src \in Nat, input[p].src < 65536
  PROVE  /\ SlotOf(o) \in Nat /\ SlotOf(o) < 65536
         /\ SlotOf(o) = SlotOf(p) => input[o].src = input[p].src
<1> DEFINE s == input[o].src
           t == input[p].src
<1>1. s \in Nat /\ s < 65536 /\ t \in Nat /\ t < 65536
  OBVIOUS
<1>2. 2 ^ 9 = 512
  BY SMT
<1>3. Block(o) = <<2 * (s \div 512) + (s % 2), (s \div 2) % 256>>
  BY <1>2, Powers DEF Block
<1>4. Block(p) = <<2 * (t \div 512) + (t % 2), (t \div 2) % 256>>
  BY <1>2, Powers DEF Block
<1> HIDE DEF s, t
<1>5. SlotOf(o) = Variable(2 * (s \div 512) + (s % 2), (s \div 2) % 256)
  BY <1>3 DEF SlotOf
<1>6. SlotOf(p) = Variable(2 * (t \div 512) + (t % 2), (t \div 2) % 256)
  BY <1>4 DEF SlotOf
<1> DEFINE a == s \div 512
           b == (s \div 2) % 256
           c == s % 2
           d == t \div 512
           e == (t \div 2) % 256
           f == t % 2
<1>7. /\ a \in Nat /\ b \in Nat /\ c \in Nat /\ a < 128 /\ b < 256 /\ c < 2 /\ s = 512 * a + 2 * b + c
      /\ d \in Nat /\ e \in Nat /\ f \in Nat /\ d < 128 /\ e < 256 /\ f < 2 /\ t = 512 * d + 2 * e + f
  BY <1>1, Digits
<1>8. SlotOf(o) = Variable(2 * a + c, b) /\ SlotOf(p) = Variable(2 * d + f, e)
  BY <1>5, <1>6
<1> HIDE DEF a, b, c, d, e, f
<1>9. SlotOf(o) = (2 * a + c) * 256 + b /\ SlotOf(o) < 65536 /\ SlotOf(p) = (2 * d + f) * 256 + e
  <2> DEFINE x == 2 * a + c
             y == 2 * d + f
  <2>1. x \in Nat /\ x < 256 /\ y \in Nat /\ y < 256
    BY <1>7
  <2> HIDE DEF x, y
  <2>2. Variable(x, b) = x * 256 + b /\ Variable(x, b) < 65536 /\ Variable(y, e) = y * 256 + e
    BY <1>7, <2>1, SlotDigits
  <2> QED
    BY <1>8, <2>2 DEF x, y
<1>10. SlotOf(o) \in Nat
  BY <1>7, <1>9
<1>11. SlotOf(o) = SlotOf(p) => a = d /\ b = e /\ c = f
  BY <1>7, <1>9, DigitsUnique
<1>12. SlotOf(o) = SlotOf(p) => s = t
  BY <1>7, <1>11
<1> QED
  BY <1>9, <1>10, <1>12 DEF s, t

(* Loads, and stores, are of different places.                             *)
LEMMA PlacesDiffer ==
  ASSUME WellFormed(input), NEW o \in Ops(input), NEW p \in Ops(input),
         input[o].kind = input[p].kind, input[o].kind \in {"ld", "st"}
  PROVE  /\ SlotOf(o) \in Nat /\ SlotOf(o) < 65536
         /\ SlotOf(o) = SlotOf(p) => o = p
<1>2. input[o].src \in Nat /\ input[o].src < 65536 /\ input[p].src \in Nat /\ input[p].src < 65536
  <2>1. input[o].src \in Nat /\ input[o].src < 2 ^ 16 /\ input[p].src \in Nat /\ input[p].src < 2 ^ 16
    BY DEF WellFormed
  <2> QED
    BY <2>1, Powers
<1>3. input[o].src = input[p].src => o = p
  BY DEF WellFormed
<1> QED
  BY <1>2, <1>3, Places

(* A load reads the block that it stands for.                              *)
LEMMA SourceOfLoad ==
  ASSUME WellFormed(input), NEW o \in Ops(input), input[o].kind = "ld"
  PROVE  SourceBlock(CtSrcVar(Block(o)[1], Block(o)[2])) = <<o, 1>>
<1> DEFINE place == CtSrcVar(Block(o)[1], Block(o)[2])
<1>1. \A p \in Ops(input) : CtSrcVar(Block(p)[1], Block(p)[2]) = [mode |-> MEM_SRC, slot |-> SlotOf(p)]
  BY DEF CtSrcVar, SlotOf
<1>2. ASSUME NEW p \in Ops(input), input[p].kind = "ld", CtSrcVar(Block(p)[1], Block(p)[2]) = place
      PROVE  p = o
  <2>1. SlotOf(p) = SlotOf(o)
    <3>1. [mode |-> MEM_SRC, slot |-> SlotOf(p)] = [mode |-> MEM_SRC, slot |-> SlotOf(o)]
      BY <1>1, <1>2
    <3> QED
      BY <3>1
  <2> QED
    BY <1>2, <2>1, PlacesDiffer
<1> HIDE DEF place
<1>3. (CHOOSE p \in Ops(input) : input[p].kind = "ld" /\ CtSrcVar(Block(p)[1], Block(p)[2]) = place) = o
  BY <1>2 DEF place
<1> QED
  BY <1>3 DEF SourceBlock, place

-----------------------------------------------------------------------------
(* Registers and sequences.                                                *)

(* A register number fits the field of a word.                             *)
LEMMA Registers ==
  ASSUME NEW r \in Reg
  PROVE  r \in Nat /\ r < 128
<1>1. NRegs \in Nat /\ NRegs <= 128
  BY NRegsAssumption, Powers
<1> QED
  BY <1>1 DEF Reg

(* An element of a sequence.                                               *)
LEMMA Element ==
  ASSUME NEW S, NEW s \in Seq(S), NEW i \in DOMAIN s
  PROVE  s[i] \in S
OBVIOUS

(* The two parts of a sequence.                                            *)
LEMMA HeadAndTail ==
  ASSUME NEW S, NEW s \in Seq(S), s # << >>
  PROVE  /\ Head(s) \in S /\ Head(s) \in Range(s) /\ Tail(s) \in Seq(S) /\ Len(Tail(s)) = Len(s) - 1
         /\ 1 \in DOMAIN s /\ s[1] = Head(s)
         /\ \A i \in DOMAIN s : i = 1 \/ (i - 1 \in DOMAIN Tail(s) /\ Tail(s)[i - 1] = s[i])
         /\ \A i \in DOMAIN Tail(s) : i + 1 \in DOMAIN s /\ Tail(s)[i] = s[i + 1]
         /\ \A x \in Range(s) : x = Head(s) \/ x \in Range(Tail(s))
         /\ Range(Tail(s)) \subseteq Range(s)
<1>1. /\ Head(s) \in S /\ Tail(s) \in Seq(S) /\ Len(Tail(s)) = Len(s) - 1
      /\ 1 \in DOMAIN s /\ s[1] = Head(s)
  OBVIOUS
<1>2. \A i \in DOMAIN s : i = 1 \/ (i - 1 \in DOMAIN Tail(s) /\ Tail(s)[i - 1] = s[i])
  OBVIOUS
<1>3. \A i \in DOMAIN Tail(s) : i + 1 \in DOMAIN s /\ Tail(s)[i] = s[i + 1]
  OBVIOUS
<1>4. \A x \in Range(s) : x = Head(s) \/ x \in Range(Tail(s))
  BY <1>1, <1>2 DEF Range
<1>5. Range(Tail(s)) \subseteq Range(s)
  BY <1>3 DEF Range
<1> QED
  BY <1>1, <1>2, <1>3, <1>4, <1>5 DEF Range

(* A sequence and one more element.                                        *)
LEMMA Appending ==
  ASSUME NEW S, NEW s \in Seq(S), NEW x \in S
  PROVE  /\ Append(s, x) \in Seq(S) /\ Len(Append(s, x)) = Len(s) + 1
         /\ \A i \in DOMAIN s : i \in DOMAIN Append(s, x) /\ Append(s, x)[i] = s[i]
         /\ Len(s) + 1 \in DOMAIN Append(s, x) /\ Append(s, x)[Len(s) + 1] = x
         /\ \A i \in DOMAIN Append(s, x) : i \in DOMAIN s \/ i = Len(s) + 1
OBVIOUS

(* Where an element of a sequence is.                                      *)
LEMMA PositionOf ==
  ASSUME NEW s, NEW x \in Range(s)
  PROVE  Position(s, x) \in DOMAIN s /\ s[Position(s, x)] = x
<1>1. \E n \in DOMAIN s : s[n] = x
  BY DEF Range
<1> QED
  BY <1>1 DEF Position

-----------------------------------------------------------------------------
(* The actions, one by one.                                                *)

(* A value the current operation does not define is held by the register   *)
(* it is mapped to.                                                        *)
LEMMA Held ==
  ASSUME RegInv, NEW v \in ValuesOf(input), map[v].st = "Registered", v[1] < point
  PROVE  map[v].at \in Reg /\ Holding(map[v].at, v)
<1> DEFINE r == map[v].at
<1>1. r \in Reg /\ regs[r].st # "Empty" /\ (Holding(r, v) \/ regs[r].val = v)
  BY DEF RegInv, MapsAgree
<1>2. v[1] \in Nat /\ point \in Nat
  BY Values DEF RegInv, RegType
<1>3. regs[r].val = v => regs[r].st \notin {"Fresh", "Transitioning"}
  BY <1>1, <1>2 DEF RegInv, Ages
<1>4. regs[r].st \in {"Storing", "Unspilled", "Fresh", "Retiring", "Transitioning"}
  BY <1>1 DEF RegInv, RegType
<1> QED
  BY <1>1, <1>3, <1>4 DEF Holding

-----------------------------------------------------------------------------

(* Picking a victim for a source keeps the invariant.                      *)
LEMMA EvictForSourceKeeps ==
  ASSUME RegInv, NEW r \in Reg, EvictForSource(r)
  PROVE  RegInv'
<1> USE DEF EvictForSource, machine
<1>1. RegType'
  <2>1. <<r>> \in Seq(Reg)
    OBVIOUS
  <2> QED
    BY <2>1 DEF RegInv, RegType, Parts, Ops
<1>2. Unstarted'
  BY DEF RegInv, Unstarted
<1>3. MapsAgree' /\ Ages'
  BY DEF RegInv, MapsAgree, Ages, Holding, RetiresAt, Uses, Ops
<1>4. Stages' /\ ResultsPlaced'
  BY DEF RegInv, Stages, ResultsPlaced
<1>5. SpillsRight' /\ UnspillsRight'
  BY DEF RegInv, SpillsRight, UnspillsRight, Holding
<1>6. FileRight'
  BY DEF RegInv, FileRight, Holding
<1>7. DeliveredRight'
  BY DEF RegInv, DeliveredRight, Stored, SlotOf, Block
<1> QED
  BY <1>1, <1>2, <1>3, <1>4, <1>5, <1>6, <1>7 DEF RegInv

(* Picking the victims for a result keeps the invariant.                   *)
LEMMA EvictForResultsKeeps ==
  ASSUME RegInv, NEW b \in Reg, EvictForResults(b)
  PROVE  RegInv'
<1> USE DEF EvictForResults, machine
<1>1. RegType'
  <2> DEFINE S == {r \in RangeAt(b) : regs[r].st # "Empty"}
  <2>1. S \subseteq Reg
    BY DEF MayClear, IsRange
  <2>2. Reg \subseteq Nat /\ IsFiniteSet(Reg)
    <3>1. NRegs \in Nat
      BY NRegsAssumption
    <3> QED
      BY <3>1, FS_Interval DEF Reg
  <2>3. IsFiniteSet(S)
    BY <2>1, <2>2, FS_Subset
  <2> HIDE DEF S
  <2>4. Ascending(S) \in Seq(S)
    BY <2>1, <2>2, <2>3, AscendingList
  <2>5. Ascending(S) \in Seq(Reg)
    BY <2>1, <2>4
  <2>6. victims' = Ascending(S)
    BY DEF S
  <2> QED
    BY <2>5, <2>6 DEF RegInv, RegType, Parts, Ops
<1>2. Unstarted'
  BY DEF RegInv, Unstarted
<1>3. MapsAgree' /\ Ages'
  BY DEF RegInv, MapsAgree, Ages, Holding, RetiresAt, Uses, Ops
<1>4. Stages' /\ ResultsPlaced'
  <2>1. Stages'
    BY DEF RegInv, Stages, IsBatch, Operation
  <2>2. ResultsPlaced'
    BY DEF RegInv, ResultsPlaced, Placed, Base, Operation
  <2> QED
    BY <2>1, <2>2
<1>5. SpillsRight' /\ UnspillsRight'
  BY DEF RegInv, SpillsRight, UnspillsRight, Holding
<1>6. FileRight'
  BY DEF RegInv, FileRight, Holding
<1>7. DeliveredRight'
  BY DEF RegInv, DeliveredRight, Stored, SlotOf, Block
<1> QED
  BY <1>1, <1>2, <1>3, <1>4, <1>5, <1>6, <1>7 DEF RegInv

(* An eviction keeps the invariant: the value goes to its slot of the      *)
(* heap, which the pending spill fills.                                    *)
LEMMA EvictKeeps ==
  ASSUME RegInv, Evict
  PROVE  RegInv'
<1> DEFINE r == Head(victims)
           v == regs[r].val
           slot == IF v \in Range(heap) THEN Position(heap, v) ELSE Len(heap) + 1
<1> USE DEF machine
<1>1. /\ victims # << >> /\ phase \in {"sources", "results"} /\ todo # << >>
      /\ victims \in Seq(Reg) /\ heap \in Seq(ValuesOf(input)) /\ spills \in Seq([from : Reg, to : Nat])
      /\ unspills \in Seq([from : Nat, to : Reg])
  BY DEF Evict, RegInv, RegType
<1>2. r \in Reg /\ regs[r].st = "Storing" /\ v \in ValuesOf(input) /\ map[v] = Registered(r)
      /\ regs[r].val = v
  <2>1. r \in Reg
    BY <1>1, HeadAndTail
  <2>2. regs[r].st = "Storing"
    BY DEF Evict
  <2> QED
    BY <2>1, <2>2 DEF RegInv, MapsAgree
<1>3. /\ slot <= HeapSlots
      /\ regs' = [regs EXCEPT ![r] = EmptyReg]
      /\ map' = [map EXCEPT ![v] = Spilled(slot)]
      /\ heap' = IF v \in Range(heap) THEN heap ELSE Append(heap, v)
      /\ spills' = Append(spills, [from |-> r, to |-> slot])
      /\ victims' = Tail(victims)
      /\ UNCHANGED <<input, point, phase, todo, unspills, file, cells, delivered>>
  BY DEF Evict
<1>4. /\ heap' \in Seq(ValuesOf(input)) /\ Len(heap') <= HeapSlots
      /\ \A i \in DOMAIN heap : i \in DOMAIN heap' /\ heap'[i] = heap[i]
      /\ \A i \in DOMAIN heap' : i \in DOMAIN heap \/ i = slot
      /\ slot \in Nat /\ slot \in DOMAIN heap' /\ heap'[slot] = v
  <2>1. CASE v \in Range(heap)
    <3>1. heap' = heap /\ slot = Position(heap, v)
      BY <1>3, <2>1
    <3>2. slot \in DOMAIN heap /\ heap[slot] = v
      BY <2>1, <3>1, PositionOf
    <3> HIDE DEF slot
    <3>3. slot \in Nat
      BY <1>1, <3>2
    <3>4. Len(heap) <= HeapSlots
      BY DEF RegInv, RegType
    <3> QED
      BY <1>1, <3>1, <3>2, <3>3, <3>4
  <2>2. CASE v \notin Range(heap)
    <3>1. heap' = Append(heap, v) /\ slot = Len(heap) + 1 /\ slot <= HeapSlots
      BY <1>3, <2>2
    <3> HIDE DEF slot, v
    <3>2. /\ Append(heap, v) \in Seq(ValuesOf(input)) /\ Len(Append(heap, v)) = Len(heap) + 1
          /\ \A i \in DOMAIN heap : i \in DOMAIN Append(heap, v) /\ Append(heap, v)[i] = heap[i]
          /\ Len(heap) + 1 \in DOMAIN Append(heap, v) /\ Append(heap, v)[Len(heap) + 1] = v
          /\ \A i \in DOMAIN Append(heap, v) : i \in DOMAIN heap \/ i = Len(heap) + 1
      BY <1>1, <1>2, Appending
    <3>3. Len(heap) + 1 \in Nat
      BY <1>1
    <3> QED
      BY <3>1, <3>2, <3>3
  <2> QED
    BY <2>1, <2>2
<1> HIDE DEF slot
<1>5. /\ spills' \in Seq([from : Reg, to : Nat])
      /\ \A i \in DOMAIN spills : i \in DOMAIN spills' /\ spills'[i] = spills[i]
      /\ \E i \in DOMAIN spills' : spills'[i].to = slot
      /\ \A i \in DOMAIN spills' : i \in DOMAIN spills \/ (spills'[i].from = r /\ spills'[i].to = slot)
  <2> DEFINE spill == [from |-> r, to |-> slot]
  <2>1. spill \in [from : Reg, to : Nat] /\ spill.from = r /\ spill.to = slot
    BY <1>2, <1>4
  <2>2. spills' = Append(spills, spill)
    BY <1>3
  <2> HIDE DEF spill
  <2>3. /\ Append(spills, spill) \in Seq([from : Reg, to : Nat])
        /\ \A i \in DOMAIN spills : i \in DOMAIN Append(spills, spill) /\ Append(spills, spill)[i] = spills[i]
        /\ Len(spills) + 1 \in DOMAIN Append(spills, spill) /\ Append(spills, spill)[Len(spills) + 1] = spill
        /\ \A i \in DOMAIN Append(spills, spill) : i \in DOMAIN spills \/ i = Len(spills) + 1
    BY <1>1, <2>1, Appending
  <2>4. \E i \in DOMAIN spills' : spills'[i].to = slot
    BY <2>1, <2>2, <2>3
  <2>5. \A i \in DOMAIN spills' : i \in DOMAIN spills \/ (spills'[i].from = r /\ spills'[i].to = slot)
    BY <2>1, <2>2, <2>3
  <2> QED
    BY <2>2, <2>3, <2>4, <2>5
<1> HIDE DEF r, v
<1>6. /\ \A q \in Reg : q # r => regs'[q] = regs[q]
      /\ regs'[r] = EmptyReg
      /\ \A w \in ValuesOf(input) : w # v => map'[w] = map[w]
      /\ map'[v] = Spilled(slot)
      /\ regs' \in [Reg -> [st : {"Empty", "Storing", "Unspilled", "Fresh", "Retiring", "Transitioning"},
                            val : ValuesOf(input) \cup {None}, old : ValuesOf(input) \cup {None}]]
      /\ map' \in [ValuesOf(input) -> [st : {"Unseen", "Registered", "Spilled", "Retired"}, at : Nat]]
  BY <1>2, <1>3, <1>4 DEF RegInv, RegType, EmptyReg, Spilled
<1>7. RegType'
  <2>1. Tail(victims) \in Seq(Reg)
    BY <1>1, HeadAndTail
  <2> QED
    BY <1>1, <1>3, <1>4, <1>5, <1>6, <2>1 DEF RegInv, RegType
<1>8. Unstarted'
  BY <1>1, <1>3 DEF RegInv, Unstarted
<1>9. MapsAgree'
  BY <1>2, <1>3, <1>4, <1>6 DEF RegInv, MapsAgree, Holding, EmptyReg, Spilled, Registered
<1>10. Ages'
  <2>1. /\ regs'[r].st = "Empty" /\ map'[v].st = "Spilled" /\ v[1] < point
    BY <1>2, <1>6 DEF RegInv, Ages, EmptyReg, Spilled
  <2>2. \A w, n : RetiresAt(w, n)' = RetiresAt(w, n) /\ Uses(w)' = Uses(w)
    BY <1>3 DEF RetiresAt, Uses, Ops
  <2> QED
    BY <1>3, <1>6, <2>1, <2>2 DEF RegInv, Ages
<1>11. Stages'
  BY <1>1, <1>3, <1>6 DEF RegInv, Stages, EmptyReg, IsBatch, Operation
<1>12. ResultsPlaced'
  <2>1. v[1] < point
    BY <1>2 DEF RegInv, Ages
  <2> SUFFICES ASSUME phase = "results", NEW j \in Parts(input, point), j \notin Range(todo), Operation.kind # "st"
               PROVE  Placed(j)'
    BY <1>1, <1>3 DEF ResultsPlaced, Operation
  <2>2. Placed(j)
    BY DEF RegInv, ResultsPlaced
  <2> DEFINE T == Targets(input, point, j)
  <2>3. T \in Seq(ValuesOf(input)) /\ Len(T) \in {1, 2} /\ \A w \in Range(T) : w[1] = point
    BY TargetsOfPart DEF RegInv, RegType, Operation
  <2> HIDE DEF T
  <2>4. \A k \in DOMAIN T : T[k] \in ValuesOf(input) /\ T[k] # v
    <3> TAKE k \in DOMAIN T
    <3>1. T[k] \in Range(T) /\ T[k] \in ValuesOf(input)
      BY <2>3 DEF Range
    <3>2. T[k][1] = point /\ point \in Nat
      BY <2>3, <3>1 DEF RegInv, RegType
    <3> QED
      BY <2>1, <3>1, <3>2
  <2>5. \A k \in DOMAIN T : map'[T[k]] = map[T[k]]
    BY <1>6, <2>4
  <2>6. 1 \in DOMAIN T
    BY <2>3
  <2>7. T' = T
    BY <1>3 DEF T
  <2> QED
    BY <2>2, <2>5, <2>6, <2>7 DEF Placed, Base, T
<1>13. SpillsRight'
  <2>1. file[r] = v
    <3>1. Holding(r, v)
      BY <1>2 DEF Holding
    <3>2. \A i \in DOMAIN unspills : unspills[i].to # r
      BY <1>2 DEF RegInv, UnspillsRight
    <3> QED
      BY <1>1, <1>2, <3>1, <3>2 DEF RegInv, FileRight
  <2>2. \A i \in DOMAIN spills' : spills'[i].to \in DOMAIN heap' /\ file'[spills'[i].from] = heap'[spills'[i].to]
    BY <1>3, <1>4, <1>5, <2>1 DEF RegInv, SpillsRight
  <2>3. \A s \in DOMAIN heap' :
          (\E i \in DOMAIN spills' : spills'[i].to = s) \/ (s \in DOMAIN cells' /\ cells'[s] = heap'[s])
    <3> TAKE s \in DOMAIN heap'
    <3>1. CASE s = slot
      BY <1>5, <3>1
    <3>2. CASE s # slot
      <4>1. s \in DOMAIN heap /\ heap'[s] = heap[s]
        BY <1>4, <3>2
      <4>2. (\E i \in DOMAIN spills : spills[i].to = s) \/ (s \in DOMAIN cells /\ cells[s] = heap[s])
        BY <4>1 DEF RegInv, SpillsRight
      <4> QED
        BY <1>3, <1>5, <4>1, <4>2
    <3> QED
      BY <3>1, <3>2
  <2> QED
    BY <2>2, <2>3 DEF SpillsRight
<1>14. UnspillsRight'
  <2>1. ASSUME NEW i \in DOMAIN unspills
        PROVE  /\ unspills[i].from \in DOMAIN heap /\ Holding(unspills[i].to, heap[unspills[i].from])
               /\ regs[unspills[i].to].st # "Storing" /\ unspills[i].to \in Reg /\ unspills[i].to # r
    <3>1. unspills[i] \in [from : Nat, to : Reg]
      BY <1>1, Element
    <3> QED
      BY <1>2, <3>1 DEF RegInv, UnspillsRight
  <2> QED
    BY <1>3, <1>4, <1>6, <2>1 DEF UnspillsRight, Holding
<1>15. FileRight'
  <2>1. \A q \in Reg, w \in ValuesOf(input) : Holding(q, w)' => q # r /\ Holding(q, w) /\ regs'[q] = regs[q]
    BY <1>6 DEF Holding, EmptyReg
  <2> QED
    BY <1>1, <1>3, <2>1 DEF RegInv, FileRight
<1>16. DeliveredRight'
  BY <1>1, <1>3 DEF RegInv, DeliveredRight, Stored, SlotOf, Block
<1> QED
  BY <1>7, <1>8, <1>9, <1>10, <1>11, <1>12, <1>13, <1>14, <1>15, <1>16 DEF RegInv

(* An unspill keeps the invariant: the value goes to an empty register,    *)
(* which the pending unspill fills.                                        *)
LEMMA UnspillSourceKeeps ==
  ASSUME RegInv, NEW r \in Reg, UnspillSource(r)
  PROVE  RegInv'
<1> DEFINE v == Head(todo)
           slot == map[v].at
<1> USE DEF machine
<1>1. /\ phase = "sources" /\ todo # << >> /\ victims = << >> /\ point \in Nat /\ point \in Ops(input)
      /\ todo \in Seq(ValuesOf(input)) /\ heap \in Seq(ValuesOf(input))
      /\ unspills \in Seq([from : Nat, to : Reg])
  BY DEF UnspillSource, RegInv, RegType
<1>2. /\ regs[r].st = "Empty" /\ v \in ValuesOf(input) /\ map[v].st = "Spilled"
      /\ slot \in DOMAIN heap /\ heap[slot] = v /\ v[1] < point /\ slot \in Nat
  <2>1. v \in ValuesOf(input)
    BY <1>1, HeadAndTail
  <2>2. regs[r].st = "Empty" /\ map[v].st = "Spilled"
    BY DEF UnspillSource
  <2>3. slot \in DOMAIN heap /\ heap[slot] = v /\ v[1] < point
    BY <2>1, <2>2 DEF RegInv, MapsAgree, Ages
  <2>4. slot \in Nat
    BY <1>1, <2>3
  <2> QED
    BY <2>1, <2>2, <2>3, <2>4
<1>3. /\ regs' = [regs EXCEPT ![r] = Holds("Unspilled", v)]
      /\ map' = [map EXCEPT ![v] = Registered(r)]
      /\ unspills' = Append(unspills, [from |-> slot, to |-> r])
      /\ todo' = Tail(todo)
      /\ UNCHANGED <<input, point, phase, victims, heap, spills, file, cells, delivered>>
  BY DEF UnspillSource
<1> HIDE DEF slot
<1>4. /\ unspills' \in Seq([from : Nat, to : Reg])
      /\ \A i \in DOMAIN unspills : i \in DOMAIN unspills' /\ unspills'[i] = unspills[i]
      /\ \E i \in DOMAIN unspills' : unspills'[i].to = r
      /\ \A i \in DOMAIN unspills' : i \in DOMAIN unspills \/ (unspills'[i].from = slot /\ unspills'[i].to = r)
  <2> DEFINE unspill == [from |-> slot, to |-> r]
  <2>1. unspill \in [from : Nat, to : Reg] /\ unspill.to = r /\ unspill.from = slot
    BY <1>2
  <2>2. unspills' = Append(unspills, unspill)
    BY <1>3
  <2> HIDE DEF unspill
  <2>3. /\ Append(unspills, unspill) \in Seq([from : Nat, to : Reg])
        /\ \A i \in DOMAIN unspills : i \in DOMAIN Append(unspills, unspill) /\ Append(unspills, unspill)[i] = unspills[i]
        /\ Len(unspills) + 1 \in DOMAIN Append(unspills, unspill)
        /\ Append(unspills, unspill)[Len(unspills) + 1] = unspill
        /\ \A i \in DOMAIN Append(unspills, unspill) : i \in DOMAIN unspills \/ i = Len(unspills) + 1
    BY <1>1, <2>1, Appending
  <2>4. \E i \in DOMAIN unspills' : unspills'[i].to = r
    BY <2>1, <2>2, <2>3
  <2>5. \A i \in DOMAIN unspills' : i \in DOMAIN unspills \/ (unspills'[i].from = slot /\ unspills'[i].to = r)
    BY <2>1, <2>2, <2>3
  <2> QED
    BY <2>2, <2>3, <2>4, <2>5
<1> HIDE DEF v
<1>5. /\ \A q \in Reg : q # r => regs'[q] = regs[q]
      /\ regs'[r] = Holds("Unspilled", v)
      /\ \A w \in ValuesOf(input) : w # v => map'[w] = map[w]
      /\ map'[v] = Registered(r)
      /\ regs' \in [Reg -> [st : {"Empty", "Storing", "Unspilled", "Fresh", "Retiring", "Transitioning"},
                            val : ValuesOf(input) \cup {None}, old : ValuesOf(input) \cup {None}]]
      /\ map' \in [ValuesOf(input) -> [st : {"Unseen", "Registered", "Spilled", "Retired"}, at : Nat]]
  BY <1>2, <1>3, Registers DEF RegInv, RegType, Holds, Registered
<1>6. RegType'
  <2>1. Tail(todo) \in Seq(ValuesOf(input))
    BY <1>1, HeadAndTail
  <2> QED
    BY <1>1, <1>3, <1>4, <1>5, <2>1 DEF RegInv, RegType
<1>7. Unstarted'
  BY <1>1, <1>3 DEF RegInv, Unstarted
<1>8. MapsAgree'
  BY <1>2, <1>3, <1>5 DEF RegInv, MapsAgree, Holding, Holds, Registered
<1>9. Ages'
  <2>1. /\ regs'[r].st = "Unspilled" /\ regs'[r].val = v /\ map'[v].st = "Registered"
    BY <1>5 DEF Holds, Registered
  <2>2. \A w, n : RetiresAt(w, n)' = RetiresAt(w, n) /\ Uses(w)' = Uses(w)
    BY <1>3 DEF RetiresAt, Uses, Ops
  <2> QED
    BY <1>2, <1>3, <1>5, <2>1, <2>2 DEF RegInv, Ages
<1>10. Stages' /\ ResultsPlaced'
  BY <1>1, <1>3, <1>5 DEF RegInv, Stages, ResultsPlaced, Holds
<1>11. SpillsRight'
  BY <1>3 DEF RegInv, SpillsRight
<1>12. UnspillsRight'
  <2>1. ASSUME NEW i \in DOMAIN unspills
        PROVE  /\ unspills[i].from \in DOMAIN heap /\ Holding(unspills[i].to, heap[unspills[i].from])
               /\ regs[unspills[i].to].st # "Storing" /\ unspills[i].to \in Reg /\ unspills[i].to # r
    <3>1. unspills[i] \in [from : Nat, to : Reg]
      BY <1>1, Element
    <3>2. /\ unspills[i].from \in DOMAIN heap /\ Holding(unspills[i].to, heap[unspills[i].from])
          /\ regs[unspills[i].to].st # "Storing"
      BY DEF RegInv, UnspillsRight
    <3> QED
      BY <1>2, <3>1, <3>2 DEF Holding
  <2>2. regs'[r].st = "Unspilled" /\ regs'[r].val = v
    BY <1>5 DEF Holds
  <2>3. ASSUME NEW i \in DOMAIN unspills'
        PROVE  /\ unspills'[i].from \in DOMAIN heap /\ regs'[unspills'[i].to].st # "Storing"
               /\ \A q, w : q = unspills'[i].to /\ w = heap[unspills'[i].from] => Holding(q, w)'
    <3>1. CASE i \in DOMAIN unspills
      <4>1. unspills'[i] = unspills[i]
        BY <1>4, <3>1
      <4>2. regs'[unspills[i].to] = regs[unspills[i].to]
        BY <1>5, <2>1, <3>1
      <4> QED
        BY <2>1, <3>1, <4>1, <4>2 DEF Holding
    <3>2. CASE i \notin DOMAIN unspills
      <4>1. unspills'[i].from = slot /\ unspills'[i].to = r
        BY <1>4, <3>2
      <4> QED
        BY <1>2, <2>2, <4>1 DEF Holding
    <3> QED
      BY <3>1, <3>2
  <2> QED
    BY <1>3, <2>3 DEF UnspillsRight, Holding
<1>13. FileRight'
  <2>1. \A q \in Reg, w \in ValuesOf(input) : Holding(q, w)' => q = r \/ (Holding(q, w) /\ regs'[q] = regs[q])
    BY <1>5 DEF Holding
  <2> QED
    BY <1>1, <1>3, <1>4, <2>1 DEF RegInv, FileRight
<1>14. DeliveredRight'
  BY <1>1, <1>3 DEF RegInv, DeliveredRight, Stored, SlotOf, Block
<1> QED
  BY <1>6, <1>7, <1>8, <1>9, <1>10, <1>11, <1>12, <1>13, <1>14 DEF RegInv

-----------------------------------------------------------------------------

(* Retiring what is read for the last time keeps the invariant.            *)
LEMMA RetireRegistersKeeps ==
  ASSUME RegInv, RetireRegisters
  PROVE  RegInv'
<1> USE DEF machine
<1>1. /\ phase = "sources" /\ todo = << >> /\ point \in Nat /\ point \in Ops(input) /\ victims = << >>
      /\ WellFormed(input)
  BY DEF RetireRegisters, RegInv, RegType
<1>2. /\ \A v \in Retiring : map[v].st = "Registered" /\ regs[map[v].at].st \in {"Storing", "Unspilled"}
      /\ regs' = [r \in Reg |->
           IF \E v \in Retiring : map[v].at = r THEN Holds("Retiring", regs[r].val) ELSE regs[r]]
      /\ phase' = "results"
      /\ todo' = IF Operation.kind = "st" THEN << >> ELSE Ascending(Parts(input, point))
      /\ UNCHANGED <<input, point, victims, map, heap, spills, unspills, file, cells, delivered>>
  BY DEF RetireRegisters
<1>3. ASSUME NEW r \in Reg
      PROVE  \/ regs'[r] = regs[r]
             \/ /\ regs'[r] = Holds("Retiring", regs[r].val) /\ RetiresAt(regs[r].val, point)
                /\ regs[r].st \in {"Storing", "Unspilled"}
  <2>1. CASE \E v \in Retiring : map[v].at = r
    <3>1. PICK v \in Retiring : map[v].at = r
      BY <2>1
    <3>2. v \in ValuesOf(input) /\ RetiresAt(v, point)
      BY <3>1 DEF Retiring
    <3>3. map[v].st = "Registered" /\ regs[r].st \in {"Storing", "Unspilled"}
      BY <1>2, <3>1
    <3>4. regs[r].val = v
      BY <3>1, <3>2, <3>3 DEF RegInv, MapsAgree, Holding
    <3> QED
      BY <1>2, <2>1, <3>2, <3>3, <3>4
  <2>2. CASE ~ \E v \in Retiring : map[v].at = r
    BY <1>2, <2>2
  <2> QED
    BY <2>1, <2>2
<1>4. /\ \A r \in Reg : regs'[r].val = regs[r].val
      /\ \A r \in Reg : regs'[r] = regs[r] \/ (regs'[r].st = "Retiring" /\ RetiresAt(regs[r].val, point)
                                               /\ regs[r].st \in {"Storing", "Unspilled"})
      /\ \A r \in Reg : regs[r].st \in {"Empty", "Storing", "Unspilled"}
      /\ \A r \in Reg : regs'[r].st \in {"Empty", "Storing", "Unspilled", "Retiring"}
      /\ \A r \in Reg : \A v : Holding(r, v)' <=> Holding(r, v)
  <2>1. \A r \in Reg : regs[r].st \in {"Empty", "Storing", "Unspilled"}
    BY <1>1 DEF RegInv, Stages
  <2>0. \A r \in Reg : LET reg == Holds("Retiring", regs[r].val) IN reg.st = "Retiring" /\ reg.val = regs[r].val
    BY DEF Holds
  <2>2. \A r \in Reg : regs'[r].val = regs[r].val
    BY <1>3, <2>0
  <2>3. \A r \in Reg : regs'[r] = regs[r] \/ (regs'[r].st = "Retiring" /\ RetiresAt(regs[r].val, point)
                                             /\ regs[r].st \in {"Storing", "Unspilled"})
    BY <1>3, <2>0
  <2>4. \A r \in Reg : regs'[r].st \in {"Empty", "Storing", "Unspilled", "Retiring"}
    BY <2>1, <2>3
  <2>5. \A r \in Reg : \A v : Holding(r, v)' <=> Holding(r, v)
    <3> TAKE r \in Reg
    <3> TAKE v
    <3>1. regs'[r].val = regs[r].val
      BY <2>2
    <3>2. regs[r].st = "Empty" <=> regs'[r].st = "Empty"
      BY <2>1, <2>3
    <3>3. regs[r].st \in {"Empty", "Storing", "Unspilled"} /\ regs'[r].st \in {"Empty", "Storing", "Unspilled", "Retiring"}
      BY <2>1, <2>4
    <3> QED
      BY <3>1, <3>2, <3>3 DEF Holding
  <2> QED
    BY <2>1, <2>2, <2>3, <2>4, <2>5
<1>5. /\ todo' \in Seq(Parts(input, point))
      /\ Operation.kind # "st" => Range(todo') = Parts(input, point)
  <2>1. (\A j \in Parts(input, point) : j \in Nat) /\ IsFiniteSet(Parts(input, point))
    BY <1>1, PartsOfOne
  <2>2. Ascending(Parts(input, point)) \in Seq(Parts(input, point))
        /\ Range(Ascending(Parts(input, point))) = Parts(input, point)
    BY <2>1, AscendingList
  <2>3. << >> \in Seq(Parts(input, point))
    OBVIOUS
  <2> QED
    BY <1>2, <2>2, <2>3
<1>6. RegType'
  <2>1. regs' \in [Reg -> [st : {"Empty", "Storing", "Unspilled", "Fresh", "Retiring", "Transitioning"},
                           val : ValuesOf(input) \cup {None}, old : ValuesOf(input) \cup {None}]]
    BY <1>2 DEF RegInv, RegType, Holds
  <2> QED
    BY <1>1, <1>2, <1>5, <2>1 DEF RegInv, RegType
<1>7. Unstarted'
  BY <1>1, <1>2 DEF RegInv, Unstarted, WellFormed, Ops
<1>8. MapsAgree'
  <2>1. \A r \in Reg : regs'[r].st = "Empty" <=> regs[r].st = "Empty"
    BY <1>4
  <2> QED
    BY <1>2, <1>4, <2>1 DEF RegInv, MapsAgree
<1>9. Ages'
  <2>1. \A w, n : RetiresAt(w, n)' = RetiresAt(w, n) /\ Uses(w)' = Uses(w)
    BY <1>2 DEF RetiresAt, Uses, Ops
  <2> QED
    BY <1>2, <1>4, <2>1 DEF RegInv, Ages
<1>10. Stages'
  BY <1>1, <1>2, <1>4 DEF Stages, Operation
<1>11. ResultsPlaced'
  BY <1>2, <1>5 DEF ResultsPlaced, Operation
<1>12. SpillsRight'
  BY <1>2 DEF RegInv, SpillsRight
<1>13. UnspillsRight'
  <2>1. ASSUME NEW i \in DOMAIN unspills
        PROVE  /\ unspills[i].from \in DOMAIN heap /\ Holding(unspills[i].to, heap[unspills[i].from])
               /\ regs[unspills[i].to].st # "Storing" /\ unspills[i].to \in Reg
    <3>1. unspills[i] \in [from : Nat, to : Reg]
      BY Element DEF RegInv, RegType
    <3> QED
      BY <3>1 DEF RegInv, UnspillsRight
  <2>2. ASSUME NEW i \in DOMAIN unspills
        PROVE  Holding(unspills[i].to, heap[unspills[i].from])' /\ regs'[unspills[i].to].st # "Storing"
    BY <1>2, <1>4, <2>1
  <2> QED
    BY <1>2, <2>1, <2>2 DEF UnspillsRight
<1>14. FileRight'
  BY <1>1, <1>2, <1>4 DEF RegInv, FileRight
<1>15. DeliveredRight'
  BY <1>1, <1>2 DEF RegInv, DeliveredRight, Stored, SlotOf, Block
<1> QED
  BY <1>6, <1>7, <1>8, <1>9, <1>10, <1>11, <1>12, <1>13, <1>14, <1>15 DEF RegInv

(* The fields of Registered.                                               *)
LEMMA RegisteredIs ==
  ASSUME NEW r
  PROVE  Registered(r).st = "Registered" /\ Registered(r).at = r
BY DEF Registered

(* Giving registers to the results of a part keeps the invariant: what     *)
(* they held is empty or read for the last time.                           *)
LEMMA AcquireKeeps ==
  ASSUME RegInv, NEW b \in Reg, Acquire(b)
  PROVE  RegInv'
<1> DEFINE T == Wanted
           j == Head(todo)
           spot(k) == b + k - 1
<1> USE DEF machine
<1>1. /\ phase = "results" /\ todo # << >> /\ point \in Nat /\ point \in Ops(input) /\ victims = << >>
      /\ WellFormed(input) /\ todo \in Seq(Parts(input, point)) /\ Operation.kind # "st"
  BY DEF Acquire, RegInv, RegType, Stages
<1>2. /\ Receivable(b)
      /\ \A k \in DOMAIN T : map[T[k]].st = "Unseen"
      /\ regs' = [r \in Reg |->
           IF r \notin RangeAt(b) THEN regs[r]
           ELSE IF regs[r].st = "Empty" THEN Holds("Fresh", T[r - b + 1])
           ELSE [st |-> "Transitioning", val |-> T[r - b + 1], old |-> regs[r].val]]
      /\ map' = [v \in DOMAIN map |->
           IF v \in Range(T) THEN Registered(b + Position(T, v) - 1) ELSE map[v]]
      /\ todo' = Tail(todo)
      /\ UNCHANGED <<input, point, phase, victims, heap, spills, unspills, file, cells, delivered>>
  BY DEF Acquire
<1>3. j \in Parts(input, point) /\ T = Targets(input, point, j)
  BY <1>1, HeadAndTail DEF Wanted
<1>4. /\ T \in Seq(ValuesOf(input)) /\ Len(T) \in {1, 2}
      /\ \A v \in Range(T) : v \in Range(Results(input, point)) /\ v[1] = point
      /\ \A k, l \in DOMAIN T : T[k] = T[l] => k = l
  BY <1>1, <1>3, TargetsOfPart DEF Operation
<1>5. /\ b % Len(T) = 0 /\ RangeAt(b) \subseteq Reg /\ RangeAt(b) = b .. b + Len(T) - 1
      /\ \A r \in RangeAt(b) : regs[r].st = "Empty" \/ (~IsBatch /\ regs[r].st = "Retiring")
  BY <1>2 DEF Receivable, IsRange, MayReceive, RangeAt
<1> HIDE DEF T, j
<1>6. /\ b \in Nat /\ DOMAIN T = 1 .. Len(T) /\ Len(T) \in Nat
      /\ \A k \in DOMAIN T : k \in Nat /\ T[k] \in ValuesOf(input) /\ T[k] \in Range(T) /\ T[k][1] = point
      /\ \A v \in Range(T) : \E k \in DOMAIN T : v = T[k]
  <2>1. \A k \in DOMAIN T : T[k] \in Range(T)
    BY DEF Range
  <2> QED
    BY <1>4, <2>1, Registers DEF Range
<1>7. /\ \A k \in DOMAIN T : spot(k) \in RangeAt(b) /\ spot(k) \in Reg /\ spot(k) - b + 1 = k
      /\ \A r \in RangeAt(b) : r - b + 1 \in DOMAIN T /\ spot(r - b + 1) = r /\ r \in Reg
  <2>1. \A k \in DOMAIN T : spot(k) \in RangeAt(b) /\ spot(k) - b + 1 = k
    BY <1>5, <1>6
  <2>2. \A r \in RangeAt(b) : r - b + 1 \in DOMAIN T /\ spot(r - b + 1) = r
    BY <1>5, <1>6
  <2> QED
    BY <1>5, <2>1, <2>2
<1>8. /\ \A r \in Reg : r \notin RangeAt(b) => regs'[r] = regs[r]
      /\ \A k \in DOMAIN T :
           LET r == spot(k)
           IN  \/ regs[r].st = "Empty" /\ regs'[r].st = "Fresh" /\ regs'[r].val = T[k] /\ regs'[r].old = None
               \/ /\ regs[r].st = "Retiring" /\ ~IsBatch
                  /\ regs'[r].st = "Transitioning" /\ regs'[r].val = T[k] /\ regs'[r].old = regs[r].val
  <2>1. \A r \in Reg : r \notin RangeAt(b) => regs'[r] = regs[r]
    BY <1>2
  <2>2. ASSUME NEW k \in DOMAIN T, NEW r \in Reg, r = spot(k)
        PROVE  \/ regs[r].st = "Empty" /\ regs'[r].st = "Fresh" /\ regs'[r].val = T[k] /\ regs'[r].old = None
               \/ /\ regs[r].st = "Retiring" /\ ~IsBatch
                  /\ regs'[r].st = "Transitioning" /\ regs'[r].val = T[k] /\ regs'[r].old = regs[r].val
    <3>1. r \in RangeAt(b) /\ r - b + 1 = k
      BY <1>7, <2>2
    <3>2. CASE regs[r].st = "Empty"
      <4>1. regs'[r] = Holds("Fresh", T[k])
        BY <1>2, <3>1, <3>2
      <4> QED
        BY <3>2, <4>1 DEF Holds
    <3>3. CASE regs[r].st # "Empty"
      <4>1. regs'[r] = [st |-> "Transitioning", val |-> T[k], old |-> regs[r].val]
        BY <1>2, <3>1, <3>3
      <4>2. regs[r].st = "Retiring" /\ ~IsBatch
        BY <1>5, <3>1, <3>3
      <4> QED
        BY <4>1, <4>2
    <3> QED
      BY <3>2, <3>3
  <2> QED
    BY <1>7, <2>1, <2>2
<1> HIDE DEF spot
<1>9. /\ \A k \in DOMAIN T : map'[T[k]] = Registered(spot(k))
      /\ \A v \in ValuesOf(input) : v \notin Range(T) => map'[v] = map[v]
      /\ map' \in [ValuesOf(input) -> [st : {"Unseen", "Registered", "Spilled", "Retired"}, at : Nat]]
  <2>0. map \in [ValuesOf(input) -> [st : {"Unseen", "Registered", "Spilled", "Retired"}, at : Nat]]
    BY DEF RegInv, RegType
  <2>1. \A k \in DOMAIN T : Position(T, T[k]) = k
    BY <1>4, <1>6, PositionOf
  <2>2. \A k \in DOMAIN T : map'[T[k]] = Registered(spot(k))
    BY <1>2, <1>6, <2>0, <2>1 DEF spot
  <2>3. \A v \in ValuesOf(input) : v \notin Range(T) => map'[v] = map[v]
    BY <1>2, <2>0
  <2>4. \A k \in DOMAIN T : map'[T[k]] \in [st : {"Unseen", "Registered", "Spilled", "Retired"}, at : Nat]
    <3> TAKE k \in DOMAIN T
    <3>1. spot(k) \in Nat
      BY <1>7, Registers
    <3>2. Registered(spot(k)) \in [st : {"Unseen", "Registered", "Spilled", "Retired"}, at : Nat]
      BY <3>1 DEF Registered
    <3> QED
      BY <2>2, <3>2
  <2>5. \A v \in ValuesOf(input) : map'[v] \in [st : {"Unseen", "Registered", "Spilled", "Retired"}, at : Nat]
    BY <1>6, <2>0, <2>3, <2>4
  <2>6. map' = [v \in ValuesOf(input) |-> map'[v]]
    BY <1>2, <2>0
  <2> QED
    BY <2>2, <2>3, <2>5, <2>6
<1>10. regs' \in [Reg -> [st : {"Empty", "Storing", "Unspilled", "Fresh", "Retiring", "Transitioning"},
                          val : ValuesOf(input) \cup {None}, old : ValuesOf(input) \cup {None}]]
  <2>1. regs \in [Reg -> [st : {"Empty", "Storing", "Unspilled", "Fresh", "Retiring", "Transitioning"},
                          val : ValuesOf(input) \cup {None}, old : ValuesOf(input) \cup {None}]]
    BY DEF RegInv, RegType
  <2> QED
    BY <1>2, <1>6, <1>7, <2>1 DEF Holds
(* Nothing that has a register is one of the results.                      *)
<1>11. \A v \in Range(T) : map[v].st = "Unseen"
  BY <1>2, <1>6
<1>12. ASSUME NEW r \in Reg
       PROVE  \/ r \notin RangeAt(b) /\ regs'[r] = regs[r]
              \/ \E k \in DOMAIN T : r = spot(k)
  BY <1>7, <1>8
<1>13. RegType'
  <2>1. Tail(todo) \in Seq(Parts(input, point))
    BY <1>1, HeadAndTail
  <2> QED
    BY <1>1, <1>2, <1>9, <1>10, <2>1 DEF RegInv, RegType
<1>14. Unstarted'
  BY <1>1, <1>2 DEF RegInv, Unstarted
<1>15. MapsAgree'
  <2>1. ASSUME NEW r \in Reg, regs'[r].st # "Empty"
        PROVE  regs'[r].val \in ValuesOf(input) /\ map'[regs'[r].val] = Registered(r)
    <3>1. CASE r \notin RangeAt(b) /\ regs'[r] = regs[r]
      <4>1. regs[r].val \in ValuesOf(input) /\ map[regs[r].val] = Registered(r)
        BY <2>1, <3>1 DEF RegInv, MapsAgree
      <4>2. regs[r].val \notin Range(T)
        BY <1>11, <4>1 DEF Registered
      <4> QED
        BY <1>9, <3>1, <4>1, <4>2
    <3>2. CASE \E k \in DOMAIN T : r = spot(k)
      <4>1. PICK k \in DOMAIN T : r = spot(k)
        BY <3>2
      <4>2. regs'[r].val = T[k]
        BY <1>8, <4>1
      <4> QED
        BY <1>6, <1>9, <4>1, <4>2
    <3> QED
      BY <1>12, <3>1, <3>2
  <2>2. ASSUME NEW r \in Reg, regs'[r].st = "Transitioning"
        PROVE  regs'[r].old \in ValuesOf(input) /\ map'[regs'[r].old] = Registered(r)
    <3>1. CASE r \notin RangeAt(b) /\ regs'[r] = regs[r]
      <4>1. regs[r].old \in ValuesOf(input) /\ map[regs[r].old] = Registered(r)
        BY <2>2, <3>1 DEF RegInv, MapsAgree
      <4>2. regs[r].old \notin Range(T)
        BY <1>11, <4>1 DEF Registered
      <4> QED
        BY <1>9, <3>1, <4>1, <4>2
    <3>2. CASE \E k \in DOMAIN T : r = spot(k)
      <4>1. PICK k \in DOMAIN T : r = spot(k)
        BY <3>2
      <4>2. regs[r].st = "Retiring" /\ regs'[r].old = regs[r].val
        BY <1>8, <2>2, <4>1
      <4>3. regs[r].val \in ValuesOf(input) /\ map[regs[r].val] = Registered(r)
        BY <4>2 DEF RegInv, MapsAgree
      <4>4. regs[r].val \notin Range(T)
        BY <1>11, <4>3 DEF Registered
      <4> QED
        BY <1>9, <4>2, <4>3, <4>4
    <3> QED
      BY <1>12, <3>1, <3>2
  <2>3. ASSUME NEW v \in ValuesOf(input), map'[v].st = "Registered"
        PROVE  /\ map'[v].at \in Reg /\ regs'[map'[v].at].st # "Empty"
               /\ \/ regs'[map'[v].at].val = v
                  \/ regs'[map'[v].at].st = "Transitioning" /\ regs'[map'[v].at].old = v
    <3>1. CASE v \in Range(T)
      <4>1. PICK k \in DOMAIN T : v = T[k]
        BY <1>6, <3>1
      <4>2. map'[v].at = spot(k)
        BY <1>9, <4>1, RegisteredIs
      <4>3. regs'[spot(k)].val = v /\ regs'[spot(k)].st # "Empty" /\ spot(k) \in Reg
        BY <1>7, <1>8, <4>1
      <4> QED
        BY <4>2, <4>3
    <3>2. CASE v \notin Range(T)
      <4>0. map'[v] = map[v]
        BY <1>9, <3>2
      <4> DEFINE r == map[v].at
      <4>1. r \in Reg /\ regs[r].st # "Empty" /\ (Holding(r, v) \/ regs[r].val = v)
        BY <2>3, <4>0 DEF RegInv, MapsAgree
      <4> HIDE DEF r
      <4>2. CASE r \notin RangeAt(b) /\ regs'[r] = regs[r]
        BY <4>0, <4>1, <4>2 DEF Holding, r
      <4>3. CASE \E k \in DOMAIN T : r = spot(k)
        <5>1. PICK k \in DOMAIN T : r = spot(k)
          BY <4>3
        <5>2. regs[r].st = "Retiring" /\ regs'[r].st = "Transitioning" /\ regs'[r].old = regs[r].val
          BY <1>8, <4>1, <5>1
        <5>3. regs[r].val = v
          BY <4>1, <5>2 DEF Holding
        <5> QED
          BY <4>0, <4>1, <5>2, <5>3 DEF r
      <4> QED
        BY <1>12, <4>1, <4>2, <4>3
    <3> QED
      BY <3>1, <3>2
  <2>4. ASSUME NEW v \in ValuesOf(input), map'[v].st = "Spilled"
        PROVE  map'[v].at \in DOMAIN heap /\ heap[map'[v].at] = v
    <3>1. v \notin Range(T)
      <4>1. v \in Range(T) => map'[v].st = "Registered"
        BY <1>6, <1>9, RegisteredIs
      <4> QED
        BY <2>4, <4>1
    <3> QED
      BY <1>9, <2>4, <3>1 DEF RegInv, MapsAgree
  <2> QED
    BY <1>2, <2>1, <2>2, <2>3, <2>4 DEF MapsAgree, Holding
<1>16. Ages'
  <2>0. \A w, n : RetiresAt(w, n)' = RetiresAt(w, n) /\ Uses(w)' = Uses(w)
    BY <1>2 DEF RetiresAt, Uses, Ops
  <2>1. ASSUME NEW r \in Reg
        PROVE  /\ regs'[r].st \in {"Storing", "Unspilled", "Retiring"} => regs'[r].val[1] < point
               /\ regs'[r].st \in {"Fresh", "Transitioning"} => regs'[r].val[1] = point
               /\ regs'[r].st = "Transitioning" => regs'[r].old[1] < point /\ RetiresAt(regs'[r].old, point)
               /\ regs'[r].st = "Retiring" => RetiresAt(regs'[r].val, point)
    <3>1. CASE r \notin RangeAt(b) /\ regs'[r] = regs[r]
      BY <3>1 DEF RegInv, Ages
    <3>2. CASE \E k \in DOMAIN T : r = spot(k)
      <4>1. PICK k \in DOMAIN T : r = spot(k)
        BY <3>2
      <4>2. regs'[r].val = T[k] /\ T[k][1] = point /\ regs'[r].st \in {"Fresh", "Transitioning"}
        BY <1>6, <1>8, <4>1
      <4>3. regs'[r].st = "Transitioning" => regs'[r].old = regs[r].val /\ regs[r].st = "Retiring"
        BY <1>8, <4>1
      <4> QED
        BY <4>2, <4>3 DEF RegInv, Ages
    <3> QED
      BY <1>12, <3>1, <3>2
  <2>2. ASSUME NEW v \in ValuesOf(input)
        PROVE  /\ map'[v].st = "Spilled" => v[1] < point
               /\ map'[v].st = "Unseen" => v[1] >= point
               /\ map'[v].st = "Retired" => \A u \in Uses(v) : u < point
    <3>1. map'[v].st = "Registered" \/ map'[v] = map[v]
      BY <1>6, <1>9, RegisteredIs
    <3> QED
      BY <3>1 DEF RegInv, Ages
  <2> QED
    BY <1>2, <2>0, <2>1, <2>2 DEF Ages
<1>17. Stages'
  <2>1. ASSUME NEW r \in Reg
        PROVE  /\ regs'[r].st = "Transitioning" => ~IsBatch
               /\ regs'[r].st \in {"Fresh", "Transitioning"} =>
                    \E i \in Parts(input, point) : regs'[r].val \in Range(Targets(input, point, i))
    <3>1. CASE r \notin RangeAt(b) /\ regs'[r] = regs[r]
      BY <1>1, <3>1 DEF RegInv, Stages
    <3>2. CASE \E k \in DOMAIN T : r = spot(k)
      <4>1. PICK k \in DOMAIN T : r = spot(k)
        BY <3>2
      <4>2. regs'[r].val \in Range(T)
        BY <1>6, <1>8, <4>1
      <4>3. regs'[r].st = "Transitioning" => ~IsBatch
        BY <1>8, <4>1
      <4> QED
        BY <1>3, <4>2, <4>3
    <3> QED
      BY <1>12, <3>1, <3>2
  <2> QED
    BY <1>1, <1>2, <2>1 DEF Stages, IsBatch, Operation
<1>18. ResultsPlaced'
  <2> SUFFICES ASSUME NEW i \in Parts(input, point), i \notin Range(Tail(todo))
               PROVE  Placed(i)'
    BY <1>1, <1>2 DEF ResultsPlaced, Operation
  <2>1. CASE i = j
    <3>1. Targets(input, point, i) = T
      BY <1>3, <2>1
    <3>2. 1 \in DOMAIN T
      BY <1>4
    <3>3. map'[T[1]].at = b
      <4>1. spot(1) = b
        BY <1>6 DEF spot
      <4> QED
        BY <1>9, <3>2, <4>1, RegisteredIs
    <3>4. \A k \in DOMAIN T : map'[T[k]] = Registered(b + k - 1)
      BY <1>9 DEF spot
    <3>5. Targets(input, point, i)' = T
      BY <1>2, <3>1
    <3>6. Base(i)' = b
      BY <3>3, <3>5 DEF Base
    <3> QED
      BY <1>5, <3>4, <3>5, <3>6 DEF Placed
  <2>2. CASE i # j
    <3>1. i \notin Range(todo)
      BY <1>1, <2>2, HeadAndTail DEF j
    <3>2. Placed(i)
      BY <1>1, <3>1 DEF RegInv, ResultsPlaced
    <3> DEFINE U == Targets(input, point, i)
    <3>3. U \in Seq(ValuesOf(input)) /\ Len(U) \in {1, 2}
      BY <1>1, TargetsOfPart DEF Operation
    <3>4. \A k \in DOMAIN U : map[U[k]] = Registered(Base(i) + k - 1)
      BY <3>2 DEF Placed
    <3> HIDE DEF U
    <3>5. \A k \in DOMAIN U : map'[U[k]] = map[U[k]]
      <4> TAKE k \in DOMAIN U
      <4>1. U[k] \in ValuesOf(input)
        BY <3>3, Element
      <4>2. U[k] \notin Range(T)
        BY <1>11, <3>4, RegisteredIs
      <4> QED
        BY <1>9, <4>1, <4>2
    <3>6. 1 \in DOMAIN U
      BY <3>3
    <3>7. Targets(input, point, i)' = U
      BY <1>2 DEF U
    <3>8. Base(i)' = Base(i)
      BY <3>5, <3>6, <3>7 DEF Base, U
    <3>9. \A k \in DOMAIN U : map[U[k]] = Registered(Base(i) + k - 1) /\ Base(i) % Len(U) = 0
      BY <3>2 DEF Placed, U
    <3> QED
      BY <3>5, <3>7, <3>8, <3>9 DEF Placed
  <2> QED
    BY <2>1, <2>2
<1>19. SpillsRight'
  BY <1>2 DEF RegInv, SpillsRight
<1>20. \A r \in Reg : \A v : Holding(r, v)' <=> Holding(r, v)
  <2> TAKE r \in Reg
  <2> TAKE v
  <2>1. CASE r \notin RangeAt(b) /\ regs'[r] = regs[r]
    BY <2>1 DEF Holding
  <2>2. CASE \E k \in DOMAIN T : r = spot(k)
    BY <1>8, <2>2 DEF Holding
  <2> QED
    BY <1>12, <2>1, <2>2
<1>21. UnspillsRight'
  <2>1. ASSUME NEW i \in DOMAIN unspills
        PROVE  /\ unspills[i].from \in DOMAIN heap /\ Holding(unspills[i].to, heap[unspills[i].from])
               /\ regs[unspills[i].to].st # "Storing" /\ unspills[i].to \in Reg
    <3>1. unspills[i] \in [from : Nat, to : Reg]
      BY Element DEF RegInv, RegType
    <3> QED
      BY <3>1 DEF RegInv, UnspillsRight
  <2>2. ASSUME NEW i \in DOMAIN unspills
        PROVE  Holding(unspills[i].to, heap[unspills[i].from])' /\ regs'[unspills[i].to].st # "Storing"
    <3>1. Holding(unspills[i].to, heap[unspills[i].from])'
      BY <1>2, <1>20, <2>1
    <3>2. regs'[unspills[i].to].st # "Storing"
      BY <1>8, <1>12, <2>1
    <3> QED
      BY <3>1, <3>2
  <2> QED
    BY <1>2, <2>1, <2>2 DEF UnspillsRight
<1>22. FileRight'
  BY <1>1, <1>2, <1>20 DEF RegInv, FileRight
<1>23. DeliveredRight'
  BY <1>1, <1>2 DEF RegInv, DeliveredRight, Stored, SlotOf, Block
<1> QED
  BY <1>13, <1>14, <1>15, <1>16, <1>17, <1>18, <1>19, <1>21, <1>22, <1>23 DEF RegInv

(* The end of the allocation of an operation keeps the invariant.          *)
LEMMA AllocatedKeeps ==
  ASSUME RegInv, Allocated
  PROVE  RegInv'
<1> USE DEF machine
<1>1. /\ phase = "results" /\ todo = << >> /\ point \in Nat /\ point \in Ops(input)
      /\ WellFormed(input) /\ input # << >>
  BY DEF Allocated, RegInv, RegType, Unstarted
<1>2. /\ \A v \in Range(Operation.args) \cup Range(Results(input, point)) : map[v].st = "Registered"
      /\ phase' = "emit"
      /\ todo' = Ascending(Parts(input, point))
      /\ UNCHANGED <<input, point, victims, regs, map, heap, spills, unspills, file, cells, delivered>>
  BY DEF Allocated
<1>3. /\ todo' \in Seq(Parts(input, point)) /\ Range(todo') = Parts(input, point)
      /\ Len(todo') = Cardinality(Parts(input, point))
  <2>1. (\A j \in Parts(input, point) : j \in Nat) /\ IsFiniteSet(Parts(input, point))
    BY <1>1, PartsOfOne
  <2> QED
    BY <1>2, <2>1, AscendingList
<1>4. ~IsBatch => Len(todo') <= 1
  <2>1. ~IsBatch => Parts(input, point) \in {{}, {1}}
    BY <1>1, PartsOfOne DEF IsBatch, Operation
  <2>2. Cardinality({}) = 0 /\ Cardinality({1}) = 1
    BY FS_EmptySet, FS_Singleton
  <2>3. ASSUME ~IsBatch PROVE Len(todo') <= 1
    <3>1. CASE Parts(input, point) = {}
      BY <1>3, <2>2, <3>1
    <3>2. CASE Parts(input, point) = {1}
      BY <1>3, <2>2, <3>2
    <3> QED
      BY <2>1, <2>3, <3>1, <3>2
  <2> QED
    BY <2>3
<1>5. RegType'
  <2>1. victims = << >>
    BY <1>1 DEF RegInv, RegType
  <2> QED
    BY <1>1, <1>2, <1>3, <2>1 DEF RegInv, RegType
<1>6. Unstarted'
  BY <1>1, <1>2 DEF Unstarted
<1>7. MapsAgree' /\ Ages'
  BY <1>2 DEF RegInv, MapsAgree, Ages, Holding, RetiresAt, Uses, Ops
<1>8. Stages'
  BY <1>1, <1>2, <1>3, <1>4 DEF RegInv, Stages, IsBatch, Operation
<1>9. ResultsPlaced'
  <2>1. \A j \in Parts(input, point) : Operation.kind # "st" => Placed(j)
    BY <1>1 DEF RegInv, ResultsPlaced, Range
  <2> QED
    BY <1>2, <2>1 DEF ResultsPlaced, Placed, Base, Operation
<1>10. SpillsRight' /\ UnspillsRight'
  BY <1>2 DEF RegInv, SpillsRight, UnspillsRight, Holding
<1>11. FileRight'
  <2>1. \A r \in Reg, v \in ValuesOf(input) : Holding(r, v) => file[r] = v \/ \E i \in DOMAIN unspills : unspills[i].to = r
    BY <1>1 DEF RegInv, FileRight
  <2> QED
    BY <1>2, <1>3, <2>1 DEF FileRight, Holding
<1>12. DeliveredRight'
  <2>1. input[point].kind = "st" => todo' # << >>
    <3>1. input[point].kind = "st" => Parts(input, point) = {1}
      BY <1>1, PartsOfOne
    <3> QED
      BY <1>3, <3>1 DEF Range
  <2>2. Stored' = Stored
    BY <1>1, <1>2, <2>1 DEF Stored, Ops
  <2> QED
    BY <1>2, <2>2 DEF RegInv, DeliveredRight, SlotOf, Block
<1> QED
  BY <1>5, <1>6, <1>7, <1>8, <1>9, <1>10, <1>11, <1>12 DEF RegInv

-----------------------------------------------------------------------------

(* A slot of the heap fits the word of a spill.                            *)
LEMMA HeapPlace ==
  ASSUME RegInv, NEW slot \in DOMAIN heap
  PROVE  slot \in Nat /\ slot < 65536 /\ CtHeap(slot) = [mode |-> 1, slot |-> slot]
<1>1. heap \in Seq(ValuesOf(input)) /\ Len(heap) <= HeapSlots
  BY DEF RegInv, RegType
<1>2. HeapSlots = 65535
  BY Powers DEF HeapSlots
<1>3. CtHeap(slot) = [mode |-> 1, slot |-> slot]
  BY DEF CtHeap, MEM_HEAP
<1> HIDE DEF HeapSlots
<1> QED
  BY <1>1, <1>2, <1>3

(* Running a spill keeps the invariant.                                    *)
LEMMA EmitSpillKeeps ==
  ASSUME RegInv, EmitSpill
  PROVE  RegInv'
<1> DEFINE spill == Head(spills)
           slot == spill.to
           word == Encode(Memory("ST", spill.from, CtHeap(slot)))
<1> USE DEF machine
<1>1. /\ phase = "emit" /\ spills # << >> /\ spills \in Seq([from : Reg, to : Nat]) /\ input # << >>
  BY DEF EmitSpill, RegInv, RegType, Unstarted
<1>2. /\ cells' = [s \in DOMAIN cells \cup {Place(word).slot} |->
                     IF s = Place(word).slot THEN file[ReadRegs(word)[1]] ELSE cells[s]]
      /\ spills' = Tail(spills)
      /\ UNCHANGED <<input, point, phase, todo, victims, regs, map, heap, unspills, file, delivered>>
  BY DEF EmitSpill, StoredBy
<1>3. /\ 1 \in DOMAIN spills /\ spills[1] = spill /\ spill \in [from : Reg, to : Nat]
      /\ Tail(spills) \in Seq([from : Reg, to : Nat])
      /\ \A i \in DOMAIN spills : i = 1 \/ (i - 1 \in DOMAIN Tail(spills) /\ Tail(spills)[i - 1] = spills[i])
      /\ \A i \in DOMAIN Tail(spills) : i + 1 \in DOMAIN spills /\ Tail(spills)[i] = spills[i + 1]
  BY <1>1, HeadAndTail
<1> HIDE DEF spill
<1>4. spill.from \in Reg /\ slot \in DOMAIN heap /\ file[spill.from] = heap[slot]
  BY <1>3 DEF RegInv, SpillsRight
<1> HIDE DEF slot
<1>5. Place(word).slot = slot /\ ReadRegs(word)[1] = spill.from
  <2>1. spill.from \in Nat /\ spill.from < 128 /\ slot \in Nat /\ slot < 65536
        /\ CtHeap(slot) = [mode |-> 1, slot |-> slot]
    BY <1>4, Registers, HeapPlace
  <2>2. ReadRegs(word) = <<spill.from>> /\ Place(word) = [mode |-> 1, slot |-> slot]
    BY <2>1, StoreWord
  <2> QED
    BY <2>2
<1> HIDE DEF word
<1>6. /\ slot \in DOMAIN cells' /\ cells'[slot] = heap[slot]
      /\ \A s \in DOMAIN cells : s # slot => s \in DOMAIN cells' /\ cells'[s] = cells[s]
  BY <1>2, <1>4, <1>5
<1>7. RegType'
  BY <1>1, <1>2, <1>3 DEF RegInv, RegType
<1>8. Unstarted'
  BY <1>1, <1>2 DEF Unstarted
<1>9. MapsAgree' /\ Ages'
  BY <1>2 DEF RegInv, MapsAgree, Ages, Holding, RetiresAt, Uses, Ops
<1>10. Stages'
  BY <1>1, <1>2 DEF RegInv, Stages, IsBatch, Operation
<1>11. ResultsPlaced'
  BY <1>2 DEF RegInv, ResultsPlaced, Placed, Base, Operation
<1>12. SpillsRight'
  <2>1. ASSUME NEW s \in DOMAIN heap
        PROVE  (\E i \in DOMAIN spills' : spills'[i].to = s) \/ (s \in DOMAIN cells' /\ cells'[s] = heap[s])
    <3>1. CASE s = slot
      BY <1>6, <3>1
    <3>2. CASE s # slot /\ \E i \in DOMAIN spills : spills[i].to = s
      <4>1. PICK i \in DOMAIN spills : spills[i].to = s
        BY <3>2
      <4>2. i # 1
        BY <1>3, <3>2, <4>1 DEF slot
      <4> QED
        BY <1>2, <1>3, <4>1, <4>2
    <3>3. CASE s # slot /\ ~ \E i \in DOMAIN spills : spills[i].to = s
      BY <1>6, <3>3 DEF RegInv, SpillsRight
    <3> QED
      BY <3>1, <3>2, <3>3
  <2>2. \A i \in DOMAIN spills' : spills'[i].to \in DOMAIN heap /\ file[spills'[i].from] = heap[spills'[i].to]
    BY <1>2, <1>3 DEF RegInv, SpillsRight
  <2> QED
    BY <1>2, <2>1, <2>2 DEF SpillsRight
<1>13. UnspillsRight'
  BY <1>2 DEF RegInv, UnspillsRight, Holding
<1>14. FileRight'
  BY <1>2 DEF RegInv, FileRight, Holding
<1>15. DeliveredRight'
  BY <1>2 DEF RegInv, DeliveredRight, Stored, SlotOf, Block
<1> QED
  BY <1>7, <1>8, <1>9, <1>10, <1>11, <1>12, <1>13, <1>14, <1>15 DEF RegInv

-----------------------------------------------------------------------------

(* Running an unspill keeps the invariant.                                 *)
LEMMA EmitUnspillKeeps ==
  ASSUME RegInv, EmitUnspill
  PROVE  RegInv'
<1> DEFINE unspill == Head(unspills)
           slot == unspill.from
           r == unspill.to
           word == Encode(Memory("LD", r, CtHeap(slot)))
<1> USE DEF machine
<1>1. /\ phase = "emit" /\ unspills # << >> /\ unspills \in Seq([from : Nat, to : Reg]) /\ input # << >>
      /\ spills = << >>
  BY DEF EmitUnspill, RegInv, RegType, Unstarted
<1>2. /\ file' = Written(word, <<cells[Place(word).slot]>>)
      /\ unspills' = Tail(unspills)
      /\ UNCHANGED <<input, point, phase, todo, victims, regs, map, heap, spills, cells, delivered>>
  BY DEF EmitUnspill
<1>3. /\ 1 \in DOMAIN unspills /\ unspills[1] = unspill /\ unspill \in [from : Nat, to : Reg]
      /\ Tail(unspills) \in Seq([from : Nat, to : Reg])
      /\ \A i \in DOMAIN unspills : i = 1 \/ (i - 1 \in DOMAIN Tail(unspills) /\ Tail(unspills)[i - 1] = unspills[i])
      /\ \A i \in DOMAIN Tail(unspills) : i + 1 \in DOMAIN unspills /\ Tail(unspills)[i] = unspills[i + 1]
  BY <1>1, HeadAndTail
<1> HIDE DEF unspill
<1>4. r \in Reg /\ slot \in DOMAIN heap /\ Holding(r, heap[slot]) /\ regs[r].st # "Storing"
  BY <1>3 DEF RegInv, UnspillsRight
<1>5. cells[slot] = heap[slot]
  BY <1>1, <1>4 DEF RegInv, SpillsRight
<1> HIDE DEF r, slot
<1>6. /\ \A q \in Reg : q # r => file'[q] = file[q]
      /\ file'[r] = heap[slot]
  <2>1. r \in Nat /\ r < 128 /\ slot \in Nat /\ slot < 65536
        /\ CtHeap(slot) = [mode |-> 1, slot |-> slot]
    BY <1>4, Registers, HeapPlace
  <2>2. WriteRegs(word) = {r} /\ WriteBase(word) = r /\ Place(word) = [mode |-> 1, slot |-> slot]
    BY <2>1, LoadWord
  <2> HIDE DEF word
  <2>3. Place(word).slot = slot
    BY <2>2
  <2>4. file' = [q \in Reg |-> IF q \in {r} THEN <<heap[slot]>>[q + 1 - r] ELSE file[q]]
    BY <1>2, <1>5, <2>2, <2>3 DEF Written
  <2>5. r + 1 - r = 1
    BY <2>1
  <2>6. file'[r] = <<heap[slot]>>[1]
    BY <1>4, <2>4, <2>5
  <2> QED
    BY <2>4, <2>6
<1> HIDE DEF word
<1>7. RegType'
  BY <1>1, <1>2, <1>3 DEF RegInv, RegType
<1>8. Unstarted'
  BY <1>1, <1>2 DEF Unstarted
<1>9. MapsAgree' /\ Ages'
  BY <1>2 DEF RegInv, MapsAgree, Ages, Holding, RetiresAt, Uses, Ops
<1>10. Stages'
  BY <1>1, <1>2 DEF RegInv, Stages, IsBatch, Operation
<1>11. ResultsPlaced'
  BY <1>2 DEF RegInv, ResultsPlaced, Placed, Base, Operation
<1>12. SpillsRight'
  BY <1>1, <1>2 DEF RegInv, SpillsRight
<1>13. UnspillsRight'
  BY <1>2, <1>3 DEF RegInv, UnspillsRight, Holding
<1>14. FileRight'
  <2>0. Range(todo) = Parts(input, point)
    BY <1>1 DEF RegInv, Stages
  <2>1. ASSUME NEW q \in Reg, NEW v \in ValuesOf(input), Holding(q, v)
        PROVE  \/ file'[q] = v \/ \E i \in DOMAIN unspills' : unspills'[i].to = q
               \/ phase = "emit" /\ todo = << >> /\ regs[q].st = "Transitioning"
    <3>1. CASE q = r
      <4>1. v = heap[slot]
        BY <1>4, <2>1, <3>1 DEF Holding
      <4> QED
        BY <1>6, <3>1, <4>1
    <3>2. CASE q # r
      <4>1. file'[q] = file[q]
        BY <1>6, <3>2
      <4>2. ASSUME NEW i \in DOMAIN unspills, unspills[i].to = q
            PROVE  \E l \in DOMAIN unspills' : unspills'[l].to = q
        <5>1. i # 1
          BY <1>3, <3>2, <4>2 DEF r
        <5> QED
          BY <1>2, <1>3, <4>2, <5>1
      <4> QED
        BY <2>1, <4>1, <4>2 DEF RegInv, FileRight
    <3> QED
      BY <3>1, <3>2
  <2>2. \A q, v : Holding(q, v)' <=> Holding(q, v)
    BY <1>2 DEF Holding
  <2> QED
    BY <1>2, <2>0, <2>1, <2>2 DEF FileRight
<1>15. DeliveredRight'
  BY <1>2 DEF RegInv, DeliveredRight, Stored, SlotOf, Block
<1> QED
  BY <1>7, <1>8, <1>9, <1>10, <1>11, <1>12, <1>13, <1>14, <1>15 DEF RegInv

(* The words of a part that is one DOp.                                    *)
LEMMA OneWord ==
  ASSUME NEW n, NEW j, NEW dop, TranslatePart(n, j) = <<dop>>
  PROVE  Head(WordsOf(n, j)) = Encode(dop) /\ Last(WordsOf(n, j)) = Encode(dop)
<1>1. WordsOf(n, j) = [i \in 1 .. 1 |-> Encode(<<dop>>[i])]
  BY DEF WordsOf
<1>2. WordsOf(n, j) = <<Encode(dop)>>
  BY <1>1
<1> QED
  BY <1>2 DEF Last

(* The words of a part that is two DOps.                                   *)
LEMMA TwoWords ==
  ASSUME NEW n, NEW j, NEW dop, NEW dop2, TranslatePart(n, j) = <<dop, dop2>>
  PROVE  Last(WordsOf(n, j)) = Encode(dop2)
<1>1. WordsOf(n, j) = [i \in 1 .. 2 |-> Encode(<<dop, dop2>>[i])]
  BY DEF WordsOf
<1>2. WordsOf(n, j) = <<Encode(dop), Encode(dop2)>>
  BY <1>1
<1> QED
  BY <1>2 DEF Last

-----------------------------------------------------------------------------
(* The words of a part.                                                    *)

(* What a part reads is in the registers of its operands.                  *)
LEMMA ArgumentAt ==
  ASSUME RegInv, AtPart, NEW v \in Range(input[point].args)
  PROVE  v \in ValuesOf(input) /\ map[v].at \in Reg /\ file[map[v].at] = v
<1>1. phase = "emit" /\ todo # << >> /\ unspills = << >> /\ point \in Ops(input) /\ WellFormed(input)
  BY DEF AtPart, RegInv, RegType
<1>2. v \in ValuesOf(input) /\ v[1] < point
  BY <1>1, Arguments
<1>3. map[v].st = "Registered"
  BY <1>1 DEF RegInv, Stages, Operation
<1>4. map[v].at \in Reg /\ Holding(map[v].at, v)
  BY <1>2, <1>3, Held
<1> QED
  BY <1>1, <1>2, <1>4 DEF RegInv, FileRight

(* What a part writes goes to consecutive registers.                       *)
LEMMA TargetsAt ==
  ASSUME RegInv, phase = "emit", NEW j \in Parts(input, point), input[point].kind # "st"
  PROVE  LET T == Targets(input, point, j)
         IN  /\ T \in Seq(ValuesOf(input)) /\ Len(T) \in {1, 2} /\ Base(j) \in Reg /\ Base(j) % Len(T) = 0
             /\ map[T[1]].at = Base(j)
             /\ \A k \in DOMAIN T : map[T[k]] = Registered(Base(j) + k - 1) /\ Base(j) + k - 1 \in Reg
                                    /\ regs[Base(j) + k - 1].val = T[k]
                                    /\ regs[Base(j) + k - 1].st \in {"Fresh", "Transitioning"}
<1> DEFINE T == Targets(input, point, j)
<1>1. point \in Ops(input) /\ WellFormed(input) /\ point \in Nat
  BY DEF RegInv, RegType
<1>2. /\ T \in Seq(ValuesOf(input)) /\ Len(T) \in {1, 2}
      /\ \A v \in Range(T) : v[1] = point
  BY <1>1, TargetsOfPart
<1>3. Placed(j)
  BY DEF RegInv, ResultsPlaced, Operation
<1>4. \A k \in DOMAIN T : map[T[k]] = Registered(Base(j) + k - 1) /\ Base(j) % Len(T) = 0
  BY <1>3 DEF Placed
<1>5. map[T[1]].at = Base(j)
  BY DEF Base
<1> HIDE DEF T
<1>6. ASSUME NEW k \in DOMAIN T
      PROVE  /\ Base(j) + k - 1 \in Reg /\ regs[Base(j) + k - 1].val = T[k]
             /\ regs[Base(j) + k - 1].st \in {"Fresh", "Transitioning"}
  <2> DEFINE r == Base(j) + k - 1
  <2>1. T[k] \in ValuesOf(input) /\ T[k][1] = point
    BY <1>2 DEF Range
  <2>2. map[T[k]] = Registered(r)
    BY <1>4
  <2> HIDE DEF r
  <2>3. map[T[k]].st = "Registered" /\ map[T[k]].at = r
    BY <2>2, RegisteredIs
  <2>4. r \in Reg /\ regs[r].st # "Empty" /\ (Holding(r, T[k]) \/ regs[r].val = T[k])
    BY <2>1, <2>3 DEF RegInv, MapsAgree
  <2>5. regs[r].st \in {"Empty", "Storing", "Unspilled", "Fresh", "Retiring", "Transitioning"}
    BY <2>4 DEF RegInv, RegType
  <2>6. ~ Holding(r, T[k])
    BY <1>1, <2>1, <2>4 DEF RegInv, Ages, Holding
  <2>7. regs[r].st \notin {"Storing", "Unspilled", "Retiring"}
    BY <1>1, <2>1, <2>4, <2>6 DEF RegInv, Ages
  <2> QED
    BY <2>4, <2>5, <2>6, <2>7 DEF r
<1>7. Base(j) \in Reg
  <2>1. 1 \in DOMAIN T /\ T[1] \in ValuesOf(input)
    BY <1>2
  <2>2. map[T[1]].st = "Registered"
    BY <1>4, <2>1, RegisteredIs
  <2>3. map[T[1]].at \in Reg
    BY <2>1, <2>2 DEF RegInv, MapsAgree
  <2> QED
    BY <1>5, <2>3
<1>8. Base(j) % Len(T) = 0
  <2>1. 1 \in DOMAIN T
    BY <1>2
  <2> QED
    BY <1>4, <2>1
<1> QED
  BY <1>2, <1>4, <1>5, <1>6, <1>7, <1>8 DEF T

-----------------------------------------------------------------------------
(* The words of a part name these registers.                               *)
LEMMA WordsOfPart ==
  ASSUME RegInv, AtPart
  PROVE  LET j == Head(todo)
             T == Targets(input, point, j)
             operands == Operands(input, point, j)
             word == Last(WordsOf(point, j))
             reads == ReadRegs(Head(WordsOf(point, j)))
         IN  /\ j \in Parts(input, point)
             /\ \A i \in DOMAIN operands : operands[i] \in Range(input[point].args) /\ reads[i] = map[operands[i]].at
             /\ input[point].kind # "st" =>
                  /\ WriteRegs(word) = Base(j) .. Base(j) + Len(T) - 1 /\ WriteBase(word) = Base(j)
                  /\ ~ Is(word, {"ST"})
                  /\ Is(word, {"LD"}) => <<SourceBlock(Place(word))>> = T
             /\ input[point].kind = "st" =>
                  /\ WriteRegs(word) = {} /\ Is(word, {"ST"}) /\ ~ Is(word, {"LD"})
                  /\ Place(word).slot = SlotOf(point)
                  /\ input[point].args[1] \in Range(input[point].args)
                  /\ ReadRegs(word) = <<map[input[point].args[1]].at>>
<1> DEFINE j == Head(todo)
           T == Targets(input, point, j)
           operands == Operands(input, point, j)
           word == Last(WordsOf(point, j))
           reads == ReadRegs(Head(WordsOf(point, j)))
           dst == map[T[1]].at
           src(i) == map[operands[i]].at
           args == input[point].args
<1>1. /\ phase = "emit" /\ todo # << >> /\ point \in Ops(input) /\ WellFormed(input)
      /\ todo \in Seq(Parts(input, point))
  BY DEF AtPart, RegInv, RegType
<1>2. j \in Parts(input, point)
  BY <1>1, HeadAndTail
<1>3. input[point].kind \in {"ld", "st", "lin", "imm", "cst", "batch"}
  BY <1>1 DEF WellFormed
<1>4. input[point].kind # "imm"
  BY <1>2 DEF Parts
<1>5. args \in Seq(ValuesOf(input)) /\ \A i \in DOMAIN args : args[i] \in Range(args)
  BY <1>1, Arguments DEF Range
<1>6. \A v \in Range(args) : map[v].at \in Reg /\ map[v].at \in Nat /\ map[v].at < 128
  BY ArgumentAt, Registers
<1>7. input[point].kind # "st" =>
        /\ Len(T) \in {1, 2} /\ dst = Base(j) /\ dst \in Reg /\ dst \in Nat /\ dst < 128 /\ dst % Len(T) = 0
        /\ input[point].kind # "batch" => T = <<<<point, 1>>>>
  <2>1. ASSUME input[point].kind # "st"
        PROVE  /\ Len(T) \in {1, 2} /\ dst = Base(j) /\ dst \in Reg /\ dst % Len(T) = 0
               /\ input[point].kind # "batch" => T = <<<<point, 1>>>>
    BY <1>1, <1>2, <2>1, TargetsAt, TargetsOfPart
  <2> QED
    BY <2>1, Registers
<1>8. input[point].kind # "batch" => operands = args /\ Len(args) = Arity(input[point].kind)
  BY <1>1 DEF Operands, WellFormed
<1>9. CASE input[point].kind = "ld"
  <2>1. TranslatePart(point, j) = <<Memory("LD", dst, CtSrcVar(Block(point)[1], Block(point)[2]))>>
    BY <1>9 DEF TranslatePart
  <2>2. SlotOf(point) \in Nat /\ SlotOf(point) < 65536
    BY <1>1, <1>9, PlacesDiffer
  <2>3. CtSrcVar(Block(point)[1], Block(point)[2]) = [mode |-> 2, slot |-> SlotOf(point)]
    BY DEF CtSrcVar, MEM_SRC, SlotOf
  <2>4. word = Encode(Memory("LD", dst, [mode |-> 2, slot |-> SlotOf(point)]))
    BY <2>1, <2>3, OneWord
  <2>5. SourceBlock([mode |-> 2, slot |-> SlotOf(point)]) = <<point, 1>>
    BY <1>1, <1>9, <2>3, SourceOfLoad
  <2>6. Len(T) = 1 /\ T = <<<<point, 1>>>>
    BY <1>7, <1>9
  <2>7. DOMAIN operands = {}
    <3>1. Len(args) = 0
      BY <1>8, <1>9 DEF Arity
    <3> QED
      BY <1>5, <1>8, <1>9, <3>1
  <2>8. dst = Base(j) /\ dst \in Nat /\ dst < 128
    BY <1>7, <1>9
  <2> HIDE DEF dst, T, operands, word
  <2>9. /\ WriteRegs(word) = {dst} /\ WriteBase(word) = dst
        /\ Place(word) = [mode |-> 2, slot |-> SlotOf(point)]
        /\ ~ Is(word, {"ST"})
    BY <2>2, <2>4, <2>8, LoadWord
  <2>10. dst .. dst + Len(T) - 1 = {dst}
    BY <2>6, <2>8
  <2> QED
    BY <1>2, <1>9, <2>5, <2>6, <2>7, <2>8, <2>9, <2>10 DEF T, operands, word
<1>10. CASE input[point].kind = "st"
  <2>1. TranslatePart(point, j) = <<Memory("ST", src(1), CtDstVar(Block(point)[1], Block(point)[2]))>>
    BY <1>10 DEF TranslatePart
  <2>2. SlotOf(point) \in Nat /\ SlotOf(point) < 65536
    BY <1>1, <1>10, PlacesDiffer
  <2>3. CtDstVar(Block(point)[1], Block(point)[2]) = [mode |-> 3, slot |-> SlotOf(point)]
    BY DEF CtDstVar, MEM_DST, SlotOf
  <2>4. /\ word = Encode(Memory("ST", src(1), [mode |-> 3, slot |-> SlotOf(point)]))
        /\ Head(WordsOf(point, j)) = word
    BY <2>1, <2>3, OneWord
  <2>5. operands = args /\ DOMAIN args = {1} /\ args[1] \in Range(args)
    <3>1. Len(args) = 1
      BY <1>8, <1>10 DEF Arity
    <3> QED
      BY <1>5, <1>8, <1>10, <3>1
  <2>6. src(1) = map[args[1]].at /\ src(1) \in Nat /\ src(1) < 128
    BY <1>6, <2>5
  <2> HIDE DEF src, args, operands, word
  <2>7. /\ ReadRegs(word) = <<src(1)>> /\ WriteRegs(word) = {}
        /\ Place(word) = [mode |-> 3, slot |-> SlotOf(point)]
        /\ Is(word, {"ST"}) /\ ~ Is(word, {"LD"})
    BY <2>2, <2>4, <2>6, StoreWord
  <2>8. Place(word).slot = SlotOf(point)
    BY <2>7
  <2>9. \A i \in DOMAIN operands : operands[i] \in Range(args) /\ reads[i] = map[operands[i]].at
    BY <2>4, <2>5, <2>6, <2>7
  <2> QED
    BY <1>2, <1>10, <2>5, <2>6, <2>7, <2>8, <2>9 DEF args, operands, word
<1>11. CASE input[point].kind = "lin"
  <2>1. TranslatePart(point, j) = <<Arith("ADD", dst, src(1), src(2), 0)>>
    BY <1>11 DEF TranslatePart
  <2>2. /\ word = Encode(Arith("ADD", dst, src(1), src(2), 0))
        /\ Head(WordsOf(point, j)) = word
    BY <2>1, OneWord
  <2>3. operands = args /\ DOMAIN args = {1, 2} /\ args[1] \in Range(args) /\ args[2] \in Range(args)
    <3>1. Len(args) = 2
      BY <1>8, <1>11 DEF Arity
    <3> QED
      BY <1>5, <1>8, <1>11, <3>1
  <2>4. /\ src(1) = map[args[1]].at /\ src(1) \in Nat /\ src(1) < 128
        /\ src(2) = map[args[2]].at /\ src(2) \in Nat /\ src(2) < 128
    BY <1>6, <2>3
  <2>5. Len(T) = 1 /\ dst = Base(j) /\ dst \in Nat /\ dst < 128
    BY <1>7, <1>11
  <2> HIDE DEF src, args, operands, word, dst, T
  <2>6. /\ ReadRegs(word) = <<src(1), src(2)>> /\ WriteRegs(word) = {dst} /\ WriteBase(word) = dst
        /\ ~ Is(word, {"LD"}) /\ ~ Is(word, {"ST"})
    BY <2>2, <2>4, <2>5, AddWord
  <2>7. \A i \in DOMAIN operands : operands[i] \in Range(args) /\ reads[i] = map[operands[i]].at
    BY <2>2, <2>3, <2>4, <2>6
  <2>8. dst .. dst + Len(T) - 1 = {dst}
    BY <2>5
  <2> QED
    BY <1>2, <1>11, <2>5, <2>6, <2>7, <2>8 DEF args, operands, word, T
<1>12. CASE input[point].kind = "cst"
  <2>1. TranslatePart(point, j) = <<Arith("SUB", dst, dst, dst, 0), ArithMsg("ADDS", dst, dst, 1)>>
    BY <1>12 DEF TranslatePart
  <2>2. word = Encode(ArithMsg("ADDS", dst, dst, 1))
    BY <2>1, TwoWords
  <2>3. DOMAIN operands = {}
    <3>1. Len(args) = 0
      BY <1>8, <1>12 DEF Arity
    <3> QED
      BY <1>5, <1>8, <1>12, <3>1
  <2>4. Len(T) = 1 /\ dst = Base(j) /\ dst \in Nat /\ dst < 128
    BY <1>7, <1>12
  <2> HIDE DEF operands, word, dst, T
  <2>5. WriteRegs(word) = {dst} /\ WriteBase(word) = dst /\ ~ Is(word, {"LD"}) /\ ~ Is(word, {"ST"})
    BY <2>2, <2>4, AddsWord
  <2>6. dst .. dst + Len(T) - 1 = {dst}
    BY <2>4
  <2> QED
    BY <1>2, <1>12, <2>3, <2>4, <2>5, <2>6 DEF operands, word, T
<1>13. CASE input[point].kind = "batch"
  <2> DEFINE member == input[point].body[j]
             flush == (j = Len(input[point].body))
  <2>1. TranslatePart(point, j) = <<Lookup(PbsName(member.nret, flush), dst, src(1), member.src)>>
    BY <1>13 DEF TranslatePart
  <2>2. /\ word = Encode(Lookup(PbsName(member.nret, flush), dst, src(1), member.src))
        /\ Head(WordsOf(point, j)) = word
    BY <2>1, OneWord
  <2>3. /\ IsMember(input[point], member) /\ operands = <<args[member.args[1]]>>
        /\ member.args[1] \in DOMAIN args
    BY <1>1, <1>2, <1>13, PartOfBatch
  <2>4. DOMAIN operands = {1} /\ operands[1] \in Range(args)
    BY <1>5, <2>3
  <2>5. src(1) = map[operands[1]].at /\ src(1) \in Nat /\ src(1) < 128
    BY <1>6, <2>4
  <2>6. member.nret \in {1, 2} /\ member.src \in Nat /\ Len(T) = member.nret
    <3>1. member.nret \in {1, 2} /\ member.src \in Nat /\ DOMAIN member.rets = 1 .. member.nret
      BY <2>3 DEF IsMember
    <3>2. T = [k \in DOMAIN member.rets |-> <<point, member.rets[k]>>]
      BY <1>13 DEF Targets
    <3>3. DOMAIN T = 1 .. member.nret
      BY <3>1, <3>2
    <3>4. T \in Seq(ValuesOf(input))
      BY <1>1, <1>2, <1>13, TargetsOfPart
    <3> QED
      BY <3>1, <3>3, <3>4
  <2>7. dst = Base(j) /\ dst \in Nat /\ dst < 128 /\ dst % Len(T) = 0
    BY <1>7, <1>13
  <2> DEFINE op == PbsName(member.nret, flush)
  <2>8. op \in PbsNames /\ (member.nret = 2 <=> op \in {"PBS_ML2", "PBS_ML2_F"})
    BY <2>6 DEF PbsName, PbsNames
  <2> HIDE DEF src, args, operands, word, dst, T, member, flush
  <2>9. /\ ReadRegs(word) = <<src(1)>> /\ WriteRegs(word) = dst .. dst + member.nret - 1
        /\ WriteBase(word) = dst /\ ~ Is(word, {"LD"}) /\ ~ Is(word, {"ST"})
    <3> DEFINE nret == member.nret
               lut == member.src
               s == src(1)
    <3>1. word = Encode(Lookup(op, dst, s, lut))
      BY <2>2
    <3>2. /\ nret \in {1, 2} /\ lut \in Nat /\ s \in Nat /\ s < 128 /\ dst \in Nat /\ dst < 128 /\ dst % nret = 0
          /\ op \in PbsNames /\ (nret = 2 <=> op \in {"PBS_ML2", "PBS_ML2_F"})
      BY <2>5, <2>6, <2>7, <2>8
    <3> HIDE DEF nret, lut, s, op
    <3>3. /\ ReadRegs(word) = <<s>> /\ WriteRegs(word) = dst .. dst + nret - 1
          /\ WriteBase(word) = dst /\ ~ Is(word, {"LD"}) /\ ~ Is(word, {"ST"})
      <4>1. IsLookup(nret, op, dst, s)
        BY <3>2 DEF IsLookup
      <4> QED
        BY <3>1, <3>2, <4>1, LookupWord
    <3> QED
      BY <3>3 DEF nret, s
  <2>10. \A i \in DOMAIN operands : operands[i] \in Range(args) /\ reads[i] = map[operands[i]].at
    BY <2>2, <2>4, <2>5, <2>9
  <2> QED
    BY <1>2, <1>13, <2>6, <2>7, <2>9, <2>10 DEF args, operands, word, T
<1> QED
  BY <1>3, <1>4, <1>9, <1>10, <1>11, <1>12, <1>13

(* Running a part keeps the invariant: it writes its own results, and      *)
(* nothing that is still read.                                             *)
LEMMA EmitPartKeeps ==
  ASSUME RegInv, EmitPart
  PROVE  RegInv'
<1> DEFINE j == Head(todo)
           T == Targets(input, point, j)
           word == Last(WordsOf(point, j))
           base == Base(j)
<1> USE DEF machine
<1>1. /\ AtPart /\ phase = "emit" /\ spills = << >> /\ unspills = << >> /\ todo # << >>
      /\ point \in Ops(input) /\ point \in Nat /\ WellFormed(input) /\ input # << >>
      /\ todo \in Seq(Parts(input, point))
  BY DEF EmitPart, AtPart, RegInv, RegType, Unstarted
<1>2. /\ file' = Written(word, IF Is(word, {"LD"}) THEN <<SourceBlock(Place(word))>> ELSE T)
      /\ delivered' = IF Is(word, {"ST"}) THEN StoredBy(word, delivered) ELSE delivered
      /\ todo' = Tail(todo)
      /\ UNCHANGED <<input, point, phase, victims, regs, map, heap, spills, unspills, cells>>
  BY DEF EmitPart
<1>3. /\ j \in Parts(input, point)
      /\ input[point].kind # "st" =>
           /\ WriteRegs(word) = base .. base + Len(T) - 1 /\ WriteBase(word) = base
           /\ ~ Is(word, {"ST"})
           /\ Is(word, {"LD"}) => <<SourceBlock(Place(word))>> = T
      /\ input[point].kind = "st" =>
           /\ WriteRegs(word) = {} /\ Is(word, {"ST"}) /\ ~ Is(word, {"LD"})
           /\ Place(word).slot = SlotOf(point)
           /\ input[point].args[1] \in Range(input[point].args)
           /\ ReadRegs(word) = <<map[input[point].args[1]].at>>
  BY <1>1, WordsOfPart
<1>4. /\ Tail(todo) \in Seq(Parts(input, point)) /\ Len(Tail(todo)) = Len(todo) - 1
      /\ \A i \in Range(todo) : i = j \/ i \in Range(Tail(todo))
      /\ Range(Tail(todo)) \subseteq Range(todo)
  BY <1>1, HeadAndTail
<1> HIDE DEF j
<1>5. input[point].kind # "st" =>
        /\ Len(T) \in {1, 2} /\ base \in Reg /\ base \in Nat
        /\ \A k \in DOMAIN T : /\ map[T[k]] = Registered(base + k - 1) /\ base + k - 1 \in Reg
                               /\ regs[base + k - 1].val = T[k]
                               /\ regs[base + k - 1].st \in {"Fresh", "Transitioning"}
        /\ DOMAIN T = 1 .. Len(T)
  <2>1. ASSUME input[point].kind # "st"
        PROVE  /\ T \in Seq(ValuesOf(input)) /\ Len(T) \in {1, 2} /\ base \in Reg
               /\ \A k \in DOMAIN T : /\ map[T[k]] = Registered(base + k - 1) /\ base + k - 1 \in Reg
                                      /\ regs[base + k - 1].val = T[k]
                                      /\ regs[base + k - 1].st \in {"Fresh", "Transitioning"}
    BY <1>1, <1>3, <2>1, TargetsAt
  <2>2. input[point].kind # "st" => T \in Seq(ValuesOf(input))
    BY <2>1
  <2> HIDE DEF T, base
  <2>3. input[point].kind # "st" => DOMAIN T = 1 .. Len(T)
    BY <2>2
  <2> QED
    BY <2>1, <2>3, Registers
<1> HIDE DEF T, word, base
(* What the part writes, and what it leaves.                               *)
<1>6. ASSUME input[point].kind # "st"
      PROVE  /\ \A k \in DOMAIN T : file'[base + k - 1] = T[k]
             /\ \A r \in Reg : (\E k \in DOMAIN T : r = base + k - 1) \/ file'[r] = file[r]
             /\ delivered' = delivered
  <2>1. file' = [r \in Reg |-> IF r \in base .. base + Len(T) - 1 THEN T[r + 1 - base] ELSE file[r]]
    BY <1>2, <1>3, <1>6 DEF Written
  <2>2. ASSUME NEW k \in DOMAIN T
        PROVE  file'[base + k - 1] = T[k]
    <3>1. k \in Nat /\ base + k - 1 \in base .. base + Len(T) - 1 /\ base + k - 1 + 1 - base = k
      BY <1>5, <1>6
    <3> QED
      BY <1>5, <1>6, <2>1, <3>1
  <2>3. ASSUME NEW r \in Reg, r \in base .. base + Len(T) - 1
        PROVE  \E k \in DOMAIN T : r = base + k - 1
    <3>1. r + 1 - base \in DOMAIN T /\ r = base + (r + 1 - base) - 1
      BY <1>5, <1>6, <2>3, Registers
    <3> QED
      BY <3>1
  <2> QED
    BY <1>2, <1>3, <1>6, <2>1, <2>2, <2>3
<1>7. ASSUME input[point].kind = "st"
      PROVE  /\ \A r \in Reg : file'[r] = file[r]
             /\ DOMAIN delivered' = DOMAIN delivered \cup {SlotOf(point)}
             /\ delivered'[SlotOf(point)] = input[point].args[1]
             /\ \A s \in DOMAIN delivered : s # SlotOf(point) => delivered'[s] = delivered[s]
  <2>1. \A r \in Reg : file'[r] = file[r]
    BY <1>2, <1>3, <1>7 DEF Written
  <2>2. delivered' = [s \in DOMAIN delivered \cup {SlotOf(point)} |->
                        IF s = SlotOf(point) THEN file[ReadRegs(word)[1]] ELSE delivered[s]]
    BY <1>2, <1>3, <1>7 DEF StoredBy
  <2>3. file[ReadRegs(word)[1]] = input[point].args[1]
    BY <1>1, <1>3, <1>7, ArgumentAt
  <2> QED
    BY <2>1, <2>2, <2>3
<1>8. RegType'
  BY <1>1, <1>2, <1>4 DEF RegInv, RegType
<1>9. Unstarted'
  BY <1>1, <1>2 DEF Unstarted
<1>10. MapsAgree' /\ Ages'
  BY <1>2 DEF RegInv, MapsAgree, Ages, Holding, RetiresAt, Uses, Ops
<1>11. Stages'
  <2>1. ~IsBatch => Len(Tail(todo)) <= 1
    BY <1>1, <1>4 DEF RegInv, Stages
  <2> QED
    BY <1>1, <1>2, <2>1 DEF RegInv, Stages, IsBatch, Operation
<1>12. ResultsPlaced'
  BY <1>1, <1>2 DEF RegInv, ResultsPlaced, Placed, Base, Operation
<1>13. SpillsRight' /\ UnspillsRight'
  BY <1>1, <1>2 DEF RegInv, SpillsRight, UnspillsRight
<1>14. FileRight'
  <2>1. ASSUME NEW r \in Reg, NEW v \in ValuesOf(input), Holding(r, v)
        PROVE  file'[r] = v \/ (Tail(todo) = << >> /\ regs[r].st = "Transitioning")
    <3>1. file[r] = v
      BY <1>1, <2>1 DEF RegInv, FileRight
    <3>2. CASE file'[r] = file[r]
      BY <3>1, <3>2
    <3>3. CASE input[point].kind # "st" /\ \E k \in DOMAIN T : r = base + k - 1
      <4>1. regs[r].st \in {"Fresh", "Transitioning"}
        BY <1>5, <3>3
      <4>2. regs[r].st = "Transitioning"
        BY <2>1, <4>1 DEF Holding
      <4>3. ~IsBatch
        BY <1>1, <4>2 DEF RegInv, Stages
      <4>4. Len(todo) <= 1
        BY <1>1, <4>3 DEF RegInv, Stages
      <4>5. Tail(todo) = << >>
        BY <1>1, <1>4, <4>4
      <4> QED
        BY <4>2, <4>5
    <3> QED
      BY <1>6, <1>7, <3>2, <3>3
  <2>2. ASSUME NEW i \in Parts(input, point) \ Range(Tail(todo)), NEW k \in DOMAIN Targets(input, point, i)
        PROVE  file'[map[Targets(input, point, i)[k]].at] = Targets(input, point, i)[k]
    <3>0. input[point].kind # "st"
      <4>1. ASSUME input[point].kind = "st" PROVE FALSE
        <5>1. Targets(input, point, i) = [l \in 1 .. 0 |-> <<point, l>>]
          BY <1>1, <4>1 DEF Targets, Results, WellFormed
        <5> QED
          BY <2>2, <5>1
      <4> QED
        BY <4>1
    <3> DEFINE U == Targets(input, point, i)
               at == map[U[k]].at
    <3>1. CASE i = j
      <4>1. U = T
        BY <3>1 DEF T
      <4>2. map[T[k]] = Registered(base + k - 1) /\ k \in DOMAIN T
        BY <1>5, <2>2, <3>0, <4>1
      <4>3. at = base + k - 1
        BY <4>1, <4>2, RegisteredIs
      <4>4. file'[base + k - 1] = T[k]
        BY <1>6, <3>0, <4>2
      <4> HIDE DEF U, at
      <4>5. file'[at] = U[k]
        BY <4>1, <4>3, <4>4
      <4> QED
        BY <4>5 DEF U, at
    <3>2. CASE i # j
      <4>1. i \notin Range(todo)
        BY <1>4, <2>2, <3>2
      <4>2. file[at] = U[k]
        BY <1>1, <2>2, <4>1 DEF RegInv, FileRight
      <4>3. at \in Reg /\ regs[at].val = U[k]
        <5>1. map[U[k]] = Registered(Base(i) + k - 1) /\ Base(i) + k - 1 \in Reg /\ regs[Base(i) + k - 1].val = U[k]
          BY <1>1, <2>2, <3>0, TargetsAt
        <5> QED
          BY <5>1, RegisteredIs
      <4> HIDE DEF U, at
      <4>4. CASE \E l \in DOMAIN T : at = base + l - 1
        <5>1. PICK l \in DOMAIN T : at = base + l - 1
          BY <4>4
        <5>2. regs[at].val = T[l] /\ file'[at] = T[l]
          BY <1>5, <1>6, <3>0, <5>1
        <5>3. file'[at] = U[k]
          BY <4>3, <5>2
        <5> QED
          BY <5>3 DEF U, at
      <4>5. CASE ~ \E l \in DOMAIN T : at = base + l - 1
        <5>1. file'[at] = U[k]
          BY <1>6, <3>0, <4>2, <4>3, <4>5
        <5> QED
          BY <5>1 DEF U, at
      <4> QED
        BY <4>4, <4>5
    <3> QED
      BY <3>1, <3>2
  <2> QED
    BY <1>1, <1>2, <2>1, <2>2 DEF FileRight, Holding
<1>15. DeliveredRight'
  <2>1. CASE input[point].kind # "st"
    <3>1. Stored' = Stored
      BY <1>1, <1>2, <2>1 DEF Stored, Ops
    <3>2. \A o : SlotOf(o)' = SlotOf(o)
      BY <1>2 DEF SlotOf, Block
    <3>3. delivered' = delivered /\ input' = input
      BY <1>2, <1>6, <2>1
    <3> QED
      BY <3>1, <3>2, <3>3 DEF RegInv, DeliveredRight
  <2>2. CASE input[point].kind = "st"
    <3>1. Tail(todo) = << >>
      <4>1. Len(todo) <= 1
        BY <1>1, <2>2 DEF RegInv, Stages, IsBatch, Operation
      <4> QED
        BY <1>1, <1>4, <4>1
    <3>2. Stored' = Stored \cup {point} /\ Stored \subseteq Ops(input)
      BY <1>1, <1>2, <2>2, <3>1 DEF Stored, Ops
    <3>3. \A o \in Stored : o # point /\ input[o].kind = "st"
      BY <1>1 DEF Stored
    <3>4. \A o \in Stored : SlotOf(o) # SlotOf(point)
      BY <1>1, <2>2, <3>2, <3>3, PlacesDiffer
    <3>5. DOMAIN delivered = {SlotOf(o) : o \in Stored} /\ \A o \in Stored : delivered[SlotOf(o)] = input[o].args[1]
      BY DEF RegInv, DeliveredRight
    <3>6. DOMAIN delivered' = {SlotOf(o) : o \in Stored'}
      BY <1>7, <2>2, <3>2, <3>5
    <3>7. \A o \in Stored' : delivered'[SlotOf(o)] = input[o].args[1]
      BY <1>7, <2>2, <3>2, <3>4, <3>5
    <3>8. \A o : SlotOf(o)' = SlotOf(o)
      BY <1>2 DEF SlotOf, Block
    <3> QED
      BY <1>2, <3>6, <3>7, <3>8 DEF DeliveredRight
  <2> QED
    BY <2>1, <2>2
<1> QED
  BY <1>8, <1>9, <1>10, <1>11, <1>12, <1>13, <1>14, <1>15 DEF RegInv

(* Settling the registers keeps the invariant, at the next operation.      *)
LEMMA StabilizeKeeps ==
  ASSUME RegInv, Stabilize
  PROVE  RegInv'
<1> DEFINE settled == [v \in DOMAIN map |-> IF v \in Leaving THEN [st |-> "Retired", at |-> 0] ELSE map[v]]
<1> USE DEF machine
<1>1. /\ phase = "emit" /\ spills = << >> /\ unspills = << >> /\ todo = << >>
      /\ point \in Ops(input) /\ point \in Nat /\ WellFormed(input) /\ input # << >>
      /\ Ops(input) = 1 .. Len(input) /\ Len(input) \in Nat /\ Ops(input) = DOMAIN input
      /\ victims = << >>
  <2>1. /\ phase = "emit" /\ spills = << >> /\ unspills = << >> /\ todo = << >>
        /\ point \in Ops(input) /\ point \in Nat /\ WellFormed(input) /\ input # << >> /\ victims = << >>
    BY DEF Stabilize, RegInv, RegType, Unstarted
  <2>2. input \in Seq(Range(input))
    BY <2>1 DEF WellFormed
  <2>3. Ops(input) = 1 .. Len(input) /\ Len(input) \in Nat /\ Ops(input) = DOMAIN input
    BY <2>2 DEF Ops
  <2> QED
    BY <2>1, <2>3
<1>2. /\ regs' = [r \in Reg |-> Stabilized(regs[r])]
      /\ map' = settled /\ todo' = ToUnspill(point + 1, settled)
      /\ point' = point + 1
      /\ phase' = IF point + 1 \in DOMAIN input THEN "sources" ELSE "done"
      /\ UNCHANGED <<input, victims, heap, spills, unspills, file, cells, delivered>>
  BY DEF Stabilize
<1>3. /\ regs \in [Reg -> [st : {"Empty", "Storing", "Unspilled", "Fresh", "Retiring", "Transitioning"},
                           val : ValuesOf(input) \cup {None}, old : ValuesOf(input) \cup {None}]]
      /\ map \in [ValuesOf(input) -> [st : {"Unseen", "Registered", "Spilled", "Retired"}, at : Nat]]
  BY DEF RegInv, RegType
<1>4. ASSUME NEW r \in Reg
      PROVE  \/ regs'[r] = EmptyReg /\ regs[r].st \in {"Empty", "Retiring"}
             \/ /\ regs'[r] = Holds("Storing", regs[r].val)
                /\ regs[r].st \in {"Storing", "Unspilled", "Fresh", "Transitioning"}
  BY <1>2, <1>3 DEF Stabilized
<1>5. /\ \A r \in Reg : regs'[r].st \in {"Empty", "Storing"}
      /\ \A r \in Reg : regs'[r].st # "Empty" =>
           regs'[r].val = regs[r].val /\ regs[r].st \in {"Storing", "Unspilled", "Fresh", "Transitioning"}
      /\ \A r \in Reg : regs[r].st \in {"Storing", "Unspilled", "Fresh", "Transitioning"} => regs'[r].st = "Storing"
  <2>1. EmptyReg.st = "Empty" /\ \A v : Holds("Storing", v).st = "Storing" /\ Holds("Storing", v).val = v
    BY DEF EmptyReg, Holds
  <2>2. ASSUME NEW r \in Reg
        PROVE  \/ regs'[r].st = "Empty" /\ regs[r].st \in {"Empty", "Retiring"}
               \/ /\ regs'[r].st = "Storing" /\ regs'[r].val = regs[r].val
                  /\ regs[r].st \in {"Storing", "Unspilled", "Fresh", "Transitioning"}
    BY <1>4, <2>1
  <2> QED
    BY <2>2
<1>6. /\ \A v \in ValuesOf(input) : v \notin Leaving => map'[v] = map[v]
      /\ \A v \in ValuesOf(input) : v \in Leaving => map'[v].st = "Retired"
      /\ map' \in [ValuesOf(input) -> [st : {"Unseen", "Registered", "Spilled", "Retired"}, at : Nat]]
  BY <1>2, <1>3
(* What leaves has a register, which gives it up.                          *)
<1>7. ASSUME NEW v \in Leaving
      PROVE  /\ v \in ValuesOf(input) /\ v[1] < point /\ RetiresAt(v, point)
             /\ \E q \in Reg : /\ map[v] = Registered(q)
                               /\ \/ regs[q].st = "Retiring" /\ regs[q].val = v
                                  \/ regs[q].st = "Transitioning" /\ regs[q].old = v
  <2>1. \E q \in Reg : \/ regs[q].st = "Retiring" /\ regs[q].val = v
                       \/ regs[q].st = "Transitioning" /\ regs[q].old = v
    BY DEF Leaving
  <2> QED
    BY <2>1 DEF RegInv, MapsAgree, Ages
<1>8. RegType'
  <2>1. regs' \in [Reg -> [st : {"Empty", "Storing", "Unspilled", "Fresh", "Retiring", "Transitioning"},
                           val : ValuesOf(input) \cup {None}, old : ValuesOf(input) \cup {None}]]
    BY <1>2, <1>3 DEF Stabilized, EmptyReg, Holds
  <2>2. ASSUME phase' = "sources" PROVE todo' \in Seq(ValuesOf(input))
    <3> DEFINE args == input[point + 1].args
               S == {i \in DOMAIN args : settled[args[i]].st = "Spilled"}
               at == Ascending(S)
    <3>1. point + 1 \in DOMAIN input /\ point + 1 \in Ops(input)
      BY <1>1, <1>2, <2>2
    <3>2. todo' = [k \in DOMAIN at |-> args[at[k]]]
      BY <1>2, <3>1 DEF ToUnspill
    <3>3. args \in Seq(ValuesOf(input))
      BY <1>1, <3>1, Arguments
    <3> HIDE DEF args
    <3>4. DOMAIN args = 1 .. Len(args) /\ Len(args) \in Nat
      BY <3>3
    <3>5. S \subseteq DOMAIN args
      OBVIOUS
    <3> HIDE DEF S
    <3>6. IsFiniteSet(S) /\ \A i \in S : i \in Nat
      <4>1. IsFiniteSet(1 .. Len(args)) /\ \A i \in 1 .. Len(args) : i \in Nat
        BY <3>4, FS_Interval
      <4> QED
        BY <3>4, <3>5, <4>1, FS_Subset
    <3>7. at \in Seq(S)
      BY <3>6, AscendingList
    <3> HIDE DEF at
    <3>8. \A k \in DOMAIN at : args[at[k]] \in ValuesOf(input)
      <4> TAKE k \in DOMAIN at
      <4>1. at[k] \in S
        BY <3>7, Element
      <4> QED
        BY <3>3, <3>5, <4>1, Element
    <3>9. DOMAIN at = 1 .. Len(at) /\ Len(at) \in Nat
      BY <3>7
    <3>10. todo' \in [1 .. Len(at) -> ValuesOf(input)]
      BY <3>2, <3>8, <3>9
    <3> QED
      BY <3>9, <3>10
  <2>3. /\ phase' \in {"sources", "done"} /\ (phase' = "sources" => point + 1 \in Ops(input))
        /\ (phase' = "done" => point + 1 = Len(input) + 1)
    BY <1>1, <1>2
  <2>4. point + 1 \in Nat \ {0}
    BY <1>1
  <2> QED
    BY <1>1, <1>2, <1>6, <2>1, <2>2, <2>3, <2>4 DEF RegInv, RegType
<1>9. Unstarted'
  BY <1>1, <1>2 DEF Unstarted
<1>10. MapsAgree'
  <2>1. ASSUME NEW r \in Reg, regs'[r].st # "Empty"
        PROVE  regs'[r].val \in ValuesOf(input) /\ map'[regs'[r].val] = Registered(r)
    <3> DEFINE v == regs[r].val
    <3>1. v \in ValuesOf(input) /\ map[v] = Registered(r) /\ regs'[r].val = v
          /\ regs[r].st \in {"Storing", "Unspilled", "Fresh", "Transitioning"}
      BY <1>5, <2>1 DEF RegInv, MapsAgree
    <3>2. ASSUME v \in Leaving PROVE FALSE
      <4>1. PICK q \in Reg : /\ map[v] = Registered(q)
                             /\ \/ regs[q].st = "Retiring" /\ regs[q].val = v
                                \/ regs[q].st = "Transitioning" /\ regs[q].old = v
        BY <1>7, <3>2
      <4>2. q = r
        BY <3>1, <4>1 DEF Registered
      <4>3. regs[r].st = "Transitioning" /\ regs[r].old = v
        BY <3>1, <4>1, <4>2
      <4>4. v[1] = point /\ v[1] < point
        BY <3>1, <4>3 DEF RegInv, Ages
      <4> QED
        BY <1>1, <4>4
    <3> QED
      BY <1>6, <3>1, <3>2
  <2>2. ASSUME NEW v \in ValuesOf(input), map'[v].st = "Registered"
        PROVE  map'[v].at \in Reg /\ regs'[map'[v].at].st = "Storing" /\ regs'[map'[v].at].val = v
    <3>1. v \notin Leaving /\ map'[v] = map[v]
      BY <1>6, <2>2
    <3> DEFINE r == map[v].at
    <3>2. r \in Reg /\ regs[r].st # "Empty" /\ (Holding(r, v) \/ regs[r].val = v)
      BY <2>2, <3>1 DEF RegInv, MapsAgree
    <3> HIDE DEF r
    <3>3. ~ (regs[r].st = "Retiring" /\ regs[r].val = v) /\ ~ (regs[r].st = "Transitioning" /\ regs[r].old = v)
      BY <3>1, <3>2 DEF Leaving
    <3>4. regs[r].val = v /\ regs[r].st \in {"Storing", "Unspilled", "Fresh", "Transitioning"}
      BY <1>3, <3>2, <3>3 DEF Holding
    <3>5. regs'[r].st = "Storing" /\ regs'[r].val = v
      BY <1>5, <3>2, <3>4
    <3> QED
      BY <3>1, <3>2, <3>5 DEF r
  <2>3. ASSUME NEW v \in ValuesOf(input), map'[v].st = "Spilled"
        PROVE  map'[v].at \in DOMAIN heap /\ heap[map'[v].at] = v
    BY <1>6, <2>3 DEF RegInv, MapsAgree
  <2>4. \A r \in Reg : regs'[r].st # "Transitioning"
    BY <1>5
  <2> QED
    BY <1>2, <2>1, <2>2, <2>3, <2>4 DEF MapsAgree
<1>11. Ages'
  <2>0. \A w : Uses(w)' = Uses(w)
    BY <1>2 DEF Uses, Ops
  <2>1. ASSUME NEW r \in Reg, regs'[r].st = "Storing"
        PROVE  regs'[r].val[1] < point + 1
    <3>1. regs'[r].val = regs[r].val /\ regs[r].st \in {"Storing", "Unspilled", "Fresh", "Transitioning"}
      BY <1>5, <2>1
    <3>2. regs[r].val \in ValuesOf(input)
      BY <3>1 DEF RegInv, MapsAgree
    <3>3. regs[r].val[1] \in Nat
      BY <1>1, <3>2, Values
    <3>4. regs[r].val[1] < point \/ regs[r].val[1] = point
      BY <3>1 DEF RegInv, Ages
    <3> QED
      BY <1>1, <3>1, <3>3, <3>4
  <2>2. ASSUME NEW v \in ValuesOf(input)
        PROVE  /\ map'[v].st = "Spilled" => v[1] < point + 1
               /\ map'[v].st = "Unseen" => v[1] >= point + 1
               /\ map'[v].st = "Retired" => \A u \in Uses(v) : u < point + 1
    <3>0. v[1] \in Nat /\ v \in Range(Results(input, v[1]))
      BY <1>1, Values
    <3>1. CASE v \in Leaving
      <4>1. map'[v].st = "Retired" /\ v[1] < point /\ RetiresAt(v, point)
        BY <1>6, <1>7, <3>1
      <4>2. Uses(v) = {v[1]} \/ \A u \in Uses(v) : u <= point
        BY <4>1 DEF RetiresAt
      <4>3. \A u \in Uses(v) : u < point + 1
        <5>1. ASSUME NEW u \in Uses(v) PROVE u \in Nat
          BY <1>1, <3>0 DEF Uses
        <5> QED
          BY <1>1, <3>0, <4>1, <4>2, <5>1
      <4> QED
        BY <4>1, <4>3
    <3>2. CASE v \notin Leaving
      <4>1. map'[v] = map[v]
        BY <1>6, <3>2
      <4>2. map[v].st = "Unseen" => v[1] # point
        BY <1>1, <3>0 DEF RegInv, Stages
      <4>3. /\ map[v].st = "Spilled" => v[1] < point
            /\ map[v].st = "Unseen" => v[1] >= point
            /\ map[v].st = "Retired" => \A u \in Uses(v) : u < point
        BY DEF RegInv, Ages
      <4>4. \A u \in Uses(v) : u \in Nat
        BY <1>1, <3>0 DEF Uses
      <4> QED
        BY <1>1, <3>0, <4>1, <4>2, <4>3, <4>4
    <3> QED
      BY <3>1, <3>2
  <2> QED
    BY <1>2, <1>5, <2>0, <2>1, <2>2 DEF Ages
<1>12. Stages' /\ ResultsPlaced'
  BY <1>2, <1>5 DEF Stages, ResultsPlaced
<1>13. SpillsRight' /\ UnspillsRight'
  BY <1>1, <1>2 DEF RegInv, SpillsRight, UnspillsRight
<1>14. FileRight'
  <2>1. ASSUME NEW r \in Reg, NEW v \in ValuesOf(input), Holding(r, v)'
        PROVE  file[r] = v
    <3>1. /\ regs[r].val = v /\ regs[r].st \in {"Storing", "Unspilled", "Fresh", "Transitioning"}
      BY <1>5, <2>1 DEF Holding
    <3>2. CASE regs[r].st \in {"Storing", "Unspilled"}
      <4>1. Holding(r, v)
        BY <3>1, <3>2 DEF Holding
      <4> QED
        BY <1>1, <3>2, <4>1 DEF RegInv, FileRight
    <3>3. CASE regs[r].st \in {"Fresh", "Transitioning"}
      <4>1. PICK j \in Parts(input, point) : v \in Range(Targets(input, point, j))
        BY <1>1, <3>1, <3>3 DEF RegInv, Stages
      <4>2. PICK k \in DOMAIN Targets(input, point, j) : v = Targets(input, point, j)[k]
        BY <4>1 DEF Range
      <4>3. map[v] = Registered(r)
        BY <3>1, <3>3 DEF RegInv, MapsAgree
      <4>4. j \notin Range(todo)
        BY <1>1 DEF Range
      <4>5. file[map[v].at] = v
        BY <1>1, <4>2, <4>4 DEF RegInv, FileRight
      <4> QED
        BY <4>3, <4>5, RegisteredIs
    <3> QED
      BY <3>1, <3>2, <3>3
  <2> QED
    BY <1>2, <2>1 DEF FileRight
<1>15. DeliveredRight'
  <2>1. Stored' = Stored
    BY <1>1, <1>2 DEF Stored
  <2>2. \A o : SlotOf(o)' = SlotOf(o)
    BY <1>2 DEF SlotOf, Block
  <2> QED
    BY <1>2, <2>1, <2>2 DEF RegInv, DeliveredRight
<1> QED
  BY <1>8, <1>9, <1>10, <1>11, <1>12, <1>13, <1>14, <1>15 DEF RegInv

-----------------------------------------------------------------------------
(* The specification.                                                      *)

(* Nothing is read or written by no program.                               *)
LEMMA NothingWritten ==
  /\ WellFormed(<< >>) /\ ValuesOf(<< >>) = {} /\ Ops(<< >>) = {}
<1>1. Ops(<< >>) = {}
  BY DEF Ops
<1>2. ValuesOf(<< >>) = {}
  BY <1>1 DEF ValuesOf
<1>3. << >> \in Seq(Range(<< >>))
  OBVIOUS
<1>4. WellFormed(<< >>)
  BY <1>1, <1>3 DEF WellFormed
<1> QED
  BY <1>1, <1>2, <1>4

(* The fields of an empty register.                                        *)
LEMMA EmptyRegIs ==
  EmptyReg.st = "Empty" /\ EmptyReg \in [st : {"Empty"}, val : {None}, old : {None}]
BY DEF EmptyReg

(* The invariant holds before a program is given.                          *)
LEMMA InitKept ==
  ASSUME AllocInit
  PROVE  RegInv
<1>1. /\ input = << >> /\ map = << >> /\ point = 1 /\ phase = "done" /\ todo = << >>
      /\ regs = [r \in Reg |-> EmptyReg]
      /\ heap = << >> /\ victims = << >> /\ spills = << >> /\ unspills = << >>
      /\ cells = << >> /\ delivered = << >>
  BY DEF AllocInit
<1>2. WellFormed(input) /\ ValuesOf(input) = {} /\ Ops(input) = {}
  BY <1>1, NothingWritten
<1>3. /\ regs \in [Reg -> [st : {"Empty", "Storing", "Unspilled", "Fresh", "Retiring", "Transitioning"},
                           val : ValuesOf(input) \cup {None}, old : ValuesOf(input) \cup {None}]]
      /\ \A r \in Reg : regs[r].st = "Empty"
  BY <1>1, EmptyRegIs
<1>4. RegType
  <2>1. map \in [ValuesOf(input) -> [st : {"Unseen", "Registered", "Spilled", "Retired"}, at : Nat]]
    BY <1>1, <1>2
  <2>2. Len(heap) <= HeapSlots
    BY <1>1, Powers DEF HeapSlots
  <2> QED
    BY <1>1, <1>2, <1>3, <2>1, <2>2 DEF RegType
<1>5. Unstarted
  BY <1>1 DEF Unstarted
<1>6. MapsAgree /\ Ages /\ Stages /\ ResultsPlaced
  BY <1>1, <1>2, <1>3 DEF MapsAgree, Ages, Stages, ResultsPlaced
<1>7. SpillsRight /\ UnspillsRight
  BY <1>1 DEF SpillsRight, UnspillsRight
<1>8. FileRight
  BY <1>1, <1>2 DEF FileRight
<1>9. DeliveredRight
  BY <1>1, <1>2 DEF DeliveredRight, Stored
<1> QED
  BY <1>4, <1>5, <1>6, <1>7, <1>8, <1>9 DEF RegInv

(* It holds of every well-formed program that is given.                    *)
LEMMA StartKeeps ==
  ASSUME RegInv, NEW code, WellFormed(code), StartAllocation(code)
  PROVE  RegInv'
<1> USE DEF machine
<1>1. /\ input = << >> /\ point = 1 /\ phase = "done" /\ todo = << >> /\ victims = << >>
      /\ regs = [r \in Reg |-> EmptyReg]
      /\ heap = << >> /\ spills = << >> /\ unspills = << >> /\ DOMAIN delivered = {}
  BY DEF RegInv, Unstarted, StartAllocation
<1>2. /\ input' = code
      /\ map' = [v \in ValuesOf(code) |-> [st |-> "Unseen", at |-> 0]]
      /\ phase' = IF code = << >> THEN "done" ELSE "sources"
      /\ UNCHANGED <<point, todo, regs, heap, victims, spills, unspills, file, cells, delivered>>
  BY DEF StartAllocation
<1>3. /\ regs' \in [Reg -> [st : {"Empty", "Storing", "Unspilled", "Fresh", "Retiring", "Transitioning"},
                            val : ValuesOf(code) \cup {None}, old : ValuesOf(code) \cup {None}]]
      /\ \A r \in Reg : regs'[r].st = "Empty"
  BY <1>1, <1>2, EmptyRegIs
<1>4. /\ map' \in [ValuesOf(code) -> [st : {"Unseen", "Registered", "Spilled", "Retired"}, at : Nat]]
      /\ \A v \in ValuesOf(code) : map'[v].st = "Unseen"
  BY <1>2
<1>5. code # << >> => 1 \in Ops(code)
  <2>1. code \in Seq(Range(code))
    BY DEF WellFormed
  <2> QED
    BY <2>1 DEF Ops
<1>6. RegType'
  <2>1. Len(heap) <= HeapSlots
    BY DEF RegInv, RegType
  <2>2. \A S : << >> \in Seq(S)
    OBVIOUS
  <2> QED
    BY <1>1, <1>2, <1>3, <1>4, <1>5, <2>1, <2>2 DEF RegType
<1>7. Unstarted'
  BY <1>1, <1>2 DEF Unstarted
<1>8. MapsAgree' /\ Stages' /\ ResultsPlaced'
  BY <1>1, <1>2, <1>3, <1>4 DEF MapsAgree, Stages, ResultsPlaced
<1>9. Ages'
  <2>1. \A v \in ValuesOf(code) : v[1] \in Nat /\ v[1] >= 1
    BY Values
  <2> QED
    BY <1>1, <1>2, <1>3, <1>4, <2>1 DEF Ages
<1>10. SpillsRight' /\ UnspillsRight'
  BY <1>1, <1>2 DEF SpillsRight, UnspillsRight
<1>11. FileRight'
  BY <1>2, <1>3 DEF FileRight, Holding
<1>12. DeliveredRight'
  <2>1. \A o \in Ops(code) : o \in Nat /\ o >= 1
    <3>1. code \in Seq(Range(code))
      BY DEF WellFormed
    <3> QED
      BY <3>1 DEF Ops
  <2>2. Stored' = {}
    BY <1>1, <1>2, <2>1 DEF Stored
  <2> QED
    BY <1>1, <1>2, <2>2 DEF DeliveredRight
<1> QED
  BY <1>6, <1>7, <1>8, <1>9, <1>10, <1>11, <1>12 DEF RegInv

(* The allocator keeps RegInv, for every well-formed program and every     *)
(* register file.                                                          *)
THEOREM AllocatorInvariant == AllocateSpec => []RegInv
<1>1. AllocInit => RegInv
  BY InitKept
<1>2. RegInv /\ [Allocate]_avars => RegInv'
  <2> SUFFICES ASSUME RegInv, [Allocate]_avars
               PROVE  RegInv'
    OBVIOUS
  <2>1. ASSUME NEW code, WellFormed(code), StartAllocation(code)
        PROVE  RegInv'
    BY <2>1, StartKeeps
  <2>2. ASSUME NEW r \in Reg, EvictForSource(r) \/ UnspillSource(r)
        PROVE  RegInv'
    BY <2>2, EvictForSourceKeeps, UnspillSourceKeeps
  <2>3. ASSUME NEW b \in Reg, EvictForResults(b) \/ Acquire(b)
        PROVE  RegInv'
    BY <2>3, EvictForResultsKeeps, AcquireKeeps
  <2>4. CASE Evict
    BY <2>4, EvictKeeps
  <2>5. CASE RetireRegisters
    BY <2>5, RetireRegistersKeeps
  <2>6. CASE Allocated
    BY <2>6, AllocatedKeeps
  <2>7. CASE EmitSpill
    BY <2>7, EmitSpillKeeps
  <2>8. CASE EmitUnspill
    BY <2>8, EmitUnspillKeeps
  <2>9. CASE EmitPart
    BY <2>9, EmitPartKeeps
  <2>10. CASE Stabilize
    BY <2>10, StabilizeKeeps
  <2>11. CASE UNCHANGED avars
    <3>1. UNCHANGED <<input, point, phase, todo, victims, regs, map, heap, spills, unspills, file, cells, delivered>>
      BY <2>11 DEF avars, machine
    <3>2. RegType' /\ Unstarted'
      BY <3>1 DEF RegInv, RegType, Unstarted
    <3>3. MapsAgree' /\ Ages'
      BY <3>1 DEF RegInv, MapsAgree, Ages, Holding, RetiresAt, Uses, Ops
    <3>4. Stages'
      BY <3>1 DEF RegInv, Stages, IsBatch, Operation
    <3>5. ResultsPlaced'
      BY <3>1 DEF RegInv, ResultsPlaced, Placed, Base, Operation
    <3>6. SpillsRight' /\ UnspillsRight'
      BY <3>1 DEF RegInv, SpillsRight, UnspillsRight, Holding
    <3>7. FileRight'
      BY <3>1 DEF RegInv, FileRight, Holding
    <3>8. DeliveredRight'
      BY <3>1 DEF RegInv, DeliveredRight, Stored, SlotOf, Block
    <3> QED
      BY <3>2, <3>3, <3>4, <3>5, <3>6, <3>7, <3>8 DEF RegInv
  <2> QED
    BY <2>1, <2>2, <2>3, <2>4, <2>5, <2>6, <2>7, <2>8, <2>9, <2>10, <2>11 DEF Allocate, AllocateNext
<1> QED
  BY <1>1, <1>2, PTL DEF AllocateSpec

(* Between operations, a live value is where the map says, in the register *)
(* file or the heap, and the map and the register file agree               *)
(* (allocator.rs, register_file.rs, value_map.rs).                         *)
THEOREM AllocatorKeepsLiveValues == AllocateSpec => []LiveValuesKept
<1>1. RegInv => LiveValuesKept
  <2> SUFFICES ASSUME RegInv, phase = "sources", spills = << >>, unspills = << >>, victims = << >>
               PROVE  /\ \A r \in Reg : regs[r].st # "Empty" => map[regs[r].val] = Registered(r)
                      /\ \A v \in DOMAIN map :
                           /\ map[v].st = "Registered" => regs[map[v].at].val = v /\ file[map[v].at] = v
                           /\ map[v].st = "Spilled" => cells[map[v].at] = v
                           /\ v[1] < point /\ (\E u \in Uses(v) : u >= point) => map[v].st \in {"Registered", "Spilled"}
    BY DEF LiveValuesKept
  <2>1. DOMAIN map = ValuesOf(input) /\ \A v \in ValuesOf(input) : map[v].st \in {"Unseen", "Registered", "Spilled", "Retired"}
    BY DEF RegInv, RegType
  <2>2. \A r \in Reg : regs[r].st # "Empty" => map[regs[r].val] = Registered(r)
    BY DEF RegInv, MapsAgree
  <2>3. ASSUME NEW v \in ValuesOf(input), map[v].st = "Registered"
        PROVE  regs[map[v].at].val = v /\ file[map[v].at] = v
    <3>1. map[v].at \in Reg /\ regs[map[v].at].st \in {"Storing", "Unspilled"} /\ regs[map[v].at].val = v
      BY <2>3 DEF RegInv, MapsAgree, Stages, Holding
    <3>2. Holding(map[v].at, v)
      BY <3>1 DEF Holding
    <3> QED
      BY <3>1, <3>2 DEF RegInv, FileRight
  <2>4. ASSUME NEW v \in ValuesOf(input), map[v].st = "Spilled"
        PROVE  cells[map[v].at] = v
    BY <2>4 DEF RegInv, MapsAgree, SpillsRight
  <2>5. ASSUME NEW v \in ValuesOf(input), v[1] < point, NEW u \in Uses(v), u >= point
        PROVE  map[v].st \in {"Registered", "Spilled"}
    <3>1. point \in Nat /\ v[1] \in Nat /\ u \in Nat
      <4>1. WellFormed(input) /\ point \in Nat
        BY DEF RegInv, RegType
      <4>2. \A n \in Ops(input) : n \in Nat
        <5>1. input \in Seq(Range(input))
          BY <4>1 DEF WellFormed
        <5> QED
          BY <5>1 DEF Ops
      <4> QED
        BY <4>1, <4>2, Values DEF Uses
    <3>2. map[v].st # "Unseen" /\ map[v].st # "Retired"
      BY <2>5, <3>1 DEF RegInv, Ages
    <3> QED
      BY <2>1, <3>2
  <2> QED
    BY <2>1, <2>2, <2>3, <2>4, <2>5
<1> QED
  BY <1>1, AllocatorInvariant, PTL

(* Every word of the program reads the registers that hold its operands at *)
(* run time (translation.rs, dop.rs).                                      *)
THEOREM AllocatorReadsRight == AllocateSpec => []ReadsRight
<1>1. RegInv => ReadsRight
  <2> SUFFICES ASSUME RegInv, AtPart
               PROVE  LET operands == Operands(input, point, Head(todo))
                          reads == ReadRegs(Head(WordsOf(point, Head(todo))))
                      IN  \A i \in DOMAIN operands : file[reads[i]] = operands[i]
    BY DEF ReadsRight
  <2> QED
    BY WordsOfPart, ArgumentAt
<1> QED
  BY <1>1, AllocatorInvariant, PTL

(* The stores of a compiled program leave the stored values at their       *)
(* destinations, each at its own, and nowhere else.                        *)
THEOREM AllocatorDelivers == AllocateSpec => []StoresDelivered
<1>1. RegInv => StoresDelivered
  <2> SUFFICES ASSUME RegInv, phase = "done"
               PROVE  LET stores == {o \in Ops(input) : input[o].kind = "st"}
                      IN  /\ DOMAIN delivered = {SlotOf(o) : o \in stores}
                          /\ \A o \in stores : delivered[SlotOf(o)] = input[o].args[1]
                          /\ \A o, p \in stores : SlotOf(o) = SlotOf(p) => o = p
    BY DEF StoresDelivered
  <2> DEFINE stores == {o \in Ops(input) : input[o].kind = "st"}
  <2>1. WellFormed(input)
    BY DEF RegInv, RegType
  <2>2. \A o \in Ops(input) : o < point
    <3>1. Ops(input) = 1 .. Len(input) /\ Len(input) \in Nat
      <4>1. input \in Seq(Range(input))
        BY <2>1 DEF WellFormed
      <4> QED
        BY <4>1 DEF Ops
    <3>2. CASE input = << >>
      BY <3>2, NothingWritten
    <3>3. CASE input # << >>
      BY <3>1, <3>3 DEF RegInv, RegType
    <3> QED
      BY <3>2, <3>3
  <2>3. Stored = stores
    BY <2>2 DEF Stored
  <2>4. \A o, p \in stores : SlotOf(o) = SlotOf(p) => o = p
    BY <2>1, PlacesDiffer
  <2> QED
    BY <2>3, <2>4 DEF RegInv, DeliveredRight
<1> QED
  BY <1>1, AllocatorInvariant, PTL

-----------------------------------------------------------------------------
(* Going on.                                                               *)

(* No value has two slots.                                                 *)
HeapOnce == IsInjective(heap)

(* What is picked for eviction is not needed now, and picked once.         *)
VictimsIdle == IsInjective(victims) /\ \A r \in Range(victims) : Idle(r)

(* The spilled arguments of an operation are those still to be brought     *)
(* back, each once; only arguments have been brought back.                 *)
ArgumentsWait ==
  /\ phase = "sources" =>
       /\ IsInjective(todo) /\ Range(todo) \subseteq Range(Operation.args)
       /\ \A v \in Range(Operation.args) : map[v].st = "Spilled" => v \in Range(todo)
       /\ \A v \in Range(todo) : map[v].st = "Spilled"
  /\ phase = "results" => \A v \in Range(Operation.args) : map[v].st = "Registered"
  /\ phase \in {"sources", "results"} =>
       \A r \in Reg : regs[r].st = "Unspilled" => regs[r].val \in Range(Operation.args)

(* A part that waits for its registers has none.                           *)
ResultsWait ==
  phase = "results" =>
    /\ IsInjective(todo)
    /\ \A j \in Range(todo) : \A v \in Range(Targets(input, point, j)) : map[v].st = "Unseen"

Unstuck == HeapOnce /\ VictimsIdle /\ ArgumentsWait /\ ResultsWait

(* What an operation reads was defined before, and is somewhere.           *)
LEMMA ArgumentKnown ==
  ASSUME RegInv, point \in Ops(input), NEW v \in Range(Operation.args)
  PROVE  /\ v \in ValuesOf(input) /\ v[1] < point /\ point \in Uses(v)
         /\ map[v].st \in {"Registered", "Spilled"}
<1>1. WellFormed(input) /\ point \in Nat
  BY DEF RegInv, RegType
<1>2. v \in ValuesOf(input) /\ v[1] < point
  BY <1>1, Arguments DEF Operation
<1>3. v[1] \in Nat
  BY <1>1, <1>2, Values
<1>4. point \in Uses(v)
  BY DEF Uses, Operation
<1>5. map[v].st \in {"Unseen", "Registered", "Spilled", "Retired"}
  BY <1>2 DEF RegInv, RegType
<1>6. map[v].st # "Unseen"
  BY <1>1, <1>2, <1>3 DEF RegInv, Ages
<1>7. map[v].st # "Retired"
  BY <1>1, <1>2, <1>4 DEF RegInv, Ages
<1> QED
  BY <1>2, <1>4, <1>5, <1>6, <1>7

(* A register that is settled and not idle holds an argument.              *)
LEMMA BusyHoldsArgument ==
  ASSUME RegInv, NEW r \in Reg, regs[r].st = "Storing", ~ Idle(r)
  PROVE  regs[r].val \in Range(Operation.args)
<1>1. regs[r].val[1] < point /\ regs[r].val \in ValuesOf(input) /\ WellFormed(input) /\ point \in Nat
  BY DEF RegInv, MapsAgree, Ages, RegType
<1>2. regs[r].val[1] \in Nat
  BY <1>1, Values
<1>3. point \in Uses(regs[r].val)
  BY DEF Idle, UsedAt
<1> QED
  BY <1>1, <1>2, <1>3 DEF Uses, Operation

(* What retires now is read now: it has a reader, and that comes later     *)
(* than its definition.                                                    *)
LEMMA RetiringIsArgument ==
  ASSUME RegInv, Regular, NEW v \in ValuesOf(input), RetiresAt(v, point)
  PROVE  v \in Range(Operation.args) /\ point \in Ops(input)
<1>1. WellFormed(input) /\ point \in Nat
  BY DEF RegInv, RegType
<1>2. v[1] \in Nat /\ v[1] \in Ops(input)
  BY <1>1, Values
<1>3. Uses(v) # {v[1]}
  BY DEF Regular
<1>4. point \in Uses(v) /\ \A u \in Uses(v) : u <= point
  BY <1>3 DEF RetiresAt
<1>5. PICK u \in Ops(input) : v \in Range(input[u].args)
  BY <1>3 DEF Uses
<1>6. v[1] < u /\ u \in Uses(v) /\ u \in Nat
  <2>1. input \in Seq(Range(input))
    BY <1>1 DEF WellFormed
  <2>2. u \in Nat
    BY <2>1 DEF Ops
  <2>3. v[1] < u
    BY <1>1, <1>5, Arguments
  <2> QED
    BY <1>5, <2>2, <2>3 DEF Uses
<1>7. point # v[1]
  BY <1>1, <1>2, <1>4, <1>6
<1> QED
  BY <1>4, <1>7 DEF Uses, Operation

(* What is still to be defined is unseen.                                  *)
LEMMA UndefinedIsUnseen ==
  ASSUME RegInv, phase = "sources", NEW v \in ValuesOf(input), v[1] = point
  PROVE  map[v].st = "Unseen"
<1>1. WellFormed(input) /\ point \in Nat
  BY DEF RegInv, RegType
<1>2. map[v].st \in {"Unseen", "Registered", "Spilled", "Retired"}
  BY DEF RegInv, RegType
<1>3. map[v].st # "Spilled" /\ map[v].st # "Retired"
  BY <1>1 DEF RegInv, Ages, Uses
<1>4. ASSUME map[v].st = "Registered" PROVE FALSE
  <2> DEFINE r == map[v].at
  <2>1. r \in Reg /\ regs[r].st # "Empty" /\ (Holding(r, v) \/ regs[r].val = v)
    BY <1>4 DEF RegInv, MapsAgree
  <2>2. regs[r].st \in {"Storing", "Unspilled"}
    BY <2>1 DEF RegInv, Stages
  <2>3. regs[r].val = v /\ regs[r].val[1] < point
    BY <2>1, <2>2 DEF RegInv, Ages, Holding
  <2> QED
    BY <1>1, <2>3
<1> QED
  BY <1>2, <1>3, <1>4

-----------------------------------------------------------------------------
(* The actions, one by one.                                                *)

(* What Idle depends on.                                                   *)
LEMMA IdleKept ==
  ASSUME UNCHANGED <<input, point>>, NEW r \in Reg, regs'[r] = regs[r]
  PROVE  Idle(r)' <=> Idle(r)
BY DEF Idle, UsedAt, Uses, Ops

(* A register picked for a source is idle.                                 *)
LEMMA EvictForSourceUnstuck ==
  ASSUME RegInv, Unstuck, NEW r \in Reg, EvictForSource(r)
  PROVE  Unstuck'
<1>1. VictimsIdle'
  <2>1. victims' = <<r>> /\ Idle(r) /\ UNCHANGED <<input, point, regs>>
    BY DEF EvictForSource
  <2>2. IsInjective(<<r>>) /\ Range(<<r>>) = {r}
    BY DEF IsInjective, Range
  <2>3. Idle(r)'
    BY <2>1, IdleKept
  <2> QED
    BY <2>1, <2>2, <2>3 DEF VictimsIdle
<1>2. HeapOnce' /\ ArgumentsWait' /\ ResultsWait'
  BY DEF EvictForSource, Unstuck, HeapOnce, ArgumentsWait, ResultsWait, Operation
<1> QED
  BY <1>1, <1>2 DEF Unstuck

(* The registers picked for results are idle, each picked once.            *)
LEMMA EvictForResultsUnstuck ==
  ASSUME RegInv, Unstuck, NEW b \in Reg, EvictForResults(b)
  PROVE  Unstuck'
<1> DEFINE S == {r \in RangeAt(b) : regs[r].st # "Empty"}
<1>1. /\ phase = "results" /\ todo # << >> /\ point \in Ops(input) /\ WellFormed(input)
      /\ todo \in Seq(Parts(input, point)) /\ Operation.kind # "st"
  BY DEF EvictForResults, RegInv, RegType, Stages
<1>2. /\ ~ \E c \in Reg : Receivable(c)
      /\ MayClear(b) /\ victims' = Ascending(S)
      /\ UNCHANGED <<input, point, regs>>
  BY DEF EvictForResults
<1>3. IsRange(b) /\ RangeAt(b) \subseteq Reg /\ \A r \in RangeAt(b) : MayReceive(r) \/ Idle(r)
  BY <1>2 DEF MayClear, IsRange
<1>4. ASSUME NEW r \in S PROVE Idle(r) /\ r \in Reg
  <2>1. r \in RangeAt(b) /\ r \in Reg /\ regs[r].st # "Empty"
    BY <1>3
  <2>2. CASE IsBatch
    BY <1>3, <2>1, <2>2 DEF MayReceive
  <2>3. CASE ~ IsBatch
    <3>1. Head(todo) \in Parts(input, point)
      BY <1>1, HeadAndTail
    <3>2. Wanted = <<<<point, 1>>>>
      BY <1>1, <2>3, <3>1, TargetsOfPart DEF Wanted, IsBatch, Operation
    <3>3. Len(Wanted) = 1
      BY <3>2
    <3>4. RangeAt(b) = {b}
      <4>1. b \in Nat
        BY Registers
      <4> QED
        BY <3>3, <4>1 DEF RangeAt
    <3>5. ~ MayReceive(b)
      BY <1>2, <1>3, <3>4 DEF Receivable
    <3> QED
      BY <1>3, <2>1, <3>4, <3>5
  <2> QED
    BY <2>2, <2>3
<1>5. Lists(victims', S)
  <2>1. Reg \subseteq Nat /\ IsFiniteSet(Reg)
    <3>1. NRegs \in Nat
      BY NRegsAssumption
    <3> QED
      BY <3>1, FS_Interval DEF Reg
  <2>2. S \subseteq Reg
    BY <1>4
  <2> HIDE DEF S
  <2>3. IsFiniteSet(S) /\ \A x \in S : x \in Nat
    BY <2>1, <2>2, FS_Subset
  <2> QED
    BY <1>2, <2>3, AscendingOnce
<1> HIDE DEF S
<1>6. VictimsIdle'
  <2>1. Range(victims') = S /\ IsInjective(victims')
    BY <1>5, ListFacts DEF Lists, IsInjective
  <2>2. \A r \in S : Idle(r)'
    BY <1>2, <1>4, IdleKept
  <2> QED
    BY <2>1, <2>2 DEF VictimsIdle
<1>7. HeapOnce' /\ ArgumentsWait' /\ ResultsWait'
  BY DEF EvictForResults, Unstuck, HeapOnce, ArgumentsWait, ResultsWait, Operation
<1> QED
  BY <1>6, <1>7 DEF Unstuck

(* An idle register holds no argument: its value may leave it, for a slot  *)
(* that nothing else has.                                                  *)
LEMMA EvictUnstuck ==
  ASSUME RegInv, Unstuck, Evict
  PROVE  Unstuck'
<1> DEFINE r == Head(victims)
           v == regs[r].val
<1>1. /\ victims # << >> /\ phase \in {"sources", "results"} /\ point \in Ops(input) /\ WellFormed(input)
      /\ victims \in Seq(Reg) /\ heap \in Seq(ValuesOf(input)) /\ point \in Nat
  BY DEF Evict, RegInv, RegType
<1>2. /\ r \in Reg /\ r \in Range(victims) /\ Tail(victims) \in Seq(Reg)
      /\ Range(Tail(victims)) \subseteq Range(victims)
      /\ \A i \in DOMAIN Tail(victims) : i + 1 \in DOMAIN victims /\ Tail(victims)[i] = victims[i + 1]
      /\ 1 \in DOMAIN victims /\ victims[1] = r
  BY <1>1, HeadAndTail
<1>3. Idle(r) /\ regs[r].st = "Storing" /\ v \in ValuesOf(input)
  BY <1>2 DEF Unstuck, VictimsIdle, Idle, RegInv, MapsAgree
<1>4. /\ regs' = [regs EXCEPT ![r] = EmptyReg]
      /\ \E s : map' = [map EXCEPT ![v] = Spilled(s)]
      /\ heap' = IF v \in Range(heap) THEN heap ELSE Append(heap, v)
      /\ victims' = Tail(victims)
      /\ UNCHANGED <<input, point, phase, todo>>
  BY DEF Evict
<1>5. point \notin Uses(v)
  BY <1>3 DEF Idle, UsedAt
<1>6. v \notin Range(Operation.args) /\ v[1] # point
  BY <1>1, <1>5 DEF Uses, Operation
<1> HIDE DEF r, v
<1>7. /\ \A q \in Reg : q # r => regs'[q] = regs[q]
      /\ regs'[r].st = "Empty"
      /\ \A w \in ValuesOf(input) : w # v => map'[w] = map[w]
  <2>1. regs \in [Reg -> [st : {"Empty", "Storing", "Unspilled", "Fresh", "Retiring", "Transitioning"},
                     val : ValuesOf(input) \cup {None}, old : ValuesOf(input) \cup {None}]]
        /\ map \in [ValuesOf(input) -> [st : {"Unseen", "Registered", "Spilled", "Retired"}, at : Nat]]
    BY DEF RegInv, RegType
  <2> QED
    BY <1>2, <1>3, <1>4, <2>1, EmptyRegIs
<1>8. HeapOnce'
  <2>1. IsInjective(heap)
    BY DEF Unstuck, HeapOnce
  <2>2. CASE v \in Range(heap)
    BY <1>4, <2>1, <2>2 DEF HeapOnce
  <2>3. CASE v \notin Range(heap)
    <3>1. heap' = Append(heap, v)
      BY <1>4, <2>3
    <3>2. \A i \in DOMAIN heap : heap[i] # v
      BY <2>3 DEF Range
    <3>3. /\ \A i \in DOMAIN heap : heap'[i] = heap[i]
          /\ heap'[Len(heap) + 1] = v
          /\ \A i \in DOMAIN heap' : i \in DOMAIN heap \/ i = Len(heap) + 1
      BY <1>1, <1>3, <3>1, Appending
    <3> QED
      BY <2>1, <3>2, <3>3 DEF HeapOnce, IsInjective
  <2> QED
    BY <2>2, <2>3
<1>9. VictimsIdle'
  <2>1. IsInjective(victims) /\ \A q \in Range(victims) : Idle(q)
    BY DEF Unstuck, VictimsIdle
  <2>2. IsInjective(victims')
    <3>1. ASSUME NEW x \in DOMAIN Tail(victims), NEW y \in DOMAIN Tail(victims), Tail(victims)[x] = Tail(victims)[y]
          PROVE  x = y
      <4>1. victims[x + 1] = victims[y + 1] /\ x + 1 \in DOMAIN victims /\ y + 1 \in DOMAIN victims
        BY <1>2, <3>1
      <4>2. x + 1 = y + 1 /\ x \in Nat /\ y \in Nat
        BY <1>2, <2>1, <4>1 DEF IsInjective
      <4> QED
        BY <4>2
    <3> QED
      BY <1>4, <3>1 DEF IsInjective
  <2>3. ASSUME NEW q \in Range(victims') PROVE Idle(q)'
    <3>1. PICK i \in DOMAIN Tail(victims) : Tail(victims)[i] = q
      BY <1>4, <2>3 DEF Range
    <3>2. i + 1 \in DOMAIN victims /\ victims[i + 1] = q /\ i \in Nat /\ i # 0
      BY <1>2, <3>1
    <3>3. q # r
      BY <1>2, <2>1, <3>2 DEF IsInjective
    <3>4. q \in Range(victims) /\ q \in Reg
      BY <1>1, <3>2 DEF Range
    <3>5. regs'[q] = regs[q]
      BY <1>7, <3>3, <3>4
    <3> QED
      BY <1>4, <2>1, <3>4, <3>5, IdleKept
  <2> QED
    BY <2>2, <2>3 DEF VictimsIdle
<1>10. ArgumentsWait'
  <2>1. \A w \in Range(Operation.args) : map'[w] = map[w]
    <3> TAKE w \in Range(Operation.args)
    <3>1. w \in ValuesOf(input) /\ w # v
      BY <1>1, <1>6, ArgumentKnown
    <3> QED
      BY <1>7, <3>1
  <2>2. \A q \in Reg : regs'[q].st = "Unspilled" => regs[q].st = "Unspilled" /\ regs'[q].val = regs[q].val
    BY <1>7
  <2>3. Operation' = Operation
    BY <1>4 DEF Operation
  <2> QED
    BY <1>1, <1>4, <2>1, <2>2, <2>3 DEF Unstuck, ArgumentsWait
<1>11. ResultsWait'
  <2> SUFFICES ASSUME phase = "results"
               PROVE  /\ IsInjective(todo)
                      /\ \A j \in Range(todo) : \A w \in Range(Targets(input, point, j)) : map'[w].st = "Unseen"
    BY <1>4 DEF ResultsWait
  <2>1. /\ IsInjective(todo)
        /\ \A j \in Range(todo) : \A w \in Range(Targets(input, point, j)) : map[w].st = "Unseen"
    BY DEF Unstuck, ResultsWait
  <2>2. ASSUME NEW j \in Range(todo), NEW w \in Range(Targets(input, point, j)) PROVE map'[w] = map[w]
    <3>1. j \in Parts(input, point) /\ Operation.kind # "st"
      BY DEF RegInv, RegType, Stages, Range
    <3>2. w \in ValuesOf(input) /\ w[1] = point
      <4>1. Targets(input, point, j) \in Seq(ValuesOf(input)) /\ \A x \in Range(Targets(input, point, j)) : x[1] = point
        BY <1>1, <3>1, TargetsOfPart DEF Operation
      <4> QED
        BY <4>1 DEF Range
    <3> QED
      BY <1>6, <1>7, <3>2
  <2> QED
    BY <2>1, <2>2
<1> QED
  BY <1>8, <1>9, <1>10, <1>11 DEF Unstuck

(* A source that is back no longer waits.                                  *)
LEMMA UnspillSourceUnstuck ==
  ASSUME RegInv, Unstuck, NEW r \in Reg, UnspillSource(r)
  PROVE  Unstuck'
<1> DEFINE v == Head(todo)
<1>1. /\ phase = "sources" /\ todo # << >> /\ victims = << >> /\ point \in Ops(input) /\ WellFormed(input)
      /\ todo \in Seq(ValuesOf(input))
  BY DEF UnspillSource, RegInv, RegType
<1>2. /\ regs' = [regs EXCEPT ![r] = Holds("Unspilled", v)]
      /\ map' = [map EXCEPT ![v] = Registered(r)]
      /\ todo' = Tail(todo)
      /\ UNCHANGED <<input, point, phase, victims, heap>>
  BY DEF UnspillSource
<1>3. /\ v \in ValuesOf(input) /\ v \in Range(todo) /\ Range(Tail(todo)) \subseteq Range(todo)
      /\ \A i \in DOMAIN Tail(todo) : i + 1 \in DOMAIN todo /\ Tail(todo)[i] = todo[i + 1]
      /\ \A x \in Range(todo) : x = v \/ x \in Range(Tail(todo))
      /\ 1 \in DOMAIN todo /\ todo[1] = v /\ Tail(todo) \in Seq(ValuesOf(input))
  BY <1>1, HeadAndTail
<1>4. /\ IsInjective(todo) /\ Range(todo) \subseteq Range(Operation.args)
      /\ \A w \in Range(Operation.args) : map[w].st = "Spilled" => w \in Range(todo)
      /\ \A w \in Range(todo) : map[w].st = "Spilled"
      /\ \A q \in Reg : regs[q].st = "Unspilled" => regs[q].val \in Range(Operation.args)
  BY <1>1 DEF Unstuck, ArgumentsWait
<1>5. IsInjective(Tail(todo)) /\ v \notin Range(Tail(todo))
  <2>1. \A i \in DOMAIN Tail(todo) : i \in Nat \ {0}
    BY <1>3
  <2>2. ASSUME NEW x \in DOMAIN Tail(todo), NEW y \in DOMAIN Tail(todo), Tail(todo)[x] = Tail(todo)[y]
        PROVE  x = y
    <3>1. x + 1 = y + 1
      BY <1>3, <1>4, <2>2 DEF IsInjective
    <3> QED
      BY <2>1, <3>1
  <2>3. ASSUME NEW x \in DOMAIN Tail(todo), Tail(todo)[x] = v PROVE FALSE
    <3>1. x + 1 = 1
      BY <1>3, <1>4, <2>3 DEF IsInjective
    <3> QED
      BY <2>1, <3>1
  <2> QED
    BY <2>2, <2>3 DEF IsInjective, Range
<1> HIDE DEF v
<1>6. /\ \A q \in Reg : q # r => regs'[q] = regs[q]
      /\ regs'[r].val = v
      /\ \A w \in ValuesOf(input) : w # v => map'[w] = map[w]
      /\ map'[v].st = "Registered"
  BY <1>2, <1>3, RegisteredIs DEF RegInv, RegType, Holds
<1>7. ArgumentsWait'
  <2>1. \A w \in Range(Operation.args) : w \in ValuesOf(input)
    BY <1>1, ArgumentKnown
  <2>2. Operation' = Operation
    BY <1>2 DEF Operation
  <2>3. \A w \in Range(Operation.args) : map'[w].st = "Spilled" => w \in Range(Tail(todo))
    BY <1>3, <1>4, <1>6, <2>1
  <2>4. \A w \in Range(Tail(todo)) : map'[w].st = "Spilled"
    BY <1>3, <1>4, <1>5, <1>6, <2>1
  <2>5. \A q \in Reg : regs'[q].st = "Unspilled" => regs'[q].val \in Range(Operation.args)
    BY <1>3, <1>4, <1>6
  <2>6. Range(Tail(todo)) \subseteq Range(Operation.args)
    BY <1>3, <1>4
  <2> QED
    BY <1>1, <1>2, <1>5, <2>2, <2>3, <2>4, <2>5, <2>6 DEF ArgumentsWait
<1>8. HeapOnce' /\ VictimsIdle' /\ ResultsWait'
  <2>1. HeapOnce'
    BY <1>2 DEF Unstuck, HeapOnce
  <2>2. VictimsIdle'
    BY <1>1, <1>2 DEF VictimsIdle, IsInjective, Range
  <2> QED
    BY <1>1, <1>2, <2>1, <2>2 DEF ResultsWait
<1> QED
  BY <1>7, <1>8 DEF Unstuck

(* Once every source is back, the results wait for their registers.        *)
LEMMA RetireRegistersUnstuck ==
  ASSUME RegInv, Unstuck, RetireRegisters
  PROVE  Unstuck'
<1>1. /\ phase = "sources" /\ todo = << >> /\ point \in Ops(input) /\ victims = << >> /\ WellFormed(input)
  BY DEF RetireRegisters, RegInv, RegType
<1>2. /\ regs' = [r \in Reg |->
           IF \E v \in Retiring : map[v].at = r THEN Holds("Retiring", regs[r].val) ELSE regs[r]]
      /\ phase' = "results"
      /\ todo' = IF Operation.kind = "st" THEN << >> ELSE Ascending(Parts(input, point))
      /\ UNCHANGED <<input, point, victims, map, heap>>
  BY DEF RetireRegisters
<1>3. ArgumentsWait'
  <2>1. \A v \in Range(Operation.args) : map[v].st # "Spilled"
    BY <1>1 DEF Unstuck, ArgumentsWait, Range
  <2>2. \A v \in Range(Operation.args) : map[v].st = "Registered"
    BY <1>1, <2>1, ArgumentKnown
  <2>3. \A r \in Reg : regs'[r].st = "Unspilled" => regs'[r] = regs[r]
    BY <1>2 DEF Holds
  <2>4. \A r \in Reg : regs[r].st = "Unspilled" => regs[r].val \in Range(Operation.args)
    BY <1>1 DEF Unstuck, ArgumentsWait
  <2>5. Operation' = Operation
    BY <1>2 DEF Operation
  <2> QED
    BY <1>2, <2>2, <2>3, <2>4, <2>5 DEF ArgumentsWait
<1>4. ResultsWait'
  <2>1. (\A j \in Parts(input, point) : j \in Nat) /\ IsFiniteSet(Parts(input, point))
    BY <1>1, PartsOfOne
  <2>2. Lists(Ascending(Parts(input, point)), Parts(input, point))
    BY <2>1, AscendingOnce
  <2>3. /\ IsInjective(Ascending(Parts(input, point)))
        /\ Range(Ascending(Parts(input, point))) = Parts(input, point)
    BY <2>2, ListFacts DEF Lists, IsInjective
  <2>4. IsInjective(<< >>) /\ Range(<< >>) = {}
    BY DEF IsInjective, Range
  <2>5. IsInjective(todo') /\ (Operation.kind = "st" => Range(todo') = {}) /\ Range(todo') \subseteq Parts(input, point)
    BY <1>2, <2>3, <2>4
  <2>6. ASSUME Operation.kind # "st", NEW j \in Parts(input, point), NEW v \in Range(Targets(input, point, j))
        PROVE  map[v].st = "Unseen"
    <3>1. Targets(input, point, j) \in Seq(ValuesOf(input)) /\ v[1] = point
      BY <1>1, <2>6, TargetsOfPart DEF Operation
    <3>2. v \in ValuesOf(input)
      BY <3>1 DEF Range
    <3> QED
      BY <1>1, <3>1, <3>2, UndefinedIsUnseen
  <2>7. \A j \in Range(todo') : \A v \in Range(Targets(input, point, j)) : map[v].st = "Unseen"
    BY <2>5, <2>6
  <2> QED
    BY <1>2, <2>5, <2>7 DEF ResultsWait
<1>5. HeapOnce' /\ VictimsIdle'
  BY <1>1, <1>2 DEF Unstuck, HeapOnce, VictimsIdle, IsInjective, Range
<1> QED
  BY <1>3, <1>4, <1>5 DEF Unstuck

(* Different parts of an operation write different results.                *)
LEMMA TargetsApart ==
  ASSUME NEW code, WellFormed(code), NEW n \in Ops(code), code[n].kind # "st",
         NEW i \in Parts(code, n), NEW j \in Parts(code, n),
         NEW v \in Range(Targets(code, n, i)), v \in Range(Targets(code, n, j))
  PROVE  i = j
<1>1. CASE code[n].kind = "batch"
  <2> DEFINE body == code[n].body
  <2>1. WrittenOnce(code[n]) /\ i \in DOMAIN body /\ j \in DOMAIN body
    BY <1>1 DEF WellFormed, Parts
  <2>2. /\ Targets(code, n, i) = [k \in DOMAIN body[i].rets |-> <<n, body[i].rets[k]>>]
        /\ Targets(code, n, j) = [k \in DOMAIN body[j].rets |-> <<n, body[j].rets[k]>>]
    BY <1>1 DEF Targets
  <2>3. PICK x \in DOMAIN body[i].rets : v = <<n, body[i].rets[x]>>
    BY <2>2 DEF Range
  <2>4. PICK y \in DOMAIN body[j].rets : v = <<n, body[j].rets[y]>>
    BY <2>2 DEF Range
  <2>5. body[i].rets[x] = body[j].rets[y]
    BY <2>3, <2>4
  <2>6. body[i].rets[x] \in 1 .. code[n].nret
    BY <1>1, <2>3, PartOfBatch DEF IsMember
  <2>7. body[i].rets[x] \in Range(body[i].rets) /\ body[i].rets[x] \in Range(body[j].rets)
    BY <2>3, <2>4, <2>5 DEF Range
  <2> QED
    BY <2>1, <2>6, <2>7 DEF WrittenOnce
<1>2. CASE code[n].kind # "batch"
  BY <1>2, PartsOfOne
<1> QED
  BY <1>1, <1>2

(* And together they write all of them.                                    *)
LEMMA TargetsCover ==
  ASSUME NEW code, WellFormed(code), NEW n \in Ops(code), code[n].kind \notin {"st", "imm"},
         NEW v \in Range(Results(code, n))
  PROVE  \E j \in Parts(code, n) : v \in Range(Targets(code, n, j))
<1>1. PICK r \in 1 .. code[n].nret : v = <<n, r>>
  BY DEF Range, Results
<1>2. CASE code[n].kind = "batch"
  <2> DEFINE body == code[n].body
  <2>1. PICK j \in DOMAIN body : r \in Range(body[j].rets)
    BY <1>2 DEF WellFormed, WrittenOnce
  <2>2. PICK k \in DOMAIN body[j].rets : body[j].rets[k] = r
    BY <2>1 DEF Range
  <2>3. j \in Parts(code, n)
    BY <1>2 DEF Parts
  <2>4. Targets(code, n, j) = [x \in DOMAIN body[j].rets |-> <<n, body[j].rets[x]>>]
    BY <1>2 DEF Targets
  <2>5. v \in Range(Targets(code, n, j))
    BY <1>1, <2>2, <2>4 DEF Range
  <2> QED
    BY <2>3, <2>5
<1>3. CASE code[n].kind # "batch"
  <2>1. Parts(code, n) = {1}
    BY <1>3, PartsOfOne
  <2>2. Targets(code, n, 1) = Results(code, n)
    BY <1>3 DEF Targets
  <2> QED
    BY <2>1, <2>2
<1> QED
  BY <1>2, <1>3

(* The part that gets its registers no longer waits.                       *)
LEMMA AcquireUnstuck ==
  ASSUME RegInv, Unstuck, NEW b \in Reg, Acquire(b)
  PROVE  Unstuck'
<1> DEFINE j == Head(todo)
<1>1. /\ phase = "results" /\ todo # << >> /\ point \in Ops(input) /\ victims = << >> /\ WellFormed(input)
      /\ todo \in Seq(Parts(input, point)) /\ Operation.kind # "st"
  BY DEF Acquire, RegInv, RegType, Stages
<1>2. /\ regs' = [r \in Reg |->
           IF r \notin RangeAt(b) THEN regs[r]
           ELSE IF regs[r].st = "Empty" THEN Holds("Fresh", Wanted[r - b + 1])
           ELSE [st |-> "Transitioning", val |-> Wanted[r - b + 1], old |-> regs[r].val]]
      /\ map' = [v \in DOMAIN map |->
           IF v \in Range(Wanted) THEN Registered(b + Position(Wanted, v) - 1) ELSE map[v]]
      /\ todo' = Tail(todo)
      /\ UNCHANGED <<input, point, phase, victims, heap>>
  BY DEF Acquire
<1>3. /\ j \in Parts(input, point) /\ j \in Range(todo) /\ Range(Tail(todo)) \subseteq Range(todo)
      /\ \A i \in DOMAIN Tail(todo) : i + 1 \in DOMAIN todo /\ Tail(todo)[i] = todo[i + 1]
      /\ 1 \in DOMAIN todo /\ todo[1] = j /\ Tail(todo) \in Seq(Parts(input, point))
  BY <1>1, HeadAndTail
<1>4. IsInjective(todo) /\ \A i \in Range(todo) : \A v \in Range(Targets(input, point, i)) : map[v].st = "Unseen"
  BY <1>1 DEF Unstuck, ResultsWait
<1>5. IsInjective(Tail(todo)) /\ j \notin Range(Tail(todo))
  <2>1. \A i \in DOMAIN Tail(todo) : i \in Nat \ {0}
    BY <1>3
  <2>2. ASSUME NEW x \in DOMAIN Tail(todo), NEW y \in DOMAIN Tail(todo), Tail(todo)[x] = Tail(todo)[y]
        PROVE  x = y
    <3>1. x + 1 = y + 1
      BY <1>3, <1>4, <2>2 DEF IsInjective
    <3> QED
      BY <2>1, <3>1
  <2>3. ASSUME NEW x \in DOMAIN Tail(todo), Tail(todo)[x] = j PROVE FALSE
    <3>1. x + 1 = 1
      BY <1>3, <1>4, <2>3 DEF IsInjective
    <3> QED
      BY <2>1, <3>1
  <2> QED
    BY <2>2, <2>3 DEF IsInjective, Range
<1>6. Wanted = Targets(input, point, j)
  BY DEF Wanted
<1>7. \A v \in Range(Wanted) : v[1] = point
  BY <1>1, <1>3, <1>6, TargetsOfPart DEF Operation
<1> HIDE DEF j
<1>8. \A v \in ValuesOf(input) : v \notin Range(Wanted) => map'[v] = map[v]
  BY <1>2 DEF RegInv, RegType
<1>9. ArgumentsWait'
  <2>1. \A v \in Range(Operation.args) : map'[v] = map[v]
    <3> TAKE v \in Range(Operation.args)
    <3>1. v \in ValuesOf(input) /\ v[1] < point
      BY <1>1, ArgumentKnown
    <3>2. point \in Nat
      BY DEF RegInv, RegType
    <3>3. v[1] # point
      <4>1. v[1] \in Nat
        BY <1>1, <3>1, Values
      <4> QED
        BY <3>1, <3>2, <4>1
    <3> QED
      BY <1>7, <1>8, <3>1, <3>3
  <2>2. \A r \in Reg : regs'[r].st = "Unspilled" => regs'[r] = regs[r]
    BY <1>2 DEF Holds
  <2>3. Operation' = Operation
    BY <1>2 DEF Operation
  <2> QED
    BY <1>1, <1>2, <2>1, <2>2, <2>3 DEF Unstuck, ArgumentsWait
<1>10. ResultsWait'
  <2>1. ASSUME NEW i \in Range(Tail(todo)), NEW v \in Range(Targets(input, point, i))
        PROVE  map'[v].st = "Unseen"
    <3>1. i \in Range(todo) /\ i # j /\ i \in Parts(input, point)
      BY <1>1, <1>3, <1>5, <2>1 DEF Range
    <3>2. v \notin Range(Wanted)
      BY <1>1, <1>3, <1>6, <3>1, TargetsApart DEF Operation
    <3>3. v \in ValuesOf(input)
      <4>1. Targets(input, point, i) \in Seq(ValuesOf(input))
        BY <1>1, <3>1, TargetsOfPart DEF Operation
      <4> QED
        BY <4>1 DEF Range
    <3> QED
      BY <1>4, <1>8, <3>1, <3>2, <3>3
  <2> QED
    BY <1>2, <1>5, <2>1 DEF ResultsWait
<1>11. HeapOnce' /\ VictimsIdle'
  BY <1>1, <1>2 DEF Unstuck, HeapOnce, VictimsIdle, IsInjective, Range
<1> QED
  BY <1>9, <1>10, <1>11 DEF Unstuck

(* What no stage waits for once the words are emitted.                     *)
LEMMA EmitUnstuck ==
  ASSUME RegInv, Unstuck, Allocated \/ EmitSpill \/ EmitUnspill \/ EmitPart
  PROVE  Unstuck'
<1>1. phase' = "emit" /\ victims = << >> /\ victims' = victims /\ heap' = heap
  BY DEF Allocated, EmitSpill, EmitUnspill, EmitPart, AtPart, RegInv, RegType
<1> QED
  BY <1>1 DEF Unstuck, HeapOnce, VictimsIdle, ArgumentsWait, ResultsWait, IsInjective, Range

(* The next operation waits for the arguments that are spilled.            *)
LEMMA StabilizeUnstuck ==
  ASSUME RegInv, Unstuck, Regular, Stabilize
  PROVE  Unstuck'
<1> DEFINE settled == [v \in DOMAIN map |-> IF v \in Leaving THEN [st |-> "Retired", at |-> 0] ELSE map[v]]
           n == point + 1
           args == input[n].args
           S == {i \in DOMAIN args : settled[args[i]].st = "Spilled"}
           at == Ascending(S)
<1>1. /\ victims = << >> /\ WellFormed(input) /\ regs' = [r \in Reg |-> Stabilized(regs[r])]
      /\ map' = settled /\ todo' = ToUnspill(n, settled) /\ point' = n
      /\ phase' = IF n \in DOMAIN input THEN "sources" ELSE "done"
      /\ UNCHANGED <<input, victims, heap>>
  BY DEF Stabilize, RegInv, RegType
<1>2. HeapOnce' /\ VictimsIdle' /\ ResultsWait'
  BY <1>1 DEF Unstuck, HeapOnce, VictimsIdle, ResultsWait, IsInjective, Range
<1>3. ArgumentsWait'
  <2>1. CASE n \notin DOMAIN input
    BY <1>1, <2>1 DEF ArgumentsWait
  <2>2. CASE n \in DOMAIN input
    <3>1. n \in Ops(input) /\ args \in Seq(ValuesOf(input)) /\ IsInjective(args)
      BY <1>1, <2>2, Arguments DEF Ops, Regular
    <3>2. todo' = [k \in DOMAIN at |-> args[at[k]]]
      BY <1>1, <2>2 DEF ToUnspill
    <3> HIDE DEF settled
    <3>3. Lists(at, S)
      <4>1. IsFiniteSet(DOMAIN args) /\ \A i \in DOMAIN args : i \in Nat
        <5> DEFINE m == Len(args)
        <5>1. DOMAIN args = 1 .. m /\ m \in Nat
          BY <3>1
        <5> HIDE DEF m
        <5> QED
          BY <5>1, FS_Interval
      <4>2. IsFiniteSet(S) /\ \A i \in S : i \in Nat
        BY <4>1, FS_Subset
      <4> QED
        BY <4>2, AscendingOnce
    <3>4. /\ \A k \in DOMAIN at : at[k] \in S
          /\ \A i \in S : \E k \in DOMAIN at : at[k] = i
          /\ \A k, l \in DOMAIN at : at[k] = at[l] => k = l
      <4> HIDE DEF at, S
      <4>1. \A k \in DOMAIN at : at[k] \in S
        BY <3>3, ListFacts
      <4> QED
        BY <3>3, <4>1 DEF Lists
    <3> HIDE DEF at
    <3>5. DOMAIN todo' = DOMAIN at /\ \A k \in DOMAIN at : todo'[k] = args[at[k]]
      BY <3>2
    <3>6. IsInjective(todo')
      BY <3>1, <3>4, <3>5 DEF IsInjective
    <3>7. Range(todo') \subseteq Range(args) /\ \A v \in Range(todo') : settled[v].st = "Spilled"
      BY <3>4, <3>5 DEF Range
    <3>8. \A v \in Range(args) : settled[v].st = "Spilled" => v \in Range(todo')
      <4> TAKE v \in Range(args)
      <4> HAVE settled[v].st = "Spilled"
      <4>1. PICK i \in DOMAIN args : args[i] = v
        BY DEF Range
      <4>2. PICK k \in DOMAIN at : at[k] = i
        BY <3>4, <4>1
      <4> QED
        BY <3>5, <4>1, <4>2 DEF Range
    <3>9. Operation' = input[n]
      BY <1>1 DEF Operation
    <3>10. \A r \in Reg : regs'[r].st # "Unspilled"
      BY <1>1 DEF Stabilized, EmptyReg, Holds
    <3> QED
      BY <1>1, <2>2, <3>6, <3>7, <3>8, <3>9, <3>10 DEF ArgumentsWait
  <2> QED
    BY <2>1, <2>2
<1> QED
  BY <1>2, <1>3 DEF Unstuck

(* The first operation of a program reads nothing.                         *)
LEMMA StartUnstuck ==
  ASSUME RegInv, NEW code, WellFormed(code), StartAllocation(code)
  PROVE  Unstuck'
<1>1. /\ point = 1 /\ todo = << >> /\ victims = << >> /\ regs = [r \in Reg |-> EmptyReg] /\ heap = << >>
  BY DEF RegInv, Unstarted, StartAllocation
<1>2. /\ input' = code
      /\ phase' = IF code = << >> THEN "done" ELSE "sources"
      /\ UNCHANGED <<point, todo, regs, heap, victims>>
  BY DEF StartAllocation
<1>3. ArgumentsWait'
  <2> SUFFICES ASSUME code # << >> PROVE ArgumentsWait'
    BY <1>2 DEF ArgumentsWait
  <2>1. code[1].args = << >>
    <3>1. code \in Seq(Range(code))
      BY DEF WellFormed
    <3>2. 1 \in Ops(code)
      BY <3>1 DEF Ops
    <3>3. \A v \in Range(code[1].args) : v \in ValuesOf(code) /\ v[1] < 1
      BY <3>2, Arguments
    <3>4. \A v \in ValuesOf(code) : v[1] \in Nat \ {0}
      BY Values
    <3>5. Range(code[1].args) = {}
      BY <3>3, <3>4
    <3>6. code[1].args \in Seq(ValuesOf(code))
      BY <3>2, Arguments
    <3> DEFINE a == code[1].args
    <3>7. DOMAIN a = {} /\ a \in Seq(ValuesOf(code))
      BY <3>5, <3>6 DEF Range
    <3> HIDE DEF a
    <3>8. a = << >>
      BY <3>7
    <3> QED
      BY <3>8 DEF a
  <2>2. Operation'.args = << >>
    BY <1>1, <1>2, <2>1 DEF Operation
  <2>3. Range(<< >>) = {} /\ IsInjective(<< >>)
    BY DEF Range, IsInjective
  <2>4. \A r \in Reg : regs'[r].st = "Empty"
    BY <1>1, <1>2, EmptyRegIs
  <2>5. /\ todo' = << >> /\ phase' = "sources"
    BY <1>1, <1>2
  <2>6. Range(Operation'.args) = {} /\ Range(todo') = {} /\ IsInjective(todo')
    BY ONLY <2>2, <2>3, <2>5, Zenon
  <2> QED
    BY <2>4, <2>5, <2>6 DEF ArgumentsWait
<1>4. HeapOnce' /\ VictimsIdle' /\ ResultsWait'
  BY <1>1, <1>2 DEF HeapOnce, VictimsIdle, ResultsWait, IsInjective, Range
<1> QED
  BY <1>3, <1>4 DEF Unstuck

-----------------------------------------------------------------------------
(* Counting: the slots, and the registers that are left.                   *)

(* A sequence has no more elements than places.                            *)
LEMMA RangeSize ==
  ASSUME NEW S, NEW s \in Seq(S)
  PROVE  IsFiniteSet(Range(s)) /\ Cardinality(Range(s)) <= Len(s) /\ Cardinality(Range(s)) \in Nat
<1>1. DOMAIN s = 1 .. Len(s) /\ Len(s) \in Nat
  OBVIOUS
<1>2. s \in Surjection(1 .. Len(s), Range(s))
  BY <1>1 DEF Surjection, Range
<1>3. IsFiniteSet(1 .. Len(s)) /\ Cardinality(1 .. Len(s)) = Len(s)
  BY <1>1, FS_Interval
<1>4. IsFiniteSet(Range(s)) /\ Cardinality(Range(s)) <= Cardinality(1 .. Len(s))
  BY <1>2, <1>3, FS_Surjection
<1>5. Cardinality(Range(s)) \in Nat
  BY <1>4, FS_CardinalityType
<1> QED
  BY <1>3, <1>4, <1>5

(* A program has finitely many values.                                     *)
LEMMA ProgramValuesFinite ==
  ASSUME NEW code, WellFormed(code)
  PROVE  IsFiniteSet(ValuesOf(code))
<1> DEFINE f == [o \in Ops(code) |-> Range(Results(code, o))]
           R == {Range(Results(code, o)) : o \in Ops(code)}
<1>1. f \in Surjection(Ops(code), R)
  BY DEF Surjection
<1>2. IsFiniteSet(Ops(code))
  <2>1. code \in Seq(Range(code))
    BY DEF WellFormed
  <2>2. Ops(code) = 1 .. Len(code) /\ Len(code) \in Nat
    BY <2>1 DEF Ops
  <2> QED
    BY <2>2, FS_Interval
<1>3. \A T \in R : IsFiniteSet(T)
  <2> SUFFICES ASSUME NEW o \in Ops(code) PROVE IsFiniteSet(Range(Results(code, o)))
    OBVIOUS
  <2>1. code[o].nret \in Nat
    <3>1. CASE code[o].kind = "batch"
      BY <3>1 DEF WellFormed
    <3>2. CASE code[o].kind # "batch"
      <4>1. code[o].nret = IF code[o].kind = "st" THEN 0 ELSE 1
        BY <3>2 DEF WellFormed
      <4> QED
        BY <4>1
    <3> QED
      BY <3>1, <3>2
  <2>2. Results(code, o) \in Seq({<<o, k>> : k \in 1 .. code[o].nret})
    BY <2>1 DEF Results
  <2> QED
    BY <2>2, RangeSize
<1> HIDE DEF f, R
<1>4. IsFiniteSet(R)
  BY <1>1, <1>2, FS_Surjection
<1>5. IsFiniteSet(UNION R)
  BY <1>3, <1>4, FS_UNION
<1> QED
  BY <1>5 DEF ValuesOf, R

(* A value without a slot finds one.                                       *)
LEMMA SlotLeft ==
  ASSUME RegInv, Unstuck, Fits, NEW v \in ValuesOf(input), v \notin Range(heap)
  PROVE  Len(heap) < HeapSlots
<1> DEFINE n == Len(heap)
           V == ValuesOf(input)
<1>1. heap \in Seq(V) /\ IsInjective(heap) /\ IsFiniteSet(V) /\ Cardinality(V) <= HeapSlots
  BY ProgramValuesFinite DEF RegInv, RegType, Unstuck, HeapOnce, Fits
<1>2. DOMAIN heap = 1 .. n /\ n \in Nat /\ \A i \in 1 .. n : heap[i] \in V /\ heap[i] # v
  BY <1>1 DEF Range
<1> HIDE DEF n, V
<1>3. heap \in [1 .. n -> V \ {v}]
  BY <1>1, <1>2
<1>4. heap \in Injection(1 .. n, V \ {v})
  BY <1>1, <1>2, <1>3 DEF Injection
<1>5. IsFiniteSet(V \ {v}) /\ Cardinality(V \ {v}) = Cardinality(V) - 1
  BY <1>1, FS_RemoveElement DEF V
<1>6. Cardinality(1 .. n) = n
  BY <1>2, FS_Interval
<1>7. n <= Cardinality(V) - 1
  BY <1>4, <1>5, <1>6, FS_Injection
<1>8. Cardinality(V) \in Nat /\ HeapSlots \in Nat
  <2>1. HeapSlots \in Nat
    BY Powers DEF HeapSlots
  <2> QED
    BY <1>1, <2>1, FS_CardinalityType
<1> QED
  BY <1>1, <1>2, <1>7, <1>8 DEF n

(* What Fits says of the current operation.                                *)
LEMMA OperationFits ==
  ASSUME RegInv, Fits, point \in Ops(input)
  PROVE  /\ Len(Operation.args) \in Nat /\ IsFiniteSet(Range(Operation.args))
         /\ Cardinality(Range(Operation.args)) \in Nat
         /\ Cardinality(Range(Operation.args)) <= Len(Operation.args)
         /\ IsFiniteSet(Parts(input, point)) /\ Cardinality(Parts(input, point)) \in Nat
         /\ \E W \in {1, 2} :
              /\ W * (Len(Operation.args) + Cardinality(Parts(input, point))) <= NRegs
              /\ Operation.kind # "st" => \A j \in Parts(input, point) : Len(Targets(input, point, j)) <= W
<1>1. WellFormed(input)
  BY DEF RegInv, RegType
<1>2. Operation.args \in Seq(ValuesOf(input))
  BY <1>1, Arguments DEF Operation
<1>3. /\ IsFiniteSet(Range(Operation.args)) /\ Cardinality(Range(Operation.args)) \in Nat
      /\ Cardinality(Range(Operation.args)) <= Len(Operation.args) /\ Len(Operation.args) \in Nat
  BY <1>2, RangeSize
<1>4. IsFiniteSet(Parts(input, point)) /\ Cardinality(Parts(input, point)) \in Nat
  BY <1>1, PartsOfOne, FS_CardinalityType
<1> DEFINE S == {1} \cup {Len(Targets(input, point, j)) : j \in Parts(input, point)}
           W == Width(input, point)
<1>5. W * (Len(Operation.args) + Cardinality(Parts(input, point))) <= NRegs
  BY DEF Fits, Operation
<1>6. W = CHOOSE x \in S : \A y \in S : x >= y
  BY DEF Width, Max
<1>7. S \subseteq {0, 1, 2}
  <2> SUFFICES ASSUME NEW j \in Parts(input, point) PROVE Len(Targets(input, point, j)) \in {0, 1, 2}
    OBVIOUS
  <2>1. CASE input[point].kind = "st"
    <3>1. Targets(input, point, j) = Results(input, point)
      BY <2>1 DEF Targets
    <3>2. input[point].nret = 0
      BY <1>1, <2>1 DEF WellFormed
    <3>3. Results(input, point) = << >>
      BY <3>2 DEF Results
    <3> QED
      BY <3>1, <3>3
  <2>2. CASE input[point].kind # "st"
    BY <1>1, <2>2, TargetsOfPart
  <2> QED
    BY <2>1, <2>2
<1>8. 1 \in S /\ \A j \in Parts(input, point) : Len(Targets(input, point, j)) \in S
  OBVIOUS
<1> HIDE DEF S, W
<1>9. \E x \in S : \A y \in S : x >= y
  <2>1. CASE 2 \in S
    BY <1>7, <2>1
  <2>2. CASE 2 \notin S
    BY <1>7, <1>8, <2>2
  <2> QED
    BY <2>1, <2>2
<1>10. W \in S /\ \A y \in S : W >= y
  BY <1>6, <1>9
<1>11. W \in {1, 2} /\ \A j \in Parts(input, point) : Len(Targets(input, point, j)) <= W
  BY <1>7, <1>8, <1>10
<1> QED
  BY <1>3, <1>4, <1>5, <1>11

(* A source to be brought back finds a register that is empty or idle.     *)
LEMMA SourceFindsRegister ==
  ASSUME RegInv, Unstuck, Fits, phase = "sources", todo # << >>
  PROVE  \E r \in Reg : regs[r].st = "Empty" \/ Idle(r)
<1> DEFINE v == Head(todo)
           A == Range(Operation.args)
<1>1. point \in Ops(input) /\ todo \in Seq(ValuesOf(input)) /\ NRegs \in Nat
  BY NRegsAssumption DEF RegInv, RegType
<1>2. v \in Range(todo)
  BY <1>1, HeadAndTail
<1>3. v \in A /\ map[v].st = "Spilled"
  BY <1>2 DEF Unstuck, ArgumentsWait
<1>4. SUFFICES ASSUME \A r \in Reg : regs[r].st # "Empty" /\ ~ Idle(r) PROVE FALSE
  OBVIOUS
<1>5. ASSUME NEW r \in Reg
      PROVE  regs[r].val \in A \ {v} /\ map[regs[r].val] = Registered(r)
  <2>1. map[regs[r].val] = Registered(r)
    BY <1>4 DEF RegInv, MapsAgree
  <2>2. regs[r].val # v
    BY <1>3, <2>1, RegisteredIs
  <2>3. CASE regs[r].st = "Storing"
    BY <1>4, <2>1, <2>2, <2>3, BusyHoldsArgument
  <2>4. CASE regs[r].st = "Unspilled"
    BY <2>1, <2>2, <2>4 DEF Unstuck, ArgumentsWait
  <2> QED
    BY <1>4, <2>3, <2>4 DEF RegInv, Stages
<1> HIDE DEF v
<1> DEFINE f == [r \in Reg |-> regs[r].val]
<1>6. f \in Injection(Reg, A \ {v})
  <2>1. f \in [Reg -> A \ {v}]
    BY <1>5
  <2>2. ASSUME NEW q \in Reg, NEW r \in Reg, f[q] = f[r] PROVE q = r
    <3>1. Registered(q) = Registered(r)
      BY <1>5, <2>2
    <3> QED
      BY <3>1, RegisteredIs
  <2> QED
    BY <2>1, <2>2 DEF Injection, IsInjective
<1>7. IsFiniteSet(A) /\ Cardinality(A) \in Nat /\ Cardinality(A) <= Len(Operation.args) /\ Len(Operation.args) \in Nat
  BY <1>1, OperationFits
<1>8. Len(Operation.args) <= NRegs
  <2> DEFINE a == Len(Operation.args)
             p == Cardinality(Parts(input, point))
  <2>1. a \in Nat /\ p \in Nat /\ \E W \in {1, 2} : W * (a + p) <= NRegs
    BY <1>1, OperationFits
  <2> HIDE DEF a, p
  <2>2. a <= NRegs
    <3>1. PICK W \in {1, 2} : W * (a + p) <= NRegs
      BY <2>1
    <3>2. CASE W = 1
      BY <1>1, <2>1, <3>1, <3>2
    <3>3. CASE W = 2
      BY <1>1, <2>1, <3>1, <3>3
    <3> QED
      BY <3>2, <3>3
  <2> QED
    BY <2>2 DEF a
<1> HIDE DEF A, f
<1>9. IsFiniteSet(A \ {v}) /\ Cardinality(A \ {v}) = Cardinality(A) - 1
  BY <1>3, <1>7, FS_RemoveElement
<1>10. Cardinality(Reg) = NRegs
  <2>1. 0 \in Int /\ NRegs - 1 \in Int
    BY <1>1
  <2>2. Cardinality(0 .. NRegs - 1) = IF 0 > NRegs - 1 THEN 0 ELSE (NRegs - 1) - 0 + 1
    BY ONLY <2>1, FS_Interval
  <2> QED
    BY <1>1, <2>2 DEF Reg
<1>11. Cardinality(Reg) <= Cardinality(A \ {v})
  BY <1>6, <1>9, FS_Injection
<1> QED
  BY <1>1, <1>7, <1>8, <1>9, <1>10, <1>11

(* What a register that can neither receive nor be cleared holds: an       *)
(* argument, or a result of a part that has its registers.                 *)
Blocked(r) == ~ (MayReceive(r) \/ Idle(r))
FirstTarget(j) == Targets(input, point, j)[1]
Blockers ==
  Range(Operation.args) \cup {FirstTarget(j) : j \in Parts(input, point) \ {Head(todo)}}

(* The registers from W * i on are W.                                      *)
InBlock(W, i, r) == W * i <= r /\ r < W * i + W

(* A blocked register shares its block of W registers with the register of *)
(* a blocker: a part's results do not leave their block.                   *)
LEMMA BlockedBy ==
  ASSUME RegInv, Unstuck, Regular, phase = "results", todo # << >>,
         NEW W \in {1, 2}, \A j \in Parts(input, point) : Len(Targets(input, point, j)) <= W,
         NEW i \in Nat, NEW r \in Reg, Blocked(r), InBlock(W, i, r)
  PROVE  \E u \in Blockers : InBlock(W, i, map[u].at)
<1>1. /\ point \in Ops(input) /\ WellFormed(input) /\ Operation.kind # "st"
      /\ todo \in Seq(Parts(input, point))
  BY DEF RegInv, RegType, Stages
<1>2. Head(todo) \in Range(todo) /\ Head(todo) \in Parts(input, point)
  BY <1>1, HeadAndTail
<1>3. regs[r].st # "Empty" /\ ~ Idle(r) /\ (~ IsBatch => regs[r].st # "Retiring")
  BY DEF Blocked, MayReceive
<1>4. regs[r].val \in ValuesOf(input) /\ map[regs[r].val] = Registered(r)
  BY <1>3 DEF RegInv, MapsAgree
<1>5. map[regs[r].val].at = r /\ map[regs[r].val].st = "Registered"
  BY <1>4, RegisteredIs
<1>6. ASSUME regs[r].val \in Range(Operation.args)
      PROVE  \E u \in Blockers : InBlock(W, i, map[u].at)
  BY <1>5, <1>6 DEF Blockers
<1>7. CASE regs[r].st = "Storing"
  BY <1>3, <1>6, <1>7, BusyHoldsArgument
<1>8. CASE regs[r].st = "Unspilled"
  BY <1>6, <1>8 DEF Unstuck, ArgumentsWait
<1>9. CASE regs[r].st = "Retiring"
  <2>1. RetiresAt(regs[r].val, point)
    BY <1>9 DEF RegInv, Ages
  <2> QED
    BY <1>4, <1>6, <2>1, RetiringIsArgument
<1>10. CASE regs[r].st \in {"Fresh", "Transitioning"}
  <2>1. PICK j \in Parts(input, point) : regs[r].val \in Range(Targets(input, point, j))
    BY <1>10 DEF RegInv, Stages
  <2>2. j \notin Range(todo)
    BY <1>5, <2>1 DEF Unstuck, ResultsWait
  <2>3. j # Head(todo)
    BY <1>2, <2>2
  <2> DEFINE T == Targets(input, point, j)
  <2>4. Placed(j)
    BY <1>1, <2>2 DEF RegInv, ResultsPlaced
  <2>5. /\ \A k \in DOMAIN T : map[T[k]] = Registered(Base(j) + k - 1)
        /\ \A k \in DOMAIN T : Base(j) % Len(T) = 0
    BY <2>4 DEF Placed
  <2>6. /\ T \in Seq(ValuesOf(input)) /\ Len(T) \in {1, 2} /\ Len(T) <= W
    BY <1>1, TargetsOfPart DEF Operation
  <2>7. Base(j) \in Nat /\ Base(j) = map[FirstTarget(j)].at
    <3>1. T[1] \in ValuesOf(input)
      BY <2>6
    <3>2. map[T[1]].at \in Nat
      BY <3>1 DEF RegInv, RegType
    <3> QED
      BY <3>2 DEF Base, FirstTarget
  <2> DEFINE B == Base(j)
  <2>8. PICK k \in DOMAIN T : T[k] = regs[r].val
    BY <2>1 DEF Range
  <2>9. Registered(B + k - 1) = Registered(r)
    BY <1>4, <2>5, <2>8
  <2>10. r = B + k - 1
    BY <2>9, RegisteredIs
  <2>11. k \in 1 .. Len(T) /\ r \in Nat /\ B % Len(T) = 0
    BY <2>5, <2>6, <2>8, Registers
  <2>12. InBlock(W, i, B)
    <3> DEFINE n == Len(T)
    <3>1. /\ n \in {1, 2} /\ n <= W /\ k \in 1 .. n /\ r \in Nat /\ B % n = 0 /\ r = B + k - 1 /\ B \in Nat
          /\ W * i <= r /\ r < W * i + W
      BY <2>6, <2>7, <2>10, <2>11 DEF InBlock
    <3> HIDE DEF n, B
    <3>2. CASE n = 1
      BY <3>1, <3>2 DEF InBlock
    <3>3. CASE n = 2
      <4>1. W = 2 /\ B % 2 = 0 /\ k \in {1, 2} /\ 2 * i <= r /\ r < 2 * i + 2
        BY <3>1, <3>3
      <4>2. 2 * i <= B /\ B < 2 * i + 2
        BY ONLY <3>1, <4>1, i \in Nat
      <4> QED
        BY <4>1, <4>2 DEF InBlock
    <3> QED
      BY <3>1, <3>2, <3>3
  <2>13. FirstTarget(j) \in Blockers
    BY <2>3 DEF Blockers
  <2> QED
    BY <2>7, <2>12, <2>13
<1> QED
  BY <1>3, <1>7, <1>8, <1>9, <1>10 DEF RegInv, RegType

(* They are values of the program.                                         *)
LEMMA BlockersAreValues ==
  ASSUME RegInv, phase = "results", todo # << >>, NEW u \in Blockers
  PROVE  u \in ValuesOf(input)
<1>1. /\ point \in Ops(input) /\ WellFormed(input) /\ Operation.kind # "st"
  BY DEF RegInv, RegType, Stages
<1>2. CASE u \in Range(Operation.args)
  BY <1>1, <1>2, ArgumentKnown
<1>3. ASSUME NEW j \in Parts(input, point), u = FirstTarget(j) PROVE u \in ValuesOf(input)
  <2> DEFINE T == Targets(input, point, j)
  <2>1. T \in Seq(ValuesOf(input)) /\ Len(T) \in {1, 2}
    BY <1>1, TargetsOfPart DEF Operation
  <2>2. T[1] \in ValuesOf(input)
    <3> HIDE DEF T
    <3> QED
      BY <2>1
  <2> QED
    BY <1>3, <2>2 DEF FirstTarget
<1> QED
  BY <1>2, <1>3 DEF Blockers

(* There are fewer blockers than arguments and parts.                      *)
LEMMA FewBlockers ==
  ASSUME RegInv, Fits, phase = "results", todo # << >>
  PROVE  /\ IsFiniteSet(Blockers) /\ Cardinality(Blockers) \in Nat
         /\ Cardinality(Blockers) < Len(Operation.args) + Cardinality(Parts(input, point))
<1> DEFINE A == Range(Operation.args)
           P == Parts(input, point)
           Q == P \ {Head(todo)}
           F == {FirstTarget(j) : j \in Q}
           f == [j \in Q |-> FirstTarget(j)]
<1>1. point \in Ops(input) /\ todo \in Seq(P)
  BY DEF RegInv, RegType
<1>2. Head(todo) \in P
  BY <1>1, HeadAndTail
<1>3. /\ IsFiniteSet(A) /\ Cardinality(A) \in Nat /\ Cardinality(A) <= Len(Operation.args)
      /\ IsFiniteSet(P) /\ Cardinality(P) \in Nat /\ Len(Operation.args) \in Nat
  BY <1>1, OperationFits
<1>4. IsFiniteSet(Q) /\ Cardinality(Q) = Cardinality(P) - 1
  BY <1>2, <1>3, FS_RemoveElement
<1>5. f \in Surjection(Q, F)
  BY DEF Surjection
<1> HIDE DEF A, P, Q, F, f
<1>6. IsFiniteSet(F) /\ Cardinality(F) <= Cardinality(Q)
  BY <1>4, <1>5, FS_Surjection
<1>7. IsFiniteSet(A \cup F) /\ Cardinality(A \cup F) = Cardinality(A) + Cardinality(F) - Cardinality(A \cap F)
  BY <1>3, <1>6, FS_Union
<1>8. IsFiniteSet(A \cap F)
  BY <1>3, FS_Intersection
<1>9. Cardinality(F) \in Nat /\ Cardinality(A \cap F) \in Nat /\ Cardinality(A \cup F) \in Nat
  BY <1>6, <1>7, <1>8, FS_CardinalityType
<1>10. Cardinality(A \cup F) < Len(Operation.args) + Cardinality(P)
  BY <1>3, <1>4, <1>6, <1>7, <1>9
<1>11. Blockers = A \cup F
  BY DEF Blockers, A, F, Q, P
<1> QED
  BY <1>7, <1>9, <1>10, <1>11 DEF P

(* The results of a part find a range that can be cleared for them.        *)
LEMMA ResultsFindRange ==
  ASSUME RegInv, Unstuck, Regular, Fits, phase = "results", todo # << >>
  PROVE  \E b \in Reg : MayClear(b)
<1>1. /\ point \in Ops(input) /\ WellFormed(input) /\ Operation.kind # "st"
      /\ todo \in Seq(Parts(input, point)) /\ NRegs \in Nat /\ NRegs % 2 = 0
  BY NRegsAssumption DEF RegInv, RegType, Stages
<1>2. Head(todo) \in Parts(input, point)
  BY <1>1, HeadAndTail
<1> DEFINE a == Len(Operation.args)
           p == Cardinality(Parts(input, point))
           L == Len(Wanted)
<1>3. PICK W \in {1, 2} :
        /\ W * (a + p) <= NRegs
        /\ \A j \in Parts(input, point) : Len(Targets(input, point, j)) <= W
  BY <1>1, OperationFits
<1>4. L \in {1, 2} /\ L <= W
  BY <1>1, <1>2, <1>3, TargetsOfPart DEF Wanted, Operation
<1>5. a \in Nat /\ p \in Nat
  BY <1>1, OperationFits
<1>6. PICK M \in Nat : NRegs = W * M
  <2>1. CASE W = 1
    BY <1>1, <2>1
  <2>2. CASE W = 2
    <3>1. NRegs \div 2 \in Nat /\ NRegs = 2 * (NRegs \div 2)
      BY <1>1
    <3> QED
      BY <2>2, <3>1
  <2> QED
    BY <2>1, <2>2
<1> HIDE DEF a, p, L
<1>7. SUFFICES ASSUME \A b \in Reg : ~ MayClear(b) PROVE FALSE
  OBVIOUS
<1>8. ASSUME NEW i \in 0 .. M - 1
      PROVE  \E r \in Reg : Blocked(r) /\ InBlock(W, i, r)
  <2> DEFINE b == W * i
  <2>1. b \in Reg /\ b % L = 0 /\ b .. b + L - 1 \subseteq Reg /\ b \in Nat /\ b + L - 1 < b + W
    <3>1. CASE W = 1
      <4>1. L = 1
        BY <1>4, <3>1
      <4> QED
        BY <1>6, <3>1, <4>1 DEF Reg
    <3>2. CASE W = 2
      <4>1. b = 2 * i /\ NRegs = 2 * M /\ b \in Nat
        BY <1>6, <3>2
      <4> HIDE DEF b
      <4>2. b \in Reg /\ b + 1 \in Reg
        BY <1>6, <4>1 DEF Reg
      <4>3. b % 2 = 0 /\ b % 1 = 0
        BY <4>1
      <4> QED
        BY <1>4, <3>2, <4>1, <4>2, <4>3 DEF Reg
    <3> QED
      BY <3>1, <3>2
  <2> HIDE DEF b
  <2>2. IsRange(b) /\ RangeAt(b) = b .. b + L - 1
    BY <2>1 DEF IsRange, RangeAt, L
  <2>3. PICK r \in RangeAt(b) : ~ (MayReceive(r) \/ Idle(r))
    BY <1>7, <2>1, <2>2 DEF MayClear
  <2>4. r \in Reg /\ b <= r /\ r < b + W
    BY <1>4, <2>1, <2>2, <2>3
  <2> QED
    BY <2>3, <2>4 DEF Blocked, InBlock, b
<1>9. \A i \in 0 .. M - 1 : \E u \in Blockers : InBlock(W, i, map[u].at)
  <2> TAKE i \in 0 .. M - 1
  <2>1. PICK r \in Reg : Blocked(r) /\ InBlock(W, i, r)
    BY <1>8
  <2>2. i \in Nat
    BY <1>6
  <2> QED
    BY <1>3, <2>1, <2>2, BlockedBy
<1> DEFINE f == [i \in 0 .. M - 1 |-> CHOOSE u \in Blockers : InBlock(W, i, map[u].at)]
<1>10. f \in Injection(0 .. M - 1, Blockers)
  <2>1. \A i \in 0 .. M - 1 : f[i] \in Blockers /\ InBlock(W, i, map[f[i]].at)
    BY <1>9
  <2>2. f \in [0 .. M - 1 -> Blockers]
    BY <2>1
  <2> HIDE DEF f
  <2>3. ASSUME NEW i \in 0 .. M - 1, NEW k \in 0 .. M - 1, f[i] = f[k] PROVE i = k
    <3>1. InBlock(W, i, map[f[i]].at) /\ InBlock(W, k, map[f[i]].at) /\ map[f[i]].at \in Nat
      <4>1. f[i] \in ValuesOf(input)
        BY <2>2, BlockersAreValues
      <4> QED
        BY <2>1, <2>3, <4>1 DEF RegInv, RegType
    <3> DEFINE q == map[f[i]].at
    <3>2. W * i <= q /\ q < W * i + W /\ W * k <= q /\ q < W * k + W /\ q \in Nat
      BY <3>1 DEF InBlock
    <3> HIDE DEF q
    <3>3. CASE W = 1
      BY <1>6, <3>2, <3>3
    <3>4. CASE W = 2
      BY <1>6, <3>2, <3>4
    <3> QED
      BY <3>3, <3>4
  <2> QED
    BY <2>2, <2>3 DEF Injection, IsInjective
<1> HIDE DEF f
<1>11. /\ IsFiniteSet(Blockers) /\ Cardinality(Blockers) \in Nat
       /\ Cardinality(Blockers) < a + p
  BY FewBlockers DEF a, p
<1>12. Cardinality(0 .. M - 1) = M
  <2>1. 0 \in Int /\ M - 1 \in Int
    BY <1>6
  <2>2. Cardinality(0 .. M - 1) = IF 0 > M - 1 THEN 0 ELSE (M - 1) - 0 + 1
    BY ONLY <2>1, FS_Interval
  <2> QED
    BY <1>6, <2>2
<1>13. M < a + p
  <2>1. Cardinality(0 .. M - 1) <= Cardinality(Blockers)
    BY <1>10, <1>11, FS_Injection
  <2> QED
    BY <1>5, <1>6, <1>11, <1>12, <2>1
<1>14. CASE W = 1
  BY <1>3, <1>5, <1>6, <1>13, <1>14
<1>15. CASE W = 2
  BY <1>3, <1>5, <1>6, <1>13, <1>15
<1> QED
  BY <1>14, <1>15

-----------------------------------------------------------------------------
(* The results.                                                            *)

(* In no stage does the allocator meet a panic.                            *)
LEMMA UnstuckGoesOn ==
  ASSUME RegInv, Unstuck, Fits, Regular
  PROVE  CanGoOn
<1>1. ASSUME victims # << >>
      PROVE  /\ regs[Head(victims)].st = "Storing" /\ map[regs[Head(victims)].val].st = "Registered"
             /\ regs[Head(victims)].val \in Range(heap) \/ Len(heap) < HeapSlots
  <2> DEFINE r == Head(victims)
  <2>1. r \in Reg /\ r \in Range(victims)
    BY <1>1, HeadAndTail DEF RegInv, RegType
  <2>2. regs[r].st = "Storing"
    BY <2>1 DEF Unstuck, VictimsIdle, Idle
  <2>3. regs[r].val \in ValuesOf(input) /\ map[regs[r].val] = Registered(r)
    BY <2>1, <2>2 DEF RegInv, MapsAgree
  <2> QED
    BY <2>2, <2>3, RegisteredIs, SlotLeft
<1>2. ASSUME victims = << >>, phase = "sources", todo # << >>
      PROVE  map[Head(todo)].st = "Spilled" /\ \E r \in Reg : regs[r].st = "Empty" \/ Idle(r)
  <2>1. Head(todo) \in Range(todo)
    BY <1>2, HeadAndTail DEF RegInv, RegType
  <2> QED
    BY <1>2, <2>1, SourceFindsRegister DEF Unstuck, ArgumentsWait
<1>3. ASSUME phase = "sources", todo = << >>, NEW v \in Retiring
      PROVE  map[v].st = "Registered" /\ regs[map[v].at].st \in {"Storing", "Unspilled"}
  <2>1. v \in ValuesOf(input) /\ RetiresAt(v, point)
    BY DEF Retiring
  <2>2. v \in Range(Operation.args) /\ point \in Ops(input)
    BY <2>1, RetiringIsArgument
  <2>3. map[v].st = "Registered"
    BY <1>3, <2>2, ArgumentKnown DEF Unstuck, ArgumentsWait, Range
  <2>4. map[v].at \in Reg /\ regs[map[v].at].st # "Empty"
    BY <2>1, <2>3 DEF RegInv, MapsAgree
  <2> QED
    BY <1>3, <2>3, <2>4 DEF RegInv, Stages
<1>4. ASSUME victims = << >>, phase = "results", todo # << >>
      PROVE  /\ \A k \in DOMAIN Wanted : map[Wanted[k]].st = "Unseen"
             /\ \E b \in Reg : Receivable(b) \/ MayClear(b)
  <2>1. Head(todo) \in Range(todo)
    BY <1>4, HeadAndTail DEF RegInv, RegType
  <2>2. \A k \in DOMAIN Wanted : Wanted[k] \in Range(Wanted)
    BY DEF Range
  <2>3. \A k \in DOMAIN Wanted : map[Wanted[k]].st = "Unseen"
    BY <1>4, <2>1, <2>2 DEF Unstuck, ResultsWait, Wanted
  <2> QED
    BY <1>4, <2>3, ResultsFindRange
<1>5. ASSUME phase = "results", todo = << >>, NEW v \in Range(Operation.args) \cup Range(Results(input, point))
      PROVE  map[v].st = "Registered"
  <2>1. CASE v \in Range(Operation.args)
    BY <1>5, <2>1 DEF Unstuck, ArgumentsWait
  <2>2. CASE v \in Range(Results(input, point))
    <3>1. point \in Ops(input) /\ WellFormed(input) /\ Operation.kind # "imm"
      BY <1>5 DEF RegInv, RegType, Regular, Operation
    <3>2. Operation.kind # "st"
      <4> SUFFICES ASSUME Operation.kind = "st" PROVE FALSE
        OBVIOUS
      <4>1. input[point].nret = 0
        BY <3>1 DEF WellFormed, Operation
      <4> QED
        BY <2>2, <4>1 DEF Results, Range
    <3>3. PICK j \in Parts(input, point) : v \in Range(Targets(input, point, j))
      BY <2>2, <3>1, <3>2, TargetsCover DEF Operation
    <3>4. Placed(j)
      BY <1>5, <3>2 DEF RegInv, ResultsPlaced, Range
    <3>5. PICK k \in DOMAIN Targets(input, point, j) : Targets(input, point, j)[k] = v
      BY <3>3 DEF Range
    <3>6. map[v] = Registered(Base(j) + k - 1)
      BY <3>4, <3>5 DEF Placed
    <3> QED
      BY <3>6, RegisteredIs
  <2> QED
    BY <1>5, <2>1, <2>2
<1>6. \A v \in Leaving : map[v].st = "Registered"
  <2> TAKE v \in Leaving
  <2>1. \E q \in Reg : \/ regs[q].st = "Retiring" /\ regs[q].val = v
                       \/ regs[q].st = "Transitioning" /\ regs[q].old = v
    BY DEF Leaving
  <2>2. \E q \in Reg : map[v] = Registered(q)
    BY <2>1 DEF RegInv, MapsAgree
  <2> QED
    BY <2>2, RegisteredIs
<1> QED
  BY <1>1, <1>2, <1>3, <1>4, <1>5, <1>6 DEF CanGoOn

(* Each step keeps that.                                                   *)
LEMMA UnstuckKept ==
  ASSUME RegInv, Regular => Unstuck, [AllocateNext]_avars
  PROVE  Regular' => Unstuck'
<1>1. input' = input
  BY DEF AllocateNext, EvictForSource, UnspillSource, EvictForResults, Acquire, Evict, RetireRegisters, Allocated,
         EmitSpill, EmitUnspill, EmitPart, Stabilize, avars
<1>2. Regular' <=> Regular
  BY <1>1 DEF Regular, Uses, Ops
<1> SUFFICES ASSUME Regular PROVE Unstuck'
  BY <1>2
<1>3. CASE \E r \in Reg : EvictForSource(r) \/ UnspillSource(r)
  BY <1>3, EvictForSourceUnstuck, UnspillSourceUnstuck
<1>4. CASE \E b \in Reg : EvictForResults(b) \/ Acquire(b)
  BY <1>4, EvictForResultsUnstuck, AcquireUnstuck
<1>5. CASE Evict \/ RetireRegisters \/ Stabilize
  BY <1>5, EvictUnstuck, RetireRegistersUnstuck, StabilizeUnstuck
<1>6. CASE Allocated \/ EmitSpill \/ EmitUnspill \/ EmitPart
  BY <1>6, EmitUnstuck
<1>7. CASE UNCHANGED avars
  <2>1. UNCHANGED <<input, point, phase, todo, victims, regs, map, heap>>
    BY <1>7 DEF avars
  <2>2. \A r : Idle(r)' <=> Idle(r)
    BY <2>1 DEF Idle, UsedAt, Uses, Ops
  <2> QED
    BY <2>1, <2>2 DEF Unstuck, HeapOnce, VictimsIdle, ArgumentsWait, ResultsWait, Operation
<1> QED
  BY <1>3, <1>4, <1>5, <1>6, <1>7 DEF AllocateNext

(* On a program that fits the register file and is regular, no unwrap,     *)
(* expect or unreachable!() of the allocator is met from the first         *)
(* operation to the last, however many evictions it takes (allocator.rs,   *)
(* register_file.rs).  Regular is a restriction: no operation reads a      *)
(* value twice, every result of an operation is used later, and no         *)
(* plaintext is loaded.  Without it the claim is false: a plaintext that   *)
(* is loaded gets no register.                                             *)
THEOREM AllocatorGoesOn == AllocateSpec => [](Fits /\ Regular => CanGoOn)
<1>1. AllocInit => (Regular => Unstuck)
  BY DEF AllocInit, Unstuck, HeapOnce, VictimsIdle, ArgumentsWait, ResultsWait, IsInjective, Range
<1>2. RegInv /\ (Regular => Unstuck) /\ [Allocate]_avars => (Regular => Unstuck)'
  <2> SUFFICES ASSUME RegInv, Regular => Unstuck, [Allocate]_avars PROVE (Regular => Unstuck)'
    OBVIOUS
  <2>1. ASSUME NEW code, WellFormed(code), StartAllocation(code) PROVE Unstuck'
    BY <2>1, StartUnstuck
  <2>2. CASE [AllocateNext]_avars
    BY <2>2, UnstuckKept
  <2> QED
    BY <2>1, <2>2 DEF Allocate
<1>3. RegInv /\ (Regular => Unstuck) => (Fits /\ Regular => CanGoOn)
  BY UnstuckGoesOn
<1> QED
  BY <1>1, <1>2, <1>3, AllocatorInvariant, PTL DEF AllocateSpec
=============================================================================
