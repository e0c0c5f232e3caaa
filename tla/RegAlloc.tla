------------------------------ MODULE RegAlloc ------------------------------
(***************************************************************************)
(* The register allocator of the pipeline and the DOps it leads to.  It    *)
(* walks a scheduled program once.  For each operation it brings spilled   *)
(* sources back, retires what is read for the last time, finds registers   *)
(* for the results, and settles; evictions may be needed on the way.  The  *)
(* translator then writes the spills, the unspills and the operation as    *)
(* DOps, which are encoded: phase "emit" runs the words on a register file *)
(* and a memory that hold, in place of ciphertexts, the values of the      *)
(* program.                                                                *)
(*                                                                         *)
(* A panic of the code is an action whose guard fails.  Points and heap    *)
(* slots count from 1, registers from 0.                                   *)
(***************************************************************************)
EXTENDS HpuProgram, Words

CONSTANT NRegs      \* regf_size

(* A whole number of ranges of two, and no more than a word can name.      *)
ASSUME NRegsAssumption == NRegs \in {n \in 1 .. 2 ^ 7 : n % 2 = 0}

VARIABLES input,    \* the scheduled program
          point,    \* current_point
          phase,    \* what the loop body is at
          todo,     \* what is left of it: sources to unspill, or parts of the operation
          victims,  \* registers picked for eviction
          regs,     \* register_file: register -> [st, val, old]
          map,      \* value -> [st, at]
          heap,     \* values that have been given a slot, in slot order
          spills, unspills,  \* of the current operation: [from, to]
          file, cells,       \* what registers and heap hold at run time
          delivered          \* the blocks stored to the destinations, by slot

machine == <<file, cells, delivered>>
avars == <<input, point, phase, todo, victims, regs, map, heap, spills, unspills, machine>>

Reg == 0 .. NRegs - 1
None == <<0, 0>>
HeapSlots == 2 ^ 16 - 1    \* the counter of slots is a u16 that must not wrap
ValuesOf(code) == UNION {Range(Results(code, o)) : o \in Ops(code)}

Operation == input[point]
IsBatch == Operation.kind = "batch"

(* An operation is executed in parts, the members of a batch or the whole. *)
(* Operands and Targets are what a part reads and writes.                  *)
Parts(code, n) ==
  CASE code[n].kind = "batch" -> DOMAIN code[n].body
    [] code[n].kind = "imm" -> {}
    [] OTHER -> {1}
Operands(code, n, j) ==
  IF code[n].kind = "batch" THEN [i \in DOMAIN code[n].body[j].args |-> code[n].args[code[n].body[j].args[i]]]
  ELSE code[n].args
Targets(code, n, j) ==
  IF code[n].kind = "batch" THEN [k \in DOMAIN code[n].body[j].rets |-> <<n, code[n].body[j].rets[k]>>]
  ELSE Results(code, n)

(* Live ranges: the points where a value is defined or used.               *)
Uses(v) == {v[1]} \cup {n \in Ops(input) : v \in Range(input[n].args)}
UsedAt(v, n) == n \in Uses(v)
RetiresAtUse(v, n) == n \in Uses(v) \ {v[1]}
RetiresAt(v, n) ==
  IF Uses(v) = {v[1]} THEN n = v[1] + 1 ELSE n \in Uses(v) /\ \A u \in Uses(v) : u <= n
NextUse(v, n) ==
  IF \E u \in Uses(v) : u >= n THEN Min({u \in Uses(v) : u >= n}) ELSE Len(input) + 1

EmptyReg == [st |-> "Empty", val |-> None, old |-> None]
Holds(st, v) == [st |-> st, val |-> v, old |-> None]
Registered(r) == [st |-> "Registered", at |-> r]
Spilled(slot) == [st |-> "Spilled", at |-> slot]

-----------------------------------------------------------------------------
ToUnspill(n, where) ==
  IF n \notin DOMAIN input THEN << >>
  ELSE LET at == Ascending({i \in DOMAIN input[n].args : where[input[n].args[i]].st = "Spilled"})
       IN  [k \in DOMAIN at |-> input[n].args[at[k]]]

AllocInit ==
  /\ input = << >> /\ map = << >>
  /\ point = 1 /\ phase = "done" /\ todo = << >>
  /\ regs = [r \in Reg |-> EmptyReg]
  /\ heap = << >> /\ victims = << >> /\ spills = << >> /\ unspills = << >>
  /\ file = [r \in Reg |-> None] /\ cells = << >> /\ delivered = << >>

StartAllocation(code) ==
  /\ input = << >>
  /\ input' = code
  /\ map' = [v \in ValuesOf(code) |-> [st |-> "Unseen", at |-> 0]]
  /\ phase' = IF code = << >> THEN "done" ELSE "sources"
  /\ UNCHANGED <<point, todo, regs, heap, victims, spills, unspills, machine>>

-----------------------------------------------------------------------------
(* Eviction: of the registers that are not needed now, the one whose value *)
(* is needed last; of equals, the highest.                                 *)
Idle(r) == regs[r].st = "Storing" /\ ~UsedAt(regs[r].val, point)
Later(r, q) ==
  LET at(x) == NextUse(regs[x].val, point)
  IN  at(q) < at(r) \/ (at(q) = at(r) /\ q <= r)

EvictForSource(r) ==
  /\ phase = "sources" /\ todo # << >> /\ victims = << >>
  /\ \A q \in Reg : regs[q].st # "Empty"
  /\ Idle(r) /\ \A q \in Reg : Idle(q) => Later(r, q)
  /\ victims' = <<r>>
  /\ UNCHANGED <<input, point, phase, todo, regs, map, heap, spills, unspills, machine>>

Evict ==
  /\ victims # << >>
  /\ LET r == Head(victims)
         v == regs[r].val
         slot == IF v \in Range(heap) THEN Position(heap, v) ELSE Len(heap) + 1
     IN  /\ regs[r].st = "Storing" /\ map[v].st = "Registered" /\ slot <= HeapSlots
         /\ regs' = [regs EXCEPT ![r] = EmptyReg]
         /\ map' = [map EXCEPT ![v] = Spilled(slot)]
         /\ heap' = IF v \in Range(heap) THEN heap ELSE Append(heap, v)
         /\ spills' = Append(spills, [from |-> r, to |-> slot])
  /\ victims' = Tail(victims)
  /\ UNCHANGED <<input, point, phase, todo, unspills, machine>>

UnspillSource(r) ==
  /\ phase = "sources" /\ todo # << >> /\ victims = << >>
  /\ regs[r].st = "Empty" /\ \A q \in Reg : q < r => regs[q].st # "Empty"
  /\ LET v == Head(todo)
     IN  /\ map[v].st = "Spilled"
         /\ regs' = [regs EXCEPT ![r] = Holds("Unspilled", v)]
         /\ map' = [map EXCEPT ![v] = Registered(r)]
         /\ unspills' = Append(unspills, [from |-> map[v].at, to |-> r])
  /\ todo' = Tail(todo)
  /\ UNCHANGED <<input, point, phase, victims, heap, spills, machine>>

Retiring == {v \in ValuesOf(input) : RetiresAt(v, point)}

RetireRegisters ==
  /\ phase = "sources" /\ todo = << >>
  /\ \A v \in Retiring : map[v].st = "Registered" /\ regs[map[v].at].st \in {"Storing", "Unspilled"}
  /\ regs' = [r \in Reg |->
       IF \E v \in Retiring : map[v].at = r THEN Holds("Retiring", regs[r].val) ELSE regs[r]]
  /\ phase' = "results"
  /\ todo' = IF Operation.kind = "st" THEN << >> ELSE Ascending(Parts(input, point))
  /\ UNCHANGED <<input, point, victims, map, heap, spills, unspills, machine>>

-----------------------------------------------------------------------------
(* The results of a part need consecutive registers, aligned to their      *)
(* number.                                                                 *)
Wanted == Targets(input, point, Head(todo))
RangeAt(b) == b .. b + Len(Wanted) - 1
IsRange(b) == b % Len(Wanted) = 0 /\ RangeAt(b) \subseteq Reg

(* A batch must not overwrite what another of its members still reads.     *)
MayReceiveRetiring(r) == regs[r].st \in {"Empty", "Retiring"}
MayReceive(r) == regs[r].st = "Empty" \/ (~IsBatch /\ regs[r].st = "Retiring")
Receivable(b) == IsRange(b) /\ \A r \in RangeAt(b) : MayReceive(r)

MayClear(b) == IsRange(b) /\ \A r \in RangeAt(b) : MayReceive(r) \/ Idle(r)

(* The time points of the code start at 0: an operation at position n of   *)
(* the program is at n - 1.  An empty register has no part in the sum.     *)
Cost(b) == MapThenSumSet(LAMBDA r : NextUse(regs[r].val, point) - 1,
                         {r \in RangeAt(b) : regs[r].st # "Empty"})

EvictForResults(b) ==
  /\ phase = "results" /\ todo # << >> /\ victims = << >>
  /\ ~ \E c \in Reg : Receivable(c)
  /\ MayClear(b)
  /\ \A c \in Reg : MayClear(c) => Cost(c) < Cost(b) \/ (Cost(c) = Cost(b) /\ c <= b)
  /\ victims' = Ascending({r \in RangeAt(b) : regs[r].st # "Empty"})
  /\ UNCHANGED <<input, point, phase, todo, regs, map, heap, spills, unspills, machine>>

Acquire(b) ==
  /\ phase = "results" /\ todo # << >> /\ victims = << >>
  /\ Receivable(b) /\ \A c \in Reg : c < b => ~Receivable(c)
  /\ \A k \in DOMAIN Wanted : map[Wanted[k]].st = "Unseen"
  /\ regs' = [r \in Reg |->
       IF r \notin RangeAt(b) THEN regs[r]
       ELSE IF regs[r].st = "Empty" THEN Holds("Fresh", Wanted[r - b + 1])
       ELSE [st |-> "Transitioning", val |-> Wanted[r - b + 1], old |-> regs[r].val]]
  /\ map' = [v \in DOMAIN map |->
       IF v \in Range(Wanted) THEN Registered(b + Position(Wanted, v) - 1) ELSE map[v]]
  /\ todo' = Tail(todo)
  /\ UNCHANGED <<input, point, phase, victims, heap, spills, unspills, machine>>

(* The allocation of the operation is complete, if all it names has a      *)
(* register.                                                               *)
Allocated ==
  /\ phase = "results" /\ todo = << >>
  /\ \A v \in Range(Operation.args) \cup Range(Results(input, point)) : map[v].st = "Registered"
  /\ phase' = "emit"
  /\ todo' = Ascending(Parts(input, point))
  /\ UNCHANGED <<input, point, victims, regs, map, heap, spills, unspills, machine>>

-----------------------------------------------------------------------------
(* The DOps of a part.  A program loads and stores blocks of ciphertext    *)
(* arguments, two as long as their blocks suffice, each operation a block  *)
(* of its own; it looks up one table per lookup, and its constants are not *)
(* zero.                                                                   *)
Block(o) == LET src == input[o].src IN <<2 * (src \div 2 ^ 9) + (src % 2), (src \div 2) % 2 ^ 8>>
SlotOf(o) == Variable(Block(o)[1], Block(o)[2])
PbsName(nret, flush) ==
  CASE nret = 1 -> IF flush THEN "PBS_F" ELSE "PBS"
    [] nret = 2 -> IF flush THEN "PBS_ML2_F" ELSE "PBS_ML2"

TranslatePart(n, j) ==
  LET src(i) == map[Operands(input, n, j)[i]].at
      dst == map[Targets(input, n, j)[1]].at
  IN  CASE input[n].kind = "ld"  -> <<Memory("LD", dst, CtSrcVar(Block(n)[1], Block(n)[2]))>>
        [] input[n].kind = "st"  -> <<Memory("ST", src(1), CtDstVar(Block(n)[1], Block(n)[2]))>>
        [] input[n].kind = "cst" -> <<Arith("SUB", dst, dst, dst, 0), ArithMsg("ADDS", dst, dst, 1)>>
        [] input[n].kind = "batch" ->
             LET member == input[n].body[j]
             IN  <<Lookup(PbsName(member.nret, j = Len(input[n].body)), dst, src(1), member.src)>>
        [] OTHER -> <<Arith("ADD", dst, src(1), src(2), 0)>>

WordsOf(n, j) == LET dops == TranslatePart(n, j) IN [i \in DOMAIN dops |-> Encode(dops[i])]

(* The value at a place of a ciphertext argument.                          *)
SourceBlock(place) ==
  <<CHOOSE o \in Ops(input) : input[o].kind = "ld" /\ CtSrcVar(Block(o)[1], Block(o)[2]) = place, 1>>

Written(word, values) ==
  [r \in Reg |-> IF r \in WriteRegs(word) THEN values[r + 1 - WriteBase(word)] ELSE file[r]]
StoredBy(word, memory) ==
  [slot \in DOMAIN memory \cup {Place(word).slot} |->
     IF slot = Place(word).slot THEN file[ReadRegs(word)[1]] ELSE memory[slot]]

(* The words of the operation at run time: its spills, its unspills, its   *)
(* parts.                                                                  *)
EmitSpill ==
  /\ phase = "emit" /\ spills # << >>
  /\ LET word == Encode(Memory("ST", Head(spills).from, CtHeap(Head(spills).to)))
     IN  cells' = StoredBy(word, cells)
  /\ spills' = Tail(spills)
  /\ UNCHANGED <<input, point, phase, todo, victims, regs, map, heap, unspills, file, delivered>>

EmitUnspill ==
  /\ phase = "emit" /\ spills = << >> /\ unspills # << >>
  /\ LET word == Encode(Memory("LD", Head(unspills).to, CtHeap(Head(unspills).from)))
     IN  file' = Written(word, <<cells[Place(word).slot]>>)
  /\ unspills' = Tail(unspills)
  /\ UNCHANGED <<input, point, phase, todo, victims, regs, map, heap, spills, cells, delivered>>

AtPart == phase = "emit" /\ spills = << >> /\ unspills = << >> /\ todo # << >>

EmitPart ==
  /\ AtPart
  /\ LET word == Last(WordsOf(point, Head(todo)))
     IN  /\ file' = Written(word, IF Is(word, {"LD"}) THEN <<SourceBlock(Place(word))>>
                                  ELSE Targets(input, point, Head(todo)))
         /\ delivered' = IF Is(word, {"ST"}) THEN StoredBy(word, delivered) ELSE delivered
  /\ todo' = Tail(todo)
  /\ UNCHANGED <<input, point, phase, victims, regs, map, heap, spills, unspills, cells>>

Stabilized(reg) ==
  CASE reg.st \in {"Empty", "Retiring"} -> EmptyReg
    [] OTHER -> Holds("Storing", reg.val)

(* The values whose registers are given up or taken over retire.           *)
Leaving == {regs[r].val : r \in {q \in Reg : regs[q].st = "Retiring"}}
             \cup {regs[r].old : r \in {q \in Reg : regs[q].st = "Transitioning"}}

Stabilize ==
  /\ phase = "emit" /\ spills = << >> /\ unspills = << >> /\ todo = << >>
  /\ \A v \in Leaving : map[v].st = "Registered"
  /\ regs' = [r \in Reg |-> Stabilized(regs[r])]
  /\ LET settled == [v \in DOMAIN map |-> IF v \in Leaving THEN [st |-> "Retired", at |-> 0] ELSE map[v]]
     IN  map' = settled /\ todo' = ToUnspill(point + 1, settled)
  /\ point' = point + 1
  /\ phase' = IF point + 1 \in DOMAIN input THEN "sources" ELSE "done"
  /\ UNCHANGED <<input, victims, heap, spills, unspills, machine>>

AllocateNext ==
  \/ \E r \in Reg : EvictForSource(r) \/ UnspillSource(r)
  \/ \E b \in Reg : EvictForResults(b) \/ Acquire(b)
  \/ Evict \/ RetireRegisters \/ Allocated
  \/ EmitSpill \/ EmitUnspill \/ EmitPart \/ Stabilize

(* The allocator by itself, on any well-formed program.                    *)
Allocate == (\E code : WellFormed(code) /\ StartAllocation(code)) \/ AllocateNext
AllocateSpec == AllocInit /\ [][Allocate]_avars

-----------------------------------------------------------------------------
(* Enough registers, wherever the sources happen to be: each may spoil a   *)
(* range of the widest kind.  And a slot for every value.                  *)
Width(code, n) == Max({1} \cup {Len(Targets(code, n, j)) : j \in Parts(code, n)})
Fits ==
  /\ \A n \in Ops(input) :
       Width(input, n) * (Len(input[n].args) + Cardinality(Parts(input, n))) <= NRegs
  /\ Cardinality(ValuesOf(input)) <= HeapSlots

Regular ==
  /\ \A n \in Ops(input) : input[n].kind # "imm" /\ IsInjective(input[n].args)
  /\ \A v \in ValuesOf(input) : Uses(v) # {v[1]}

(* The loop body can go on: no unwrap, expect or unreachable!() of the     *)
(* allocator is met, from the first operation to the last.                 *)
CanGoOn ==
  CASE victims # << >> ->
         /\ regs[Head(victims)].st = "Storing" /\ map[regs[Head(victims)].val].st = "Registered"
         /\ regs[Head(victims)].val \in Range(heap) \/ Len(heap) < HeapSlots
    [] victims = << >> /\ phase = "sources" /\ todo # << >> ->
         /\ map[Head(todo)].st = "Spilled"
         /\ \E r \in Reg : regs[r].st = "Empty" \/ Idle(r)
    [] phase = "sources" /\ todo = << >> ->
         \A v \in Retiring : map[v].st = "Registered" /\ regs[map[v].at].st \in {"Storing", "Unspilled"}
    [] victims = << >> /\ phase = "results" /\ todo # << >> ->
         /\ \A k \in DOMAIN Wanted : map[Wanted[k]].st = "Unseen"
         /\ \E b \in Reg : Receivable(b) \/ MayClear(b)
    [] victims = << >> /\ phase = "results" /\ todo = << >> ->
         \A v \in Range(Operation.args) \cup Range(Results(input, point)) : map[v].st = "Registered"
    [] phase = "emit" -> \A v \in Leaving : map[v].st = "Registered"
    [] OTHER -> TRUE

(* Every operation, and every member of a batch after the members before   *)
(* it have written theirs, finds in the registers its word names the       *)
(* values that it has in the program, through all spills, unspills and     *)
(* reuses.                                                                 *)
ReadsRight ==
  AtPart => LET operands == Operands(input, point, Head(todo))
                reads == ReadRegs(Head(WordsOf(point, Head(todo))))
            IN  \A i \in DOMAIN operands : file[reads[i]] = operands[i]

(* Between operations the register file and the value map are each other's *)
(* inverse, and a live value is found where the map says, at run time.     *)
LiveValuesKept ==
  phase = "sources" /\ spills = << >> /\ unspills = << >> /\ victims = << >> =>
    /\ \A r \in Reg : regs[r].st # "Empty" => map[regs[r].val] = Registered(r)
    /\ \A v \in DOMAIN map :
         /\ map[v].st = "Registered" => regs[map[v].at].val = v /\ file[map[v].at] = v
         /\ map[v].st = "Spilled" => cells[map[v].at] = v
         /\ v[1] < point /\ (\E u \in Uses(v) : u >= point) => map[v].st \in {"Registered", "Spilled"}

(* A program that has run has left at every destination, and nowhere else, *)
(* the value stored there; no two stores share a destination.              *)
StoresDelivered ==
  phase = "done" =>
    LET stores == {o \in Ops(input) : input[o].kind = "st"}
    IN  /\ DOMAIN delivered = {SlotOf(o) : o \in stores}
        /\ \A o \in stores : delivered[SlotOf(o)] = input[o].args[1]
        /\ \A o, p \in stores : SlotOf(o) = SlotOf(p) => o = p
=============================================================================
