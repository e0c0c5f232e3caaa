----------------------------- MODULE IopPipeline -----------------------------
(***************************************************************************)
(* A circuit on its way from the Builder to hpulang: it is built by calls  *)
(* of the Builder, then Builder::optimize_ir runs its passes on a copy, one*)
(* after the other, and the result is lowered.  Each pass is a step,       *)
(* enabled when none of its assertions fails.                              *)
(*                                                                         *)
(* "ir" is the graph under construction, "handles" the values the caller   *)
(* has been given; the integers that a join stores its blocks into one by  *)
(* one are not among them.  Every integer has BlockCount blocks.           *)
(***************************************************************************)
EXTENDS IopPasses

-----------------------------------------------------------------------------
(* The translation of ioplang to hpulang.  Integers disappear: a block is  *)
(* loaded from a position of the sources or stored to a position of the    *)
(* destinations, which are found by walking the graph both ways.  The      *)
(* registers of the lowered program are named by the ioplang values they   *)
(* translate.                                                              *)

(* An optional position is a set of at most one.                           *)
The(S) == CHOOSE p \in S : TRUE

(* The input an operation belongs to.                                      *)
SourcePosition(g) ==
  LET source[o \in ActiveOps(g)] ==
        CASE Name(g, o) \in {"input_ct", "input_pt"} -> {Index(g, o)}
          [] Name(g, o) \in {"extract_ct", "extract_pt"} -> source[Producer(g, Arg(g, o, 1))]
          [] OTHER -> {}
  IN  source

(* The output a store belongs to, the input of any other operation.        *)
Position(g) ==
  LET source == SourcePosition(g)
      position[o \in ActiveOps(g)] ==
        CASE Name(g, o) = "output" -> {Index(g, o)}
          [] Name(g, o) = "store_ct" -> UNION {position[u] : u \in Users(g, Result(g, o))}
          [] OTHER -> source[o]
  IN  position

(* The operations whose plaintext operand is a constant of the program.    *)
Constant(g, o) == {Producer(g, Arg(g, o, 2))} \cap Named(g, {"let_pt"})

Lowers(ins, o, g, args) == <<[ins |-> ins, args |-> args, rets |-> g.ops[o].rets]>>

(* The instructions an operation is translated to: none or one.            *)
Translated(g, o, position) ==
  LET args == g.ops[o].args
      at   == The(position)
  IN  CASE Name(g, o) \in {"input_ct", "input_pt", "let_pt", "output", "declare"} -> <<>>
        [] Name(g, o) = "let_ct" -> Lowers(<<"cst_ct", Index(g, o)>>, o, g, <<>>)
        [] Name(g, o) \in {"add_ct", "pbs2"} -> Lowers(<<Name(g, o), 0>>, o, g, args)
        [] Name(g, o) = "add_pt" ->
             IF Constant(g, o) # {}
             THEN Lowers(<<"add_cst", Index(g, The(Constant(g, o)))>>, o, g, <<args[1]>>)
             ELSE Lowers(<<"add_pt", 0>>, o, g, args)
        [] Name(g, o) = "extract_ct" -> Lowers(<<"src_ld", at, Index(g, o)>>, o, g, <<>>)
        [] Name(g, o) = "extract_pt" -> Lowers(<<"imm_ld", at, Index(g, o)>>, o, g, <<>>)
        [] Name(g, o) = "store_ct" ->
             <<[ins |-> <<"dst_st", at, Index(g, o)>>, args |-> <<args[1]>>, rets |-> <<>>]>>

(* In the order of insertion.                                              *)
LowerIopToHpu(g) ==
  LET position == Position(g)
      walk     == InOrder(ActiveOps(g))
  IN  FlattenSeq([n \in DOMAIN walk |-> Translated(g, walk[n], position[walk[n]])])

Reached(g, o) ==
  LET reached[p \in ActiveOps(g)] ==
        UsersOfOp(g, p) \cup UNION {reached[u] : u \in UsersOfOp(g, p)}
  IN  reached[o]

(* The asserts of the two walks and of the translation: a store has one    *)
(* user; a declared integer is only stored to and output; no inspection is *)
(* left; loads and stores have a position.                                 *)
PositionAsserts(g) ==
  /\ \A o \in Stores(g) : Cardinality(Users(g, Result(g, o))) = 1
  /\ \A o \in Named(g, {"declare"}) :
       Reached(g, o) \subseteq Named(g, {"store_ct", "output"})
  /\ Inspects(g) = {}
  /\ LET position == Position(g)
     IN  \A o \in Named(g, {"extract_ct", "extract_pt", "store_ct"}) : position[o] # {}

(* translate_val: an operand has been translated when it is asked for.     *)
OperandsTranslated(hpu) ==
  \A n \in DOMAIN hpu : \A i \in DOMAIN hpu[n].args :
    \E m \in 1 .. n - 1 : hpu[n].args[i] \in ToSet(hpu[m].rets)

LowerAsserts(g) == PositionAsserts(g) /\ OperandsTranslated(LowerIopToHpu(g))

-----------------------------------------------------------------------------
(* The interpretation of an hpulang instruction, given that of registers.  *)
HpuResult(instr, k, regs) ==
  LET arg(i) == regs[instr.args[i]]
      name   == instr.ins[1]
  IN  CASE name = "src_ld" -> Term(<<"input_ct", instr.ins[2]>>, instr.ins[3], {})
        [] name = "imm_ld" -> Term(<<"input_pt", instr.ins[2]>>, instr.ins[3], {})
        [] name = "cst_ct" -> Term(<<"let_ct", instr.ins[2]>>, 1, {})
        [] name = "add_cst" ->
             Term(<<"add_pt", 0>>, 1,
                  {<<1, arg(1)>>, <<2, Term(<<"let_pt", instr.ins[2]>>, 1, {})>>})
        [] OTHER -> Term(instr.ins, k, Normal(instr.ins, [i \in DOMAIN instr.args |-> arg(i)]))

(* The registers and the destinations after a program.                     *)
HpuRun(hpu) ==
  LET Step(s, instr) ==
        [regs |-> [k \in ToSet(instr.rets) |->
                     HpuResult(instr, CHOOSE j \in DOMAIN instr.rets : instr.rets[j] = k, s.regs)]
                  @@ s.regs,
         dests |-> IF instr.ins[1] = "dst_st"
                   THEN <<instr.ins[2], instr.ins[3]>> :> s.regs[instr.args[1]] @@ s.dests
                   ELSE s.dests]
  IN  FoldLeft(Step, [regs |-> << >>, dests |-> << >>], hpu)

(* "Destination already written."                                          *)
HpuAsserts(hpu) ==
  \A m, n \in DOMAIN hpu : hpu[m].ins[1] = "dst_st" /\ hpu[m].ins = hpu[n].ins => m = n

-----------------------------------------------------------------------------
(* The calls of the Builder.                                               *)

CONSTANT Budgets  \* bounds: how often each function of the Builder is called

VARIABLES handles, called, budget

circuitVars == <<ir, handles, called, budget>>

CircuitInit ==
  /\ ir = EmptyIr
  /\ handles = {}
  /\ budget \in Budgets
  /\ called = [f \in DOMAIN budget |-> 0]

Call(f) ==
  /\ called[f] < budget[f]
  /\ called' = [called EXCEPT ![f] = @ + 1]
  /\ UNCHANGED budget

HandlesOf(type) == {v \in handles : ir.vals[v].type = type}

(* The operation inserted, and its results handed out.                     *)
InsertOp(f, ins, args) ==
  /\ Call(f)
  /\ ir' = AddOp(ir, ins, args)
  /\ handles' = handles \cup ((1 .. Len(ir'.vals)) \ (1 .. Len(ir.vals)))

InputCount == called["ciphertext_input"] + called["plaintext_input"]

CiphertextInput == InsertOp("ciphertext_input", <<"input_ct", InputCount>>, <<>>)
PlaintextInput  == InsertOp("plaintext_input", <<"input_pt", InputCount>>, <<>>)

CiphertextOutput(ct) ==
  InsertOp("ciphertext_output", <<"output", called["ciphertext_output"]>>, <<ct>>)

CiphertextInspect(ct) == InsertOp("inspect", <<"inspect_ct", 0>>, <<ct>>)
BlockInspect(b)       == InsertOp("inspect", <<"inspect_block", 0>>, <<b>>)

BlockLetCiphertext(c) == InsertOp("block_let", <<"let_ct", c>>, <<>>)
BlockLetPlaintext(c)  == InsertOp("block_let", <<"let_pt", c>>, <<>>)

BlockAdd(a, b)          == InsertOp("block_op", <<"add_ct", 0>>, <<a, b>>)
BlockAddPlaintext(a, p) == InsertOp("block_op", <<"add_pt", 0>>, <<a, p>>)
BlockLookup2(a)         == InsertOp("block_op", <<"pbs2", 0>>, <<a>>)

(* One extraction for every block.                                         *)
Split(f, name, whole) ==
  /\ Call(f)
  /\ ir' = FoldLeft(LAMBDA g, i : AddOp(g, <<name, i>>, <<whole>>), ir,
                    [i \in 1 .. BlockCount |-> i - 1])
  /\ handles' = handles \cup ((1 .. Len(ir'.vals)) \ (1 .. Len(ir.vals)))

CiphertextSplit(ct) == Split("ciphertext_split", "extract_ct", ct)
PlaintextSplit(pt)  == Split("plaintext_split", "extract_pt", pt)

(* An integer is declared and a zero stored in each of its blocks; then    *)
(* the given blocks are stored over them.                                  *)
CiphertextJoin(blocks) ==
  LET empty    == AddOp(AddOp(ir, <<"declare", 0>>, <<>>), <<"let_ct", 0>>, <<>>)
      zero     == Len(empty.vals)
      indexed  == [k \in 1 .. BlockCount + Len(blocks) |->
                     IF k <= BlockCount THEN [index |-> k - 1, block |-> zero]
                     ELSE [index |-> k - 1 - BlockCount, block |-> blocks[k - BlockCount]]]
      Store(s, b) == [g |-> AddOp(s.g, <<"store_ct", b.index>>, <<b.block, s.acc>>),
                      acc |-> Len(s.g.vals) + 1]
      joined   == FoldLeft(Store, [g |-> empty, acc |-> zero - 1], indexed)
  IN  /\ Call("ciphertext_join")
      /\ ir' = joined.g
      /\ handles' = handles \cup {joined.acc}

CircuitNext ==
  \/ CiphertextInput
  \/ PlaintextInput
  \/ \E ct \in HandlesOf("Ct") :
       CiphertextSplit(ct) \/ CiphertextInspect(ct) \/ CiphertextOutput(ct)
  \/ \E pt \in HandlesOf("Pt") : PlaintextSplit(pt)
  \/ \E blocks \in UNION {[1 .. n -> HandlesOf("CtBlock")] : n \in 1 .. BlockCount} :
       CiphertextJoin(blocks)
  \/ \E b \in HandlesOf("CtBlock") : BlockInspect(b) \/ BlockLookup2(b)
  \/ \E a, b \in HandlesOf("CtBlock") : BlockAdd(a, b)
  \/ \E a \in HandlesOf("CtBlock"), p \in HandlesOf("PtBlock") : BlockAddPlaintext(a, p)
  \/ \E c \in Constants : BlockLetCiphertext(c) \/ BlockLetPlaintext(c)

-----------------------------------------------------------------------------
(* The passes over the circuit, and the lowering.                          *)

VARIABLES
  passes,     \* how many of the passes have run
  panicked,   \* an assertion of the next one has failed
  expected,   \* history: the outputs of the circuit as it was built
  plain,      \* history: whether that circuit was plain
  lowered     \* the hpulang program

pipelineVars ==
  <<ir, handles, called, budget, passes, panicked, expected, plain, lowered>>

PassNames == <<"eliminate_aliases", "skip_store_load", "eliminate_dead_code",
               "skip_redundant_stores", "eliminate_dead_code",
               "eliminate_common_subexpressions", "lower_iop_to_hpu">>

Finished == passes = Len(PassNames)

PipelineInit ==
  /\ CircuitInit
  /\ passes = 0
  /\ panicked = FALSE
  /\ expected = << >>
  /\ plain = FALSE
  /\ lowered = <<>>

Build ==
  /\ passes = 0 /\ ~panicked
  /\ CircuitNext
  /\ UNCHANGED <<passes, panicked, expected, plain, lowered>>

(* The next pass, over the whole graph, unless one of its assertions fails.*)
Run(name, asserts, result) ==
  /\ ~panicked
  /\ passes < Len(PassNames) /\ PassNames[passes + 1] = name
  /\ IF asserts THEN ir' = result /\ passes' = passes + 1 /\ UNCHANGED panicked
     ELSE panicked' = TRUE /\ UNCHANGED <<ir, passes>>
  /\ UNCHANGED <<handles, called, budget>>

(* A circuit is plain if it has one output and no block that is taken from *)
(* one joined integer is stored as it is in another one.                   *)
Plain(g) ==
  LET joined == {v \in CtVals(g) : Producer(g, v) \in Stores(g)}
      taken  == {Result(g, o) : o \in {e \in Named(g, {"extract_ct"}) :
                                        Arg(g, e, 1) \in joined}}
  IN  /\ Cardinality(Named(g, {"output"})) = 1
      /\ \A o \in Stores(g) : Arg(g, o, 1) \notin taken

(* Bound: a circuit is compiled once all its calls have been made.         *)
RunEliminateAliases ==
  /\ called = budget
  /\ Run("eliminate_aliases", EliminateAliasesAsserts(ir), EliminateAliases(ir))
  /\ expected' = Outputs(ir)
  /\ plain' = Plain(ir')
  /\ UNCHANGED lowered

RunSkipStoreLoad ==
  /\ Run("skip_store_load", SkipStoreLoadAsserts(ir), SkipStoreLoad(ir))
  /\ UNCHANGED <<expected, plain, lowered>>

RunEliminateDeadCode ==
  /\ Run("eliminate_dead_code", DceAsserts(ir), WithoutDeadCode(ir))
  /\ UNCHANGED <<expected, plain, lowered>>

RunSkipRedundantStores ==
  /\ Run("skip_redundant_stores", SkipRedundantStoresAsserts(ir), SkipRedundantStores(ir))
  /\ UNCHANGED <<expected, plain, lowered>>

RunEliminateCommonSubexpressions ==
  /\ Run("eliminate_common_subexpressions", CseAsserts(ir), WithoutCommonSubexpressions(ir))
  /\ UNCHANGED <<expected, plain, lowered>>

RunLower ==
  /\ Run("lower_iop_to_hpu", LowerAsserts(ir), ir)
  /\ lowered' = IF panicked' THEN lowered ELSE LowerIopToHpu(ir)
  /\ UNCHANGED <<expected, plain>>

PipelineNext ==
  \/ Build
  \/ RunEliminateAliases
  \/ RunSkipStoreLoad
  \/ RunEliminateDeadCode
  \/ RunSkipRedundantStores
  \/ RunEliminateCommonSubexpressions
  \/ RunLower

PipelineSpec == PipelineInit /\ [][PipelineNext]_pipelineVars

-----------------------------------------------------------------------------
(* After every pass the circuit still gives every output what the circuit  *)
(* as it was built gives it: a load takes the last store before it, a      *)
(* store that is dropped is overwritten before anyone reads it, and merged *)
(* expressions are equal (eliminate_aliases.rs, skip_store_load.rs,        *)
(* skip_redundant_stores.rs, Builder::optimize_ir).                        *)
OutputsKept == passes > 0 => Outputs(ir) = expected

(* An output is joined if a store made it; the other outputs are inputs    *)
(* that the circuit hands on unchanged, or integers without a block.       *)
OutputPositions == {Index(ir, o) : o \in Named(ir, {"output"})}
JoinedOutputs ==
  {Index(ir, o) : o \in {u \in Named(ir, {"output"}) :
                           Producer(ir, Arg(ir, u, 1)) \in Stores(ir)}}
Delivers(position, block) ==
  /\ <<position, block>> \in DOMAIN HpuRun(lowered).dests
  /\ HpuRun(lowered).dests[<<position, block>>] = expected[position][block]

(* The lowered program writes every block of every output that a join      *)
(* made, once, with the value the circuit gives it; what it writes besides *)
(* is a block of another output, and right as well; it loads each register *)
(* before it reads it (lower_iop_to_hpu, hpulang/interpretation.rs).       *)
LoweredRight ==
  Finished =>
    /\ HpuAsserts(lowered)
    /\ \A p \in JoinedOutputs, i \in BlockIndices : Delivers(p, i)
    /\ \A d \in DOMAIN HpuRun(lowered).dests :
         d \in OutputPositions \X BlockIndices /\ Delivers(d[1], d[2])

(* The lowered program writes every block of every output, those included  *)
(* that hand on an input, as in the example of the documentation of        *)
(* Builder::eval, where the output is the input.  It does not: no store    *)
(* leads to such an output, and only stores are lowered.                   *)
OutputsDelivered ==
  Finished => \A p \in OutputPositions, i \in BlockIndices : Delivers(p, i)

(* A plain circuit meets no panic on its way: its chain of stores is       *)
(* linear once the loads have been skipped and stays so, the integer it    *)
(* declares is not read any more, and the walk in the order of insertion   *)
(* finds every operand translated.  On any other circuit the optimizer     *)
(* has one panic, at an integer still used twice once its loads have been  *)
(* skipped (skip_redundant_stores.rs:44): every other replacement a pass   *)
(* has collected is legal when its turn comes, and every operation it      *)
(* deletes has lost its users by then.                                     *)
PanicsExplained ==
  panicked => /\ ~plain
              /\ \/ passes = 3 /\ ~LinearChains(ir)
                 \/ PassNames[passes + 1] = "lower_iop_to_hpu"
=============================================================================
