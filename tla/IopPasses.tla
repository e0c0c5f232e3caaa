------------------------------ MODULE IopPasses ------------------------------
(***************************************************************************)
(* The instructions of ioplang that circuits over blocks are made of, and  *)
(* the passes of ioplang over them.                                        *)
(*                                                                         *)
(* An instruction is a name with its immediate: the position of an input   *)
(* or an output, the index of a block, a constant. "inspect" is typed, as  *)
(* the code's is.  Of the arithmetic, one addition of two ciphertext       *)
(* blocks, one of a plaintext block and one lookup with two results stand  *)
(* for all: the passes do not tell them apart.                             *)
(*                                                                         *)
(* Each pass analyses the graph as it stands, collects replacements of     *)
(* values, and then makes them one after the other on a graph that the     *)
(* earlier ones have changed.                                              *)
(***************************************************************************)
EXTENDS IrPasses

CONSTANTS
  BlockCount,    \* the number of blocks of every integer
  Positions,     \* bound: the positions of inputs and outputs
  Constants      \* bound: the values of the constant blocks

ASSUME IopAssumption ==
  /\ BlockCount \in Nat \ {0}
  /\ Positions \subseteq Nat
  /\ 0 \in Constants

BlockIndices == 0 .. BlockCount - 1

IopTypes == {"Ct", "CtBlock", "Pt", "PtBlock"}

SigOf(name) ==
  CASE name = "input_ct"      -> [args |-> <<>>, rets |-> <<"Ct">>]
    [] name = "input_pt"      -> [args |-> <<>>, rets |-> <<"Pt">>]
    [] name = "output"        -> [args |-> <<"Ct">>, rets |-> <<>>]
    [] name = "inspect_ct"    -> [args |-> <<"Ct">>, rets |-> <<"Ct">>]
    [] name = "inspect_block" -> [args |-> <<"CtBlock">>, rets |-> <<"CtBlock">>]
    [] name = "declare"       -> [args |-> <<>>, rets |-> <<"Ct">>]
    [] name = "let_ct"        -> [args |-> <<>>, rets |-> <<"CtBlock">>]
    [] name = "let_pt"        -> [args |-> <<>>, rets |-> <<"PtBlock">>]
    [] name = "add_ct"        -> [args |-> <<"CtBlock", "CtBlock">>, rets |-> <<"CtBlock">>]
    [] name = "add_pt"        -> [args |-> <<"CtBlock", "PtBlock">>, rets |-> <<"CtBlock">>]
    [] name = "pbs2"          -> [args |-> <<"CtBlock">>, rets |-> <<"CtBlock", "CtBlock">>]
    [] name = "extract_ct"    -> [args |-> <<"Ct">>, rets |-> <<"CtBlock">>]
    [] name = "extract_pt"    -> [args |-> <<"Pt">>, rets |-> <<"PtBlock">>]
    [] name = "store_ct"      -> [args |-> <<"CtBlock", "Ct">>, rets |-> <<"Ct">>]

IopInstructions ==
  ({"input_ct", "input_pt", "output"} \X Positions)
  \cup ({"extract_ct", "extract_pt", "store_ct"} \X BlockIndices)
  \cup ({"let_ct", "let_pt"} \X Constants)
  \cup ({"inspect_ct", "inspect_block", "declare", "add_ct", "add_pt", "pbs2"} \X {0})

IopSignature == [ins \in IopInstructions |-> SigOf(ins[1])]

-----------------------------------------------------------------------------
(* Reading a graph.                                                        *)

Name(g, o)  == g.ops[o].ins[1]
Index(g, o) == g.ops[o].ins[2]
Arg(g, o, i) == g.ops[o].args[i]
Result(g, o) == g.ops[o].rets[1]

Named(g, names) == {o \in ActiveOps(g) : Name(g, o) \in names}
InOrder(S)      == SelectSeq([n \in 1 .. Max(S \cup {0}) |-> n], LAMBDA n : n \in S)

(* The results of a sequence of operations, each replaced by its image.    *)
ReplaceResults(g, ops, image) ==
  [n \in DOMAIN ops |-> [old |-> Result(g, ops[n]), new |-> image[ops[n]]]]

-----------------------------------------------------------------------------
Inspects(g) == Named(g, {"inspect_ct", "inspect_block"})

(* Mutant of Targets: one step only, along a chain.                        *)
Sources(g) == [i \in Inspects(g) |-> Arg(g, i, 1)]

(* The value an inspection shows, through inspections of inspections.      *)
Targets(g) ==
  LET target[i \in Inspects(g)] ==
        LET p == Producer(g, Arg(g, i, 1))
        IN  IF p \in Inspects(g) THEN target[p] ELSE Arg(g, i, 1)
  IN  target

AliasReplacements(g) == ReplaceResults(g, InOrder(Inspects(g)), Targets(g))

EliminateAliases(g) ==
  FoldLeft(DeleteOp, MakeReplacements(g, AliasReplacements(g)), InOrder(Inspects(g)))

EliminateAliasesAsserts(g) ==
  LET replaced == MakeReplacements(g, AliasReplacements(g))
  IN  /\ MayMakeReplacements(g, AliasReplacements(g))
      /\ \A i \in Inspects(g) : MayDelete(replaced, i)

-----------------------------------------------------------------------------
CtVals(g) == {v \in ActiveVals(g) : g.vals[v].type = "Ct"}

(* Mutant of Stored: an earlier store to the same block wins.              *)
StoredFirst(g) ==
  LET stored[v \in CtVals(g)] ==
        LET o == Producer(g, v)
        IN  IF Name(g, o) = "store_ct"
            THEN stored[Arg(g, o, 2)] @@ Index(g, o) :> Arg(g, o, 1) ELSE << >>
  IN  stored

(* The value last stored in each block of an integer, for those that have  *)
(* been stored.                                                            *)
Stored(g) ==
  LET stored[v \in CtVals(g)] ==
        LET o == Producer(g, v)
        IN  IF Name(g, o) = "store_ct"
            THEN Index(g, o) :> Arg(g, o, 1) @@ stored[Arg(g, o, 2)] ELSE << >>
  IN  stored

LoadReplacements(g) ==
  LET stored == Stored(g)
      loads  == {o \in Named(g, {"extract_ct"}) : Index(g, o) \in DOMAIN stored[Arg(g, o, 1)]}
  IN  ReplaceResults(g, InOrder(loads), [o \in loads |-> stored[Arg(g, o, 1)][Index(g, o)]])

SkipStoreLoad(g) == MakeReplacements(g, LoadReplacements(g))

(* An integer that is neither an input, nor declared, nor a store has no   *)
(* map of its blocks.                                                      *)
SkipStoreLoadAsserts(g) ==
  /\ Named(g, {"inspect_ct"}) = {}
  /\ MayMakeReplacements(g, LoadReplacements(g))

-----------------------------------------------------------------------------
Stores(g) == Named(g, {"store_ct"})

(* Mutant of Covered: a store does not count itself.                       *)
CoveredByOthers(g) ==
  LET covered[o \in ActiveOps(g)] ==
        IF o \notin Stores(g) THEN {} ELSE UNION {covered[u] : u \in Users(g, Result(g, o))}
  IN  covered

(* The blocks that the stores from this one on write, in a chain.          *)
Covered(g) ==
  LET covered[o \in ActiveOps(g)] ==
        IF o \notin Stores(g) THEN {}
        ELSE {Index(g, o)} \cup UNION {covered[u] : u \in Users(g, Result(g, o))}
  IN  covered

RedundantReplacements(g) ==
  LET covered == Covered(g)
      later(o) == UNION {covered[u] : u \in Users(g, Result(g, o))}
      redundant == {o \in Stores(g) : Index(g, o) \in later(o)}
  IN  ReplaceResults(g, Reverse(InOrder(redundant)), [o \in redundant |-> Arg(g, o, 2)])

SkipRedundantStores(g) == MakeReplacements(g, RedundantReplacements(g))

(* "Expected a linear chain of stores, but found a branch."                *)
LinearChains(g) == \A o \in Stores(g) : Cardinality(Users(g, Result(g, o))) <= 1

SkipRedundantStoresAsserts(g) ==
  LinearChains(g) /\ MayMakeReplacements(g, RedundantReplacements(g))

-----------------------------------------------------------------------------
(* The interpretation of a program, over terms: an integer is a function   *)
(* from its blocks to what they hold.                                      *)
Term(ins, pos, args) == [ins |-> ins, pos |-> pos, args |-> args]
Zero == Term(<<"let_ct", 0>>, 1, {})

Interpreted(g) ==
  LET term[v \in ActiveVals(g)] ==
        LET o    == Producer(g, v)
            name == Name(g, o)
            arg(i) == term[Arg(g, o, i)]
        IN  CASE name \in {"input_ct", "input_pt"} ->
                   [i \in BlockIndices |-> Term(g.ops[o].ins, i, {})]
              [] name = "declare" -> [i \in BlockIndices |-> Zero]
              [] name = "store_ct" -> [arg(2) EXCEPT ![Index(g, o)] = arg(1)]
              [] name \in {"extract_ct", "extract_pt"} -> arg(1)[Index(g, o)]
              [] name \in {"inspect_ct", "inspect_block"} -> arg(1)
              [] OTHER -> Term(g.ops[o].ins, g.vals[v].origin.pos,
                               Normal(g.ops[o].ins, [i \in DOMAIN g.ops[o].args |-> arg(i)]))
  IN  term

(* What every output position receives.                                    *)
Outputs(g) ==
  LET term == Interpreted(g)
      out(p) == CHOOSE o \in Named(g, {"output"}) : Index(g, o) = p
  IN  [p \in {Index(g, o) : o \in Named(g, {"output"})} |-> term[Arg(g, out(p), 1)]]
=============================================================================
