------------------------------ MODULE IrPasses ------------------------------
(***************************************************************************)
(* Dead code and common subexpression elimination.  A pass is one action:  *)
(* it runs to its end on a borrowed IR.  Its assertions are those of every *)
(* edit it makes.                                                          *)
(***************************************************************************)
EXTENDS Ir

CONSTANT Commutative    \* instructions whose dialect sorts the arguments

-----------------------------------------------------------------------------
Effects(ir_) == {o \in OpIds(ir_) : IsEffect(ir_, o)}

(* Worklist of the predecessors, from the effects; no path is longer than  *)
(* the number of operations.                                               *)
Live(ir_) ==
  LET within[n \in 0 .. Len(ir_.ops)] ==
        IF n = 0 THEN Effects(ir_) \cap ActiveOps(ir_)
        ELSE LET S == within[n - 1] IN S \cup UNION {Predecessors(ir_, o) : o \in S}
  IN  within[Len(ir_.ops)]

Dead(ir_) == ActiveOps(ir_) \ Live(ir_)

(* The walk over the effects is the raw one, and marking a deleted         *)
(* operation in the liveness map asserts.                                  *)
EffectsActive(ir_) == Effects(ir_) \subseteq ActiveOps(ir_)

DceAsserts(ir_) == EffectsActive(ir_) /\ MayBatchDelete(ir_, Dead(ir_))
WithoutDeadCode(ir_) == BatchDelete(ir_, Dead(ir_))

-----------------------------------------------------------------------------
(* Arguments with their positions; sorting them, as the dialects do for    *)
(* commutative instructions, keeps only how often each one stands.         *)
Normal(ins, args) ==
  IF ins \in Commutative
  THEN {<<Cardinality({i \in DOMAIN args : args[i] = a}), a>> : a \in ToSet(args)}
  ELSE {<<i, args[i]>> : i \in DOMAIN args}

(* What is computed at position k of o, over value numbers.                *)
ExprInOrder(ir_, vn, o, k) ==
  [ins |-> ir_.ops[o].ins, pos |-> k,
   args |-> {<<i, vn[ir_.ops[o].args[i]]>> : i \in DOMAIN ir_.ops[o].args}]

ExprWithoutPosition(ir_, vn, o, k) ==
  [ins |-> ir_.ops[o].ins, pos |-> 1,
   args |-> Normal(ir_.ops[o].ins, [i \in DOMAIN ir_.ops[o].args |-> vn[ir_.ops[o].args[i]]])]

Expr(ir_, vn, o, k) ==
  [ins |-> ir_.ops[o].ins, pos |-> k,
   args |-> Normal(ir_.ops[o].ins, [i \in DOMAIN ir_.ops[o].args |-> vn[ir_.ops[o].args[i]]])]

(* The table f, with the entries of g for what is not in it yet.           *)
Over(f, g) == [x \in DOMAIN f \cup DOMAIN g |-> IF x \in DOMAIN f THEN f[x] ELSE g[x]]

(* The number of a value is the first value with its expression; a later   *)
(* one is to be replaced by it.                                            *)
Visit(ir_, s, o) ==
  LET rets  == ir_.ops[o].rets
      exprs == [k \in DOMAIN rets |-> Expr(ir_, s.vn, o, k)]
      known == {k \in DOMAIN rets : exprs[k] \in DOMAIN s.table}
      first == [k \in DOMAIN rets |-> IF k \in known THEN s.table[exprs[k]] ELSE rets[k]]
      Known(n) == CHOOSE k \in known : Cardinality({l \in known : l < k}) = n - 1
  IN  [table |-> Over(s.table, [e \in Range(exprs) |-> rets[e.pos]]),
       vn |-> Over(s.vn, [v \in Range(rets) |-> first[ir_.vals[v].origin.pos]]),
       replace |-> s.replace \o [n \in 1 .. Cardinality(known) |->
                                   [old |-> rets[Known(n)], new |-> first[Known(n)]]]]

(* The numbering after each operation of the walk.                         *)
Numberings(ir_) ==
  LET order == Topological(ir_)
      state[n \in 0 .. Cardinality(ActiveOps(ir_))] ==
        IF n = 0 THEN [table |-> << >>, vn |-> << >>, replace |-> << >>]
        ELSE Visit(ir_, state[n - 1], order[n])
  IN  state

Numbering(ir_) == Numberings(ir_)[Cardinality(ActiveOps(ir_))]

(* The graph after each of the replacements, up to one that panics.        *)
Replacing(ir_, replacements) ==
  LET state[n \in 0 .. Len(replacements)] ==
        IF n = 0 THEN [legal |-> TRUE, graph |-> ir_]
        ELSE LET s == state[n - 1]
                 r == replacements[n]
             IN  IF s.legal /\ MayReplace(s.graph, r.old, r.new)
                 THEN [s EXCEPT !.graph = ReplaceValUse(@, r.old, r.new)]
                 ELSE [s EXCEPT !.legal = FALSE]
  IN  state

MakeReplacements(ir_, replacements) == Replacing(ir_, replacements)[Len(replacements)].graph
MayMakeReplacements(ir_, replacements) == Replacing(ir_, replacements)[Len(replacements)].legal

WithoutCommonSubexpressions(ir_) ==
  WithoutDeadCode(MakeReplacements(ir_, Numbering(ir_).replace))

CseAsserts(ir_) ==
  LET replaced == MakeReplacements(ir_, Numbering(ir_).replace)
  IN  /\ MayMakeReplacements(ir_, Numbering(ir_).replace)
      /\ EffectsActive(ir_) /\ MayBatchDelete(replaced, Dead(replaced))

-----------------------------------------------------------------------------
EliminateDeadCode ==
  /\ EffectsActive(ir)
  /\ ir' = WithoutDeadCode(ir)

EliminateCommonSubexpressions ==
  /\ EffectsActive(ir)
  /\ ir' = WithoutCommonSubexpressions(ir)

IrPassesNext ==
  \/ IrNext
  \/ EliminateDeadCode
  \/ EliminateCommonSubexpressions

IrPassesSpec == IrInit /\ [][IrPassesNext]_ir

-----------------------------------------------------------------------------
(* What a value computes, as a term over the instructions.                 *)
Terms(ir_) ==
  LET term[v \in ActiveVals(ir_)] ==
        LET op == ir_.ops[Producer(ir_, v)]
        IN  [ins |-> op.ins, pos |-> ir_.vals[v].origin.pos,
             args |-> Normal(op.ins, [i \in DOMAIN op.args |-> term[op.args[i]]])]
  IN  term

(* What the program does: the terms its effects receive.                   *)
Meaning(ir_) ==
  LET terms == Terms(ir_)
  IN  [o \in Effects(ir_) \cap ActiveOps(ir_) |->
         <<ir_.ops[o].ins, [i \in DOMAIN ir_.ops[o].args |-> terms[ir_.ops[o].args[i]]]>>]

(* After any history of edits, each pass panics exactly if an effect has   *)
(* been deleted, which its raw walk over the effects then marks.  No other *)
(* assertion can fail: every replacement the passes issue is legal when    *)
(* its turn comes, though the ones before it have changed the graph, and   *)
(* every operation they delete has lost its users by then.                 *)
PanicsAtDeletedEffects ==
  /\ DceAsserts(ir) <=> EffectsActive(ir)
  /\ CseAsserts(ir) <=> EffectsActive(ir)

(* No pass changes what the effects of the program receive.                *)
MeaningKept ==
  /\ Meaning(WithoutDeadCode(ir)) = Meaning(ir)
  /\ Meaning(WithoutCommonSubexpressions(ir)) = Meaning(ir)

(* Value numbering is complete: no two values that are left compute the    *)
(* same term, even where merging arguments made them equal.                *)
NoDuplicateLeft ==
  LET rest == WithoutCommonSubexpressions(ir)
      terms == Terms(rest)
  IN  \A v, w \in ActiveVals(rest) : terms[v] = terms[w] => v = w

=============================================================================
