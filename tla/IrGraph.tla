------------------------------ MODULE IrGraph ------------------------------
(***************************************************************************)
(* The intermediate representation of zhc_ir as a value, and the edits of  *)
(* its public interface as operators on it.  An IR is a record of stores:  *)
(* the operations ops[o], their depths depth[o] and the values vals[v].    *)
(* Nothing is ever removed from a store: a deleted operation and its       *)
(* results turn inactive, keep their number, and stay in the use lists.     *)
(*                                                                         *)
(* Identifiers count from 1 here, from 0 in the code.  A use list is the   *)
(* set of its uses; the order it has in the code changes no result below.  *)
(***************************************************************************)
EXTENDS Naturals, Sequences, FiniteSets, FiniteSetsExt, SequencesExt

CONSTANTS Types,
          Signature  \* instruction -> [args |-> types, rets |-> types]

Instructions == DOMAIN Signature

ASSUME SignatureAssumption ==
  Signature \in [Instructions -> [args : Seq(Types), rets : Seq(Types)]]

EmptyIr == [ops |-> << >>, depth |-> << >>, vals |-> << >>]

OpIds(ir) == DOMAIN ir.ops
ValIds(ir) == DOMAIN ir.vals
ActiveOps(ir) == {o \in OpIds(ir) : ir.ops[o].active}
ActiveVals(ir) == {v \in ValIds(ir) : ir.vals[v].active}

Producer(ir, v) == ir.vals[v].origin.op

(* The active operations that use v; a deleted user is skipped, not removed.*)
Users(ir, v) == {u.op : u \in ir.vals[v].users} \cap ActiveOps(ir)
UsersOfOp(ir, o) == UNION {Users(ir, ir.ops[o].rets[k]) : k \in DOMAIN ir.ops[o].rets}
Predecessors(ir, o) == {Producer(ir, ir.ops[o].args[i]) : i \in DOMAIN ir.ops[o].args}
HasUsers(ir, o) == UsersOfOp(ir, o) # {}
IsEffect(ir, o) == ir.ops[o].rets = << >>

(* One more than the deepest argument, 1 without argument.                 *)
DepthOver(depths) == 1 + Max(depths \cup {0})

-----------------------------------------------------------------------------
(* try_add_op returns an error, and changes nothing, unless this holds.    *)
MayAddOp(ir, ins, args) ==
  /\ \A i \in DOMAIN args : args[i] \in ActiveVals(ir)
  /\ [i \in DOMAIN args |-> ir.vals[args[i]].type] = Signature[ins].args

AddOp(ir, ins, args) ==
  LET o == Len(ir.ops) + 1
      n == Len(ir.vals)
      types == Signature[ins].rets
      uses(v) == {[op |-> o, pos |-> i] : i \in {j \in DOMAIN args : args[j] = v}}
  IN  [ops |-> Append(ir.ops, [ins |-> ins, args |-> args,
                               rets |-> [k \in DOMAIN types |-> n + k], active |-> TRUE]),
       depth |-> Append(ir.depth, DepthOver({ir.depth[Producer(ir, args[i])] : i \in DOMAIN args})),
       vals |-> [v \in 1 .. n + Len(types) |->
                   IF v <= n THEN [ir.vals[v] EXCEPT !.users = @ \cup uses(v)]
                   ELSE [users |-> {}, origin |-> [op |-> o, pos |-> v - n],
                         type |-> types[v - n], active |-> TRUE]]]

UpdateDepthsOfUsers(ir, start) ==
  [ir EXCEPT !.depth = [o \in OpIds(ir) |->
     IF o \in start THEN DepthOver({ir.depth[p] : p \in Predecessors(ir, o)}) ELSE ir.depth[o]]]

(* One more than the deepest operation that o takes an argument from.      *)
Deepest(ir, depth, o) == DepthOver({depth[p] : p \in Predecessors(ir, o)})

(* The operations that use a result of o, deleted ones included.           *)
DirectUsers(ir, o) ==
  {u.op : u \in UNION {ir.vals[ir.ops[o].rets[k]].users : k \in DOMAIN ir.ops[o].rets}}

(* A call recomputes the depth of an operation and, if it changed, calls   *)
(* itself for the direct users, one after the other.  The call stack has   *)
(* for each call the operations that are still to be visited.              *)
VisitDepth(ir, s) ==
  LET siblings == Head(s.calls)
      o == CHOOSE q \in siblings : TRUE
      new == Deepest(ir, s.depth, o)
      rest == <<siblings \ {o}>> \o Tail(s.calls)
  IN  IF siblings = {} THEN [s EXCEPT !.calls = Tail(@)]
      ELSE IF new = s.depth[o] THEN [s EXCEPT !.calls = rest]
      ELSE [depth |-> [s.depth EXCEPT ![o] = new], calls |-> <<DirectUsers(ir, o)>> \o rest]

UpdatedDepths(ir, start) ==
  LET update[s \in [depth : [OpIds(ir) -> Nat], calls : Seq(SUBSET OpIds(ir))]] ==
        IF s.calls = << >> THEN s.depth ELSE update[VisitDepth(ir, s)]
  IN  update[[depth |-> ir.depth, calls |-> <<start>>]]

UpdateDepths(ir, start) == [ir EXCEPT !.depth = UpdatedDepths(ir, start)]

ReachesTooShort(ir, o, p) ==
  LET reaches[q \in OpIds(ir)] ==
        \/ q = p
        \/ /\ ir.depth[q] + 1 < ir.depth[p]
           /\ \E u \in UsersOfOp(ir, q) : u = p \/ reaches[u]
  IN  reaches[o]

(* Whether o leads to p, cut short where the depths exclude it.            *)
Reaches(ir, o, p) ==
  LET reaches[q \in OpIds(ir)] ==
        \/ q = p
        \/ /\ ir.depth[q] < ir.depth[p]
           /\ \E u \in UsersOfOp(ir, q) : u = p \/ reaches[u]
  IN  reaches[o]

MayReplace(ir, old, new) ==
  /\ {old, new} \subseteq ActiveVals(ir)
  /\ ir.vals[old].type = ir.vals[new].type
  /\ old = new \/ \A u \in Users(ir, old) : ~Reaches(ir, u, Producer(ir, new))

RedirectWithoutDrain(ir, old, new) ==
  LET uses == ir.vals[old].users
      Rewritten(op) == [op EXCEPT !.args = [i \in DOMAIN op.args |-> IF op.args[i] = old THEN new ELSE op.args[i]]]
  IN  [ops |-> [o \in OpIds(ir) |->
                  IF \E u \in uses : u.op = o THEN Rewritten(ir.ops[o]) ELSE ir.ops[o]],
       depth |-> ir.depth,
       vals |-> [v \in ValIds(ir) |->
                   IF v = new THEN [ir.vals[v] EXCEPT !.users = @ \cup uses] ELSE ir.vals[v]]]

(* The arguments are rewritten and the use lists merged; depths come last. *)
Redirect(ir, old, new) ==
  LET uses == ir.vals[old].users
      Rewritten(op) == [op EXCEPT !.args = [i \in DOMAIN op.args |-> IF op.args[i] = old THEN new ELSE op.args[i]]]
  IN  [ops |-> [o \in OpIds(ir) |->
                  IF \E u \in uses : u.op = o THEN Rewritten(ir.ops[o]) ELSE ir.ops[o]],
       depth |-> ir.depth,
       vals |-> [v \in ValIds(ir) |->
                   CASE v = old -> [ir.vals[v] EXCEPT !.users = {}]
                     [] v = new -> [ir.vals[v] EXCEPT !.users = @ \cup uses]
                     [] OTHER -> ir.vals[v]]]

ReplaceValUse(ir, old, new) ==
  IF old = new THEN ir
  ELSE UpdateDepths(Redirect(ir, old, new), {u.op : u \in ir.vals[old].users})

MayDeleteFirstResult(ir, o) ==
  o \in ActiveOps(ir) /\ (ir.ops[o].rets = << >> \/ Users(ir, ir.ops[o].rets[1]) = {})

MayDelete(ir, o) == o \in ActiveOps(ir) /\ ~HasUsers(ir, o)

(* The operation and its results turn inactive; the use lists of its       *)
(* arguments keep naming it.                                               *)
DeleteOp(ir, o) ==
  [ops |-> [p \in OpIds(ir) |->
              IF p = o THEN [ir.ops[p] EXCEPT !.active = FALSE] ELSE ir.ops[p]],
   depth |-> ir.depth,
   vals |-> [v \in ValIds(ir) |->
               IF \E k \in DOMAIN ir.ops[o].rets : ir.ops[o].rets[k] = v
               THEN [ir.vals[v] EXCEPT !.active = FALSE] ELSE ir.vals[v]]]

-----------------------------------------------------------------------------
(* The operations of a set by depth, then by number.                       *)
ByDepth(ir, ops) ==
  LET Before(o) == {p \in ops : \/ ir.depth[p] < ir.depth[o]
                                \/ ir.depth[p] = ir.depth[o] /\ p < o}
  IN  [n \in 1 .. Cardinality(ops) |-> CHOOSE o \in ops : Cardinality(Before(o)) = n - 1]

(* Inactive operations are in the buckets of the code too, and are         *)
(* filtered when they are walked.                                          *)
Topological(ir) == ByDepth(ir, ActiveOps(ir))

DeletionInOrder(ir, dead) == ByDepth(ir, dead)

(* Deepest first, so that an operation has lost its users when it goes.    *)
DeletionOrder(ir, dead) ==
  [n \in 1 .. Cardinality(dead) |-> ByDepth(ir, dead)[Cardinality(dead) - n + 1]]

(* The graph after each of the deletions of a batch.  Each asserts that    *)
(* nothing uses the results any more.                                      *)
Deletions(ir, dead) ==
  LET order == DeletionOrder(ir, dead)
      state[n \in 0 .. Cardinality(dead)] ==
        IF n = 0 THEN [legal |-> TRUE, graph |-> ir]
        ELSE LET s == state[n - 1]
             IN  [legal |-> s.legal /\ MayDelete(s.graph, order[n]),
                  graph |-> DeleteOp(s.graph, order[n])]
  IN  state

BatchDelete(ir, dead) == Deletions(ir, dead)[Cardinality(dead)].graph

MayBatchDelete(ir, dead) ==
  dead \subseteq ActiveOps(ir) /\ Deletions(ir, dead)[Cardinality(dead)].legal

(* A walker schedules an IR if it visits every operation after those it    *)
(* depends on.                                                             *)
IsTopoSorted(ir, walk) ==
  \A n \in DOMAIN walk :
    Predecessors(ir, walk[n]) \subseteq {walk[m] : m \in 1 .. n}
=============================================================================
