--------------------------------- MODULE Ir ---------------------------------
(***************************************************************************)
(* The life of an IR under its public mutators: operations are added, the  *)
(* uses of a value are redirected to another one, operations without users *)
(* are deleted, in any order that the assertions of the code allow.  Names *)
(* of instructions and types are parameters.                               *)
(***************************************************************************)
EXTENDS IrGraph

CONSTANT MaxOps     \* bound: operations ever added

VARIABLE ir

IrInit == ir = EmptyIr

AddOperation(ins, args) ==
  /\ Len(ir.ops) < MaxOps
  /\ MayAddOp(ir, ins, args)
  /\ ir' = AddOp(ir, ins, args)

ReplaceUses(old, new) ==
  /\ MayReplace(ir, old, new)
  /\ ir' = ReplaceValUse(ir, old, new)

DeleteOperation(o) ==
  /\ MayDelete(ir, o)
  /\ ir' = DeleteOp(ir, o)

IrNext ==
  \/ \E ins \in Instructions : \E args \in [DOMAIN Signature[ins].args -> ActiveVals(ir)] :
       AddOperation(ins, args)
  \/ \E old, new \in ActiveVals(ir) : ReplaceUses(old, new)
  \/ \E o \in ActiveOps(ir) : DeleteOperation(o)

IrSpec == IrInit /\ [][IrNext]_ir

-----------------------------------------------------------------------------
(* Use-def chains are exact over every history of edits: the use list of a *)
(* value holds the argument positions where it stands and nothing else,    *)
(* also where its user has been deleted.                                   *)
UseDef ==
  \A v \in ValIds(ir) :
    ir.vals[v].users =
      UNION {{[op |-> o, pos |-> i] : i \in {j \in DOMAIN ir.ops[o].args : ir.ops[o].args[j] = v}} :
               o \in OpIds(ir)}

(* Nothing alive stands on something deleted: the arguments of an active   *)
(* operation are active, and a value is as active as its producer.  The    *)
(* accessors of the code panic otherwise.                                  *)
NoDeadUse ==
  /\ \A o \in ActiveOps(ir) : \A i \in DOMAIN ir.ops[o].args : ir.ops[o].args[i] \in ActiveVals(ir)
  /\ \A v \in ValIds(ir) : ir.vals[v].active = ir.ops[Producer(ir, v)].active

(* The incremental recomputation leaves every depth, deleted operations    *)
(* included, what a computation from scratch would give, so that the walk  *)
(* by depth is a schedule at any time.                                     *)
DepthsExact ==
  /\ IsTopoSorted(ir, Topological(ir))
  /\ \A o \in OpIds(ir) : ir.depth[o] = DepthOver({ir.depth[p] : p \in Predecessors(ir, o)})

(* The depth shortcut of "reaches" never misses a path: what it answers is *)
(* what a search without it would.  A missed path lets a cycle in.         *)
PruneSound ==
  LET Ahead(S) == S \cup UNION {UsersOfOp(ir, o) : o \in S}
      closure[n \in Nat] == [o \in ActiveOps(ir) |->
                               IF n = 0 THEN {o} ELSE Ahead(closure[n - 1][o])]
      reached == closure[Cardinality(ActiveOps(ir))]
  IN  \A o, p \in ActiveOps(ir) : Reaches(ir, o, p) <=> p \in reached[o]
=============================================================================
