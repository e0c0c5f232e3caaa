------------------------------ MODULE IrProofs ------------------------------
(***************************************************************************)
(* The IR and its passes over every instruction set and every history.     *)
(* The use-def chains are exact, and nothing active stands on something    *)
(* deleted; no step of that part looks at a depth.  The update of depths   *)
(* that follows every replacement ends with all of them exact, so that the *)
(* walk by depth is in order and the search they cut short misses nothing. *)
(* With that the passes run to their end, keep what the effects of the     *)
(* program receive, and leave no common subexpression.                     *)
(***************************************************************************)
EXTENDS IrPasses, FiniteSetTheorems, WellFoundedInduction, TLAPS

Position == [op : Nat, pos : Nat]
OpRecord == [ins : Instructions, args : Seq(Nat), rets : Seq(Nat), active : BOOLEAN]
ValRecord == [users : SUBSET Position, origin : Position, type : Types, active : BOOLEAN]

StoresOK(g) == g.ops \in Seq(OpRecord) /\ g.vals \in Seq(ValRecord)

(* Arguments exist; a value and its producer name each other.              *)
LinksOK(g) ==
  /\ \A o \in OpIds(g) : \A i \in DOMAIN g.ops[o].args : g.ops[o].args[i] \in ValIds(g)
  /\ \A o \in OpIds(g) : \A k \in DOMAIN g.ops[o].rets :
       /\ g.ops[o].rets[k] \in ValIds(g)
       /\ g.vals[g.ops[o].rets[k]].origin = [op |-> o, pos |-> k]
  /\ \A v \in ValIds(g) :
       /\ g.vals[v].origin.op \in OpIds(g)
       /\ g.vals[v].origin.pos \in DOMAIN g.ops[g.vals[v].origin.op].rets
       /\ g.ops[g.vals[v].origin.op].rets[g.vals[v].origin.pos] = v

UsesOK(g) ==
  \A v \in ValIds(g) : \A u \in Position :
    u \in g.vals[v].users <=>
      /\ u.op \in OpIds(g)
      /\ u.pos \in DOMAIN g.ops[u.op].args
      /\ g.ops[u.op].args[u.pos] = v

LiveOK(g) ==
  /\ \A o \in ActiveOps(g) : \A i \in DOMAIN g.ops[o].args : g.ops[o].args[i] \in ActiveVals(g)
  /\ \A v \in ValIds(g) : g.vals[v].active = g.ops[Producer(g, v)].active

GraphOK(g) == StoresOK(g) /\ LinksOK(g) /\ UsesOK(g) /\ LiveOK(g)

-----------------------------------------------------------------------------
(* A function on 1 .. m is a sequence of length m.                         *)
LEMMA Enumerated ==
  ASSUME NEW S, NEW m \in Nat, NEW f \in [1 .. m -> S]
  PROVE  f \in Seq(S) /\ Len(f) = m
<1>1. f \in Seq(S)
  BY SMT
<1>2. Len(f) = m
  BY <1>1, SMT
<1> QED BY <1>1, <1>2

LEMMA Indexed ==
  ASSUME NEW S, NEW m \in Nat, NEW f \in Seq(S), Len(f) = m + 1
  PROVE  f \in [1 .. m + 1 -> S]
OBVIOUS

(* What an addition leaves and what it adds, as facts about the graph g    *)
(* before and the graph h after it, the operation m + 1 on args being the  *)
(* new one and the values after n its results.                             *)
Grown(g, h, m, n, len) ==
  /\ DOMAIN g.ops = 1 .. m /\ DOMAIN h.ops = 1 .. m + 1
  /\ DOMAIN g.vals = 1 .. n /\ DOMAIN h.vals = 1 .. n + len

KeptOps(g, h, m) == \A o \in 1 .. m : h.ops[o] = g.ops[o]

KeptVals(g, h, n) ==
  \A v \in 1 .. n : h.vals[v].origin = g.vals[v].origin /\ h.vals[v].active = g.vals[v].active

UsesGrown(g, h, args, m, n) ==
  \A v \in 1 .. n : \A u \in Position :
    u \in h.vals[v].users <=>
      (u \in g.vals[v].users \/ (u.op = m + 1 /\ u.pos \in DOMAIN args /\ args[u.pos] = v))

NewOp(h, args, m, n, len) ==
  /\ h.ops[m + 1].args = args
  /\ h.ops[m + 1].active = TRUE
  /\ DOMAIN h.ops[m + 1].rets = 1 .. len
  /\ \A k \in 1 .. len : h.ops[m + 1].rets[k] = n + k

NewArgs(g, args, n) == \A i \in DOMAIN args : args[i] \in 1 .. n /\ g.vals[args[i]].active

NewVals(h, m, n, len) ==
  \A v \in n + 1 .. n + len : /\ h.vals[v].users = {}
                              /\ h.vals[v].active = TRUE
                              /\ h.vals[v].origin = [op |-> m + 1, pos |-> v - n]

Extends(g, h, args, m, n, len) ==
  /\ Grown(g, h, m, n, len) /\ KeptOps(g, h, m) /\ KeptVals(g, h, n)
  /\ NewOp(h, args, m, n, len) /\ NewArgs(g, args, n)

(* An addition described by these facts keeps the parts of the invariant.  *)
LEMMA ExtensionSound ==
  ASSUME NEW g, NEW h, NEW args, NEW m \in Nat, NEW n \in Nat, NEW len \in Nat,
         GraphOK(g), Grown(g, h, m, n, len), KeptOps(g, h, m), KeptVals(g, h, n),
         UsesGrown(g, h, args, m, n), NewOp(h, args, m, n, len), NewArgs(g, args, n),
         NewVals(h, m, n, len)
  PROVE  LinksOK(h) /\ UsesOK(h) /\ LiveOK(h)
<1>1. LinksOK(h)
  <2>1. ASSUME NEW o \in 1 .. m + 1, NEW i \in DOMAIN h.ops[o].args
        PROVE  h.ops[o].args[i] \in 1 .. n + len
    <3>1. CASE o \in 1 .. m
      <4>1. g.ops[o].args[i] \in 1 .. n
        BY <2>1, <3>1 DEF GraphOK, LinksOK, OpIds, ValIds, Grown, KeptOps
      <4> QED BY <3>1, <4>1 DEF KeptOps
    <3>2. CASE o = m + 1
      BY <2>1, <3>2 DEF NewOp, NewArgs
    <3> QED BY <3>1, <3>2
  <2>2. ASSUME NEW o \in 1 .. m + 1, NEW k \in DOMAIN h.ops[o].rets
        PROVE  /\ h.ops[o].rets[k] \in 1 .. n + len
               /\ h.vals[h.ops[o].rets[k]].origin = [op |-> o, pos |-> k]
    <3>1. CASE o \in 1 .. m
      <4>1. g.ops[o].rets[k] \in 1 .. n /\ g.vals[g.ops[o].rets[k]].origin = [op |-> o, pos |-> k]
        BY <2>2, <3>1 DEF GraphOK, LinksOK, OpIds, ValIds, Grown, KeptOps
      <4>2. h.ops[o].rets[k] \in 1 .. n /\ g.ops[o].rets[k] = h.ops[o].rets[k]
        BY <3>1, <4>1 DEF KeptOps
      <4> QED BY <4>1, <4>2 DEF KeptVals
    <3>2. CASE o = m + 1
      <4>1. k \in 1 .. len /\ h.ops[o].rets[k] = n + k
        BY <2>2, <3>2 DEF NewOp
      <4>2. n + k \in n + 1 .. n + len /\ (n + k) - n = k
        BY <4>1
      <4>3. h.vals[n + k].origin = [op |-> m + 1, pos |-> k]
        BY <4>2 DEF NewVals
      <4> QED BY <4>1, <4>2, <4>3, <3>2
    <3> QED BY <3>1, <3>2
  <2>3. ASSUME NEW v \in 1 .. n + len
        PROVE  /\ h.vals[v].origin.op \in 1 .. m + 1
               /\ h.vals[v].origin.pos \in DOMAIN h.ops[h.vals[v].origin.op].rets
               /\ h.ops[h.vals[v].origin.op].rets[h.vals[v].origin.pos] = v
    <3>1. CASE v \in 1 .. n
      <4>1. /\ g.vals[v].origin.op \in 1 .. m
            /\ g.vals[v].origin.pos \in DOMAIN g.ops[g.vals[v].origin.op].rets
            /\ g.ops[g.vals[v].origin.op].rets[g.vals[v].origin.pos] = v
        BY <3>1 DEF GraphOK, LinksOK, OpIds, ValIds, Grown
      <4>2. h.vals[v].origin = g.vals[v].origin
        BY <3>1 DEF KeptVals
      <4>3. h.ops[g.vals[v].origin.op] = g.ops[g.vals[v].origin.op]
        BY <4>1 DEF KeptOps
      <4>4. g.vals[v].origin.op \in 1 .. m + 1
        <5>1. 1 .. m \subseteq 1 .. m + 1
          OBVIOUS
        <5>2. g.vals[v].origin.op \in 1 .. m
          BY <4>1
        <5> QED BY <5>1, <5>2, Zenon
      <4>5. h.ops[h.vals[v].origin.op] = g.ops[g.vals[v].origin.op]
        BY <4>2, <4>3
      <4>6. h.vals[v].origin.op \in 1 .. m + 1
        BY <4>2, <4>4
      <4>7. h.vals[v].origin.pos \in DOMAIN h.ops[h.vals[v].origin.op].rets
        BY <4>1, <4>2, <4>5
      <4>8. h.ops[h.vals[v].origin.op].rets[h.vals[v].origin.pos] = v
        BY <4>1, <4>2, <4>5
      <4> QED BY <4>6, <4>7, <4>8
    <3>2. CASE v \in n + 1 .. n + len
      <4>1. v - n \in 1 .. len /\ n + (v - n) = v
        BY <3>2
      <4>a. h.vals[v].origin = [op |-> m + 1, pos |-> v - n]
        BY <3>2 DEF NewVals
      <4>2. h.vals[v].origin.op = m + 1 /\ h.vals[v].origin.pos = v - n
        BY <4>a
      <4>3. h.ops[m + 1].rets[v - n] = v /\ v - n \in DOMAIN h.ops[m + 1].rets
        BY <4>1 DEF NewOp
      <4> QED BY <4>2, <4>3
    <3>3. v \in 1 .. n \/ v \in n + 1 .. n + len
      OBVIOUS
    <3> QED BY <3>1, <3>2, <3>3
  <2> QED BY <2>1, <2>2, <2>3 DEF LinksOK, OpIds, ValIds, Grown
<1>2. UsesOK(h)
  <2> SUFFICES ASSUME NEW v \in 1 .. n + len, NEW u \in Position
               PROVE  u \in h.vals[v].users <=>
                        /\ u.op \in 1 .. m + 1
                        /\ u.pos \in DOMAIN h.ops[u.op].args
                        /\ h.ops[u.op].args[u.pos] = v
    BY DEF UsesOK, OpIds, ValIds, Grown
  <2>1. CASE v \in 1 .. n
    <3>1. u \in g.vals[v].users <=>
            u.op \in 1 .. m /\ u.pos \in DOMAIN g.ops[u.op].args /\ g.ops[u.op].args[u.pos] = v
      BY <2>1 DEF GraphOK, UsesOK, OpIds, ValIds, Grown
    <3>2. u \in h.vals[v].users <=>
            (u \in g.vals[v].users \/ (u.op = m + 1 /\ u.pos \in DOMAIN args /\ args[u.pos] = v))
      BY <2>1 DEF UsesGrown
    <3>3. u.op \in 1 .. m => h.ops[u.op] = g.ops[u.op] /\ u.op # m + 1 /\ u.op \in 1 .. m + 1
      BY DEF KeptOps
    <3>4. u.op = m + 1 => h.ops[u.op].args = args /\ u.op \notin 1 .. m /\ u.op \in 1 .. m + 1
      BY DEF NewOp
    <3>5. u.op \in 1 .. m + 1 => u.op \in 1 .. m \/ u.op = m + 1
      OBVIOUS
    <3> QED BY <3>1, <3>2, <3>3, <3>4, <3>5
  <2>2. CASE v \in n + 1 .. n + len
    <3>1. h.vals[v].users = {}
      BY <2>2 DEF NewVals
    <3>0. v \notin 1 .. n
      BY <2>2
    <3>2. ASSUME NEW o \in 1 .. m + 1, NEW i \in DOMAIN h.ops[o].args
          PROVE  h.ops[o].args[i] \in 1 .. n
      <4>1. CASE o \in 1 .. m
        <5>1. g.ops[o].args[i] \in 1 .. n
          BY <3>2, <4>1 DEF GraphOK, LinksOK, OpIds, ValIds, Grown, KeptOps
        <5> QED BY <4>1, <5>1 DEF KeptOps
      <4>2. CASE o = m + 1
        BY <3>2, <4>2 DEF NewOp, NewArgs
      <4> QED BY <4>1, <4>2
    <3> QED BY <3>0, <3>1, <3>2
  <2> QED BY <2>1, <2>2
<1>3. LiveOK(h)
  <2>1. ASSUME NEW o \in 1 .. m + 1, h.ops[o].active, NEW i \in DOMAIN h.ops[o].args
        PROVE  h.ops[o].args[i] \in 1 .. n + len /\ h.vals[h.ops[o].args[i]].active
    <3>1. CASE o \in 1 .. m
      <4>1. g.ops[o].args[i] \in 1 .. n /\ g.vals[g.ops[o].args[i]].active
        BY <2>1, <3>1 DEF GraphOK, LiveOK, ActiveOps, ActiveVals, OpIds, ValIds, Grown, KeptOps
      <4>2. h.ops[o] = g.ops[o]
        BY <3>1 DEF KeptOps
      <4>3. h.vals[g.ops[o].args[i]].active
        BY <4>1 DEF KeptVals
      <4> QED BY <4>1, <4>2, <4>3
    <3>2. CASE o = m + 1
      <4>1. args[i] \in 1 .. n /\ g.vals[args[i]].active
        BY <2>1, <3>2 DEF NewOp, NewArgs
      <4>2. h.vals[args[i]].active
        BY <4>1 DEF KeptVals
      <4> QED BY <3>2, <4>1, <4>2 DEF NewOp
    <3> QED BY <3>1, <3>2
  <2>2. ASSUME NEW v \in 1 .. n + len
        PROVE  h.vals[v].active = h.ops[h.vals[v].origin.op].active
    <3>1. CASE v \in 1 .. n
      <4>1. g.vals[v].origin.op \in 1 .. m /\ g.vals[v].active = g.ops[g.vals[v].origin.op].active
        BY <3>1 DEF GraphOK, LinksOK, LiveOK, OpIds, ValIds, Producer, Grown
      <4>2. h.vals[v].origin = g.vals[v].origin /\ h.vals[v].active = g.vals[v].active
        BY <3>1 DEF KeptVals
      <4>3. h.ops[g.vals[v].origin.op] = g.ops[g.vals[v].origin.op]
        BY <4>1 DEF KeptOps
      <4>4. g.vals[v].origin.op \in 1 .. m + 1
        BY <4>1
      <4> QED BY <4>1, <4>2, <4>3, <4>4
    <3>2. CASE v \in n + 1 .. n + len
      <4>a. h.vals[v].origin = [op |-> m + 1, pos |-> v - n]
        BY <3>2 DEF NewVals
      <4>b. h.vals[v].active = TRUE
        BY <3>2 DEF NewVals
      <4>1. h.vals[v].origin.op = m + 1 /\ h.vals[v].active = TRUE
        BY <4>a, <4>b
      <4> QED BY <4>1 DEF NewOp
    <3> QED BY <3>1, <3>2
  <2> QED BY <2>1, <2>2 DEF LiveOK, ActiveOps, ActiveVals, OpIds, ValIds, Producer, Grown
<1> QED BY <1>1, <1>2, <1>3

(* The stores of a sound graph, and what they hold.                        *)
LEMMA StoreFacts ==
  ASSUME NEW g, StoresOK(g)
  PROVE  /\ Len(g.ops) \in Nat /\ DOMAIN g.ops = 1 .. Len(g.ops)
         /\ Len(g.vals) \in Nat /\ DOMAIN g.vals = 1 .. Len(g.vals)
         /\ \A o \in 1 .. Len(g.ops) : g.ops[o] \in OpRecord
         /\ \A v \in 1 .. Len(g.vals) : g.vals[v] \in ValRecord
BY DEF StoresOK

(* Adding an operation to a sound graph gives a sound graph.               *)
LEMMA AddOpSound ==
  ASSUME NEW g, GraphOK(g), NEW ins \in Instructions, NEW args \in Seq(Nat),
         MayAddOp(g, ins, args)
  PROVE  /\ GraphOK(AddOp(g, ins, args))
         /\ \E m, n, len \in Nat : Extends(g, AddOp(g, ins, args), args, m, n, len)
<1> DEFINE n == Len(g.vals)
           m == Len(g.ops)
           types == Signature[ins].rets
           len == Len(types)
           h == AddOp(g, ins, args)
           rets == [k \in DOMAIN types |-> n + k]
           new == [ins |-> ins, args |-> args, rets |-> rets, active |-> TRUE]
           uses(v) == {[op |-> m + 1, pos |-> i] : i \in {j \in DOMAIN args : args[j] = v}}
           val(v) == IF v <= n THEN [g.vals[v] EXCEPT !.users = @ \cup uses(v)]
                     ELSE [users |-> {}, origin |-> [op |-> m + 1, pos |-> v - n],
                           type |-> types[v - n], active |-> TRUE]
<1>1. /\ n \in Nat /\ m \in Nat /\ DOMAIN g.vals = 1 .. n /\ DOMAIN g.ops = 1 .. m
      /\ \A v \in 1 .. n : g.vals[v] \in ValRecord
  BY StoreFacts DEF GraphOK
<1>2. types \in Seq(Types) /\ len \in Nat /\ DOMAIN types = 1 .. len
  BY SignatureAssumption DEF Instructions
<1>3. h.ops = Append(g.ops, new)
  BY DEF AddOp
<1>4. h.vals = [v \in 1 .. n + len |-> val(v)]
  BY DEF AddOp
<1>4a. n + len \in Nat
  <2>1. n \in Nat /\ len \in Nat
    BY <1>1, <1>2
  <2> HIDE DEF n, len
  <2> QED BY <2>1
<1> HIDE DEF h, types
<1>5. rets \in Seq(Nat) /\ DOMAIN rets = 1 .. len /\ \A k \in 1 .. len : rets[k] = n + k
  <2>1. rets = [k \in 1 .. len |-> n + k]
    BY <1>2
  <2> HIDE DEF rets, n, len
  <2>2. \A k \in 1 .. len : n + k \in Nat
    BY <1>1, <1>2
  <2>3. rets \in [1 .. len -> Nat]
    BY <2>1, <2>2
  <2> QED BY <1>2, <2>1, <2>3
<1> HIDE DEF rets
<1>6. new \in OpRecord /\ new.args = args /\ new.active = TRUE /\ new.rets = rets
  BY <1>5 DEF OpRecord
<1> HIDE DEF new
<1>7. /\ h.ops \in Seq(OpRecord) /\ DOMAIN h.ops = 1 .. m + 1
      /\ \A o \in 1 .. m : h.ops[o] = g.ops[o]
      /\ h.ops[m + 1] = new
  BY <1>3, <1>6 DEF GraphOK, StoresOK
<1>8. \A v \in 1 .. n + len : h.vals[v] = val(v)
  BY <1>4
<1>9. DOMAIN h.vals = 1 .. n + len
  BY <1>4
<1> HIDE DEF n, m, len
<1>10. ASSUME NEW v, NEW u \in Position
       PROVE  u \in uses(v) <=> u.op = m + 1 /\ u.pos \in DOMAIN args /\ args[u.pos] = v
  BY DEF Position
<1>11. \A v : uses(v) \subseteq Position
  BY <1>1 DEF Position
<1> HIDE DEF uses
<1>12. ASSUME NEW v \in 1 .. n
       PROVE  /\ h.vals[v] \in ValRecord
              /\ h.vals[v].users = g.vals[v].users \cup uses(v)
              /\ h.vals[v].origin = g.vals[v].origin
              /\ h.vals[v].active = g.vals[v].active
  <2>1. v \in 1 .. n + len /\ v <= n
    BY <1>1, <1>2
  <2>2. g.vals[v] \in ValRecord
    BY <1>1
  <2>3. h.vals[v] = [g.vals[v] EXCEPT !.users = @ \cup uses(v)]
    BY <1>8, <2>1
  <2> QED BY <1>11, <2>2, <2>3 DEF ValRecord
<1>13. ASSUME NEW v \in n + 1 .. n + len
       PROVE  /\ h.vals[v] \in ValRecord
              /\ h.vals[v].users = {}
              /\ h.vals[v].origin = [op |-> m + 1, pos |-> v - n]
              /\ h.vals[v].active = TRUE
  <2>1. v \in 1 .. n + len /\ ~ (v <= n) /\ v - n \in 1 .. len
    BY <1>1, <1>2
  <2>2. h.vals[v] = [users |-> {}, origin |-> [op |-> m + 1, pos |-> v - n],
                     type |-> types[v - n], active |-> TRUE]
    BY <1>8, <2>1
  <2>3. types[v - n] \in Types
    BY <1>2, <2>1
  <2>4. [op |-> m + 1, pos |-> v - n] \in Position
    BY <1>1, <2>1 DEF Position
  <2> QED BY <2>2, <2>3, <2>4 DEF ValRecord
<1> HIDE DEF val
<1>14. h.vals \in Seq(ValRecord)
  <2>1. \A v \in 1 .. n + len : v \in 1 .. n \/ v \in n + 1 .. n + len
    BY <1>1, <1>2
  <2>2. \A v \in 1 .. n + len : h.vals[v] \in ValRecord
    BY <1>12, <1>13, <2>1
  <2>3. h.vals = [v \in 1 .. n + len |-> h.vals[v]]
    BY <1>4
  <2>4. h.vals \in [1 .. n + len -> ValRecord]
    BY <2>2, <2>3
  <2> QED BY <1>4a, <2>4, Enumerated
<1>15. Grown(g, h, m, n, len)
  BY <1>1, <1>7, <1>9 DEF Grown
<1>16. KeptOps(g, h, m)
  BY <1>7 DEF KeptOps
<1>17. KeptVals(g, h, n)
  BY <1>12 DEF KeptVals
<1>18. UsesGrown(g, h, args, m, n)
  BY <1>10, <1>12 DEF UsesGrown
<1>19. NewOp(h, args, m, n, len)
  BY <1>5, <1>6, <1>7 DEF NewOp
<1>20. NewArgs(g, args, n)
  BY <1>1 DEF NewArgs, MayAddOp, ActiveVals, ValIds
<1>21. NewVals(h, m, n, len)
  BY <1>13 DEF NewVals
<1>22. LinksOK(h) /\ UsesOK(h) /\ LiveOK(h)
  BY <1>1, <1>2, <1>15, <1>16, <1>17, <1>18, <1>19, <1>20, <1>21, ExtensionSound
<1>23. m \in Nat /\ n \in Nat /\ len \in Nat /\ Extends(g, h, args, m, n, len)
  BY <1>1, <1>2, <1>15, <1>16, <1>17, <1>19, <1>20 DEF Extends
<1>24. GraphOK(h)
  BY <1>7, <1>14, <1>22 DEF GraphOK, StoresOK
<1> QED BY <1>23, <1>24 DEF h

-----------------------------------------------------------------------------
(* The recomputation of the depths leaves the other stores alone.          *)
LEMMA UpdateDepthsStores ==
  ASSUME NEW ops, NEW depth, NEW vals, NEW start,
         NEW h, h = UpdateDepths([ops |-> ops, depth |-> depth, vals |-> vals], start)
  PROVE  h.ops = ops /\ h.vals = vals
BY DEF UpdateDepths

(* The invariant does not look at the depths.                              *)
LEMMA DepthsIrrelevant ==
  ASSUME NEW g, NEW h, GraphOK(g), h.ops = g.ops, h.vals = g.vals
  PROVE  GraphOK(h)
<1>1. StoresOK(h)
  BY DEF GraphOK, StoresOK
<1>2. LinksOK(h)
  BY DEF GraphOK, LinksOK, OpIds, ValIds
<1>3. UsesOK(h)
  BY DEF GraphOK, UsesOK, OpIds, ValIds
<1>4. LiveOK(h)
  BY DEF GraphOK, LiveOK, OpIds, ValIds, ActiveOps, ActiveVals, Producer
<1> QED BY <1>1, <1>2, <1>3, <1>4 DEF GraphOK

(* Redirecting the uses of a value of a sound graph gives a sound graph.   *)
LEMMA RedirectSound ==
  ASSUME NEW g, GraphOK(g), NEW old \in ActiveVals(g), NEW new \in ActiveVals(g), old # new
  PROVE  GraphOK(Redirect(g, old, new))
<1> DEFINE m == Len(g.ops)
           n == Len(g.vals)
           h == Redirect(g, old, new)
           uses == g.vals[old].users
           args(o) == [i \in DOMAIN g.ops[o].args |->
                         IF g.ops[o].args[i] = old THEN new ELSE g.ops[o].args[i]]
           op(o) == IF \E u \in uses : u.op = o THEN [g.ops[o] EXCEPT !.args = args(o)] ELSE g.ops[o]
           val(v) == CASE v = old -> [g.vals[v] EXCEPT !.users = {}]
                       [] v = new -> [g.vals[v] EXCEPT !.users = @ \cup uses]
                       [] OTHER -> g.vals[v]
<1>1. /\ m \in Nat /\ DOMAIN g.ops = 1 .. m /\ \A o \in 1 .. m : g.ops[o] \in OpRecord
      /\ n \in Nat /\ DOMAIN g.vals = 1 .. n /\ \A v \in 1 .. n : g.vals[v] \in ValRecord
  BY StoreFacts DEF GraphOK
<1>2. h.ops = [o \in 1 .. m |-> op(o)]
  BY <1>1 DEF Redirect, OpIds
<1>3. h.vals = [v \in 1 .. n |-> val(v)]
  BY <1>1 DEF Redirect, ValIds
<1>4. old \in 1 .. n /\ new \in 1 .. n /\ g.vals[old].active = TRUE /\ g.vals[new].active = TRUE
  <2>1. old \in 1 .. n /\ new \in 1 .. n /\ g.vals[old].active /\ g.vals[new].active
    BY <1>1 DEF ActiveVals, ValIds
  <2>2. g.vals[old].active \in BOOLEAN /\ g.vals[new].active \in BOOLEAN
    BY <1>1, <2>1 DEF ValRecord
  <2> QED BY <2>1, <2>2
<1> HIDE DEF h, m, n
<1>5. ASSUME NEW v \in 1 .. n, NEW u \in Position
      PROVE  u \in g.vals[v].users <=>
               (u.op \in 1 .. m /\ u.pos \in DOMAIN g.ops[u.op].args /\ g.ops[u.op].args[u.pos] = v)
  BY <1>1 DEF GraphOK, UsesOK, OpIds, ValIds
<1>6. uses \subseteq Position
  BY <1>1, <1>4 DEF ValRecord
<1>7. ASSUME NEW o \in 1 .. m
      PROVE  /\ h.ops[o] \in OpRecord
             /\ h.ops[o].rets = g.ops[o].rets /\ h.ops[o].active = g.ops[o].active
             /\ h.ops[o].args = args(o)
  <2>1. g.ops[o] \in OpRecord /\ h.ops[o] = op(o)
    BY <1>1, <1>2
  <2>2. g.ops[o].args \in Seq(Nat) /\ new \in Nat
    BY <1>1, <1>4, <2>1 DEF OpRecord
  <2>3. args(o) \in Seq(Nat)
    BY <2>2
  <2>4. CASE \E u \in uses : u.op = o
    <3>1. h.ops[o] = [g.ops[o] EXCEPT !.args = args(o)]
      BY <2>1, <2>4
    <3> HIDE DEF args
    <3> QED BY <2>1, <2>3, <3>1 DEF OpRecord
  <2>5. CASE ~ \E u \in uses : u.op = o
    <3>1. h.ops[o] = g.ops[o]
      BY <2>1, <2>5
    <3>2. ASSUME NEW i \in DOMAIN g.ops[o].args, g.ops[o].args[i] = old PROVE FALSE
      <4>1. i \in Nat /\ o \in Nat
        BY <1>1, <2>2
      <4>2. [op |-> o, pos |-> i] \in Position
        BY <4>1 DEF Position
      <4>3. [op |-> o, pos |-> i] \in uses
        BY <1>4, <1>5, <3>2, <4>2
      <4> QED BY <2>5, <4>3
    <3>3. g.ops[o].args = args(o)
      <4> DEFINE a == g.ops[o].args
      <4>1. a \in Seq(Nat)
        BY <2>2
      <4>2. a = [i \in DOMAIN a |-> a[i]]
        BY <4>1
      <4>3. \A i \in DOMAIN a : a[i] # old
        BY <3>2
      <4> QED BY <4>2, <4>3
    <3> QED BY <2>1, <3>1, <3>3
  <2> QED BY <2>4, <2>5
<1>8. ASSUME NEW v \in 1 .. n
      PROVE  /\ h.vals[v] \in ValRecord
             /\ h.vals[v].origin = g.vals[v].origin /\ h.vals[v].active = g.vals[v].active
             /\ v = old => h.vals[v].users = {}
             /\ v = new => h.vals[v].users = g.vals[v].users \cup uses
             /\ v # old /\ v # new => h.vals[v].users = g.vals[v].users
  <2>1. g.vals[v] \in ValRecord /\ h.vals[v] = val(v)
    BY <1>1, <1>3
  <2>2. CASE v = old
    <3>1. h.vals[v] = [g.vals[v] EXCEPT !.users = {}]
      BY <2>1, <2>2
    <3> QED BY <2>1, <2>2, <3>1 DEF ValRecord
  <2>3. CASE v = new
    <3>1. h.vals[v] = [g.vals[v] EXCEPT !.users = @ \cup uses]
      BY <2>1, <2>3
    <3> HIDE DEF uses
    <3> QED BY <1>6, <2>1, <2>3, <3>1 DEF ValRecord
  <2>4. CASE v # old /\ v # new
    BY <2>1, <2>4
  <2> QED BY <2>2, <2>3, <2>4
<1>9. DOMAIN h.ops = 1 .. m /\ DOMAIN h.vals = 1 .. n
  BY <1>2, <1>3
<1>10. StoresOK(h)
  <2>1. h.ops = [o \in 1 .. m |-> h.ops[o]] /\ h.vals = [v \in 1 .. n |-> h.vals[v]]
    BY <1>2, <1>3
  <2>2. h.ops \in [1 .. m -> OpRecord] /\ h.vals \in [1 .. n -> ValRecord]
    BY <1>7, <1>8, <2>1
  <2> QED BY <1>1, <2>2 DEF StoresOK
<1>11. ASSUME NEW o \in 1 .. m
       PROVE  /\ DOMAIN h.ops[o].args = DOMAIN g.ops[o].args
              /\ \A i \in DOMAIN g.ops[o].args :
                   h.ops[o].args[i] = IF g.ops[o].args[i] = old THEN new ELSE g.ops[o].args[i]
  BY <1>7
<1> HIDE DEF args, op, val
<1>12. LinksOK(h)
  <2>1. ASSUME NEW o \in 1 .. m, NEW i \in DOMAIN h.ops[o].args
        PROVE  h.ops[o].args[i] \in 1 .. n
    <3>1. i \in DOMAIN g.ops[o].args
      BY <1>11, <2>1
    <3>2. g.ops[o].args[i] \in 1 .. n
      BY <1>1, <3>1 DEF GraphOK, LinksOK, OpIds, ValIds
    <3> QED BY <1>4, <1>11, <3>1, <3>2
  <2>2. ASSUME NEW o \in 1 .. m, NEW k \in DOMAIN h.ops[o].rets
        PROVE  /\ h.ops[o].rets[k] \in 1 .. n
               /\ h.vals[h.ops[o].rets[k]].origin = [op |-> o, pos |-> k]
    <3>1. k \in DOMAIN g.ops[o].rets /\ h.ops[o].rets = g.ops[o].rets
      BY <1>7, <2>2
    <3>2. g.ops[o].rets[k] \in 1 .. n /\ g.vals[g.ops[o].rets[k]].origin = [op |-> o, pos |-> k]
      BY <1>1, <3>1 DEF GraphOK, LinksOK, OpIds, ValIds
    <3> QED BY <1>8, <3>1, <3>2
  <2>3. ASSUME NEW v \in 1 .. n
        PROVE  /\ h.vals[v].origin.op \in 1 .. m
               /\ h.vals[v].origin.pos \in DOMAIN h.ops[h.vals[v].origin.op].rets
               /\ h.ops[h.vals[v].origin.op].rets[h.vals[v].origin.pos] = v
    <3>1. /\ g.vals[v].origin.op \in 1 .. m
          /\ g.vals[v].origin.pos \in DOMAIN g.ops[g.vals[v].origin.op].rets
          /\ g.ops[g.vals[v].origin.op].rets[g.vals[v].origin.pos] = v
      BY <1>1 DEF GraphOK, LinksOK, OpIds, ValIds
    <3>2. h.vals[v].origin = g.vals[v].origin
      BY <1>8
    <3>3. h.ops[g.vals[v].origin.op].rets = g.ops[g.vals[v].origin.op].rets
      BY <1>7, <3>1
    <3> QED BY <3>1, <3>2, <3>3
  <2> QED BY <1>9, <2>1, <2>2, <2>3 DEF LinksOK, OpIds, ValIds
<1>13. UsesOK(h)
  <2> SUFFICES ASSUME NEW v \in 1 .. n, NEW u \in Position
               PROVE  u \in h.vals[v].users <=>
                        (u.op \in 1 .. m /\ u.pos \in DOMAIN h.ops[u.op].args /\ h.ops[u.op].args[u.pos] = v)
    BY <1>9 DEF UsesOK, OpIds, ValIds
  <2>1. CASE ~ (u.op \in 1 .. m /\ u.pos \in DOMAIN g.ops[u.op].args)
    <3>1. u \notin g.vals[v].users /\ u \notin uses
      BY <1>4, <1>5, <2>1
    <3>2. u \notin h.vals[v].users
      BY <1>8, <3>1
    <3>3. ~ (u.op \in 1 .. m /\ u.pos \in DOMAIN h.ops[u.op].args)
      BY <1>11, <2>1
    <3> QED BY <3>2, <3>3
  <2>2. CASE u.op \in 1 .. m /\ u.pos \in DOMAIN g.ops[u.op].args
    <3> DEFINE a == g.ops[u.op].args[u.pos]
    <3>1. u \in g.vals[v].users <=> a = v
      BY <1>5, <2>2
    <3>2. u \in uses <=> a = old
      BY <1>4, <1>5, <2>2
    <3>3. u.pos \in DOMAIN h.ops[u.op].args
      BY <1>11, <2>2
    <3>4. h.ops[u.op].args[u.pos] = IF a = old THEN new ELSE a
      BY <1>11, <2>2
    <3> HIDE DEF a, uses
    <3>5. CASE v = old
      <4>1. u \notin h.vals[v].users
        BY <1>8, <3>5
      <4>2. h.ops[u.op].args[u.pos] # v
        BY <3>4, <3>5
      <4> QED BY <4>1, <4>2
    <3>6. CASE v = new
      <4>1. u \in h.vals[v].users <=> (u \in g.vals[v].users \/ u \in uses)
        BY <1>8, <3>6
      <4> QED BY <2>2, <3>1, <3>2, <3>3, <3>4, <3>6, <4>1
    <3>7. CASE v # old /\ v # new
      <4>1. u \in h.vals[v].users <=> u \in g.vals[v].users
        BY <1>8, <3>7
      <4> QED BY <2>2, <3>1, <3>3, <3>4, <3>7, <4>1
    <3> QED BY <3>5, <3>6, <3>7
  <2> QED BY <2>1, <2>2
<1>14. LiveOK(h)
  <2>1. ASSUME NEW o \in 1 .. m, h.ops[o].active, NEW i \in DOMAIN h.ops[o].args
        PROVE  h.ops[o].args[i] \in 1 .. n /\ h.vals[h.ops[o].args[i]].active
    <3>1. g.ops[o].active /\ i \in DOMAIN g.ops[o].args
      BY <1>7, <1>11, <2>1
    <3>2. g.ops[o].args[i] \in 1 .. n /\ g.vals[g.ops[o].args[i]].active
      BY <1>1, <3>1 DEF GraphOK, LiveOK, ActiveOps, ActiveVals, OpIds, ValIds
    <3>3. h.ops[o].args[i] = IF g.ops[o].args[i] = old THEN new ELSE g.ops[o].args[i]
      BY <1>11, <3>1
    <3>4. h.vals[new].active /\ h.vals[g.ops[o].args[i]].active
      BY <1>4, <1>8, <3>2
    <3> QED BY <1>4, <3>2, <3>3, <3>4
  <2>2. ASSUME NEW v \in 1 .. n
        PROVE  h.vals[v].active = h.ops[h.vals[v].origin.op].active
    <3>1. g.vals[v].origin.op \in 1 .. m /\ g.vals[v].active = g.ops[g.vals[v].origin.op].active
      BY <1>1 DEF GraphOK, LinksOK, LiveOK, OpIds, ValIds, Producer
    <3>2. h.ops[g.vals[v].origin.op].active = g.ops[g.vals[v].origin.op].active
      BY <1>7, <3>1
    <3>3. h.vals[v].origin = g.vals[v].origin /\ h.vals[v].active = g.vals[v].active
      BY <1>8
    <3> QED BY <3>1, <3>2, <3>3
  <2> QED BY <1>9, <2>1, <2>2 DEF LiveOK, ActiveOps, ActiveVals, OpIds, ValIds, Producer
<1> QED BY <1>10, <1>12, <1>13, <1>14 DEF GraphOK, h

(* Replacing the uses of a value of a sound graph gives a sound graph.     *)
LEMMA ReplaceSound ==
  ASSUME NEW g, GraphOK(g), NEW old \in ActiveVals(g), NEW new \in ActiveVals(g)
  PROVE  GraphOK(ReplaceValUse(g, old, new))
<1>1. CASE old = new
  BY <1>1 DEF ReplaceValUse
<1>2. CASE old # new
  <2> DEFINE r == Redirect(g, old, new)
             start == {u.op : u \in g.vals[old].users}
  <2>1. GraphOK(r)
    BY <1>2, RedirectSound
  <2>2. r = [ops |-> r.ops, depth |-> r.depth, vals |-> r.vals]
    BY DEF Redirect
  <2>3. ReplaceValUse(g, old, new) = UpdateDepths(r, start)
    BY <1>2 DEF ReplaceValUse
  <2> HIDE DEF r, start
  <2>4. UpdateDepths(r, start).ops = r.ops /\ UpdateDepths(r, start).vals = r.vals
    BY <2>2, UpdateDepthsStores
  <2> QED BY <2>1, <2>3, <2>4, DepthsIrrelevant
<1> QED BY <1>1, <1>2

(* Deleting an operation without users from a sound graph gives a sound    *)
(* graph.                                                                  *)
LEMMA DeleteSound ==
  ASSUME NEW g, GraphOK(g), NEW o, MayDelete(g, o)
  PROVE  GraphOK(DeleteOp(g, o))
<1> DEFINE m == Len(g.ops)
           n == Len(g.vals)
           h == DeleteOp(g, o)
           gone(v) == \E k \in DOMAIN g.ops[o].rets : g.ops[o].rets[k] = v
           op(p) == IF p = o THEN [g.ops[p] EXCEPT !.active = FALSE] ELSE g.ops[p]
           val(v) == IF gone(v) THEN [g.vals[v] EXCEPT !.active = FALSE] ELSE g.vals[v]
<1>1. /\ m \in Nat /\ DOMAIN g.ops = 1 .. m /\ \A p \in 1 .. m : g.ops[p] \in OpRecord
      /\ n \in Nat /\ DOMAIN g.vals = 1 .. n /\ \A v \in 1 .. n : g.vals[v] \in ValRecord
  BY StoreFacts DEF GraphOK
<1>2. h.ops = [p \in 1 .. m |-> op(p)]
  BY <1>1 DEF DeleteOp, OpIds
<1>3. h.vals = [v \in 1 .. n |-> val(v)]
  BY <1>1 DEF DeleteOp, ValIds
<1>4. o \in 1 .. m /\ ~HasUsers(g, o)
  BY <1>1 DEF MayDelete, ActiveOps, OpIds
<1> HIDE DEF h, m, n
<1>5. ASSUME NEW p \in 1 .. m
      PROVE  /\ h.ops[p] \in OpRecord
             /\ h.ops[p].rets = g.ops[p].rets /\ h.ops[p].args = g.ops[p].args
             /\ h.ops[p].active = IF p = o THEN FALSE ELSE g.ops[p].active
  <2>1. g.ops[p] \in OpRecord /\ h.ops[p] = op(p)
    BY <1>1, <1>2
  <2>2. CASE p = o
    <3>1. h.ops[p] = [g.ops[p] EXCEPT !.active = FALSE]
      BY <2>1, <2>2
    <3> QED BY <2>1, <2>2, <3>1 DEF OpRecord
  <2>3. CASE p # o
    BY <2>1, <2>3
  <2> QED BY <2>2, <2>3
<1>6. ASSUME NEW v \in 1 .. n
      PROVE  /\ h.vals[v] \in ValRecord
             /\ h.vals[v].users = g.vals[v].users /\ h.vals[v].origin = g.vals[v].origin
             /\ gone(v) => h.vals[v].active = FALSE
             /\ ~gone(v) => h.vals[v].active = g.vals[v].active
  <2>1. g.vals[v] \in ValRecord /\ h.vals[v] = val(v)
    BY <1>1, <1>3
  <2>2. CASE gone(v)
    <3>1. h.vals[v] = [g.vals[v] EXCEPT !.active = FALSE]
      BY <2>1, <2>2
    <3> HIDE DEF gone
    <3> QED BY <2>1, <2>2, <3>1 DEF ValRecord
  <2>3. CASE ~gone(v)
    <3>1. h.vals[v] = g.vals[v]
      BY <2>1, <2>3
    <3> HIDE DEF gone
    <3> QED BY <2>1, <2>3, <3>1
  <2> QED BY <2>2, <2>3
<1>7. DOMAIN h.ops = 1 .. m /\ DOMAIN h.vals = 1 .. n
  BY <1>2, <1>3
<1>8. StoresOK(h)
  <2>1. h.ops = [p \in 1 .. m |-> h.ops[p]] /\ h.vals = [v \in 1 .. n |-> h.vals[v]]
    BY <1>2, <1>3
  <2>2. h.ops \in [1 .. m -> OpRecord] /\ h.vals \in [1 .. n -> ValRecord]
    BY <1>5, <1>6, <2>1
  <2> QED BY <1>1, <2>2 DEF StoresOK
<1> HIDE DEF op, val
<1>9. ASSUME NEW v \in 1 .. n PROVE gone(v) <=> g.vals[v].origin.op = o
  <2>1. ASSUME NEW k \in DOMAIN g.ops[o].rets, g.ops[o].rets[k] = v
        PROVE  g.vals[v].origin.op = o
    <3>1. g.vals[g.ops[o].rets[k]].origin = [op |-> o, pos |-> k]
      BY <1>1, <1>4 DEF GraphOK, LinksOK, OpIds, ValIds
    <3> QED BY <2>1, <3>1
  <2>2. ASSUME g.vals[v].origin.op = o PROVE gone(v)
    <3>1. g.vals[v].origin.pos \in DOMAIN g.ops[o].rets /\ g.ops[o].rets[g.vals[v].origin.pos] = v
      BY <1>1, <2>2 DEF GraphOK, LinksOK, OpIds, ValIds
    <3> QED BY <3>1
  <2> QED BY <2>1, <2>2
<1>10. LinksOK(h)
  <2>1. ASSUME NEW p \in 1 .. m, NEW i \in DOMAIN h.ops[p].args
        PROVE  h.ops[p].args[i] \in 1 .. n
    <3>1. h.ops[p].args = g.ops[p].args
      BY <1>5
    <3> QED BY <1>1, <2>1, <3>1 DEF GraphOK, LinksOK, OpIds, ValIds
  <2>2. ASSUME NEW p \in 1 .. m, NEW k \in DOMAIN h.ops[p].rets
        PROVE  /\ h.ops[p].rets[k] \in 1 .. n
               /\ h.vals[h.ops[p].rets[k]].origin = [op |-> p, pos |-> k]
    <3>1. h.ops[p].rets = g.ops[p].rets
      BY <1>5
    <3>2. g.ops[p].rets[k] \in 1 .. n /\ g.vals[g.ops[p].rets[k]].origin = [op |-> p, pos |-> k]
      BY <1>1, <2>2, <3>1 DEF GraphOK, LinksOK, OpIds, ValIds
    <3> QED BY <1>6, <3>1, <3>2
  <2>3. ASSUME NEW v \in 1 .. n
        PROVE  /\ h.vals[v].origin.op \in 1 .. m
               /\ h.vals[v].origin.pos \in DOMAIN h.ops[h.vals[v].origin.op].rets
               /\ h.ops[h.vals[v].origin.op].rets[h.vals[v].origin.pos] = v
    <3>1. /\ g.vals[v].origin.op \in 1 .. m
          /\ g.vals[v].origin.pos \in DOMAIN g.ops[g.vals[v].origin.op].rets
          /\ g.ops[g.vals[v].origin.op].rets[g.vals[v].origin.pos] = v
      BY <1>1 DEF GraphOK, LinksOK, OpIds, ValIds
    <3>2. h.vals[v].origin = g.vals[v].origin
      BY <1>6
    <3>3. h.ops[g.vals[v].origin.op].rets = g.ops[g.vals[v].origin.op].rets
      BY <1>5, <3>1
    <3> QED BY <3>1, <3>2, <3>3
  <2> QED BY <1>7, <2>1, <2>2, <2>3 DEF LinksOK, OpIds, ValIds
<1>11. UsesOK(h)
  <2> SUFFICES ASSUME NEW v \in 1 .. n, NEW u \in Position
               PROVE  u \in h.vals[v].users <=>
                        (u.op \in 1 .. m /\ u.pos \in DOMAIN h.ops[u.op].args /\ h.ops[u.op].args[u.pos] = v)
    BY <1>7 DEF UsesOK, OpIds, ValIds
  <2>1. u \in g.vals[v].users <=>
          (u.op \in 1 .. m /\ u.pos \in DOMAIN g.ops[u.op].args /\ g.ops[u.op].args[u.pos] = v)
    BY <1>1 DEF GraphOK, UsesOK, OpIds, ValIds
  <2>2. h.vals[v].users = g.vals[v].users
    BY <1>6
  <2>3. u.op \in 1 .. m => h.ops[u.op].args = g.ops[u.op].args
    BY <1>5
  <2> QED BY <2>1, <2>2, <2>3
<1>12. LiveOK(h)
  <2>1. ASSUME NEW p \in 1 .. m, h.ops[p].active, NEW i \in DOMAIN h.ops[p].args
        PROVE  h.ops[p].args[i] \in 1 .. n /\ h.vals[h.ops[p].args[i]].active
    <3> DEFINE v == g.ops[p].args[i]
    <3>1. p # o /\ g.ops[p].active /\ h.ops[p].args = g.ops[p].args
      BY <1>5, <2>1
    <3>2. v \in 1 .. n /\ g.vals[v].active
      BY <1>1, <2>1, <3>1 DEF GraphOK, LiveOK, ActiveOps, ActiveVals, OpIds, ValIds
    <3>3. ASSUME NEW k \in DOMAIN g.ops[o].rets, g.ops[o].rets[k] = v PROVE FALSE
      <4> DEFINE u == [op |-> p, pos |-> i]
      <4>1. i \in Nat /\ p \in Nat
        <5>1. g.ops[p].args \in Seq(Nat)
          BY <1>1 DEF OpRecord
        <5> QED BY <1>1, <2>1, <3>1, <5>1
      <4>2. u \in Position /\ u.op = p /\ u.pos = i
        BY <4>1 DEF Position
      <4>3. u \in g.vals[v].users
        <5>1. u.op \in 1 .. m /\ u.pos \in DOMAIN g.ops[u.op].args /\ g.ops[u.op].args[u.pos] = v
          BY <2>1, <3>1, <4>2
        <5> HIDE DEF u, v
        <5> QED BY <1>1, <3>2, <4>2, <5>1 DEF GraphOK, UsesOK, OpIds, ValIds
      <4>4. p \in ActiveOps(g)
        BY <1>1, <3>1 DEF ActiveOps, OpIds
      <4>5. p \in Users(g, g.ops[o].rets[k])
        BY <3>3, <4>2, <4>3, <4>4 DEF Users
      <4> QED BY <1>4, <4>5 DEF HasUsers, UsersOfOp
    <3>4. h.vals[v].active = g.vals[v].active
      BY <1>6, <3>2, <3>3
    <3> QED BY <3>1, <3>2, <3>4
  <2>2. ASSUME NEW v \in 1 .. n
        PROVE  h.vals[v].active = h.ops[h.vals[v].origin.op].active
    <3>1. g.vals[v].origin.op \in 1 .. m /\ g.vals[v].active = g.ops[g.vals[v].origin.op].active
      BY <1>1 DEF GraphOK, LinksOK, LiveOK, OpIds, ValIds, Producer
    <3>2. h.vals[v].origin = g.vals[v].origin
      BY <1>6
    <3> HIDE DEF gone
    <3>3. CASE gone(v)
      <4>1. h.vals[v].active = FALSE /\ g.vals[v].origin.op = o
        BY <1>6, <1>9, <3>3
      <4>2. h.ops[g.vals[v].origin.op].active = FALSE
        BY <1>5, <3>1, <4>1
      <4> QED BY <3>2, <4>1, <4>2
    <3>4. CASE ~gone(v)
      <4>1. h.vals[v].active = g.vals[v].active /\ g.vals[v].origin.op # o
        BY <1>6, <1>9, <3>4
      <4>2. h.ops[g.vals[v].origin.op].active = g.ops[g.vals[v].origin.op].active
        BY <1>5, <3>1, <4>1
      <4> QED BY <3>1, <3>2, <4>1, <4>2
    <3> QED BY <3>3, <3>4
  <2> QED BY <1>7, <2>1, <2>2 DEF LiveOK, ActiveOps, ActiveVals, OpIds, ValIds, Producer
<1> QED BY <1>8, <1>10, <1>11, <1>12 DEF GraphOK, h

-----------------------------------------------------------------------------
(* In a sound graph the use list of a value is the set of positions where  *)
(* it stands as an argument, and nothing alive stands on something deleted. *)
LEMMA SoundUses == GraphOK(ir) => UseDef
<1> SUFFICES ASSUME GraphOK(ir), NEW v \in ValIds(ir)
             PROVE  ir.vals[v].users =
                      UNION {{[op |-> o, pos |-> i] :
                                i \in {j \in DOMAIN ir.ops[o].args : ir.ops[o].args[j] = v}} :
                                o \in OpIds(ir)}
  BY DEF UseDef
<1> DEFINE at(o) == {[op |-> o, pos |-> i] : i \in {j \in DOMAIN ir.ops[o].args : ir.ops[o].args[j] = v}}
<1>1. ir.vals[v] \in ValRecord
  BY StoreFacts DEF GraphOK, ValIds
<1>2. ASSUME NEW u, u \in ir.vals[v].users PROVE \E o \in OpIds(ir) : u \in at(o)
  <2>1. u \in Position
    BY <1>1, <1>2 DEF ValRecord
  <2>2. u.op \in OpIds(ir) /\ u.pos \in DOMAIN ir.ops[u.op].args /\ ir.ops[u.op].args[u.pos] = v
    BY <1>2, <2>1 DEF GraphOK, UsesOK
  <2>3. u = [op |-> u.op, pos |-> u.pos]
    BY <2>1 DEF Position
  <2>4. u \in at(u.op)
    BY <2>2, <2>3
  <2> QED BY <2>2, <2>4
<1>3. ASSUME NEW o \in OpIds(ir), NEW u \in at(o) PROVE u \in ir.vals[v].users
  <2>1. PICK i \in DOMAIN ir.ops[o].args : ir.ops[o].args[i] = v /\ u = [op |-> o, pos |-> i]
    OBVIOUS
  <2>2. ir.ops[o] \in OpRecord /\ o \in Nat
    BY StoreFacts DEF GraphOK, OpIds
  <2>3. i \in Nat
    BY <2>2 DEF OpRecord
  <2>4. u \in Position /\ u.op = o /\ u.pos = i
    BY <2>1, <2>2, <2>3 DEF Position
  <2> QED BY <2>1, <2>4 DEF GraphOK, UsesOK
<1> HIDE DEF at
<1>4. ir.vals[v].users = UNION {at(o) : o \in OpIds(ir)}
  BY <1>2, <1>3
<1> QED BY <1>4 DEF at

LEMMA SoundLives == GraphOK(ir) => NoDeadUse
BY DEF GraphOK, LiveOK, NoDeadUse

-----------------------------------------------------------------------------
(* Counting down ends.                                                     *)
LEMMA LessWF ==
  \E R : IsWellFoundedOn(R, Nat) /\ \A x, y \in Nat : y < x => <<y, x>> \in R
<1>1. \A x, y \in Nat : y < x => <<y, x>> \in OpToRel(<,Nat)
  BY DEF OpToRel
<1> WITNESS OpToRel(<,Nat)
<1> QED
  BY <1>1, NatLessThanWellFounded

(* A set of numbers has a least one.                                       *)
LEMMA NatMin ==
  ASSUME NEW S \in SUBSET Nat, S # {}
  PROVE  \E m \in S : \A y \in S : m <= y
<1>1. PICK R : IsWellFoundedOn(R, Nat) /\ \A x, y \in Nat : y < x => <<y, x>> \in R
  BY LessWF
<1>2. PICK m \in S : \A y \in S : ~ (<<y, m>> \in R)
  BY <1>1, WFMin
<1>3. \A y \in S : ~ (y < m)
  BY <1>1, <1>2
<1> QED
  BY <1>3

(* A finite set of numbers has a greatest one.                             *)
LEMMA NatMax ==
  ASSUME NEW N \in Nat, NEW S, S # {}, \A x \in S : x \in Nat /\ x <= N
  PROVE  Max(S) \in S /\ \A y \in S : Max(S) >= y
<1> DEFINE B == {n \in Nat : \A x \in S : x <= n}
<1>1. N \in B
  OBVIOUS
<1>2. PICK m \in B : \A n \in B : m <= n
  <2>1. B \in SUBSET Nat /\ B # {}
    BY <1>1
  <2> HIDE DEF B
  <2> QED
    BY <2>1, NatMin
<1>3. \E x \in S : x = m
  <2> SUFFICES ASSUME \A x \in S : x # m PROVE FALSE
    OBVIOUS
  <2>1. \A x \in S : x < m
    OBVIOUS
  <2>2. m # 0
    BY <2>1
  <2>3. m - 1 \in B
    BY <2>1, <2>2
  <2> QED
    BY <1>2, <2>3
<1>4. \A y \in S : m >= y
  OBVIOUS
<1> QED
  BY <1>3, <1>4 DEF Max

(* A list of numbers is bounded.                                           *)
LEMMA BoundOf ==
  ASSUME NEW N \in Nat, NEW f, \A i \in 1 .. N : f[i] \in Nat
  PROVE  \E b \in Nat : \A i \in 1 .. N : f[i] <= b
<1> DEFINE Bad == {k \in 0 .. N : ~ \E b \in Nat : \A i \in 1 .. k : f[i] <= b}
<1>1. ASSUME NEW m \in Bad, \A k \in Bad : m <= k
      PROVE  FALSE
  <2>1. CASE m = 0
    <3>1. 0 \in Nat /\ \A i \in 1 .. m : f[i] <= 0
      BY <2>1
    <3> QED
      BY <3>1
  <2>2. CASE m # 0
    <3>1. m \in Nat /\ m - 1 \in 0 .. N /\ m - 1 \notin Bad /\ m \in 1 .. N
      <4>1. m \in 0 .. N
        OBVIOUS
      <4>2. m \in Nat /\ m - 1 \in 0 .. N /\ m \in 1 .. N /\ m - 1 < m
        BY <2>2, <4>1
      <4> HIDE DEF Bad
      <4> QED
        BY <1>1, <4>2
    <3>2. PICK b \in Nat : \A i \in 1 .. m - 1 : f[i] <= b
      BY <3>1
    <3> DEFINE c == IF b < f[m] THEN f[m] ELSE b
    <3>3. c \in Nat /\ f[m] <= c /\ b <= c
      BY <3>1
    <3> HIDE DEF c
    <3>4. ASSUME NEW i \in 1 .. m PROVE f[i] <= c
      <4>1. CASE i = m
        BY <3>3, <4>1
      <4>2. CASE i # m
        <5>1. i \in 1 .. m - 1 /\ i \in 1 .. N
          BY <3>1, <4>2
        <5>2. f[i] \in Nat /\ f[i] <= b
          BY <3>2, <5>1
        <5> QED
          BY <3>3, <5>2
      <4> QED
        BY <4>1, <4>2
    <3> QED
      BY <3>3, <3>4
  <2> QED
    BY <2>1, <2>2
<1>2. Bad = {}
  <2>1. Bad \in SUBSET Nat
    OBVIOUS
  <2> HIDE DEF Bad
  <2> QED
    BY <1>1, <2>1, NatMin
<1>3. N \in 0 .. N
  OBVIOUS
<1> QED
  BY <1>2, <1>3

(* A monotone function on the subsets of a set maps one of them to itself. *)
LEMMA FixedPoint ==
  ASSUME NEW X, NEW F \in [SUBSET X -> SUBSET X],
         \A A, B \in SUBSET X : A \subseteq B => F[A] \subseteq F[B]
  PROVE  \E L \in SUBSET X : F[L] = L
<1> DEFINE L == {x \in X : \E A \in SUBSET X : A \subseteq F[A] /\ x \in A}
<1>1. L \in SUBSET X /\ F[L] \in SUBSET X
  OBVIOUS
<1>2. L \subseteq F[L]
  <2> SUFFICES ASSUME NEW x \in L PROVE x \in F[L]
    OBVIOUS
  <2>1. PICK A \in SUBSET X : A \subseteq F[A] /\ x \in A
    OBVIOUS
  <2>2. A \subseteq L
    BY <2>1
  <2> HIDE DEF L
  <2>3. F[A] \subseteq F[L]
    BY <1>1, <2>2
  <2> QED BY <2>1, <2>3
<1>3. F[L] \subseteq L
  <2>1. F[L] \subseteq F[F[L]]
    <3> HIDE DEF L
    <3> QED BY <1>1, <1>2
  <2> QED BY <1>1, <2>1
<1> QED BY <1>1, <1>2, <1>3

-----------------------------------------------------------------------------
(* The graph by operations.                                                *)

(* Operations take arguments from operations.                              *)
LEMMA PredecessorsAre ==
  ASSUME NEW g, GraphOK(g), NEW o \in OpIds(g)
  PROVE  Predecessors(g, o) \subseteq OpIds(g)
<1>1. \A i \in DOMAIN g.ops[o].args : g.ops[o].args[i] \in ValIds(g)
  BY DEF GraphOK, LinksOK
<1>2. \A v \in ValIds(g) : Producer(g, v) \in OpIds(g)
  BY DEF GraphOK, LinksOK, Producer
<1> QED BY <1>1, <1>2 DEF Predecessors

(* The use lists name the operations that take an argument from o.         *)
LEMMA DirectUsersAre ==
  ASSUME NEW g, GraphOK(g), NEW o \in OpIds(g)
  PROVE  DirectUsers(g, o) = {u \in OpIds(g) : o \in Predecessors(g, u)}
<1>1. ASSUME NEW u \in DirectUsers(g, o)
      PROVE  u \in OpIds(g) /\ o \in Predecessors(g, u)
  <2>1. PICK k \in DOMAIN g.ops[o].rets : \E x \in g.vals[g.ops[o].rets[k]].users : u = x.op
    BY DEF DirectUsers
  <2>a. PICK use \in g.vals[g.ops[o].rets[k]].users : u = use.op
    BY <2>1
  <2> DEFINE v == g.ops[o].rets[k]
  <2>2. v \in ValIds(g) /\ g.vals[v].origin = [op |-> o, pos |-> k]
    BY DEF GraphOK, LinksOK
  <2> HIDE DEF v
  <2>3. use \in Position
    <3>1. g.vals[v] \in ValRecord
      BY <2>2, StoreFacts DEF GraphOK, ValIds
    <3> QED BY <2>a, <3>1 DEF ValRecord, v
  <2>4. use.op \in OpIds(g) /\ use.pos \in DOMAIN g.ops[use.op].args /\ g.ops[use.op].args[use.pos] = v
    BY <2>a, <2>2, <2>3 DEF GraphOK, UsesOK, v
  <2>5. Producer(g, v) = o
    BY <2>2 DEF Producer
  <2> QED BY <2>a, <2>4, <2>5 DEF Predecessors
<1>2. ASSUME NEW u \in OpIds(g), o \in Predecessors(g, u)
      PROVE  u \in DirectUsers(g, o)
  <2>1. PICK i \in DOMAIN g.ops[u].args : o = Producer(g, g.ops[u].args[i])
    BY <1>2 DEF Predecessors
  <2> DEFINE v == g.ops[u].args[i]
             use == [op |-> u, pos |-> i]
  <2>2. v \in ValIds(g)
    BY DEF GraphOK, LinksOK
  <2>3. /\ g.vals[v].origin.op = o
        /\ g.vals[v].origin.pos \in DOMAIN g.ops[o].rets
        /\ g.ops[o].rets[g.vals[v].origin.pos] = v
    BY <2>1, <2>2 DEF GraphOK, LinksOK, Producer
  <2>4. u \in Nat /\ i \in Nat
    <3>1. u \in Nat /\ g.ops[u] \in OpRecord
      BY StoreFacts DEF GraphOK, OpIds
    <3> QED BY <3>1 DEF OpRecord
  <2>5. use \in Position /\ use.op = u /\ use.pos = i
    BY <2>4 DEF Position
  <2>6. use \in g.vals[v].users
    BY <2>2, <2>5 DEF GraphOK, UsesOK
  <2> QED BY <2>3, <2>5, <2>6 DEF DirectUsers
<1>3. DirectUsers(g, o) \subseteq OpIds(g)
  BY <1>1
<1> QED BY <1>1, <1>2, <1>3

(* Of these the active ones count as users.                                *)
LEMMA UsersAre ==
  ASSUME NEW g, GraphOK(g), NEW o \in OpIds(g)
  PROVE  UsersOfOp(g, o) = {u \in ActiveOps(g) : o \in Predecessors(g, u)}
<1>1. UsersOfOp(g, o) = DirectUsers(g, o) \cap ActiveOps(g)
  BY DEF UsersOfOp, Users, DirectUsers
<1>2. ActiveOps(g) \subseteq OpIds(g)
  BY DEF ActiveOps
<1> QED BY <1>1, <1>2, DirectUsersAre

(* What an active operation takes an argument from is active.              *)
LEMMA ActiveClosed ==
  ASSUME NEW g, GraphOK(g), NEW o \in ActiveOps(g)
  PROVE  Predecessors(g, o) \subseteq ActiveOps(g)
<1> SUFFICES ASSUME NEW i \in DOMAIN g.ops[o].args
             PROVE  Producer(g, g.ops[o].args[i]) \in ActiveOps(g)
  BY DEF Predecessors
<1>1. g.ops[o].args[i] \in ActiveVals(g)
  BY DEF GraphOK, LiveOK
<1>2. g.ops[o].args[i] \in ValIds(g) /\ g.vals[g.ops[o].args[i]].active
  BY <1>1 DEF ActiveVals
<1>3. Producer(g, g.ops[o].args[i]) \in OpIds(g)
  BY <1>2 DEF GraphOK, LinksOK, Producer
<1> QED BY <1>2, <1>3 DEF GraphOK, LiveOK, ActiveOps

-----------------------------------------------------------------------------
(* Depths.                                                                 *)

Depths(g) == [OpIds(g) -> Nat]

(* An operation is deeper than what it takes arguments from.               *)
LEMMA DeepestIs ==
  ASSUME NEW g, GraphOK(g), NEW d \in Depths(g), NEW o \in OpIds(g)
  PROVE  Deepest(g, d, o) \in Nat /\ \A p \in Predecessors(g, o) : d[p] < Deepest(g, d, o)
<1> DEFINE P == Predecessors(g, o)
           S == {d[p] : p \in P} \cup {0}
           m == Len(g.ops)
<1>1. m \in Nat /\ OpIds(g) = 1 .. m
  BY StoreFacts DEF GraphOK, OpIds
<1>2. P \subseteq OpIds(g)
  BY PredecessorsAre
<1>3. \A i \in OpIds(g) : d[i] \in Nat
  BY DEF Depths
<1> HIDE DEF P, m
<1>4. PICK b \in Nat : \A i \in 1 .. m : d[i] <= b
  BY <1>1, <1>3, BoundOf
<1>5. S # {} /\ \A x \in S : x \in Nat /\ x <= b
  BY <1>1, <1>2, <1>3, <1>4
<1>6. Deepest(g, d, o) = 1 + Max(S)
  BY DEF Deepest, DepthOver, P
<1>8. Max(S) \in S /\ \A y \in S : Max(S) >= y
  <2> HIDE DEF S
  <2> QED BY <1>5, NatMax
<1>9. \A p \in P : d[p] \in S
  OBVIOUS
<1> HIDE DEF S
<1> QED BY <1>5, <1>6, <1>8, <1>9 DEF P


(* The operations whose depth is not that of a computation from scratch.   *)
Wrong(g, d) == {o \in OpIds(g) : d[o] # Deepest(g, d, o)}

DepthsOK(g) == g.depth \in Depths(g) /\ Wrong(g, g.depth) = {}

(* The graph has no cycle, through deleted operations included.            *)
Ranked(g, rank) ==
  /\ rank \in Depths(g)
  /\ \A o \in OpIds(g) : \A p \in Predecessors(g, o) : rank[p] < rank[o]

(* Depths that are right rank the operations.                              *)
LEMMA DepthsRank ==
  ASSUME NEW g, GraphOK(g), DepthsOK(g)
  PROVE  Ranked(g, g.depth)
BY DeepestIs DEF DepthsOK, Wrong, Ranked

-----------------------------------------------------------------------------
(* Reaching one operation from another.                                    *)

(* Reaches, as the function it chooses.                                    *)
LEMMA ReachesChosen ==
  ASSUME NEW g, NEW o, NEW p
  PROVE  Reaches(g, o, p) =
           (CHOOSE f : f = [q \in OpIds(g) |->
              \/ q = p
              \/ g.depth[q] < g.depth[p] /\ \E u \in UsersOfOp(g, q) : u = p \/ f[u]])[o]
BY DEF Reaches

(* What the search answers, it answers from the users.                     *)
LEMMA ReachesIs ==
  ASSUME NEW g, GraphOK(g), NEW p, NEW o \in OpIds(g)
  PROVE  Reaches(g, o, p) <=>
           (o = p \/ (g.depth[o] < g.depth[p] /\ \E u \in UsersOfOp(g, o) : u = p \/ Reaches(g, u, p)))
<1> DEFINE X == OpIds(g)
           From(q, A) == q = p \/ (g.depth[q] < g.depth[p] /\ \E u \in UsersOfOp(g, q) : u = p \/ u \in A)
           Is(f, q) == q = p \/ (g.depth[q] < g.depth[p] /\ \E u \in UsersOfOp(g, q) : u = p \/ f[u])
           F == [A \in SUBSET X |-> {q \in X : From(q, A)}]
           G(f) == [q \in X |-> Is(f, q)]
           r == CHOOSE f : f = G(f)
<1>1. PICK L \in SUBSET X : F[L] = L
  <2>1. F \in [SUBSET X -> SUBSET X]
    OBVIOUS
  <2>2. \A A, B \in SUBSET X : A \subseteq B => F[A] \subseteq F[B]
    <3> TAKE A, B \in SUBSET X
    <3> HAVE A \subseteq B
    <3>1. \A q \in X : From(q, A) => From(q, B)
      OBVIOUS
    <3> HIDE DEF From
    <3> QED BY <3>1
  <2> HIDE DEF F
  <2> QED BY <2>1, <2>2, FixedPoint
<1>2. \A q \in X : q \in L <=> From(q, L)
  <2>1. F[L] = {q \in X : From(q, L)}
    OBVIOUS
  <2> HIDE DEF F, From
  <2> QED BY <1>1, <2>1
<1>3. \A q \in X : UsersOfOp(g, q) \subseteq X
  BY UsersAre DEF ActiveOps
<1> DEFINE f == [q \in X |-> q \in L]
<1>4. f = G(f)
  <2>1. ASSUME NEW q \in X PROVE (q \in L) = Is(f, q)
    <3>1. \A u \in UsersOfOp(g, q) : f[u] = (u \in L)
      BY <1>3
    <3>2. Is(f, q) <=> From(q, L)
      <4> HIDE DEF f
      <4> QED BY <3>1
    <3> HIDE DEF f
    <3>3. Is(f, q) \in BOOLEAN /\ (q \in L) \in BOOLEAN
      OBVIOUS
    <3> QED BY <1>2, <3>2, <3>3
  <2>2. [q \in X |-> q \in L] = [q \in X |-> Is(f, q)]
    <3> HIDE DEF f, Is
    <3> QED BY <2>1
  <2> QED BY <2>2
<1>5. r = G(r)
  <2> HIDE DEF f, G
  <2> QED BY <1>4
<1>6. \A q : Reaches(g, q, p) = r[q]
  BY ReachesChosen
<1> HIDE DEF r
<1>7. \A q \in X : r[q] = Is(r, q)
  <2> HIDE DEF Is
  <2> QED BY <1>5
<1>8. r[o] = Is(r, o)
  BY <1>7
<1> QED BY <1>6, <1>8

(* Who does not reach p has no user that does.                             *)
LEMMA ReachesBack ==
  ASSUME NEW g, GraphOK(g), DepthsOK(g), NEW p \in OpIds(g), NEW o \in OpIds(g),
         NEW u \in UsersOfOp(g, o), Reaches(g, u, p)
  PROVE  Reaches(g, o, p)
<1>1. u \in OpIds(g) /\ o \in Predecessors(g, u)
  BY UsersAre DEF ActiveOps
<1>2. g.depth[o] < g.depth[u]
  BY <1>1, DepthsRank DEF Ranked
<1>3. u = p \/ g.depth[u] < g.depth[p]
  BY <1>1, ReachesIs
<1>4. g.depth[o] \in Nat /\ g.depth[u] \in Nat /\ g.depth[p] \in Nat
  BY <1>1 DEF DepthsOK, Depths
<1>5. g.depth[o] < g.depth[p]
  BY <1>2, <1>3, <1>4
<1> QED BY <1>5, ReachesIs

-----------------------------------------------------------------------------
(* The update of the depths.                                               *)

Updates(g) == [depth : Depths(g), calls : Seq(SUBSET OpIds(g))]
State(d, calls) == [depth |-> d, calls |-> calls]
Calls(g) == Seq(SUBSET OpIds(g))
Call(S, calls) == <<S>> \o calls

(* The states of an update and their parts.                                *)
LEMMA States ==
  ASSUME NEW g
  PROVE  /\ \A d \in Depths(g), c \in Calls(g) :
              State(d, c) \in Updates(g) /\ State(d, c).depth = d /\ State(d, c).calls = c
         /\ \A s \in Updates(g) :
              s.depth \in Depths(g) /\ s.calls \in Calls(g) /\ s = State(s.depth, s.calls)
         /\ \A d, c, b : [State(d, c) EXCEPT !.calls = b] = State(d, b)
BY DEF Updates, State, Calls

LEMMA CallStack ==
  ASSUME NEW g
  PROVE  /\ << >> \in Calls(g)
         /\ \A c \in Calls(g) : \A S \in SUBSET OpIds(g) :
              Call(S, c) \in Calls(g) /\ Call(S, c) # << >> /\ Head(Call(S, c)) = S /\ Tail(Call(S, c)) = c
         /\ \A c \in Calls(g) : c # << >> =>
              Head(c) \in SUBSET OpIds(g) /\ Tail(c) \in Calls(g) /\ c = Call(Head(c), Tail(c))
BY DEF Calls, Call

(* What a visit leaves of a call that is over.                             *)
LEMMA VisitNone ==
  ASSUME NEW g, NEW d \in Depths(g), NEW rest \in Calls(g)
  PROVE  VisitDepth(g, State(d, Call({}, rest))) = State(d, rest)
<1> DEFINE s == State(d, Call({}, rest))
<1>1. {} \in SUBSET OpIds(g)
  OBVIOUS
<1>2. s.calls = Call({}, rest) /\ Head(Call({}, rest)) = {} /\ Tail(Call({}, rest)) = rest
  BY <1>1, States, CallStack
<1>3. [s EXCEPT !.calls = rest] = State(d, rest)
  BY States
<1>4. VisitDepth(g, s) = [s EXCEPT !.calls = Tail(@)]
  BY <1>2 DEF VisitDepth
<1> HIDE DEF s
<1>5. [s EXCEPT !.calls = Tail(@)] = [s EXCEPT !.calls = rest]
  BY <1>2
<1> QED BY <1>3, <1>4, <1>5 DEF s

(* The operation a call visits next.                                       *)
NextOf(S) == CHOOSE q \in S : TRUE

(* And of a call with operations to visit, of which it takes one.          *)
LEMMA VisitOne ==
  ASSUME NEW g, NEW d \in Depths(g), NEW S \in SUBSET OpIds(g), S # {}, NEW rest \in Calls(g)
  PROVE  /\ NextOf(S) \in S
         /\ d[NextOf(S)] = Deepest(g, d, NextOf(S)) =>
              VisitDepth(g, State(d, Call(S, rest))) = State(d, Call(S \ {NextOf(S)}, rest))
         /\ d[NextOf(S)] # Deepest(g, d, NextOf(S)) =>
              VisitDepth(g, State(d, Call(S, rest))) =
                State([d EXCEPT ![NextOf(S)] = Deepest(g, d, NextOf(S))],
                      Call(DirectUsers(g, NextOf(S)), Call(S \ {NextOf(S)}, rest)))
<1> DEFINE s == State(d, Call(S, rest))
           o == NextOf(S)
           left == <<S \ {o}>> \o rest
<1>1. s.depth = d /\ s.calls = Call(S, rest) /\ Head(Call(S, rest)) = S /\ Tail(Call(S, rest)) = rest
  BY States, CallStack
<1>2. o \in S /\ o = CHOOSE q \in S : TRUE
  BY DEF NextOf
<1>3. left = Call(S \ {o}, rest) /\ <<DirectUsers(g, o)>> \o left = Call(DirectUsers(g, o), left)
  BY DEF Call
<1>4. [s EXCEPT !.calls = left] = State(d, left)
  BY States
<1> HIDE DEF s
<1>5. VisitDepth(g, s) = IF Deepest(g, d, o) = d[o] THEN [s EXCEPT !.calls = left]
                         ELSE [depth |-> [d EXCEPT ![o] = Deepest(g, d, o)],
                               calls |-> <<DirectUsers(g, o)>> \o left]
  <2>1. VisitDepth(g, s) =
          IF Head(s.calls) = {} THEN [s EXCEPT !.calls = Tail(@)]
          ELSE IF Deepest(g, s.depth, CHOOSE q \in Head(s.calls) : TRUE) = s.depth[CHOOSE q \in Head(s.calls) : TRUE]
          THEN [s EXCEPT !.calls = <<Head(s.calls) \ {CHOOSE q \in Head(s.calls) : TRUE}>> \o Tail(s.calls)]
          ELSE [depth |-> [s.depth EXCEPT ![CHOOSE q \in Head(s.calls) : TRUE] =
                             Deepest(g, s.depth, CHOOSE q \in Head(s.calls) : TRUE)],
                calls |-> <<DirectUsers(g, CHOOSE q \in Head(s.calls) : TRUE)>> \o
                            (<<Head(s.calls) \ {CHOOSE q \in Head(s.calls) : TRUE}>> \o Tail(s.calls))]
    BY DEF VisitDepth
  <2>2. (CHOOSE q \in Head(s.calls) : TRUE) = o
    BY <1>1, <1>2
  <2> QED BY <1>1, <2>1, <2>2
<1> QED BY <1>2, <1>3, <1>4, <1>5 DEF s, State

(* A visit of an update leaves one.                                        *)
LEMMA VisitType ==
  ASSUME NEW g, GraphOK(g), NEW s \in Updates(g), s.calls # << >>
  PROVE  VisitDepth(g, s) \in Updates(g)
<1>1. PICK d \in Depths(g), S \in SUBSET OpIds(g), rest \in Calls(g) : s = State(d, Call(S, rest))
  <2>1. s.depth \in Depths(g) /\ s.calls \in Calls(g) /\ s = State(s.depth, s.calls)
    BY States
  <2>2. Head(s.calls) \in SUBSET OpIds(g) /\ Tail(s.calls) \in Calls(g)
        /\ s.calls = Call(Head(s.calls), Tail(s.calls))
    BY <2>1, CallStack
  <2> QED BY <2>1, <2>2
<1>2. CASE S = {}
  BY <1>1, <1>2, VisitNone, States
<1>3. CASE S # {}
  <2> DEFINE o == NextOf(S)
  <2>1. o \in S
    BY <1>3, VisitOne
  <2>2. o \in OpIds(g) /\ S \ {o} \in SUBSET OpIds(g) /\ DirectUsers(g, o) \in SUBSET OpIds(g)
    BY <2>1, DirectUsersAre
  <2>3. Deepest(g, d, o) \in Nat
    BY <2>2, DeepestIs
  <2>4. [d EXCEPT ![o] = Deepest(g, d, o)] \in Depths(g)
    BY <2>2, <2>3 DEF Depths
  <2>5. Call(S \ {o}, rest) \in Calls(g) /\ Call(DirectUsers(g, o), Call(S \ {o}, rest)) \in Calls(g)
    BY <2>2, CallStack
  <2>6. \/ VisitDepth(g, s) = State(d, Call(S \ {o}, rest))
        \/ VisitDepth(g, s) = State([d EXCEPT ![o] = Deepest(g, d, o)],
                                    Call(DirectUsers(g, o), Call(S \ {o}, rest)))
    BY <1>1, <1>3, VisitOne
  <2> HIDE DEF o
  <2> QED BY <2>4, <2>5, <2>6, States
<1> QED BY <1>2, <1>3

(* The recursion of the update: f gives the depths it ends with.           *)
Follows(g, f) ==
  \A s \in Updates(g) : f[s] = IF s.calls = << >> THEN s.depth ELSE f[VisitDepth(g, s)]

(* The update is such a recursion.                                         *)
LEMMA UpdateFollows ==
  ASSUME NEW g, GraphOK(g)
  PROVE  \E f : Follows(g, f) /\ \A start : UpdatedDepths(g, start) = f[State(g.depth, <<start>>)]
<1> DEFINE X == Updates(g) \X Depths(g)
           From(s, e, A) == IF s.calls = << >> THEN e = s.depth ELSE <<VisitDepth(g, s), e>> \in A
           F == [A \in SUBSET X |-> {t \in X : From(t[1], t[2], A)}]
           Is(h, s) == IF s.calls = << >> THEN s.depth ELSE h[VisitDepth(g, s)]
           G(h) == [s \in Updates(g) |-> Is(h, s)]
           f == CHOOSE h : h = G(h)
<1>1. PICK L \in SUBSET X : F[L] = L
  <2>1. F \in [SUBSET X -> SUBSET X]
    OBVIOUS
  <2>2. \A A, B \in SUBSET X : A \subseteq B => F[A] \subseteq F[B]
    <3> TAKE A, B \in SUBSET X
    <3> HAVE A \subseteq B
    <3>1. \A s, e : From(s, e, A) => From(s, e, B)
      OBVIOUS
    <3> HIDE DEF From
    <3> QED BY <3>1
  <2> HIDE DEF F
  <2> QED BY <2>1, <2>2, FixedPoint
<1>2. \A s \in Updates(g), e \in Depths(g) : <<s, e>> \in L <=> From(s, e, L)
  <2>1. F[L] = {t \in X : From(t[1], t[2], L)}
    OBVIOUS
  <2>2. \A s \in Updates(g), e \in Depths(g) : <<s, e>> \in X
    OBVIOUS
  <2> HIDE DEF F, From, X
  <2> QED BY <1>1, <2>1, <2>2
<1> DEFINE Ends(s) == {e \in Depths(g) : <<s, e>> \in L}
           End(s) == CHOOSE e : e \in Ends(s)
           h == [s \in Updates(g) |-> End(s)]
<1>3. ASSUME NEW s \in Updates(g) PROVE h[s] = Is(h, s)
  <2>1. CASE s.calls = << >>
    <3>1. s.depth \in Depths(g)
      BY DEF Updates
    <3>2. Ends(s) = {s.depth}
      BY <1>2, <2>1, <3>1
    <3> HIDE DEF Ends
    <3>3. h[s] = s.depth
      BY <3>2
    <3> QED BY <2>1, <3>3
  <2>2. CASE s.calls # << >>
    <3> DEFINE t == VisitDepth(g, s)
    <3>1. t \in Updates(g)
      BY <2>2, VisitType
    <3>2. Ends(s) = Ends(t)
      BY <1>2, <2>2
    <3> HIDE DEF Ends, t
    <3>3. h[s] = h[t]
      BY <3>1, <3>2
    <3> QED BY <2>2, <3>3 DEF t
  <2> QED BY <2>1, <2>2
<1>4. h = G(h)
  <2>1. \A s \in Updates(g) : h[s] = End(s)
    OBVIOUS
  <2>2. \A s \in Updates(g) : End(s) = Is(h, s)
    <3> HIDE DEF h, Is, End
    <3> QED BY <1>3, <2>1
  <2> HIDE DEF Is, End
  <2>3. [s \in Updates(g) |-> End(s)] = [s \in Updates(g) |-> Is(h, s)]
    BY <2>2
  <2> QED BY <2>3
<1>5. f = G(f)
  <2> HIDE DEF h, G
  <2> QED BY <1>4
<1>6. \A start : UpdatedDepths(g, start) = f[State(g.depth, <<start>>)]
  BY DEF UpdatedDepths, Updates, Depths, State
<1> HIDE DEF f
<1>7. Follows(g, f)
  BY <1>5 DEF Follows
<1> QED BY <1>6, <1>7

(* Every call of the operations S, on any depths and on any stack, returns *)
(* with no more wrong depths than before, and with none in S.              *)
Settles(g, f, S) ==
  \A d \in Depths(g) : \A rest \in Calls(g) :
    \E e \in Depths(g) : /\ f[State(d, Call(S, rest))] = f[State(e, rest)]
                        /\ Wrong(g, e) \subseteq Wrong(g, d) \ S

(* A change of the depth of o makes wrong at most what uses o.             *)
LEMMA WrongAfter ==
  ASSUME NEW g, GraphOK(g), NEW rank, Ranked(g, rank), NEW d \in Depths(g), NEW o \in OpIds(g),
         NEW e, e = [d EXCEPT ![o] = Deepest(g, d, o)]
  PROVE  e \in Depths(g) /\ Wrong(g, e) \subseteq (Wrong(g, d) \ {o}) \cup DirectUsers(g, o)
<1>1. Deepest(g, d, o) \in Nat
  BY DeepestIs
<1>2. e \in Depths(g) /\ e[o] = Deepest(g, d, o) /\ \A q \in OpIds(g) : q # o => e[q] = d[q]
  BY <1>1 DEF Depths
<1>3. o \notin Predecessors(g, o)
  BY DEF Ranked, Depths
<1>4. ASSUME NEW q \in OpIds(g), o \notin Predecessors(g, q)
      PROVE  Deepest(g, e, q) = Deepest(g, d, q)
  <2>1. \A p \in Predecessors(g, q) : e[p] = d[p]
    BY <1>2, <1>4, PredecessorsAre
  <2>2. {e[p] : p \in Predecessors(g, q)} = {d[p] : p \in Predecessors(g, q)}
    BY <2>1
  <2> QED BY <2>2 DEF Deepest
<1>5. ASSUME NEW q \in Wrong(g, e), q \notin DirectUsers(g, o)
      PROVE  q \in Wrong(g, d) \ {o}
  <2>1. q \in OpIds(g) /\ e[q] # Deepest(g, e, q)
    BY <1>5 DEF Wrong
  <2>2. Deepest(g, e, q) = Deepest(g, d, q)
    BY <1>4, <1>5, <2>1, DirectUsersAre
  <2>3. q # o
    BY <1>2, <2>1, <2>2
  <2> QED BY <1>2, <2>1, <2>2, <2>3 DEF Wrong
<1> QED BY <1>2, <1>5

(* Operations settle if their users do, taken one by one.                  *)
LEMMA SettlesOver ==
  ASSUME NEW g, GraphOK(g), NEW f, Follows(g, f), NEW rank, Ranked(g, rank),
         NEW S \in SUBSET OpIds(g), \A o \in S : Settles(g, f, DirectUsers(g, o))
  PROVE  Settles(g, f, S)
<1> DEFINE Bad == {n \in Nat : \E T \in SUBSET S : Cardinality(T) = n /\ ~Settles(g, f, T)}
<1>1. IsFiniteSet(S)
  <2>1. OpIds(g) = 1 .. Len(g.ops) /\ Len(g.ops) \in Nat
    BY StoreFacts DEF GraphOK, OpIds
  <2>2. IsFiniteSet(OpIds(g))
    BY <2>1, FS_Interval
  <2> QED BY <2>2, FS_Subset
<1>2. ASSUME NEW m \in Bad, \A k \in Bad : m <= k PROVE FALSE
  <2>1. PICK T \in SUBSET S : Cardinality(T) = m /\ ~Settles(g, f, T)
    OBVIOUS
  <2>2. PICK d \in Depths(g), rest \in Calls(g) :
          ~ \E e \in Depths(g) : /\ f[State(d, Call(T, rest))] = f[State(e, rest)]
                                /\ Wrong(g, e) \subseteq Wrong(g, d) \ T
    BY <2>1 DEF Settles
  <2> DEFINE s == State(d, Call(T, rest))
  <2>3. s \in Updates(g) /\ s.calls # << >>
    BY States, CallStack
  <2>4. f[s] = f[VisitDepth(g, s)]
    BY <2>3 DEF Follows
  <2>5. CASE T = {}
    <3>1. f[s] = f[State(d, rest)]
      BY <2>4, <2>5, VisitNone
    <3>2. Wrong(g, d) \subseteq Wrong(g, d) \ T
      BY <2>5
    <3> QED BY <2>2, <3>1, <3>2
  <2>6. CASE T # {}
    <3> DEFINE o == NextOf(T)
               left == T \ {o}
               after == Call(left, rest)
               c == [d EXCEPT ![o] = Deepest(g, d, o)]
    <3>0. T \in SUBSET OpIds(g)
      OBVIOUS
    <3> HIDE DEF s
    <3>1. /\ o \in T
          /\ d[o] = Deepest(g, d, o) => VisitDepth(g, s) = State(d, after)
          /\ d[o] # Deepest(g, d, o) => VisitDepth(g, s) = State(c, Call(DirectUsers(g, o), after))
      BY <2>6, <3>0, VisitOne DEF s
    <3> HIDE DEF o
    <3>2. o \in OpIds(g) /\ after \in Calls(g)
      BY <3>1, CallStack
    <3>3. Settles(g, f, left)
      <4>1. IsFiniteSet(T) /\ m \in Nat
        BY <1>1, FS_Subset
      <4>2. Cardinality(left) = m - 1 /\ Cardinality(T) # 0
        BY <2>1, <2>6, <3>1, <4>1, FS_RemoveElement, FS_EmptySet
      <4>3. m - 1 \in Nat /\ ~ (m <= m - 1)
        BY <2>1, <4>1, <4>2
      <4>4. left \in SUBSET S
        OBVIOUS
      <4> HIDE DEF left
      <4> QED BY <1>2, <4>2, <4>3, <4>4
    <3> HIDE DEF after
    <3>4. CASE d[o] = Deepest(g, d, o)
      <4>1. f[s] = f[State(d, after)] /\ o \notin Wrong(g, d)
        BY <2>4, <3>1, <3>4 DEF Wrong
      <4>2. PICK e \in Depths(g) : f[State(d, after)] = f[State(e, rest)] /\ Wrong(g, e) \subseteq Wrong(g, d) \ left
        BY <3>3 DEF Settles, after
      <4>3. Wrong(g, e) \subseteq Wrong(g, d) \ T
        BY <4>1, <4>2
      <4> QED BY <2>2, <4>1, <4>2, <4>3 DEF s
    <3>5. CASE d[o] # Deepest(g, d, o)
      <4>1. c \in Depths(g) /\ Wrong(g, c) \subseteq (Wrong(g, d) \ {o}) \cup DirectUsers(g, o)
        BY <3>2, WrongAfter
      <4> HIDE DEF c
      <4>2. f[s] = f[State(c, Call(DirectUsers(g, o), after))]
        BY <2>4, <3>1, <3>5
      <4>3. PICK b \in Depths(g) : /\ f[State(c, Call(DirectUsers(g, o), after))] = f[State(b, after)]
                                   /\ Wrong(g, b) \subseteq Wrong(g, c) \ DirectUsers(g, o)
        BY <3>1, <3>2, <4>1 DEF Settles
      <4>4. PICK e \in Depths(g) : f[State(b, after)] = f[State(e, rest)] /\ Wrong(g, e) \subseteq Wrong(g, b) \ left
        BY <3>3 DEF Settles, after
      <4>5. Wrong(g, e) \subseteq Wrong(g, d) \ T
        BY <4>1, <4>3, <4>4
      <4> QED BY <2>2, <4>2, <4>3, <4>4, <4>5 DEF s
    <3> QED BY <3>4, <3>5
  <2> QED BY <2>5, <2>6
<1>3. Bad = {}
  <2>1. Bad \in SUBSET Nat
    OBVIOUS
  <2> HIDE DEF Bad
  <2> QED BY <1>2, <2>1, NatMin
<1>4. Cardinality(S) \in Nat
  BY <1>1, FS_CardinalityType
<1> QED BY <1>3, <1>4

(* In a graph without cycles all operations settle: the rank of what is    *)
(* still to be called grows from call to call.                             *)
LEMMA AllSettle ==
  ASSUME NEW g, GraphOK(g), NEW f, Follows(g, f), NEW rank, Ranked(g, rank),
         NEW S \in SUBSET OpIds(g)
  PROVE  Settles(g, f, S)
<1>1. PICK M \in Nat : \A o \in OpIds(g) : rank[o] <= M
  <2>1. OpIds(g) = 1 .. Len(g.ops) /\ Len(g.ops) \in Nat
    BY StoreFacts DEF GraphOK, OpIds
  <2>2. \A i \in 1 .. Len(g.ops) : rank[i] \in Nat
    BY <2>1 DEF Ranked, Depths
  <2> QED BY <2>1, <2>2, BoundOf
<1> DEFINE High(T, k) == \A q \in T : M < rank[q] + k
           Bad == {k \in Nat : \E T \in SUBSET OpIds(g) : High(T, k) /\ ~Settles(g, f, T)}
<1>2. ASSUME NEW m \in Bad, \A k \in Bad : m <= k PROVE FALSE
  <2>1. PICK T \in SUBSET OpIds(g) : High(T, m) /\ ~Settles(g, f, T)
    OBVIOUS
  <2>2. ASSUME NEW o \in T PROVE Settles(g, f, DirectUsers(g, o))
    <3>1. o \in OpIds(g) /\ rank[o] \in Nat /\ rank[o] <= M /\ M < rank[o] + m /\ m \in Nat
      BY <1>1, <2>1 DEF Ranked, Depths
    <3>2. m - 1 \in Nat /\ ~ (m <= m - 1)
      BY <3>1
    <3>3. High(DirectUsers(g, o), m - 1) /\ DirectUsers(g, o) \in SUBSET OpIds(g)
      <4>1. DirectUsers(g, o) = {u \in OpIds(g) : o \in Predecessors(g, u)}
        BY <3>1, DirectUsersAre
      <4>2. \A u \in DirectUsers(g, o) : rank[u] \in Nat /\ rank[o] < rank[u]
        BY <4>1 DEF Ranked, Depths
      <4>3. \A u \in DirectUsers(g, o) : M < rank[u] + (m - 1)
        BY <3>1, <4>2
      <4> QED BY <4>1, <4>3
    <3> HIDE DEF High
    <3> QED BY <1>2, <3>2, <3>3
  <2> QED BY <2>1, <2>2, SettlesOver
<1>3. Bad = {}
  <2>1. Bad \in SUBSET Nat
    OBVIOUS
  <2> HIDE DEF Bad
  <2> QED BY <1>2, <2>1, NatMin
<1>4. High(S, M + 1)
  BY <1>1 DEF Ranked, Depths
<1> QED
  <2>1. M + 1 \in Nat
    BY <1>1
  <2> HIDE DEF High
  <2> QED BY <1>3, <1>4, <2>1

(* An update in a graph without cycles that starts from all wrong depths   *)
(* leaves none.                                                            *)
LEMMA UpdateRight ==
  ASSUME NEW g, GraphOK(g), NEW rank, Ranked(g, rank), g.depth \in Depths(g),
         NEW start \in SUBSET OpIds(g), Wrong(g, g.depth) \subseteq start
  PROVE  UpdatedDepths(g, start) \in Depths(g) /\ Wrong(g, UpdatedDepths(g, start)) = {}
<1>1. PICK f : Follows(g, f) /\ UpdatedDepths(g, start) = f[State(g.depth, <<start>>)]
  BY UpdateFollows
<1>2. <<start>> = Call(start, << >>) /\ << >> \in Calls(g)
  BY CallStack DEF Call
<1>3. Settles(g, f, start)
  BY <1>1, AllSettle
<1>4. PICK e \in Depths(g) : /\ f[State(g.depth, Call(start, << >>))] = f[State(e, << >>)]
                             /\ Wrong(g, e) \subseteq Wrong(g, g.depth) \ start
  BY <1>2, <1>3 DEF Settles
<1>5. f[State(e, << >>)] = e
  <2>1. State(e, << >>) \in Updates(g) /\ State(e, << >>).calls = << >> /\ State(e, << >>).depth = e
    BY <1>2, States
  <2> QED BY <1>1, <2>1 DEF Follows
<1> QED BY <1>1, <1>2, <1>4, <1>5

-----------------------------------------------------------------------------
(* The mutators keep the depths right.                                     *)

DepthInv(g) == GraphOK(g) /\ DepthsOK(g)

(* The operations that have v as an argument.                              *)
Holders(g, v) == {u.op : u \in g.vals[v].users}

(* The arguments of operations that a redirection leaves.                  *)
LEMMA RedirectArgs ==
  ASSUME NEW g, GraphOK(g), NEW old \in ActiveVals(g), NEW new \in ActiveVals(g), old # new,
         NEW r, r = Redirect(g, old, new), NEW start, start = Holders(g, old)
  PROVE  /\ OpIds(r) = OpIds(g) /\ r.depth = g.depth /\ start \in SUBSET OpIds(g)
         /\ \A o \in OpIds(g) : o \notin start => Predecessors(r, o) = Predecessors(g, o)
         /\ \A o \in OpIds(g) : \A p \in Predecessors(r, o) :
              p \in Predecessors(g, o) \/ (o \in start /\ p = Producer(g, new))
         /\ \A o \in start : Producer(g, old) \in Predecessors(g, o)
<1> DEFINE args(o) == [i \in DOMAIN g.ops[o].args |->
                         IF g.ops[o].args[i] = old THEN new ELSE g.ops[o].args[i]]
           op(o) == IF \E u \in g.vals[old].users : u.op = o
                    THEN [g.ops[o] EXCEPT !.args = args(o)] ELSE g.ops[o]
           val(v) == CASE v = old -> [g.vals[v] EXCEPT !.users = {}]
                       [] v = new -> [g.vals[v] EXCEPT !.users = @ \cup g.vals[old].users]
                       [] OTHER -> g.vals[v]
<1>1. \A o \in OpIds(g) : g.ops[o] \in OpRecord /\ o \in Nat
  BY StoreFacts DEF GraphOK, OpIds
<1>2. \A v \in ValIds(g) : g.vals[v] \in ValRecord
  BY StoreFacts DEF GraphOK, ValIds
<1>3. old \in ValIds(g) /\ new \in ValIds(g)
  BY DEF ActiveVals
<1>4. r.ops = [o \in OpIds(g) |-> op(o)]
  BY DEF Redirect
<1>5. r.vals = [v \in ValIds(g) |-> val(v)]
  BY DEF Redirect
<1>6. OpIds(r) = OpIds(g) /\ r.depth = g.depth
  BY <1>4 DEF Redirect, OpIds
<1>a. start = {u.op : u \in g.vals[old].users}
  BY DEF Holders
<1>7. ASSUME NEW u \in g.vals[old].users
      PROVE  u.op \in OpIds(g) /\ u.pos \in DOMAIN g.ops[u.op].args /\ g.ops[u.op].args[u.pos] = old
  <2>1. u \in Position
    BY <1>2, <1>3 DEF ValRecord
  <2> QED BY <1>3, <2>1 DEF GraphOK, UsesOK
<1>8. ASSUME NEW v \in ValIds(g) PROVE Producer(r, v) = Producer(g, v)
  <2>1. r.vals[v] = val(v) /\ g.vals[v] \in ValRecord
    BY <1>2, <1>5
  <2>2. CASE v = old
    <3>1. r.vals[v] = [g.vals[v] EXCEPT !.users = {}]
      BY <2>1, <2>2
    <3> QED BY <2>1, <3>1 DEF Producer, ValRecord
  <2>3. CASE v = new
    <3>1. r.vals[v] = [g.vals[v] EXCEPT !.users = @ \cup g.vals[old].users]
      BY <2>1, <2>3
    <3> QED BY <2>1, <3>1 DEF Producer, ValRecord
  <2>4. CASE v # old /\ v # new
    BY <2>1, <2>4 DEF Producer
  <2> QED BY <2>2, <2>3, <2>4
<1>9. ASSUME NEW o \in OpIds(g), NEW i \in DOMAIN g.ops[o].args
      PROVE  g.ops[o].args[i] \in ValIds(g)
  BY DEF GraphOK, LinksOK
<1>10. ASSUME NEW o \in OpIds(g), o \notin start
       PROVE  Predecessors(r, o) = Predecessors(g, o)
  <2>1. r.ops[o] = g.ops[o]
    BY <1>4, <1>10, <1>a
  <2>2. \A i \in DOMAIN g.ops[o].args : Producer(r, g.ops[o].args[i]) = Producer(g, g.ops[o].args[i])
    BY <1>8, <1>9
  <2> QED BY <2>1, <2>2 DEF Predecessors
<1>11. ASSUME NEW o \in OpIds(g), NEW p \in Predecessors(r, o), o \in start
       PROVE  p \in Predecessors(g, o) \/ p = Producer(g, new)
  <2>1. r.ops[o] = [g.ops[o] EXCEPT !.args = args(o)]
    BY <1>4, <1>11, <1>a
  <2>2. r.ops[o].args = args(o)
    BY <1>1, <2>1 DEF OpRecord
  <2>3. PICK i \in DOMAIN g.ops[o].args : p = Producer(r, args(o)[i])
    BY <2>2 DEF Predecessors
  <2>4. args(o)[i] = IF g.ops[o].args[i] = old THEN new ELSE g.ops[o].args[i]
    OBVIOUS
  <2>5. CASE g.ops[o].args[i] = old
    BY <1>3, <1>8, <2>3, <2>4, <2>5
  <2>6. CASE g.ops[o].args[i] # old
    BY <1>8, <1>9, <2>3, <2>4, <2>6 DEF Predecessors
  <2> QED BY <2>5, <2>6
<1>12. \A o \in start : o \in OpIds(g) /\ Producer(g, old) \in Predecessors(g, o)
  BY <1>7, <1>a DEF Predecessors
<1> QED BY <1>6, <1>10, <1>11, <1>12

(* A replacement that the code allows makes no cycle: with it goes a rank, *)
(* the old depths, where all that does not reach the new producer is lifted *)
(* above it.                                                               *)
LEMMA ReplaceRanks ==
  ASSUME NEW g, DepthInv(g), NEW old \in ActiveVals(g), NEW new \in ActiveVals(g), old # new,
         MayReplace(g, old, new)
  PROVE  \E rank : Ranked(Redirect(g, old, new), rank)
<1> DEFINE r == Redirect(g, old, new)
           start == Holders(g, old)
           P == Producer(g, new)
           Behind(o) == o \in ActiveOps(g) /\ Reaches(g, o, P)
           rank == [o \in OpIds(g) |-> IF Behind(o) THEN g.depth[o] ELSE g.depth[o] + g.depth[P] + 1]
<1>1. GraphOK(g) /\ DepthsOK(g) /\ Ranked(g, g.depth)
  BY DepthsRank DEF DepthInv
<1>2. P \in ActiveOps(g)
  <2>1. new \in ValIds(g) /\ g.vals[new].active
    BY DEF ActiveVals
  <2> QED BY <1>1, <2>1 DEF GraphOK, LinksOK, LiveOK, ActiveOps, Producer
<1>3. P \in OpIds(g) /\ Behind(P)
  <2>1. P \in OpIds(g)
    BY <1>2 DEF ActiveOps
  <2> QED BY <1>1, <1>2, <2>1, ReachesIs
<1>4. \A o \in OpIds(g) : g.depth[o] \in Nat
  BY <1>1 DEF DepthsOK, Depths
<1>r. r = Redirect(g, old, new) /\ start = Holders(g, old)
  OBVIOUS
<1>5. /\ OpIds(r) = OpIds(g) /\ start \in SUBSET OpIds(g)
      /\ \A o \in OpIds(g) : \A p \in Predecessors(r, o) :
           p \in Predecessors(g, o) \/ (o \in start /\ p = P)
  BY <1>r, <1>1, RedirectArgs
<1>6. ASSUME NEW o \in start PROVE ~Behind(o)
  <2> SUFFICES ASSUME o \in ActiveOps(g) PROVE ~Reaches(g, o, P)
    OBVIOUS
  <2>1. o \in Users(g, old)
    BY DEF Users, Holders
  <2> QED BY <2>1 DEF MayReplace
<1>7. ASSUME NEW o \in OpIds(g), NEW p \in Predecessors(g, o), Behind(o)
      PROVE  Behind(p)
  <2>1. p \in ActiveOps(g)
    BY <1>1, <1>7, ActiveClosed
  <2>2. p \in OpIds(g) /\ o \in UsersOfOp(g, p)
    BY <1>1, <1>7, <2>1, UsersAre DEF ActiveOps
  <2> QED BY <1>1, <1>3, <1>7, <2>1, <2>2, ReachesBack
<1> HIDE DEF r, start, P, Behind
<1>8. rank \in Depths(r)
  BY <1>3, <1>4, <1>5 DEF Depths
<1>9. ASSUME NEW o \in OpIds(g), NEW p \in Predecessors(r, o)
      PROVE  rank[p] < rank[o]
  <2>1. CASE p \in Predecessors(g, o)
    <3>1. p \in OpIds(g) /\ g.depth[p] < g.depth[o]
      BY <1>1, <2>1, PredecessorsAre DEF Ranked
    <3>2. Behind(o) => Behind(p)
      BY <1>7, <2>1
    <3>3. g.depth[p] \in Nat /\ g.depth[o] \in Nat /\ g.depth[P] \in Nat
      BY <1>3, <1>4, <3>1
    <3>4. rank[p] = (IF Behind(p) THEN g.depth[p] ELSE g.depth[p] + g.depth[P] + 1)
          /\ rank[o] = (IF Behind(o) THEN g.depth[o] ELSE g.depth[o] + g.depth[P] + 1)
      BY <3>1
    <3> HIDE DEF rank
    <3> QED BY <3>1, <3>2, <3>3, <3>4
  <2>2. CASE o \in start /\ p = P
    <3>1. rank[p] = g.depth[P] /\ rank[o] = g.depth[o] + g.depth[P] + 1
      BY <1>3, <1>6, <2>2
    <3>2. g.depth[o] \in Nat /\ g.depth[P] \in Nat
      BY <1>3, <1>4
    <3> HIDE DEF rank
    <3> QED BY <3>1, <3>2
  <2> QED BY <1>5, <2>1, <2>2
<1> HIDE DEF rank
<1>10. Ranked(r, rank)
  BY <1>5, <1>8, <1>9 DEF Ranked
<1> QED BY <1>10 DEF r

(* A replacement leaves the depths right.                                  *)
LEMMA ReplaceDepths ==
  ASSUME NEW g, DepthInv(g), NEW old \in ActiveVals(g), NEW new \in ActiveVals(g),
         MayReplace(g, old, new)
  PROVE  DepthsOK(ReplaceValUse(g, old, new))
<1>1. CASE old = new
  BY <1>1 DEF ReplaceValUse, DepthInv
<1>2. CASE old # new
  <2> DEFINE r == Redirect(g, old, new)
             start == Holders(g, old)
             d == UpdatedDepths(r, start)
             h == ReplaceValUse(g, old, new)
  <2>1. GraphOK(g) /\ DepthsOK(g)
    BY DEF DepthInv
  <2>2. GraphOK(r)
    BY <1>2, <2>1, RedirectSound
  <2>3. PICK rank : Ranked(r, rank)
    BY <1>2, ReplaceRanks
  <2>r. r = Redirect(g, old, new) /\ start = Holders(g, old)
    OBVIOUS
  <2>4. /\ OpIds(r) = OpIds(g) /\ r.depth = g.depth /\ start \in SUBSET OpIds(g)
        /\ \A o \in OpIds(g) : o \notin start => Predecessors(r, o) = Predecessors(g, o)
    BY <1>2, <2>r, <2>1, RedirectArgs
  <2>5. r = [ops |-> r.ops, depth |-> r.depth, vals |-> r.vals]
    BY DEF Redirect
  <2>6. h = UpdateDepths(r, start)
    BY <1>2 DEF ReplaceValUse, Holders
  <2> HIDE DEF r, start
  <2>7. Wrong(r, r.depth) \subseteq start
    <3> SUFFICES ASSUME NEW o \in OpIds(g), o \notin start PROVE g.depth[o] = Deepest(r, g.depth, o)
      BY <2>4 DEF Wrong
    <3>1. Predecessors(r, o) = Predecessors(g, o)
      BY <2>4
    <3>2. Deepest(r, g.depth, o) = Deepest(g, g.depth, o)
      BY <3>1 DEF Deepest
    <3> QED BY <2>1, <3>2 DEF DepthsOK, Wrong
  <2>8. r.depth \in Depths(r)
    BY <2>1, <2>4 DEF DepthsOK, Depths
  <2>9. d \in Depths(r) /\ Wrong(r, d) = {}
    BY <2>2, <2>3, <2>4, <2>7, <2>8, UpdateRight
  <2>10. h.ops = r.ops /\ h.vals = r.vals /\ h.depth = d
    <3>1. h = [r EXCEPT !.depth = d]
      BY <2>6 DEF UpdateDepths
    <3> HIDE DEF d, h
    <3> QED BY <2>5, <3>1
  <2> HIDE DEF d, h
  <2>11. OpIds(h) = OpIds(r) /\ \A o : Deepest(h, d, o) = Deepest(r, d, o)
    BY <2>10 DEF OpIds, Deepest, Predecessors, Producer
  <2>12. DepthsOK(h)
    BY <2>9, <2>10, <2>11 DEF DepthsOK, Depths, Wrong
  <2> QED BY <2>12 DEF h
<1> QED BY <1>1, <1>2

(* So does a deletion, which leaves the arguments.                         *)
LEMMA DeleteDepths ==
  ASSUME NEW g, DepthInv(g), NEW o, MayDelete(g, o)
  PROVE  DepthsOK(DeleteOp(g, o))
<1> DEFINE h == DeleteOp(g, o)
           op(p) == IF p = o THEN [g.ops[p] EXCEPT !.active = FALSE] ELSE g.ops[p]
           gone(v) == \E k \in DOMAIN g.ops[o].rets : g.ops[o].rets[k] = v
           val(v) == IF gone(v) THEN [g.vals[v] EXCEPT !.active = FALSE] ELSE g.vals[v]
<1>1. /\ \A q \in OpIds(g) : g.ops[q] \in OpRecord
      /\ \A v \in ValIds(g) : g.vals[v] \in ValRecord
  BY StoreFacts DEF GraphOK, OpIds, ValIds, DepthInv
<1>2. h.ops = [p \in OpIds(g) |-> op(p)] /\ h.vals = [v \in ValIds(g) |-> val(v)] /\ h.depth = g.depth
  BY DEF DeleteOp
<1> HIDE DEF h, gone
<1>3. OpIds(h) = OpIds(g)
  BY <1>2 DEF OpIds
<1>4. ASSUME NEW q \in OpIds(g) PROVE h.ops[q].args = g.ops[q].args
  <2>1. h.ops[q] = op(q) /\ g.ops[q] \in OpRecord
    BY <1>1, <1>2
  <2>2. CASE q = o
    <3>1. h.ops[q] = [g.ops[q] EXCEPT !.active = FALSE]
      BY <2>1, <2>2
    <3> QED BY <2>1, <3>1 DEF OpRecord
  <2>3. CASE q # o
    BY <2>1, <2>3
  <2> QED BY <2>2, <2>3
<1>5. ASSUME NEW v \in ValIds(g) PROVE Producer(h, v) = Producer(g, v)
  <2>1. h.vals[v] = val(v) /\ g.vals[v] \in ValRecord
    BY <1>1, <1>2
  <2>2. CASE gone(v)
    <3>1. h.vals[v] = [g.vals[v] EXCEPT !.active = FALSE]
      BY <2>1, <2>2
    <3> QED BY <2>1, <3>1 DEF ValRecord, Producer
  <2>3. CASE ~gone(v)
    BY <2>1, <2>3 DEF Producer
  <2> QED BY <2>2, <2>3
<1>6. ASSUME NEW q \in OpIds(g) PROVE Predecessors(h, q) = Predecessors(g, q)
  <2>1. \A i \in DOMAIN g.ops[q].args : g.ops[q].args[i] \in ValIds(g)
    BY DEF DepthInv, GraphOK, LinksOK
  <2>2. \A i \in DOMAIN g.ops[q].args : Producer(h, g.ops[q].args[i]) = Producer(g, g.ops[q].args[i])
    BY <1>5, <2>1
  <2> QED BY <1>4, <2>2 DEF Predecessors
<1>7. ASSUME NEW q \in OpIds(g) PROVE Deepest(h, g.depth, q) = Deepest(g, g.depth, q)
  BY <1>6 DEF Deepest
<1>8. DepthsOK(h)
  BY <1>2, <1>3, <1>7 DEF DepthInv, DepthsOK, Depths, Wrong
<1> QED BY <1>8 DEF h

(* So does an addition: the new operation is deeper than its arguments,    *)
(* which are old.                                                          *)
LEMMA AddDepths ==
  ASSUME NEW g, DepthInv(g), NEW ins \in Instructions, NEW args \in Seq(Nat),
         MayAddOp(g, ins, args)
  PROVE  DepthsOK(AddOp(g, ins, args))
<1> DEFINE h == AddOp(g, ins, args)
           over == {g.depth[Producer(g, args[i])] : i \in DOMAIN args}
<1>1. GraphOK(g) /\ DepthsOK(g) /\ GraphOK(h)
  BY AddOpSound DEF DepthInv
<1>2. PICK m \in Nat, n \in Nat, len \in Nat : Extends(g, h, args, m, n, len)
  BY <1>1, AddOpSound
<1>3. h.depth = Append(g.depth, DepthOver(over))
  BY DEF AddOp
<1> HIDE DEF h
<1>4. OpIds(g) = 1 .. m /\ OpIds(h) = 1 .. m + 1 /\ ValIds(g) = 1 .. n
  BY <1>2 DEF Extends, Grown, OpIds, ValIds
<1>5. \A v \in 1 .. n : Producer(h, v) = Producer(g, v) /\ Producer(g, v) \in 1 .. m
  BY <1>1, <1>2, <1>4 DEF Extends, KeptVals, Producer, GraphOK, LinksOK
<1>6. \A i \in DOMAIN args : args[i] \in 1 .. n
  BY <1>2 DEF Extends, NewArgs
<1>7. ASSUME NEW o \in 1 .. m PROVE Predecessors(h, o) = Predecessors(g, o) /\ Predecessors(g, o) \subseteq 1 .. m
  <2>1. h.ops[o] = g.ops[o]
    BY <1>2 DEF Extends, KeptOps
  <2>2. \A i \in DOMAIN g.ops[o].args : g.ops[o].args[i] \in 1 .. n
    BY <1>1, <1>4 DEF GraphOK, LinksOK
  <2> QED BY <1>5, <2>1, <2>2 DEF Predecessors
<1>8. Predecessors(h, m + 1) = {Producer(g, args[i]) : i \in DOMAIN args}
      /\ Predecessors(h, m + 1) \subseteq 1 .. m
  <2>1. h.ops[m + 1].args = args
    BY <1>2 DEF Extends, NewOp
  <2> QED BY <1>5, <1>6, <2>1 DEF Predecessors
<1>9. g.depth \in [1 .. m -> Nat] /\ \A o \in 1 .. m : g.depth[o] = Deepest(g, g.depth, o)
  BY <1>1, <1>4 DEF DepthsOK, Depths, Wrong
<1> DEFINE e == [o \in 1 .. m + 1 |-> IF o \in 1 .. m THEN g.depth[o] ELSE 0]
<1>10. e \in Depths(h) /\ \A o \in 1 .. m : e[o] = g.depth[o]
  BY <1>4, <1>9 DEF Depths
<1>11. m + 1 \in OpIds(h)
  BY <1>4
<1>12. Deepest(h, e, m + 1) \in Nat
  BY <1>1, <1>10, <1>11, DeepestIs
<1>13. {e[p] : p \in Predecessors(h, m + 1)} = over
  <2> HIDE DEF e
  <2>1. {e[p] : p \in Predecessors(h, m + 1)} = {g.depth[p] : p \in Predecessors(h, m + 1)}
    BY <1>8, <1>10
  <2>2. {g.depth[p] : p \in Predecessors(h, m + 1)} = over
    BY <1>8 DEF over
  <2> QED BY <2>1, <2>2
<1>14. DepthOver(over) \in Nat
  BY <1>12, <1>13 DEF Deepest
<1> HIDE DEF e, over
<1>15. /\ h.depth \in [1 .. m + 1 -> Nat] /\ h.depth[m + 1] = DepthOver(over)
       /\ \A o \in 1 .. m : h.depth[o] = g.depth[o]
  <2>1. g.depth \in Seq(Nat) /\ Len(g.depth) = m
    BY <1>9, Enumerated
  <2>2. h.depth \in Seq(Nat) /\ Len(h.depth) = m + 1 /\ h.depth[m + 1] = DepthOver(over)
        /\ \A o \in 1 .. m : h.depth[o] = g.depth[o]
    BY <1>3, <1>14, <2>1
  <2>3. h.depth \in [1 .. m + 1 -> Nat]
    BY <2>2, Indexed
  <2> QED BY <2>2, <2>3
<1>16. ASSUME NEW o \in 1 .. m PROVE Deepest(h, h.depth, o) = Deepest(g, g.depth, o)
  <2>1. {h.depth[p] : p \in Predecessors(h, o)} = {g.depth[p] : p \in Predecessors(g, o)}
    BY <1>7, <1>15
  <2> QED BY <2>1 DEF Deepest
<1>17. Deepest(h, h.depth, m + 1) = DepthOver(over)
  <2>1. {h.depth[p] : p \in Predecessors(h, m + 1)} = {g.depth[p] : p \in Predecessors(h, m + 1)}
    BY <1>8, <1>15
  <2>2. {g.depth[p] : p \in Predecessors(h, m + 1)} = over
    BY <1>8 DEF over
  <2> QED BY <2>1, <2>2 DEF Deepest
<1>18. \A o \in 1 .. m + 1 : h.depth[o] = Deepest(h, h.depth, o)
  <2> TAKE o \in 1 .. m + 1
  <2>1. CASE o \in 1 .. m
    BY <1>9, <1>15, <1>16, <2>1
  <2>2. CASE o = m + 1
    BY <1>15, <1>17, <2>2
  <2> QED BY <2>1, <2>2
<1>19. DepthsOK(h)
  BY <1>4, <1>15, <1>18 DEF DepthsOK, Depths, Wrong
<1> QED BY <1>19 DEF h

-----------------------------------------------------------------------------
(* Walks by depth.                                                         *)

(* The elements of a finite set, each with the set of those below it: there *)
(* is one with each number below it.                                        *)
Ranks(S, below) ==
  /\ IsFiniteSet(S) /\ below \in [S -> SUBSET S]
  /\ \A x \in S : x \notin below[x]
  /\ \A x, z \in S : x # z => \/ x \in below[z] /\ below[x] \subseteq below[z]
                              \/ z \in below[x] /\ below[z] \subseteq below[x]

(* Of the elements of such a set, each has its own number of lower ones.   *)
LEMMA Ranking ==
  ASSUME NEW S, NEW below, Ranks(S, below)
  PROVE  /\ \A x \in S : Cardinality(below[x]) + 1 \in 1 .. Cardinality(S)
         /\ \A x, z \in S : Cardinality(below[x]) = Cardinality(below[z]) => x = z
         /\ \A n \in 1 .. Cardinality(S) : \E x \in S : Cardinality(below[x]) = n - 1
<1> DEFINE N == Cardinality(S)
<1> USE DEF Ranks
<1>0. N \in Nat
  BY FS_CardinalityType
<1>1. \A x \in S : IsFiniteSet(below[x]) /\ Cardinality(below[x]) \in Nat
  BY FS_Subset, FS_CardinalityType
<1>2. ASSUME NEW x \in S, NEW T \in SUBSET S, below[x] \cup {x} \subseteq T
      PROVE  Cardinality(below[x]) + 1 <= Cardinality(T)
  <2>1. Cardinality(below[x] \cup {x}) = Cardinality(below[x]) + 1
    BY <1>1, FS_AddElement
  <2>2. IsFiniteSet(T)
    BY FS_Subset
  <2> QED
    BY <1>2, <2>1, <2>2, FS_Subset
<1>3. \A x \in S : Cardinality(below[x]) + 1 \in 1 .. N
  <2> TAKE x \in S
  <2>1. Cardinality(below[x]) + 1 <= N
    BY <1>2
  <2> QED
    BY <1>0, <1>1, <2>1
<1>4. ASSUME NEW x \in S, NEW z \in S, x # z
      PROVE  Cardinality(below[x]) # Cardinality(below[z])
  <2>1. CASE x \in below[z] /\ below[x] \subseteq below[z]
    BY <1>1, <1>2, <2>1
  <2>2. CASE z \in below[x] /\ below[z] \subseteq below[x]
    BY <1>1, <1>2, <2>2
  <2> QED
    BY <1>4, <2>1, <2>2
<1> DEFINE f == [x \in S |-> Cardinality(below[x]) + 1]
<1>5. f \in Injection(S, 1 .. N)
  <2>1. f \in [S -> 1 .. N]
    BY <1>3
  <2>2. \A x, z \in S : f[x] = f[z] => x = z
    BY <1>1, <1>4
  <2> QED
    BY <2>1, <2>2 DEF Injection, IsInjective
<1>6. IsFiniteSet(1 .. N) /\ Cardinality(1 .. N) = N
  BY <1>0, FS_Interval
<1>7. f \in Surjection(S, 1 .. N)
  BY <1>5, <1>6, FS_Injection
<1>8. \A n \in 1 .. N : \E x \in S : f[x] = n
  BY <1>7 DEF Surjection
<1>9. \A n \in 1 .. N : \E x \in S : Cardinality(below[x]) = n - 1
  <2> TAKE n \in 1 .. N
  <2>1. PICK x \in S : Cardinality(below[x]) + 1 = n
    BY <1>8
  <2>2. Cardinality(below[x]) = n - 1
    BY <1>0, <1>1, <2>1
  <2> QED
    BY <2>2
<1> QED
  BY <1>3, <1>4, <1>9


(* Of a set of operations, those that a walk by depth visits before o.     *)
Earlier(g, S, o) ==
  {p \in S : g.depth[p] < g.depth[o] \/ (g.depth[p] = g.depth[o] /\ p < o)}
EarlierOps(g, S) == [o \in S |-> Earlier(g, S, o)]

(* They rank the operations.                                               *)
LEMMA EarlierRanks ==
  ASSUME NEW g, DepthInv(g), NEW S \in SUBSET OpIds(g)
  PROVE  Ranks(S, EarlierOps(g, S))
<1> DEFINE below == EarlierOps(g, S)
<1>1. OpIds(g) = 1 .. Len(g.ops) /\ Len(g.ops) \in Nat
  BY StoreFacts DEF DepthInv, GraphOK, OpIds
<1>3. IsFiniteSet(S)
  <2>1. IsFiniteSet(OpIds(g))
    BY <1>1, FS_Interval
  <2> QED BY <2>1, FS_Subset
<1>4. \A o \in S : o \in Nat /\ g.depth[o] \in Nat
  BY <1>1 DEF DepthInv, DepthsOK, Depths
<1>5. below \in [S -> SUBSET S]
      /\ \A o, p \in S : p \in below[o] <=> (g.depth[p] < g.depth[o] \/ (g.depth[p] = g.depth[o] /\ p < o))
  BY DEF EarlierOps, Earlier
<1> HIDE DEF below
<1>6. \A o \in S : o \notin below[o]
  BY <1>4, <1>5
<1>7. ASSUME NEW o \in S, NEW p \in S, p \in below[o]
      PROVE  below[p] \subseteq below[o]
  <2> SUFFICES ASSUME NEW q \in below[p] PROVE q \in below[o]
    OBVIOUS
  <2>1. q \in S
    BY <1>5
  <2> QED BY <1>4, <1>5, <1>7, <2>1
<1>8. \A o, p \in S : o # p => o \in below[p] \/ p \in below[o]
  BY <1>4, <1>5
<1> QED BY <1>3, <1>5, <1>6, <1>7, <1>8 DEF Ranks, below

(* A walk by depth visits each operation once, and none before a less deep *)
(* one.                                                                    *)
LEMMA ByDepthIs ==
  ASSUME NEW g, DepthInv(g), NEW S \in SUBSET OpIds(g)
  PROVE  /\ IsFiniteSet(S) /\ Cardinality(S) \in Nat
         /\ DOMAIN ByDepth(g, S) = 1 .. Cardinality(S)
         /\ \A n \in 1 .. Cardinality(S) : ByDepth(g, S)[n] \in S
         /\ \A o \in S : \E n \in 1 .. Cardinality(S) : ByDepth(g, S)[n] = o
         /\ \A m, n \in 1 .. Cardinality(S) :
              m < n => /\ ByDepth(g, S)[m] # ByDepth(g, S)[n]
                       /\ g.depth[ByDepth(g, S)[m]] <= g.depth[ByDepth(g, S)[n]]
<1> DEFINE N == Cardinality(S)
           below == EarlierOps(g, S)
           s == ByDepth(g, S)
<1>1. Ranks(S, below)
  BY EarlierRanks
<1>2. IsFiniteSet(S) /\ N \in Nat /\ \A o \in S : IsFiniteSet(below[o]) /\ Cardinality(below[o]) \in Nat
  BY <1>1, FS_CardinalityType, FS_Subset DEF Ranks
<1>3. \A o \in S : below[o] = Earlier(g, S, o)
  BY DEF EarlierOps
<1>4. s = [n \in 1 .. N |-> CHOOSE o \in S : Cardinality(Earlier(g, S, o)) = n - 1]
  BY DEF ByDepth, Earlier
<1>5. ASSUME NEW n \in 1 .. N PROVE s[n] \in S /\ Cardinality(below[s[n]]) = n - 1
  <2> HIDE DEF below
  <2>1. PICK q \in S : Cardinality(below[q]) = n - 1
    BY <1>1, Ranking
  <2> HIDE DEF N, s
  <2>2. s[n] = CHOOSE o \in S : Cardinality(Earlier(g, S, o)) = n - 1
    BY <1>4
  <2>3. Cardinality(Earlier(g, S, q)) = n - 1
    BY <1>3, <2>1
  <2>4. s[n] \in S /\ Cardinality(Earlier(g, S, s[n])) = n - 1
    BY <2>2, <2>3
  <2> QED BY <1>3, <2>4
<1>6. DOMAIN s = 1 .. N
  BY <1>4
<1>7. ASSUME NEW o \in S PROVE \E n \in 1 .. N : s[n] = o
  <2> HIDE DEF s, below
  <2> DEFINE n == Cardinality(below[o]) + 1
  <2>1. n \in 1 .. N
    BY <1>1, Ranking
  <2>2. Cardinality(below[s[n]]) = Cardinality(below[o]) /\ s[n] \in S
    BY <1>2, <1>5, <2>1
  <2>3. s[n] = o
    BY <1>1, <2>2, Ranking
  <2> QED BY <2>1, <2>3
<1>8. ASSUME NEW m \in 1 .. N, NEW n \in 1 .. N, m < n
      PROVE  s[m] # s[n] /\ g.depth[s[m]] <= g.depth[s[n]]
  <2>1. s[m] \in S /\ s[n] \in S /\ Cardinality(below[s[m]]) = m - 1 /\ Cardinality(below[s[n]]) = n - 1
    BY <1>5
  <2> HIDE DEF s, below, N
  <2>2. m \in Nat /\ n \in Nat
    BY <1>2
  <2>3. s[n] \notin below[s[m]]
    <3> SUFFICES ASSUME s[n] \in below[s[m]] PROVE FALSE
      OBVIOUS
    <3>1. s[n] # s[m]
      BY <1>1, <2>1 DEF Ranks
    <3>2. below[s[n]] \subseteq below[s[m]]
      <4>1. ~ (s[m] \in below[s[n]])
        <5> SUFFICES ASSUME s[m] \in below[s[n]] PROVE FALSE
          OBVIOUS
        <5>1. s[m] \in below[s[m]] \/ s[n] \in below[s[n]]
          BY <1>1, <2>1, <3>1 DEF Ranks
        <5> QED BY <1>1, <2>1, <5>1 DEF Ranks
      <4> QED BY <1>1, <2>1, <3>1, <4>1 DEF Ranks
    <3>3. Cardinality(below[s[n]]) <= Cardinality(below[s[m]])
      BY <1>2, <2>1, <3>2, FS_Subset
    <3> QED BY <1>8, <2>1, <2>2, <3>3
  <2>4. ~ (g.depth[s[n]] < g.depth[s[m]])
    BY <1>3, <2>1, <2>3 DEF Earlier
  <2>5. g.depth[s[n]] \in Nat /\ g.depth[s[m]] \in Nat
    BY <2>1 DEF DepthInv, DepthsOK, Depths
  <2> QED BY <1>8, <2>1, <2>2, <2>4, <2>5
<1> HIDE DEF s, N
<1>9. DOMAIN s = 1 .. N /\ IsFiniteSet(S) /\ N \in Nat
  BY <1>2, <1>6
<1>10. \A n \in 1 .. N : s[n] \in S
  BY <1>5
<1> QED BY <1>7, <1>8, <1>9, <1>10 DEF s, N

(* A walk by depth is a schedule: what an operation depends on comes       *)
(* earlier.                                                                *)
LEMMA WalkSorted ==
  ASSUME NEW g, DepthInv(g), NEW n \in 1 .. Cardinality(ActiveOps(g)),
         NEW p \in Predecessors(g, Topological(g)[n])
  PROVE  \E m \in 1 .. Cardinality(ActiveOps(g)) : m < n /\ Topological(g)[m] = p
<1> DEFINE A == ActiveOps(g)
           N == Cardinality(A)
           s == Topological(g)
<1>1. A \in SUBSET OpIds(g) /\ s = ByDepth(g, A)
  BY DEF ActiveOps, Topological
<1> HIDE DEF A, s
<1>2. /\ N \in Nat /\ \A k \in 1 .. N : s[k] \in A
      /\ \A o \in A : \E k \in 1 .. N : s[k] = o
      /\ \A k, l \in 1 .. N : k < l => g.depth[s[k]] <= g.depth[s[l]]
  BY <1>1, ByDepthIs
<1>3. s[n] \in A /\ p \in Predecessors(g, s[n])
  BY <1>2 DEF A, s
<1>4. p \in A /\ g.depth[p] < g.depth[s[n]]
  BY <1>1, <1>3, ActiveClosed, DepthsRank DEF DepthInv, Ranked, A
<1>5. PICK m \in 1 .. N : s[m] = p
  BY <1>2, <1>4
<1>6. g.depth[p] \in Nat /\ g.depth[s[n]] \in Nat
  BY <1>1, <1>3, <1>4 DEF DepthInv, DepthsOK, Depths
<1>7. n \in 1 .. N
  BY DEF A
<1>8. m < n
  <2> SUFFICES ASSUME ~ (m < n) PROVE FALSE
    OBVIOUS
  <2>1. m = n \/ n < m
    BY <1>2, <1>7
  <2>2. g.depth[s[n]] <= g.depth[s[m]]
    BY <1>2, <1>6, <1>7, <2>1
  <2> QED BY <1>4, <1>5, <1>6, <2>2
<1> QED BY <1>5, <1>8 DEF A, s

(* So it is one in the sense of the code's check.                          *)
LEMMA WalkIsSchedule ==
  ASSUME NEW g, DepthInv(g)
  PROVE  IsTopoSorted(g, Topological(g))
<1> DEFINE A == ActiveOps(g)
           N == Cardinality(A)
           s == Topological(g)
<1>1. DOMAIN s = 1 .. N /\ N \in Nat
  BY ByDepthIs DEF Topological, ActiveOps
<1>2. ASSUME NEW n \in 1 .. N, NEW p \in Predecessors(g, s[n])
      PROVE  \E m \in 1 .. n : s[m] = p
  <2>1. PICK m \in 1 .. N : m < n /\ s[m] = p
    BY WalkSorted
  <2>2. m \in 1 .. n
    BY <1>1, <2>1
  <2> QED BY <2>1, <2>2
<1> HIDE DEF s, N
<1>3. \A n \in DOMAIN s : Predecessors(g, s[n]) \subseteq {s[m] : m \in 1 .. n}
  BY <1>1, <1>2
<1> QED BY <1>3 DEF IsTopoSorted, s

LEMMA ExactDepths == DepthInv(ir) => DepthsExact
BY WalkIsSchedule DEF DepthInv, DepthsOK, Wrong, Deepest, DepthsExact

-----------------------------------------------------------------------------
(* The search that the depths cut short.                                   *)

(* The operations a search without depths finds in n steps.                *)
Ahead(g, S) == S \cup UNION {UsersOfOp(g, o) : o \in S}
Closure(g) ==
  CHOOSE c : c = [n \in Nat |-> [o \in ActiveOps(g) |->
                    IF n = 0 THEN {o} ELSE Ahead(g, c[n - 1][o])]]

(* The search of PruneSound.                                               *)
LEMMA PruneBy ==
  PruneSound <=> \A o, p \in ActiveOps(ir) :
                   Reaches(ir, o, p) <=> p \in Closure(ir)[Cardinality(ActiveOps(ir))][o]
BY DEF PruneSound, Closure, Ahead

(* It goes one step further with every number.                             *)
LEMMA ClosureIs ==
  ASSUME NEW g, GraphOK(g), NEW o \in ActiveOps(g)
  PROVE  /\ Closure(g)[0][o] = {o}
         /\ \A n \in Nat : Closure(g)[n + 1][o] = Ahead(g, Closure(g)[n][o])
<1> DEFINE A == ActiveOps(g)
           X == Nat \X A \X A
           From(n, q, x, L) == IF n = 0 THEN x = q
                               ELSE \E y \in A : <<n - 1, q, y>> \in L /\ (x = y \/ x \in UsersOfOp(g, y))
           F == [L \in SUBSET X |-> {t \in X : From(t[1], t[2], t[3], L)}]
           Is(c, n, q) == IF n = 0 THEN {q} ELSE Ahead(g, c[n - 1][q])
           G(c) == [n \in Nat |-> [q \in A |-> Is(c, n, q)]]
           C == CHOOSE c : c = G(c)
<1>1. PICK L \in SUBSET X : F[L] = L
  <2>1. F \in [SUBSET X -> SUBSET X]
    OBVIOUS
  <2>2. \A B, D \in SUBSET X : B \subseteq D => F[B] \subseteq F[D]
    <3> TAKE B, D \in SUBSET X
    <3> HAVE B \subseteq D
    <3>1. \A n, q, x : From(n, q, x, B) => From(n, q, x, D)
      OBVIOUS
    <3> HIDE DEF From, X
    <3> QED BY <3>1
  <2> HIDE DEF F
  <2> QED BY <2>1, <2>2, FixedPoint
<1>2. \A n \in Nat, q, x \in A : <<n, q, x>> \in L <=> From(n, q, x, L)
  <2>1. F[L] = {t \in X : From(t[1], t[2], t[3], L)}
    OBVIOUS
  <2>2. \A n \in Nat, q, x \in A : <<n, q, x>> \in X
    OBVIOUS
  <2> HIDE DEF F, From, X
  <2> QED BY <1>1, <2>1, <2>2
<1>3. \A q \in A : UsersOfOp(g, q) \subseteq A
  <2> TAKE q \in A
  <2>1. q \in OpIds(g)
    BY DEF ActiveOps
  <2> QED BY <2>1, UsersAre
<1> DEFINE At(n, q) == {x \in A : <<n, q, x>> \in L}
           c == [n \in Nat |-> [q \in A |-> At(n, q)]]
<1>4. \A n \in Nat, q \in A : c[n][q] = At(n, q)
  OBVIOUS
<1>5. ASSUME NEW n \in Nat, NEW q \in A PROVE At(n, q) = Is(c, n, q)
  <2> HIDE DEF c
  <2>1. CASE n = 0
    BY <1>2, <2>1
  <2>2. CASE n # 0
    <3>1. n - 1 \in Nat
      BY <2>2
    <3> DEFINE B == At(n - 1, q)
    <3>2. c[n - 1][q] = B /\ B \subseteq A
      BY <1>4, <3>1
    <3>3. ASSUME NEW x \in A PROVE x \in At(n, q) <=> x \in Ahead(g, B)
      <4>1. x \in At(n, q) <=> \E y \in A : <<n - 1, q, y>> \in L /\ (x = y \/ x \in UsersOfOp(g, y))
        <5>1. x \in At(n, q) <=> <<n, q, x>> \in L
          OBVIOUS
        <5>2. <<n, q, x>> \in L <=> From(n, q, x, L)
          <6> HIDE DEF From, X, A
          <6> QED BY <1>2
        <5>3. From(n, q, x, L) <=> \E y \in A : <<n - 1, q, y>> \in L /\ (x = y \/ x \in UsersOfOp(g, y))
          BY <2>2
        <5> HIDE DEF From, X, A, At
        <5> QED BY <5>1, <5>2, <5>3
      <4>2. \A y \in A : <<n - 1, q, y>> \in L <=> y \in B
        OBVIOUS
      <4> HIDE DEF B, At
      <4> QED BY <3>2, <4>1, <4>2 DEF Ahead
    <3>4. At(n, q) \subseteq A
      OBVIOUS
    <3> HIDE DEF B, At
    <3>5. Ahead(g, B) \subseteq A
      BY <1>3, <3>2 DEF Ahead
    <3>6. At(n, q) = Ahead(g, B)
      BY <3>3, <3>4, <3>5
    <3> QED BY <2>2, <3>2, <3>6
  <2> QED BY <2>1, <2>2
<1>6. c = G(c)
  <2> HIDE DEF At, Is
  <2>1. \A n \in Nat : [q \in A |-> At(n, q)] = [q \in A |-> Is(c, n, q)]
    <3> HIDE DEF c
    <3> QED BY <1>5
  <2>2. [n \in Nat |-> [q \in A |-> At(n, q)]] = [n \in Nat |-> [q \in A |-> Is(c, n, q)]]
    <3> HIDE DEF c
    <3> QED BY <2>1
  <2> QED BY <2>2
<1>7. C = G(C)
  <2> HIDE DEF c, G
  <2> QED BY <1>6
<1>8. Closure(g) = C
  BY DEF Closure
<1> HIDE DEF C, Is
<1>9. \A n \in Nat : C[n] = [q \in A |-> Is(C, n, q)]
  BY <1>7
<1>10. \A n \in Nat : C[n][o] = Is(C, n, o)
  BY <1>9
<1>11. C[0][o] = {o}
  BY <1>10 DEF Is
<1>12. ASSUME NEW n \in Nat PROVE C[n + 1][o] = Ahead(g, C[n][o])
  <2>1. n + 1 \in Nat /\ n + 1 # 0 /\ (n + 1) - 1 = n
    OBVIOUS
  <2>2. C[n + 1][o] = Is(C, n + 1, o)
    BY <1>10, <2>1
  <2> QED BY <2>1, <2>2 DEF Is
<1> QED BY <1>8, <1>11, <1>12

(* Whatever a search finds leads to what is found from there.              *)
LEMMA ClosureReaches ==
  ASSUME NEW g, DepthInv(g), NEW o \in ActiveOps(g), NEW p \in ActiveOps(g), NEW n \in Nat
  PROVE  /\ Closure(g)[n][o] \subseteq ActiveOps(g)
         /\ \A x \in Closure(g)[n][o] : Reaches(g, x, p) => Reaches(g, o, p)
<1> DEFINE C(k) == Closure(g)[k][o]
           Good(k) == /\ C(k) \subseteq ActiveOps(g)
                      /\ \A x \in C(k) : Reaches(g, x, p) => Reaches(g, o, p)
           Bad == {k \in Nat : ~Good(k)}
<1>1. GraphOK(g) /\ ActiveOps(g) \subseteq OpIds(g)
  BY DEF DepthInv, ActiveOps
<1>2. C(0) = {o} /\ \A k \in Nat : C(k + 1) = Ahead(g, C(k))
  BY <1>1, ClosureIs
<1>3. ASSUME NEW m \in Bad, \A k \in Bad : m <= k PROVE FALSE
  <2> HIDE DEF C
  <2>1. CASE m = 0
    BY <1>2, <2>1
  <2>2. CASE m # 0
    <3> DEFINE k == m - 1
    <3>1. k \in Nat /\ ~ (m <= k) /\ m = k + 1
      BY <2>2
    <3> HIDE DEF k
    <3>2. Good(k)
      BY <1>3, <3>1
    <3>3. C(m) = Ahead(g, C(k))
      BY <1>2, <3>1
    <3>4. ASSUME NEW x \in C(m)
          PROVE  x \in ActiveOps(g) /\ (Reaches(g, x, p) => Reaches(g, o, p))
      <4>1. CASE x \in C(k)
        BY <3>2, <4>1
      <4>2. ASSUME NEW y \in C(k), x \in UsersOfOp(g, y)
            PROVE  x \in ActiveOps(g) /\ (Reaches(g, x, p) => Reaches(g, o, p))
        <5>1. y \in ActiveOps(g) /\ y \in OpIds(g)
          BY <1>1, <3>2
        <5>2. x \in ActiveOps(g)
          BY <1>1, <4>2, <5>1, UsersAre
        <5>3. Reaches(g, x, p) => Reaches(g, y, p)
          BY <1>1, <4>2, <5>1, ReachesBack DEF DepthInv
        <5> QED BY <3>2, <5>2, <5>3
      <4> QED BY <3>3, <4>1, <4>2 DEF Ahead
    <3>5. Good(m)
      BY <3>4
    <3> QED BY <3>5
  <2> QED BY <2>1, <2>2
<1>4. Bad = {}
  <2>1. Bad \in SUBSET Nat
    OBVIOUS
  <2> HIDE DEF Bad
  <2> QED BY <1>3, <2>1, NatMin
<1> QED BY <1>4

(* A search of as many steps as there are operations has found everything. *)
LEMMA ClosureClosed ==
  ASSUME NEW g, DepthInv(g), NEW o \in ActiveOps(g)
  PROVE  LET C == Closure(g)[Cardinality(ActiveOps(g))][o]
         IN  o \in C /\ \A x \in C : UsersOfOp(g, x) \subseteq C
<1> DEFINE A == ActiveOps(g)
           N == Cardinality(A)
           C(k) == Closure(g)[k][o]
           Closed(S) == \A x \in S : UsersOfOp(g, x) \subseteq S
           Good(k) == o \in C(k) /\ (Closed(C(k)) \/ Cardinality(C(k)) >= k + 1)
           Bad == {k \in Nat : ~Good(k)}
<1>1. GraphOK(g) /\ IsFiniteSet(A) /\ N \in Nat
  BY ByDepthIs DEF DepthInv, ActiveOps
<1>2. C(0) = {o} /\ \A k \in Nat : C(k + 1) = Ahead(g, C(k))
  BY <1>1, ClosureIs
<1>3. \A k \in Nat : C(k) \subseteq A
  BY ClosureReaches
<1> HIDE DEF A, N, C
<1>4. \A k \in Nat : IsFiniteSet(C(k)) /\ Cardinality(C(k)) \in Nat /\ Cardinality(C(k)) <= N
  BY <1>1, <1>3, FS_Subset, FS_CardinalityType DEF N
<1>5. ASSUME NEW m \in Bad, \A k \in Bad : m <= k PROVE FALSE
  <2>1. CASE m = 0
    <3>1. Cardinality({o}) = 1
      BY FS_Singleton
    <3> QED BY <1>2, <2>1, <3>1
  <2>2. CASE m # 0
    <3> DEFINE k == m - 1
    <3>1. k \in Nat /\ ~ (m <= k) /\ m = k + 1
      BY <2>2
    <3> HIDE DEF k
    <3>2. Good(k)
      BY <1>5, <3>1
    <3>3. C(m) = Ahead(g, C(k)) /\ m \in Nat
      BY <1>2, <3>1
    <3>4. o \in C(m) /\ C(k) \subseteq C(m)
      BY <3>2, <3>3 DEF Ahead
    <3>5. CASE Closed(C(k))
      <4>1. C(m) = C(k)
        BY <3>3, <3>5 DEF Ahead
      <4> QED BY <3>4, <3>5, <4>1
    <3>6. CASE ~Closed(C(k))
      <4>1. PICK x \in C(k) : ~ (UsersOfOp(g, x) \subseteq C(k))
        BY <3>6
      <4>a. PICK y \in UsersOfOp(g, x) : y \notin C(k)
        BY <4>1
      <4>2. y \in C(m)
        BY <3>3, <4>a DEF Ahead
      <4>3. Cardinality(C(k) \cup {y}) = Cardinality(C(k)) + 1
        BY <1>4, <3>1, <4>a, FS_AddElement
      <4>4. Cardinality(C(k) \cup {y}) <= Cardinality(C(m))
        BY <1>4, <3>3, <3>4, <4>2, FS_Subset
      <4>5. Cardinality(C(m)) >= m + 1
        BY <1>4, <3>1, <3>2, <3>3, <3>6, <4>3, <4>4
      <4> QED BY <3>4, <4>5
    <3> QED BY <3>5, <3>6
  <2> QED BY <2>1, <2>2
<1>6. Bad = {}
  <2>1. Bad \in SUBSET Nat
    OBVIOUS
  <2> HIDE DEF Bad
  <2> QED BY <1>5, <2>1, NatMin
<1>7. Good(N)
  BY <1>1, <1>6
<1>8. o \in C(N) /\ Closed(C(N))
  BY <1>1, <1>4, <1>7
<1> QED BY <1>8 DEF A, N, C

(* What Reaches says, the search finds: its steps lead no further up than  *)
(* the depth of p.                                                         *)
LEMMA ReachesFound ==
  ASSUME NEW g, DepthInv(g), NEW p \in OpIds(g), NEW C \in SUBSET ActiveOps(g),
         \A x \in C : UsersOfOp(g, x) \subseteq C, NEW o \in C, Reaches(g, o, p)
  PROVE  p \in C
<1> SUFFICES ASSUME p \notin C PROVE FALSE
  OBVIOUS
<1> DEFINE Bad == {k \in Nat : \E x \in C : Reaches(g, x, p) /\ g.depth[p] <= g.depth[x] + k}
<1>1. GraphOK(g) /\ Ranked(g, g.depth) /\ ActiveOps(g) \subseteq OpIds(g)
  BY DepthsRank DEF DepthInv, ActiveOps
<1>2. \A x \in OpIds(g) : g.depth[x] \in Nat
  BY DEF DepthInv, DepthsOK, Depths
<1>3. ASSUME NEW m \in Bad, \A k \in Bad : m <= k PROVE FALSE
  <2>1. PICK x \in C : Reaches(g, x, p) /\ g.depth[p] <= g.depth[x] + m
    OBVIOUS
  <2>2. x \in OpIds(g) /\ x # p
    BY <1>1
  <2>3. g.depth[x] < g.depth[p] /\ \E u \in UsersOfOp(g, x) : u = p \/ Reaches(g, u, p)
    BY <1>1, <2>1, <2>2, ReachesIs
  <2>4. PICK u \in UsersOfOp(g, x) : u = p \/ Reaches(g, u, p)
    BY <2>3
  <2>5. u \in C /\ u \in OpIds(g) /\ Reaches(g, u, p)
    BY <1>1, <2>4
  <2>6. g.depth[x] < g.depth[u]
    <3>1. x \in Predecessors(g, u)
      BY <1>1, <2>2, UsersAre
    <3> QED BY <1>1, <2>5, <3>1 DEF Ranked
  <2>7. m \in Nat /\ g.depth[x] \in Nat /\ g.depth[u] \in Nat /\ g.depth[p] \in Nat
    BY <1>2, <2>2, <2>5
  <2>8. m - 1 \in Nat /\ ~ (m <= m - 1) /\ g.depth[p] <= g.depth[u] + (m - 1)
    BY <2>1, <2>3, <2>6, <2>7
  <2> QED BY <1>3, <2>5, <2>8
<1>4. Bad = {}
  <2>1. Bad \in SUBSET Nat
    OBVIOUS
  <2> HIDE DEF Bad
  <2> QED BY <1>3, <2>1, NatMin
<1>5. g.depth[p] \in Nat /\ g.depth[p] <= g.depth[o] + g.depth[p]
  BY <1>1, <1>2
<1> QED BY <1>4, <1>5

(* Cut short or not, the search finds the same.                            *)
LEMMA SamePrune == DepthInv(ir) => PruneSound
<1> SUFFICES ASSUME DepthInv(ir), NEW o \in ActiveOps(ir), NEW p \in ActiveOps(ir)
             PROVE  Reaches(ir, o, p) <=> p \in Closure(ir)[Cardinality(ActiveOps(ir))][o]
  BY PruneBy
<1> DEFINE N == Cardinality(ActiveOps(ir))
           C == Closure(ir)[N][o]
<1>1. N \in Nat /\ p \in OpIds(ir) /\ GraphOK(ir)
  BY ByDepthIs DEF DepthInv, ActiveOps
<1>2. C \in SUBSET ActiveOps(ir) /\ \A x \in C : Reaches(ir, x, p) => Reaches(ir, o, p)
  BY <1>1, ClosureReaches
<1>3. o \in C /\ \A x \in C : UsersOfOp(ir, x) \subseteq C
  BY ClosureClosed
<1> HIDE DEF C
<1>4. Reaches(ir, p, p)
  BY <1>1, ReachesIs
<1>5. Reaches(ir, o, p) => p \in C
  BY <1>1, <1>2, <1>3, ReachesFound
<1>6. p \in C => Reaches(ir, o, p)
  BY <1>2, <1>4
<1> QED BY <1>5, <1>6 DEF C

-----------------------------------------------------------------------------
(* What the edits of a pass leave: nothing but arguments, uses, depths and *)
(* activity ever changes of what is there.                                 *)

(* The results of an operation are those of its instruction.               *)
SignedOK(g) ==
  /\ \A o \in OpIds(g) : DOMAIN g.ops[o].rets = DOMAIN Signature[g.ops[o].ins].rets
  /\ \A v \in ValIds(g) : g.vals[v].type = Signature[g.ops[Producer(g, v)].ins].rets[g.vals[v].origin.pos]

PassInv(g) == DepthInv(g) /\ SignedOK(g)

SameShape(g, h) ==
  /\ OpIds(h) = OpIds(g) /\ ValIds(h) = ValIds(g)
  /\ \A o \in OpIds(g) : h.ops[o].ins = g.ops[o].ins /\ h.ops[o].rets = g.ops[o].rets
  /\ \A v \in ValIds(g) : h.vals[v].origin = g.vals[v].origin /\ h.vals[v].type = g.vals[v].type

(* h is g without the operations in gone.                                  *)
Fewer(g, h, gone) ==
  /\ SameShape(g, h) /\ h.depth = g.depth
  /\ \A o \in OpIds(g) : /\ h.ops[o].args = g.ops[o].args
                         /\ h.ops[o].active <=> (g.ops[o].active /\ o \notin gone)

(* h is g with each argument replaced by its image.                        *)
Swapped(g, h, image) ==
  /\ SameShape(g, h)
  /\ \A o \in OpIds(g) :
       /\ h.ops[o].active <=> g.ops[o].active
       /\ DOMAIN h.ops[o].args = DOMAIN g.ops[o].args
       /\ \A i \in DOMAIN g.ops[o].args : h.ops[o].args[i] = image[g.ops[o].args[i]]

LEMMA SignedKept ==
  ASSUME NEW g, NEW h, GraphOK(g), SignedOK(g), SameShape(g, h)
  PROVE  SignedOK(h)
<1>1. ASSUME NEW o \in OpIds(h) PROVE DOMAIN h.ops[o].rets = DOMAIN Signature[h.ops[o].ins].rets
  BY DEF SignedOK, SameShape
<1>2. ASSUME NEW v \in ValIds(h)
      PROVE  h.vals[v].type = Signature[h.ops[Producer(h, v)].ins].rets[h.vals[v].origin.pos]
  <2>1. v \in ValIds(g) /\ Producer(h, v) = Producer(g, v) /\ Producer(g, v) \in OpIds(g)
    BY DEF SameShape, Producer, GraphOK, LinksOK
  <2>2. h.ops[Producer(g, v)].ins = g.ops[Producer(g, v)].ins
    BY <2>1 DEF SameShape
  <2>3. h.vals[v].type = g.vals[v].type /\ h.vals[v].origin = g.vals[v].origin
    BY <2>1 DEF SameShape
  <2>4. g.vals[v].type = Signature[g.ops[Producer(g, v)].ins].rets[g.vals[v].origin.pos]
    BY <2>1 DEF SignedOK
  <2> QED BY <2>1, <2>2, <2>3, <2>4
<1> QED BY <1>1, <1>2 DEF SignedOK

(* A deletion makes one operation inactive.                                *)
LEMMA DeleteShape ==
  ASSUME NEW g, PassInv(g), NEW o, MayDelete(g, o)
  PROVE  PassInv(DeleteOp(g, o)) /\ Fewer(g, DeleteOp(g, o), {o})
<1> DEFINE h == DeleteOp(g, o)
           op(p) == IF p = o THEN [g.ops[p] EXCEPT !.active = FALSE] ELSE g.ops[p]
           gone(v) == \E k \in DOMAIN g.ops[o].rets : g.ops[o].rets[k] = v
           val(v) == IF gone(v) THEN [g.vals[v] EXCEPT !.active = FALSE] ELSE g.vals[v]
<1>1. /\ \A q \in OpIds(g) : g.ops[q] \in OpRecord
      /\ \A v \in ValIds(g) : g.vals[v] \in ValRecord
  BY StoreFacts DEF GraphOK, OpIds, ValIds, DepthInv, PassInv
<1>2. h.ops = [p \in OpIds(g) |-> op(p)] /\ h.vals = [v \in ValIds(g) |-> val(v)] /\ h.depth = g.depth
  BY DEF DeleteOp
<1>3. GraphOK(h) /\ DepthsOK(h)
  BY DeleteSound, DeleteDepths DEF PassInv, DepthInv
<1> HIDE DEF h, gone
<1>4. OpIds(h) = OpIds(g) /\ ValIds(h) = ValIds(g)
  BY <1>2 DEF OpIds, ValIds
<1>5. ASSUME NEW q \in OpIds(g)
      PROVE  /\ h.ops[q].ins = g.ops[q].ins /\ h.ops[q].args = g.ops[q].args /\ h.ops[q].rets = g.ops[q].rets
             /\ h.ops[q].active <=> (g.ops[q].active /\ q \notin {o})
  <2>1. h.ops[q] = op(q) /\ g.ops[q] \in OpRecord
    BY <1>1, <1>2
  <2>2. CASE q = o
    <3>1. h.ops[q] = [g.ops[q] EXCEPT !.active = FALSE]
      BY <2>1, <2>2
    <3> QED BY <2>1, <2>2, <3>1 DEF OpRecord
  <2>3. CASE q # o
    BY <2>1, <2>3
  <2> QED BY <2>2, <2>3
<1>6. ASSUME NEW v \in ValIds(g) PROVE h.vals[v].origin = g.vals[v].origin /\ h.vals[v].type = g.vals[v].type
  <2>1. h.vals[v] = val(v) /\ g.vals[v] \in ValRecord
    BY <1>1, <1>2
  <2>2. CASE gone(v)
    <3>1. h.vals[v] = [g.vals[v] EXCEPT !.active = FALSE]
      BY <2>1, <2>2
    <3> QED BY <2>1, <3>1 DEF ValRecord
  <2>3. CASE ~gone(v)
    BY <2>1, <2>3
  <2> QED BY <2>2, <2>3
<1>7. SameShape(g, h)
  BY <1>4, <1>5, <1>6 DEF SameShape
<1>8. Fewer(g, h, {o})
  BY <1>2, <1>5, <1>7 DEF Fewer
<1>9. SignedOK(h)
  BY <1>7, SignedKept DEF PassInv, DepthInv
<1> QED BY <1>3, <1>8, <1>9 DEF PassInv, DepthInv, h

(* A replacement renames one argument.                                     *)
LEMMA ReplaceShape ==
  ASSUME NEW g, PassInv(g), NEW old \in ActiveVals(g), NEW new \in ActiveVals(g),
         MayReplace(g, old, new), NEW image,
         \A v \in ValIds(g) : image[v] = IF v = old THEN new ELSE v
  PROVE  PassInv(ReplaceValUse(g, old, new)) /\ Swapped(g, ReplaceValUse(g, old, new), image)
<1> DEFINE h == ReplaceValUse(g, old, new)
<1>1. GraphOK(g)
  BY DEF PassInv, DepthInv
<1>2. GraphOK(h) /\ DepthsOK(h)
  BY <1>1, ReplaceSound, ReplaceDepths DEF PassInv
<1>3. \A o \in OpIds(g) : \A i \in DOMAIN g.ops[o].args : g.ops[o].args[i] \in ValIds(g)
  BY <1>1 DEF GraphOK, LinksOK
<1>4. Swapped(g, h, image)
  <2>1. CASE old = new
    <3>1. h = g
      BY <2>1 DEF ReplaceValUse
    <3>2. \A v \in ValIds(g) : image[v] = v
      BY <2>1
    <3> HIDE DEF h
    <3> QED BY <1>3, <3>1, <3>2 DEF Swapped, SameShape
  <2>2. CASE old # new
    <3> DEFINE r == Redirect(g, old, new)
               uses == g.vals[old].users
               arg(q, i) == IF g.ops[q].args[i] = old THEN new ELSE g.ops[q].args[i]
               rewritten(q) == [g.ops[q] EXCEPT !.args = [i \in DOMAIN g.ops[q].args |-> arg(q, i)]]
               used(q) == \E u \in uses : u.op = q
               val(v) == CASE v = old -> [g.vals[v] EXCEPT !.users = {}]
                           [] v = new -> [g.vals[v] EXCEPT !.users = @ \cup uses]
                           [] OTHER -> g.vals[v]
    <3>1. /\ \A q \in OpIds(g) : g.ops[q] \in OpRecord
          /\ \A v \in ValIds(g) : g.vals[v] \in ValRecord
      BY <1>1, StoreFacts DEF GraphOK, OpIds, ValIds
    <3>2. r.ops = [q \in OpIds(g) |-> IF used(q) THEN rewritten(q) ELSE g.ops[q]]
          /\ r.vals = [v \in ValIds(g) |-> val(v)]
      BY DEF Redirect
    <3>3. h.ops = r.ops /\ h.vals = r.vals
      <4>1. r = [ops |-> r.ops, depth |-> r.depth, vals |-> r.vals]
        BY DEF Redirect
      <4>2. h = UpdateDepths(r, {u.op : u \in uses})
        BY <2>2 DEF ReplaceValUse
      <4> HIDE DEF r, h
      <4> QED BY <4>1, <4>2, UpdateDepthsStores
    <3> HIDE DEF r, h, uses
    <3>4. OpIds(h) = OpIds(g) /\ ValIds(h) = ValIds(g)
      BY <3>2, <3>3 DEF OpIds, ValIds
    <3>5. ASSUME NEW q \in OpIds(g)
          PROVE  /\ h.ops[q].ins = g.ops[q].ins /\ h.ops[q].rets = g.ops[q].rets
                 /\ h.ops[q].active = g.ops[q].active
                 /\ DOMAIN h.ops[q].args = DOMAIN g.ops[q].args
                 /\ \A i \in DOMAIN g.ops[q].args : h.ops[q].args[i] = arg(q, i)
      <4>1. CASE used(q)
        <5>1. h.ops[q] = rewritten(q) /\ g.ops[q] \in OpRecord
          BY <3>1, <3>2, <3>3, <4>1
        <5> QED BY <5>1 DEF OpRecord
      <4>2. CASE ~used(q)
        <5>1. h.ops[q] = g.ops[q]
          BY <3>2, <3>3, <4>2
        <5>2. ASSUME NEW i \in DOMAIN g.ops[q].args PROVE g.ops[q].args[i] # old
          <6> SUFFICES ASSUME g.ops[q].args[i] = old PROVE used(q)
            BY <4>2
          <6> DEFINE u == [op |-> q, pos |-> i]
          <6>1. q \in Nat /\ i \in Nat
            <7>1. q \in Nat
              BY <1>1, StoreFacts DEF GraphOK, OpIds
            <7>2. g.ops[q].args \in Seq(Nat)
              BY <3>1 DEF OpRecord
            <7> QED BY <7>1, <7>2
          <6>2. u \in Position /\ u.op = q /\ u.pos = i
            BY <6>1 DEF Position
          <6> HIDE DEF u
          <6>3. u \in uses
            BY <1>1, <6>2 DEF GraphOK, UsesOK, uses, ActiveVals
          <6> QED BY <6>2, <6>3
        <5> QED BY <5>1, <5>2
      <4> QED BY <4>1, <4>2
    <3>6. ASSUME NEW v \in ValIds(g)
          PROVE  h.vals[v].origin = g.vals[v].origin /\ h.vals[v].type = g.vals[v].type
      <4>1. h.vals[v] = val(v) /\ g.vals[v] \in ValRecord
        BY <3>1, <3>2, <3>3
      <4>2. CASE v = old
        BY <4>1, <4>2 DEF ValRecord
      <4>3. CASE v # old /\ v = new
        BY <4>1, <4>3 DEF ValRecord
      <4>4. CASE v # old /\ v # new
        BY <4>1, <4>4
      <4> QED BY <4>2, <4>3, <4>4
    <3>7. SameShape(g, h)
      BY <3>4, <3>5, <3>6 DEF SameShape
    <3> QED BY <1>3, <3>5, <3>7 DEF Swapped
  <2> QED BY <2>1, <2>2
<1>5. SignedOK(h)
  BY <1>1, <1>4, SignedKept DEF Swapped, PassInv
<1> QED BY <1>2, <1>4, <1>5 DEF PassInv, DepthInv

(* An addition has the results its signature tells.                        *)
LEMMA AddSigned ==
  ASSUME NEW g, PassInv(g), NEW ins \in Instructions, NEW args \in Seq(Nat),
         MayAddOp(g, ins, args)
  PROVE  SignedOK(AddOp(g, ins, args))
<1> DEFINE m == Len(g.ops)
           n == Len(g.vals)
           types == Signature[ins].rets
           len == Len(types)
           h == AddOp(g, ins, args)
           new == [ins |-> ins, args |-> args, rets |-> [k \in DOMAIN types |-> n + k], active |-> TRUE]
           uses(v) == {[op |-> m + 1, pos |-> i] : i \in {j \in DOMAIN args : args[j] = v}}
           val(v) == IF v <= n THEN [g.vals[v] EXCEPT !.users = @ \cup uses(v)]
                     ELSE [users |-> {}, origin |-> [op |-> m + 1, pos |-> v - n],
                           type |-> types[v - n], active |-> TRUE]
<1>1. /\ m \in Nat /\ DOMAIN g.ops = 1 .. m /\ \A q \in 1 .. m : g.ops[q] \in OpRecord
      /\ n \in Nat /\ DOMAIN g.vals = 1 .. n /\ \A v \in 1 .. n : g.vals[v] \in ValRecord
      /\ g.ops \in Seq(OpRecord)
  BY StoreFacts DEF PassInv, DepthInv, GraphOK, StoresOK
<1>2. types \in Seq(Types) /\ len \in Nat /\ DOMAIN types = 1 .. len
  BY SignatureAssumption DEF Instructions
<1>3. h.ops = Append(g.ops, new) /\ h.vals = [v \in 1 .. n + len |-> val(v)]
  BY DEF AddOp
<1> HIDE DEF h, uses
<1>4. /\ Len(h.ops) = m + 1 /\ DOMAIN h.ops = 1 .. m + 1 /\ h.ops[m + 1] = new
      /\ \A q \in 1 .. m : h.ops[q] = g.ops[q]
  BY <1>1, <1>3
<1>5. ASSUME NEW o \in 1 .. m + 1 PROVE DOMAIN h.ops[o].rets = DOMAIN Signature[h.ops[o].ins].rets
  <2>1. CASE o \in 1 .. m
    BY <1>1, <1>4, <2>1 DEF PassInv, SignedOK, OpIds
  <2>2. CASE o = m + 1
    BY <1>2, <1>4, <2>2
  <2> QED BY <2>1, <2>2
<1>6. ASSUME NEW v \in 1 .. n + len
      PROVE  h.vals[v].type = Signature[h.ops[Producer(h, v)].ins].rets[h.vals[v].origin.pos]
  <2>1. CASE v <= n
    <3>1. v \in 1 .. n /\ g.vals[v] \in ValRecord
      BY <1>1, <1>2, <2>1
    <3>2. h.vals[v] = [g.vals[v] EXCEPT !.users = @ \cup uses(v)]
      BY <1>3, <2>1
    <3>3. h.vals[v].origin = g.vals[v].origin /\ h.vals[v].type = g.vals[v].type
      BY <3>1, <3>2 DEF ValRecord
    <3>4. Producer(g, v) \in 1 .. m
      BY <1>1, <3>1 DEF PassInv, DepthInv, GraphOK, LinksOK, OpIds, ValIds, Producer
    <3>5. h.ops[Producer(g, v)] = g.ops[Producer(g, v)]
      BY <1>4, <3>4
    <3>6. g.vals[v].type = Signature[g.ops[Producer(g, v)].ins].rets[g.vals[v].origin.pos]
      BY <1>1, <3>1 DEF PassInv, SignedOK, ValIds
    <3> QED BY <3>3, <3>5, <3>6 DEF Producer
  <2>2. CASE ~ (v <= n)
    <3>1. h.vals[v] = [users |-> {}, origin |-> [op |-> m + 1, pos |-> v - n],
                       type |-> types[v - n], active |-> TRUE]
      BY <1>3, <2>2
    <3> QED BY <1>4, <3>1 DEF Producer
  <2> QED BY <2>1, <2>2
<1>7. OpIds(h) = 1 .. m + 1 /\ ValIds(h) = 1 .. n + len
  BY <1>3, <1>4 DEF OpIds, ValIds
<1> HIDE DEF m, n, len
<1> QED BY <1>5, <1>6, <1>7 DEF SignedOK, h

-----------------------------------------------------------------------------
(* Deletions of a batch.                                                   *)

(* Fewer again, one operation fewer.                                       *)
LEMMA FewerStill ==
  ASSUME NEW g, NEW h, NEW f, NEW gone, NEW o, Fewer(g, h, gone), Fewer(h, f, {o})
  PROVE  Fewer(g, f, gone \cup {o})
BY DEF Fewer, SameShape

(* An operation keeps its predecessors when arguments stay.                *)
LEMMA FewerPredecessors ==
  ASSUME NEW g, NEW h, NEW gone, GraphOK(g), Fewer(g, h, gone), NEW o \in OpIds(g)
  PROVE  Predecessors(h, o) = Predecessors(g, o)
<1>1. h.ops[o].args = g.ops[o].args
  BY DEF Fewer
<1>2. \A i \in DOMAIN g.ops[o].args : g.ops[o].args[i] \in ValIds(g)
  BY DEF GraphOK, LinksOK
<1>3. \A i \in DOMAIN g.ops[o].args : Producer(h, g.ops[o].args[i]) = Producer(g, g.ops[o].args[i])
  BY <1>2 DEF Fewer, SameShape, Producer
<1> QED BY <1>1, <1>3 DEF Predecessors

(* The recursion of a batch of deletions is one.                           *)
LEMMA DeletionsAre ==
  ASSUME NEW g, NEW dead, Cardinality(dead) \in Nat
  PROVE  /\ Deletions(g, dead)[0] = [legal |-> TRUE, graph |-> g]
         /\ \A n \in 1 .. Cardinality(dead) :
              LET s == Deletions(g, dead)[n - 1]
                  o == DeletionOrder(g, dead)[n]
              IN  Deletions(g, dead)[n] = [legal |-> s.legal /\ MayDelete(s.graph, o), graph |-> DeleteOp(s.graph, o)]
<1> DEFINE N == Cardinality(dead)
           order == DeletionOrder(g, dead)
           Start == [legal |-> TRUE, graph |-> g]
           Step(s, n) == [legal |-> s.legal /\ MayDelete(s.graph, order[n]), graph |-> DeleteOp(s.graph, order[n])]
           Is(f, m) == f = [n \in 0 .. m |-> IF n = 0 THEN Start ELSE Step(f[n - 1], n)]
           Bad == {m \in Nat : ~ \E f : Is(f, m)}
           F == CHOOSE f : Is(f, N)
<1>1. Deletions(g, dead) = F
  BY DEF Deletions
<1>2. ASSUME NEW m \in Bad, \A k \in Bad : m <= k PROVE FALSE
  <2> HIDE DEF Start, Step
  <2>1. CASE m = 0
    <3> DEFINE f == [n \in 0 .. 0 |-> Start]
    <3>1. Is(f, 0)
      OBVIOUS
    <3> QED BY <2>1, <3>1
  <2>2. CASE m # 0
    <3>1. PICK k \in Nat : m = k + 1 /\ k \notin Bad
      <4>1. m - 1 \in Nat /\ ~ (m <= m - 1) /\ m = (m - 1) + 1
        BY <2>2
      <4> QED BY <1>2, <4>1
    <3>2. PICK f : Is(f, k)
      BY <3>1
    <3> DEFINE h == [n \in 0 .. m |-> IF n = m THEN Step(f[k], m) ELSE f[n]]
    <3>3. ASSUME NEW n \in 0 .. m PROVE h[n] = IF n = 0 THEN Start ELSE Step(h[n - 1], n)
      <4>1. CASE n = m
        <5>1. h[m - 1] = f[k] /\ h[m] = Step(f[k], m)
          BY <3>1
        <5> HIDE DEF h
        <5> QED BY <2>2, <3>1, <4>1, <5>1
      <4>2. CASE n # m
        <5>1. n \in 0 .. k /\ h[n] = f[n] /\ (n # 0 => h[n - 1] = f[n - 1])
          BY <3>1, <4>2
        <5>2. f[n] = IF n = 0 THEN Start ELSE Step(f[n - 1], n)
          BY <3>2, <5>1
        <5> HIDE DEF h
        <5> QED BY <5>1, <5>2
      <4> QED BY <4>1, <4>2
    <3>4. h = [n \in 0 .. m |-> h[n]]
      OBVIOUS
    <3> HIDE DEF h
    <3>5. Is(h, m)
      BY <3>3, <3>4
    <3> QED BY <3>5
  <2> QED BY <2>1, <2>2
<1>3. Bad = {}
  <2>1. Bad \in SUBSET Nat
    OBVIOUS
  <2> HIDE DEF Bad
  <2> QED BY <1>2, <2>1, NatMin
<1>4. Is(F, N)
  <2>1. \E f : Is(f, N)
    BY <1>3
  <2> HIDE DEF Is
  <2> QED BY <2>1
<1> HIDE DEF F
<1>5. F[0] = Start /\ \A n \in 1 .. N : F[n] = Step(F[n - 1], n)
  <2> HIDE DEF Start, Step
  <2>1. \A n \in 0 .. N : F[n] = IF n = 0 THEN Start ELSE Step(F[n - 1], n)
    BY <1>4
  <2> QED BY <2>1
<1> QED BY <1>1, <1>5

(* A set of operations all of whose users are in it goes without an        *)
(* assertion that fails, whatever its order within a depth.                *)
LEMMA BatchDeleted ==
  ASSUME NEW g, PassInv(g), NEW dead \in SUBSET ActiveOps(g),
         \A o \in dead : UsersOfOp(g, o) \subseteq dead
  PROVE  /\ MayBatchDelete(g, dead)
         /\ PassInv(BatchDelete(g, dead)) /\ Fewer(g, BatchDelete(g, dead), dead)
<1> DEFINE N == Cardinality(dead)
           order == DeletionOrder(g, dead)
           D == Deletions(g, dead)
           Gone(n) == {order[m] : m \in 1 .. n}
           Good(n) == D[n].legal /\ PassInv(D[n].graph) /\ Fewer(g, D[n].graph, Gone(n))
           Bad == {n \in Nat : n <= N /\ ~Good(n)}
<1>0. GraphOK(g) /\ DepthInv(g) /\ ActiveOps(g) \subseteq OpIds(g) /\ dead \in SUBSET OpIds(g)
  BY DEF PassInv, DepthInv, ActiveOps
<1>1. /\ N \in Nat /\ \A n \in 1 .. N : order[n] \in dead
      /\ \A o \in dead : \E n \in 1 .. N : order[n] = o
      /\ \A m, n \in 1 .. N : m < n => order[m] # order[n] /\ g.depth[order[n]] <= g.depth[order[m]]
  <2> DEFINE s == ByDepth(g, dead)
  <2>1. /\ N \in Nat /\ \A n \in 1 .. N : s[n] \in dead
        /\ \A o \in dead : \E n \in 1 .. N : s[n] = o
        /\ \A m, n \in 1 .. N : m < n => s[m] # s[n] /\ g.depth[s[m]] <= g.depth[s[n]]
    BY <1>0, ByDepthIs
  <2>2. \A n \in 1 .. N : order[n] = s[N - n + 1]
    BY DEF DeletionOrder
  <2> HIDE DEF s, N, order
  <2>3. \A n \in 1 .. N : N - n + 1 \in 1 .. N /\ N - (N - n + 1) + 1 = n
    BY <2>1
  <2>4. \A m, n \in 1 .. N : m < n => N - n + 1 < N - m + 1
    BY <2>1
  <2>5. \A n \in 1 .. N : order[n] \in dead
    BY <2>1, <2>2, <2>3
  <2>6. ASSUME NEW o \in dead PROVE \E n \in 1 .. N : order[n] = o
    <3>1. PICK k \in 1 .. N : s[k] = o
      BY <2>1
    <3>2. order[N - k + 1] = s[N - (N - k + 1) + 1]
      BY <2>2, <2>3
    <3> QED BY <2>3, <3>1, <3>2
  <2>7. ASSUME NEW m \in 1 .. N, NEW n \in 1 .. N, m < n
        PROVE  order[m] # order[n] /\ g.depth[order[n]] <= g.depth[order[m]]
    BY <2>1, <2>2, <2>3, <2>4, <2>7
  <2> QED BY <2>1, <2>5, <2>6, <2>7
<1>2. /\ D[0] = [legal |-> TRUE, graph |-> g]
      /\ \A n \in 1 .. N : D[n] = [legal |-> D[n - 1].legal /\ MayDelete(D[n - 1].graph, order[n]),
                                   graph |-> DeleteOp(D[n - 1].graph, order[n])]
  BY <1>1, DeletionsAre
<1> HIDE DEF D, order, N
<1>3. ASSUME NEW n \in Bad, \A k \in Bad : n <= k PROVE FALSE
  <2>1. CASE n = 0
    <3>1. Gone(0) = {}
      OBVIOUS
    <3>2. SameShape(g, g)
      BY DEF SameShape
    <3>3. Fewer(g, g, {})
      BY <3>2 DEF Fewer
    <3> QED BY <1>2, <2>1, <3>1, <3>3
  <2>2. CASE n # 0
    <3> DEFINE k == n - 1
               o == order[n]
               h == D[k].graph
    <3>1. k \in Nat /\ ~ (n <= k) /\ k <= N /\ n = k + 1 /\ n \in 1 .. N
      BY <1>1, <2>2
    <3>2. Good(k)
      BY <1>3, <3>1
    <3>3. o \in dead /\ o \in OpIds(g) /\ o \in ActiveOps(g)
      BY <1>0, <1>1, <3>1
    <3>4. D[n].legal = (D[k].legal /\ MayDelete(h, o)) /\ D[n].graph = DeleteOp(h, o)
      <4>1. D[n] = [legal |-> D[k].legal /\ MayDelete(h, o), graph |-> DeleteOp(h, o)]
        BY <1>2, <3>1
      <4> HIDE DEF h, o
      <4> QED BY <4>1
    <3>5. Gone(n) = Gone(k) \cup {o}
      BY <3>1
    <3>6. o \notin Gone(k)
      BY <1>1, <3>1
    <3>7. GraphOK(h) /\ PassInv(h) /\ Fewer(g, h, Gone(k))
      BY <3>2 DEF PassInv, DepthInv
    <3>8. o \in ActiveOps(h) /\ o \in OpIds(h)
      BY <3>3, <3>6, <3>7 DEF ActiveOps, Fewer, SameShape
    <3>9. ASSUME NEW u \in UsersOfOp(h, o) PROVE FALSE
      <4>1. u \in ActiveOps(h) /\ o \in Predecessors(h, u)
        BY <3>7, <3>8, <3>9, UsersAre
      <4>2. u \in ActiveOps(g) /\ u \in OpIds(g) /\ u \notin Gone(k)
        BY <3>7, <4>1 DEF ActiveOps, Fewer, SameShape
      <4>3. o \in Predecessors(g, u)
        BY <1>0, <3>7, <4>1, <4>2, FewerPredecessors
      <4>4. u \in UsersOfOp(g, o)
        BY <1>0, <3>3, <4>2, <4>3, UsersAre
      <4>5. u \in dead
        BY <3>3, <4>4
      <4>6. g.depth[o] < g.depth[u] /\ g.depth[o] \in Nat /\ g.depth[u] \in Nat
        BY <1>0, <3>3, <4>2, <4>3, DepthsRank DEF DepthInv, Ranked, DepthsOK, Depths
      <4>7. PICK l \in 1 .. N : order[l] = u
        BY <1>1, <4>5
      <4>8. ~ (l < n)
        BY <1>1, <3>1, <4>2, <4>7
      <4>9. l = n \/ n < l
        BY <1>1, <3>1, <4>8
      <4>10. g.depth[u] <= g.depth[o]
        BY <1>1, <3>1, <4>6, <4>7, <4>9
      <4> QED BY <4>6, <4>10
    <3>10. MayDelete(h, o)
      BY <3>8, <3>9 DEF MayDelete, HasUsers
    <3> HIDE DEF o, h, k, Gone
    <3>11. PassInv(DeleteOp(h, o)) /\ Fewer(h, DeleteOp(h, o), {o})
      BY <3>7, <3>10, DeleteShape
    <3>12. Fewer(g, DeleteOp(h, o), Gone(n))
      BY <3>5, <3>7, <3>11, FewerStill
    <3>13. Good(n)
      BY <3>2, <3>4, <3>10, <3>11, <3>12
    <3> QED BY <3>13
  <2> QED BY <2>1, <2>2
<1>4. Bad = {}
  <2>1. Bad \in SUBSET Nat
    OBVIOUS
  <2> HIDE DEF Bad
  <2> QED BY <1>3, <2>1, NatMin
<1>5. Good(N)
  <2>1. N \in Nat /\ N <= N
    BY <1>1
  <2>2. N \notin Bad
    BY <1>4
  <2> HIDE DEF Good
  <2> QED BY <2>1, <2>2
<1>6. Gone(N) = dead
  BY <1>1
<1> QED BY <1>5, <1>6 DEF BatchDelete, MayBatchDelete, D, N

-----------------------------------------------------------------------------
(* Dead code.                                                              *)

(* The live operations found in n steps.                                   *)
Behind(g, S) == S \cup UNION {Predecessors(g, o) : o \in S}
Within(g) ==
  CHOOSE f : f = [n \in 0 .. Len(g.ops) |-> IF n = 0 THEN Effects(g) \cap ActiveOps(g) ELSE Behind(g, f[n - 1])]

LEMMA WithinIs ==
  ASSUME NEW g, Len(g.ops) \in Nat
  PROVE  /\ Live(g) = Within(g)[Len(g.ops)]
         /\ Within(g)[0] = Effects(g) \cap ActiveOps(g)
         /\ \A n \in 1 .. Len(g.ops) : Within(g)[n] = Behind(g, Within(g)[n - 1])
<1> DEFINE N == Len(g.ops)
           Start == Effects(g) \cap ActiveOps(g)
           Is(f, m) == f = [n \in 0 .. m |-> IF n = 0 THEN Start ELSE Behind(g, f[n - 1])]
           Bad == {m \in Nat : ~ \E f : Is(f, m)}
           F == CHOOSE f : Is(f, N)
<1>1. Within(g) = F /\ Live(g) = Within(g)[N]
  BY DEF Within, Live, Behind
<1>2. ASSUME NEW m \in Bad, \A k \in Bad : m <= k PROVE FALSE
  <2> HIDE DEF Start
  <2>1. CASE m = 0
    <3> DEFINE f == [n \in 0 .. 0 |-> Start]
    <3>1. Is(f, 0)
      OBVIOUS
    <3> QED BY <2>1, <3>1
  <2>2. CASE m # 0
    <3>1. PICK k \in Nat : m = k + 1 /\ k \notin Bad
      <4>1. m - 1 \in Nat /\ ~ (m <= m - 1) /\ m = (m - 1) + 1
        BY <2>2
      <4> QED BY <1>2, <4>1
    <3>2. PICK f : Is(f, k)
      BY <3>1
    <3> DEFINE h == [n \in 0 .. m |-> IF n = m THEN Behind(g, f[k]) ELSE f[n]]
    <3>3. ASSUME NEW n \in 0 .. m PROVE h[n] = IF n = 0 THEN Start ELSE Behind(g, h[n - 1])
      <4>1. CASE n = m
        <5>1. h[m - 1] = f[k] /\ h[m] = Behind(g, f[k])
          BY <3>1
        <5> HIDE DEF h
        <5> QED BY <2>2, <3>1, <4>1, <5>1
      <4>2. CASE n # m
        <5>1. n \in 0 .. k /\ h[n] = f[n] /\ (n # 0 => h[n - 1] = f[n - 1])
          BY <3>1, <4>2
        <5>2. f[n] = IF n = 0 THEN Start ELSE Behind(g, f[n - 1])
          BY <3>2, <5>1
        <5> HIDE DEF h
        <5> QED BY <5>1, <5>2
      <4> QED BY <4>1, <4>2
    <3>4. h = [n \in 0 .. m |-> h[n]]
      OBVIOUS
    <3> HIDE DEF h
    <3>5. Is(h, m)
      BY <3>3, <3>4
    <3> QED BY <3>5
  <2> QED BY <2>1, <2>2
<1>3. Bad = {}
  <2>1. Bad \in SUBSET Nat
    OBVIOUS
  <2> HIDE DEF Bad
  <2> QED BY <1>2, <2>1, NatMin
<1>4. Is(F, N)
  <2>1. \E f : Is(f, N)
    BY <1>3
  <2> HIDE DEF Is
  <2> QED BY <2>1
<1> HIDE DEF F
<1>5. F[0] = Start /\ \A n \in 1 .. N : F[n] = Behind(g, F[n - 1])
  <2> HIDE DEF Start
  <2>1. \A n \in 0 .. N : F[n] = IF n = 0 THEN Start ELSE Behind(g, F[n - 1])
    BY <1>4
  <2> QED BY <2>1
<1> QED BY <1>1, <1>5

(* What is live: the effects and what they need, no more and no less.      *)
LEMMA LiveIs ==
  ASSUME NEW g, GraphOK(g)
  PROVE  /\ Live(g) \subseteq ActiveOps(g)
         /\ Effects(g) \cap ActiveOps(g) \subseteq Live(g)
         /\ \A o \in Live(g) : Predecessors(g, o) \subseteq Live(g)
         /\ \A o \in Live(g) : IsEffect(g, o) \/ \E u \in Live(g) : o \in Predecessors(g, u)
<1> DEFINE N == Len(g.ops)
           W(k) == Within(g)[k]
           Closed(S) == \A x \in S : Predecessors(g, x) \subseteq S
           Needed(S) == \A x \in S : IsEffect(g, x) \/ \E u \in S : x \in Predecessors(g, u)
           Good(k) == /\ W(k) \subseteq ActiveOps(g) /\ Effects(g) \cap ActiveOps(g) \subseteq W(k)
                      /\ Needed(W(k))
                      /\ Closed(W(k)) \/ Cardinality(W(k)) >= k + 1
           Bad == {k \in Nat : k <= N /\ ~Good(k)}
<1>1. N \in Nat /\ OpIds(g) = 1 .. N /\ ActiveOps(g) \subseteq OpIds(g)
  BY StoreFacts DEF GraphOK, OpIds, ActiveOps
<1>2. /\ W(0) = Effects(g) \cap ActiveOps(g) /\ \A k \in 1 .. N : W(k) = Behind(g, W(k - 1))
      /\ Live(g) = W(N)
  BY <1>1, WithinIs
<1>3. IsFiniteSet(OpIds(g)) /\ Cardinality(OpIds(g)) = N
  BY <1>1, FS_Interval
<1>4. ASSUME NEW S \in SUBSET ActiveOps(g)
      PROVE  IsFiniteSet(S) /\ Cardinality(S) \in Nat /\ Cardinality(S) <= N
  <2>1. S \in SUBSET OpIds(g)
    BY <1>1
  <2> HIDE DEF N
  <2> QED BY <1>3, <2>1, FS_Subset, FS_CardinalityType
<1> HIDE DEF N, W
<1>5. ASSUME NEW m \in Bad, \A k \in Bad : m <= k PROVE FALSE
  <2>1. CASE m = 0
    <3>1. W(0) \in SUBSET ActiveOps(g) /\ \A x \in W(0) : IsEffect(g, x)
      BY <1>2 DEF Effects
    <3>2. ASSUME NEW x \in W(0) PROVE Cardinality(W(0)) >= 1
      <4>1. Cardinality(W(0)) # 0
        BY <1>4, <3>1, FS_EmptySet
      <4> QED BY <1>4, <3>1, <4>1
    <3>3. Closed(W(0)) \/ Cardinality(W(0)) >= 0 + 1
      BY <3>2
    <3>4. Good(0)
      BY <1>2, <3>1, <3>3
    <3> QED BY <2>1, <3>4
  <2>2. CASE m # 0
    <3> DEFINE k == m - 1
    <3>1. k \in Nat /\ ~ (m <= k) /\ m = k + 1 /\ k <= N /\ m \in 1 .. N
      BY <1>1, <2>2
    <3> HIDE DEF k
    <3>2. Good(k)
      BY <1>5, <3>1
    <3>3. W(m) = Behind(g, W(k))
      <4>1. m - 1 = k
        BY <3>1
      <4> QED BY <1>2, <3>1, <4>1
    <3>4. W(k) \subseteq W(m) /\ \A x \in W(m) : x \in W(k) \/ \E u \in W(k) : x \in Predecessors(g, u)
      BY <3>3 DEF Behind
    <3>5. W(m) \in SUBSET ActiveOps(g) /\ W(k) \in SUBSET ActiveOps(g)
      BY <3>2, <3>4, ActiveClosed
    <3>6. Needed(W(m)) /\ Effects(g) \cap ActiveOps(g) \subseteq W(m)
      BY <3>2, <3>4
    <3>7. CASE Closed(W(k))
      <4>1. W(m) = W(k)
        BY <3>4, <3>7
      <4> QED BY <3>5, <3>6, <3>7, <4>1
    <3>8. CASE ~Closed(W(k))
      <4>1. PICK x \in W(k) : ~ (Predecessors(g, x) \subseteq W(k))
        BY <3>8
      <4>2. PICK y \in Predecessors(g, x) : y \notin W(k)
        BY <4>1
      <4>3. y \in W(m)
        BY <3>3, <4>2 DEF Behind
      <4>4. Cardinality(W(k) \cup {y}) = Cardinality(W(k)) + 1
        BY <1>4, <3>5, <4>2, FS_AddElement
      <4>5. Cardinality(W(k) \cup {y}) <= Cardinality(W(m))
        BY <1>4, <3>4, <3>5, <4>3, FS_Subset
      <4>6. Cardinality(W(m)) >= m + 1
        <5>1. Cardinality(W(k)) >= k + 1
          BY <3>2, <3>8
        <5>2. Cardinality(W(k)) \in Nat /\ Cardinality(W(m)) \in Nat
          BY <1>4, <3>5
        <5> QED BY <3>1, <4>4, <4>5, <5>1, <5>2
      <4>7. Good(m)
        BY <3>5, <3>6, <4>6
      <4> QED BY <4>7
    <3> QED BY <3>7, <3>8
  <2> QED BY <2>1, <2>2
<1>6. Bad = {}
  <2>1. Bad \in SUBSET Nat
    OBVIOUS
  <2> HIDE DEF Bad
  <2> QED BY <1>5, <2>1, NatMin
<1>7. Good(N)
  <2>1. N \in Nat /\ N <= N /\ N \notin Bad
    BY <1>1, <1>6
  <2> HIDE DEF Good
  <2> QED BY <2>1
<1>8. Cardinality(W(N)) \in Nat /\ Cardinality(W(N)) <= N
  BY <1>4, <1>7
<1>9. Closed(W(N))
  BY <1>1, <1>7, <1>8
<1> QED BY <1>2, <1>7, <1>9

(* What the elimination of dead code leaves.                               *)
LEMMA DceSound ==
  ASSUME NEW g, PassInv(g)
  PROVE  /\ MayBatchDelete(g, Dead(g)) /\ PassInv(WithoutDeadCode(g))
         /\ Fewer(g, WithoutDeadCode(g), Dead(g))
         /\ ActiveOps(WithoutDeadCode(g)) = Live(g)
<1>1. GraphOK(g) /\ ActiveOps(g) \subseteq OpIds(g)
  BY DEF PassInv, DepthInv, ActiveOps
<1>2. Dead(g) \in SUBSET ActiveOps(g)
  BY DEF Dead
<1>3. ASSUME NEW o \in Dead(g) PROVE UsersOfOp(g, o) \subseteq Dead(g)
  <2> SUFFICES ASSUME NEW u \in UsersOfOp(g, o) PROVE u \in Dead(g)
    OBVIOUS
  <2>1. u \in ActiveOps(g) /\ o \in Predecessors(g, u)
    BY <1>1, <1>2, UsersAre
  <2>2. u \notin Live(g)
    BY <1>1, <2>1, LiveIs DEF Dead
  <2> QED BY <2>1, <2>2 DEF Dead
<1>4. MayBatchDelete(g, Dead(g)) /\ PassInv(WithoutDeadCode(g)) /\ Fewer(g, WithoutDeadCode(g), Dead(g))
  BY <1>2, <1>3, BatchDeleted DEF WithoutDeadCode
<1>5. ActiveOps(WithoutDeadCode(g)) = ActiveOps(g) \ Dead(g)
  BY <1>4 DEF Fewer, SameShape, ActiveOps
<1>6. ActiveOps(g) \ Dead(g) = Live(g)
  BY <1>1, LiveIs DEF Dead
<1> QED BY <1>4, <1>5, <1>6

-----------------------------------------------------------------------------
(* Terms.                                                                  *)

(* The term of a value, over the terms of the arguments.                   *)
TermBy(g, t, v) ==
  LET op == g.ops[Producer(g, v)]
  IN  [ins |-> op.ins, pos |-> g.vals[v].origin.pos,
       args |-> Normal(op.ins, [i \in DOMAIN op.args |-> t[op.args[i]]])]

(* Depth orders the values too.                                            *)
ValDepth(g, v) == g.depth[Producer(g, v)]

LEMMA ValuesUp ==
  ASSUME NEW g, DepthInv(g), NEW o \in ActiveOps(g), NEW i \in DOMAIN g.ops[o].args
  PROVE  /\ g.ops[o].args[i] \in ActiveVals(g)
         /\ ValDepth(g, g.ops[o].args[i]) \in Nat /\ g.depth[o] \in Nat
         /\ ValDepth(g, g.ops[o].args[i]) < g.depth[o]
<1>1. o \in OpIds(g) /\ Producer(g, g.ops[o].args[i]) \in Predecessors(g, o)
  BY DEF ActiveOps, Predecessors
<1>2. Producer(g, g.ops[o].args[i]) \in OpIds(g)
  BY <1>1, PredecessorsAre DEF DepthInv
<1> QED BY <1>1, <1>2, DepthsRank DEF DepthInv, GraphOK, LiveOK, DepthsOK, Depths, Ranked, ValDepth

LEMMA ValuesBy ==
  ASSUME NEW g, DepthInv(g), NEW v \in ActiveVals(g)
  PROVE  /\ v \in ValIds(g) /\ Producer(g, v) \in ActiveOps(g) /\ Producer(g, v) \in OpIds(g)
         /\ ValDepth(g, v) \in Nat
         /\ g.vals[v].origin.pos \in DOMAIN g.ops[Producer(g, v)].rets
         /\ g.ops[Producer(g, v)].rets[g.vals[v].origin.pos] = v
BY DEF ActiveVals, ActiveOps, DepthInv, GraphOK, LinksOK, LiveOK, DepthsOK, Depths, Producer, ValDepth

(* It needs the terms of the arguments only.                               *)
LEMMA TermLocal ==
  ASSUME NEW g, NEW t, NEW u, NEW v,
         \A i \in DOMAIN g.ops[Producer(g, v)].args :
           t[g.ops[Producer(g, v)].args[i]] = u[g.ops[Producer(g, v)].args[i]]
  PROVE  TermBy(g, t, v) = TermBy(g, u, v)
<1> DEFINE args == g.ops[Producer(g, v)].args
<1>1. [i \in DOMAIN args |-> t[args[i]]] = [i \in DOMAIN args |-> u[args[i]]]
  OBVIOUS
<1> QED BY <1>1 DEF TermBy

(* Every value has its term.                                               *)
LEMMA TermsAre ==
  ASSUME NEW g, DepthInv(g), NEW v \in ActiveVals(g)
  PROVE  Terms(g)[v] = TermBy(g, Terms(g), v)
<1> DEFINE A == ActiveVals(g)
           Lower(m) == {x \in A : ValDepth(g, x) < m}
           Is(f, S) == f = [x \in S |-> TermBy(g, f, x)]
           Bad == {m \in Nat : ~ \E f : Is(f, Lower(m))}
           F == CHOOSE f : Is(f, A)
<1>1. Terms(g) = F
  BY DEF Terms, TermBy
<1>2. \A x \in A : ValDepth(g, x) \in Nat
  BY ValuesBy
<1>3. ASSUME NEW x \in A, NEW i \in DOMAIN g.ops[Producer(g, x)].args
      PROVE  g.ops[Producer(g, x)].args[i] \in A
             /\ ValDepth(g, g.ops[Producer(g, x)].args[i]) < ValDepth(g, x)
  BY ValuesBy, ValuesUp DEF ValDepth
<1> HIDE DEF A
<1>4. ASSUME NEW m \in Bad, \A k \in Bad : m <= k PROVE FALSE
  <2>1. CASE m = 0
    <3>1. Lower(0) = {}
      BY <1>2
    <3> DEFINE f == [x \in {} |-> TermBy(g, << >>, x)]
    <3>2. f = [x \in {} |-> TermBy(g, f, x)]
      OBVIOUS
    <3> HIDE DEF f
    <3>3. Is(f, Lower(0))
      BY <3>1, <3>2
    <3> QED BY <2>1, <3>3
  <2>2. CASE m # 0
    <3>1. PICK k \in Nat : m = k + 1 /\ k \notin Bad
      <4>1. m - 1 \in Nat /\ ~ (m <= m - 1) /\ m = (m - 1) + 1
        BY <2>2
      <4> QED BY <1>4, <4>1
    <3>2. PICK f : Is(f, Lower(k))
      BY <3>1
    <3> DEFINE h == [x \in Lower(m) |-> TermBy(g, f, x)]
    <3>3. ASSUME NEW x \in Lower(m), NEW i \in DOMAIN g.ops[Producer(g, x)].args
          PROVE  f[g.ops[Producer(g, x)].args[i]] = h[g.ops[Producer(g, x)].args[i]]
      <4> DEFINE a == g.ops[Producer(g, x)].args[i]
      <4>1. a \in A /\ ValDepth(g, a) < ValDepth(g, x) /\ ValDepth(g, x) < m
        BY <1>3
      <4>2. a \in Lower(k) /\ a \in Lower(m)
        BY <1>2, <3>1, <4>1
      <4> HIDE DEF a, Lower
      <4>3. f[a] = TermBy(g, f, a)
        BY <3>2, <4>2
      <4> QED BY <4>2, <4>3 DEF a
    <3>4. \A x \in Lower(m) : TermBy(g, f, x) = TermBy(g, h, x)
      <4> HIDE DEF h, Lower
      <4> QED BY <3>3, TermLocal
    <3>5. h = [x \in Lower(m) |-> TermBy(g, h, x)]
      <4>1. [x \in Lower(m) |-> TermBy(g, f, x)] = [x \in Lower(m) |-> TermBy(g, h, x)]
        <5> HIDE DEF h, Lower
        <5> QED BY <3>4
      <4> QED BY <4>1
    <3> HIDE DEF h
    <3>6. Is(h, Lower(m))
      BY <3>5
    <3> QED BY <3>6
  <2> QED BY <2>1, <2>2
<1>5. Bad = {}
  <2>1. Bad \in SUBSET Nat
    OBVIOUS
  <2> HIDE DEF Bad
  <2> QED BY <1>4, <2>1, NatMin
<1>6. PICK b \in Nat : Lower(b) = A
  <2> DEFINE N == Len(g.ops)
  <2>1. N \in Nat /\ OpIds(g) = 1 .. N /\ \A o \in 1 .. N : g.depth[o] \in Nat
    BY StoreFacts DEF DepthInv, GraphOK, OpIds, DepthsOK, Depths
  <2> HIDE DEF N
  <2>2. PICK b \in Nat : \A o \in 1 .. N : g.depth[o] <= b
    BY <2>1, BoundOf
  <2>3. \A x \in A : Producer(g, x) \in 1 .. N
    BY <2>1, ValuesBy DEF A
  <2>4. \A x \in A : ValDepth(g, x) <= b
    BY <2>2, <2>3 DEF ValDepth
  <2>5. \A x \in A : ValDepth(g, x) < b + 1
    BY <1>2, <2>4
  <2>6. Lower(b + 1) = A
    BY <2>5
  <2> QED BY <2>6
<1>7. Is(F, A)
  <2>1. \E f : Is(f, A)
    <3>1. b \notin Bad
      BY <1>5
    <3> HIDE DEF Is, Lower
    <3> QED BY <1>6, <3>1
  <2> HIDE DEF Is
  <2> QED BY <2>1
<1> HIDE DEF F
<1>8. F[v] = TermBy(g, F, v)
  BY <1>7 DEF A
<1> QED BY <1>1, <1>8

(* And only one.                                                           *)
LEMMA TermsOnly ==
  ASSUME NEW g, DepthInv(g), NEW t, \A v \in ActiveVals(g) : t[v] = TermBy(g, t, v)
  PROVE  \A v \in ActiveVals(g) : t[v] = Terms(g)[v]
<1> DEFINE Bad == {m \in Nat : \E v \in ActiveVals(g) : ValDepth(g, v) = m /\ t[v] # Terms(g)[v]}
<1>1. ASSUME NEW m \in Bad, \A k \in Bad : m <= k PROVE FALSE
  <2>1. PICK v \in ActiveVals(g) : ValDepth(g, v) = m /\ t[v] # Terms(g)[v]
    OBVIOUS
  <2>2. ASSUME NEW i \in DOMAIN g.ops[Producer(g, v)].args
        PROVE  t[g.ops[Producer(g, v)].args[i]] = Terms(g)[g.ops[Producer(g, v)].args[i]]
    <3> DEFINE a == g.ops[Producer(g, v)].args[i]
    <3>1. a \in ActiveVals(g) /\ ValDepth(g, a) \in Nat /\ ValDepth(g, a) < m
      BY <2>1, ValuesBy, ValuesUp DEF ValDepth
    <3>2. ~ (m <= ValDepth(g, a))
      BY <3>1
    <3> HIDE DEF a
    <3>3. t[a] = Terms(g)[a]
      BY <1>1, <3>1, <3>2
    <3> QED BY <3>3 DEF a
  <2>3. TermBy(g, t, v) = TermBy(g, Terms(g), v)
    BY <2>2, TermLocal
  <2> QED BY <2>1, <2>3, TermsAre
<1>2. Bad = {}
  <2>1. Bad \in SUBSET Nat
    OBVIOUS
  <2> HIDE DEF Bad
  <2> QED BY <1>1, <2>1, NatMin
<1> QED BY <1>2, ValuesBy

-----------------------------------------------------------------------------
(* Arguments in normal form.                                               *)

(* How often a occurs in x.                                                *)
Places(x, a) == {i \in DOMAIN x : x[i] = a}
Counts(x) == {<<Cardinality(Places(x, a)), a>> : a \in Range(x)}

(* Sets of pairs that say how often each argument occurs are the same only *)
(* for permutations of each other.                                         *)
LEMMA PermutationOf ==
  ASSUME NEW x, NEW y, IsFiniteSet(DOMAIN x), IsFiniteSet(DOMAIN y),
         Counts(x) = Counts(y)
  PROVE  \E p \in Bijection(DOMAIN x, DOMAIN y) : \A i \in DOMAIN x : x[i] = y[p[i]]
<1> DEFINE A == Range(x)
<1>1. Range(y) = A /\ \A a \in A : Cardinality(Places(x, a)) = Cardinality(Places(y, a))
  <2>1. ASSUME NEW a \in A PROVE a \in Range(y) /\ Cardinality(Places(x, a)) = Cardinality(Places(y, a))
    <3>1. <<Cardinality(Places(x, a)), a>> \in {<<Cardinality(Places(y, b)), b>> : b \in Range(y)}
      BY DEF Counts
    <3>2. PICK b \in Range(y) : <<Cardinality(Places(x, a)), a>> = <<Cardinality(Places(y, b)), b>>
      BY <3>1
    <3> QED BY <3>2
  <2>2. ASSUME NEW a \in Range(y) PROVE a \in A
    <3>1. <<Cardinality(Places(y, a)), a>> \in {<<Cardinality(Places(x, b)), b>> : b \in A}
      BY DEF Counts
    <3>2. PICK b \in A : <<Cardinality(Places(y, a)), a>> = <<Cardinality(Places(x, b)), b>>
      BY <3>1
    <3> QED BY <3>2
  <2> QED BY <2>1, <2>2
<1>2. ASSUME NEW a \in A PROVE \E f : f \in Bijection(Places(x, a), Places(y, a))
  <2>1. IsFiniteSet(Places(x, a)) /\ IsFiniteSet(Places(y, a))
    BY FS_Subset DEF Places
  <2>2. ExistsBijection(Places(x, a), Places(y, a))
    BY <1>1, <2>1, FS_SameCardinalityBij
  <2> QED BY <2>2 DEF ExistsBijection
<1> DEFINE Bij(a) == CHOOSE f : f \in Bijection(Places(x, a), Places(y, a))
           p == [i \in DOMAIN x |-> Bij(x[i])[i]]
<1>3. \A a \in A : Bij(a) \in Bijection(Places(x, a), Places(y, a))
  BY <1>2
<1> HIDE DEF Bij
<1>4. ASSUME NEW i \in DOMAIN x PROVE x[i] \in A /\ i \in Places(x, x[i])
  BY DEF Range, Places
<1>5. ASSUME NEW i \in DOMAIN x PROVE p[i] \in DOMAIN y /\ y[p[i]] = x[i]
  <2>1. Bij(x[i]) \in Bijection(Places(x, x[i]), Places(y, x[i]))
    BY <1>3, <1>4
  <2>2. p[i] \in Places(y, x[i])
    BY <1>4, <2>1 DEF Bijection, Injection, Surjection
  <2> QED BY <2>2 DEF Places
<1>6. ASSUME NEW i \in DOMAIN x, NEW j \in DOMAIN x, p[i] = p[j] PROVE i = j
  <2>1. x[i] = x[j]
    BY <1>5, <1>6
  <2>2. Bij(x[i]) \in Bijection(Places(x, x[i]), Places(y, x[i]))
    BY <1>3, <1>4
  <2>3. Bij(x[i])[i] = Bij(x[i])[j] /\ i \in Places(x, x[i]) /\ j \in Places(x, x[i])
    BY <1>4, <1>6, <2>1
  <2> QED BY <2>2, <2>3 DEF Bijection, Injection, IsInjective
<1>7. ASSUME NEW j \in DOMAIN y PROVE \E i \in DOMAIN x : p[i] = j
  <2>1. y[j] \in A /\ j \in Places(y, y[j])
    BY <1>1 DEF Range, Places
  <2>2. Bij(y[j]) \in Surjection(Places(x, y[j]), Places(y, y[j]))
    BY <1>3, <2>1 DEF Bijection
  <2>3. PICK i \in Places(x, y[j]) : Bij(y[j])[i] = j
    BY <2>1, <2>2 DEF Surjection
  <2>4. i \in DOMAIN x /\ x[i] = y[j]
    BY DEF Places
  <2> QED BY <2>3, <2>4
<1>8. p \in Bijection(DOMAIN x, DOMAIN y)
  BY <1>5, <1>6, <1>7 DEF Bijection, Injection, Surjection, IsInjective
<1> QED BY <1>5, <1>8

(* A permutation changes no count.                                         *)
LEMMA CountsOf ==
  ASSUME NEW x, NEW y, IsFiniteSet(DOMAIN x), IsFiniteSet(DOMAIN y),
         NEW p \in Bijection(DOMAIN x, DOMAIN y), \A i \in DOMAIN x : x[i] = y[p[i]]
  PROVE  Counts(x) = Counts(y)
<1>1. Range(x) = Range(y)
  BY DEF Range, Bijection, Injection, Surjection
<1>2. ASSUME NEW a PROVE Cardinality(Places(x, a)) = Cardinality(Places(y, a))
  <2> DEFINE q == [i \in Places(x, a) |-> p[i]]
  <2>1. q \in Bijection(Places(x, a), Places(y, a))
    <3>1. \A i \in Places(x, a) : q[i] \in Places(y, a)
      BY DEF Places, Bijection, Injection
    <3>2. \A i, j \in Places(x, a) : q[i] = q[j] => i = j
      BY DEF Places, Bijection, Injection, IsInjective
    <3>3. \A j \in Places(y, a) : \E i \in Places(x, a) : q[i] = j
      BY DEF Places, Bijection, Surjection
    <3> QED BY <3>1, <3>2, <3>3 DEF Bijection, Injection, Surjection, IsInjective
  <2>2. IsFiniteSet(Places(x, a)) /\ IsFiniteSet(Places(y, a))
    BY FS_Subset DEF Places
  <2> HIDE DEF q
  <2> QED BY <2>1, <2>2, FS_Bijection DEF ExistsBijection
<1> QED BY <1>1, <1>2 DEF Counts

(* The arguments x as f reads them.                                        *)
Read(f, x) == [i \in DOMAIN x |-> f[x[i]]]

(* If one reading of the arguments tells apart whatever another one does,  *)
(* operations that are equal in the first are equal in the second.         *)
LEMMA NormalCarries ==
  ASSUME NEW ins, NEW x, NEW y, IsFiniteSet(DOMAIN x), IsFiniteSet(DOMAIN y), NEW F, NEW G,
         \A i \in DOMAIN x, j \in DOMAIN y : F[x[i]] = F[y[j]] => G[x[i]] = G[y[j]],
         Normal(ins, Read(F, x)) = Normal(ins, Read(F, y))
  PROVE  Normal(ins, Read(G, x)) = Normal(ins, Read(G, y))
<1> USE DEF Read
<1> DEFINE Fx == [i \in DOMAIN x |-> F[x[i]]]
           Fy == [i \in DOMAIN y |-> F[y[i]]]
           Gx == [i \in DOMAIN x |-> G[x[i]]]
           Gy == [i \in DOMAIN y |-> G[y[i]]]
<1>1. \A z : ins \in Commutative => Normal(ins, z) = Counts(z)
  BY DEF Normal, Places, Counts, ToSet, Range
<1>2. /\ DOMAIN Fx = DOMAIN x /\ DOMAIN Gx = DOMAIN x /\ DOMAIN Fy = DOMAIN y /\ DOMAIN Gy = DOMAIN y
      /\ \A i \in DOMAIN x : Fx[i] = F[x[i]] /\ Gx[i] = G[x[i]]
      /\ \A j \in DOMAIN y : Fy[j] = F[y[j]] /\ Gy[j] = G[y[j]]
  OBVIOUS
<1>3. Normal(ins, Fx) = Normal(ins, Fy)
  OBVIOUS
<1>4. Gx = [i \in DOMAIN x |-> Gx[i]] /\ Gy = [i \in DOMAIN y |-> Gy[i]]
  OBVIOUS
<1> HIDE DEF Fx, Fy, Gx, Gy
<1>5. CASE ins \in Commutative
  <2>1. Counts(Fx) = Counts(Fy)
    BY <1>1, <1>3, <1>5
  <2>2. PICK p \in Bijection(DOMAIN x, DOMAIN y) : \A i \in DOMAIN x : Fx[i] = Fy[p[i]]
    <3>1. IsFiniteSet(DOMAIN Fx) /\ IsFiniteSet(DOMAIN Fy)
      BY <1>2
    <3>2. \E p \in Bijection(DOMAIN Fx, DOMAIN Fy) : \A i \in DOMAIN Fx : Fx[i] = Fy[p[i]]
      BY <2>1, <3>1, PermutationOf
    <3>3. DOMAIN Fx = DOMAIN x /\ DOMAIN Fy = DOMAIN y
      BY <1>2
    <3> QED BY <3>2, <3>3, Zenon
  <2>3. \A i \in DOMAIN x : p[i] \in DOMAIN y
    BY DEF Bijection, Injection
  <2>4. \A i \in DOMAIN x : Gx[i] = Gy[p[i]]
    BY <1>2, <2>2, <2>3
  <2>5. Counts(Gx) = Counts(Gy)
    BY <1>2, <2>4, CountsOf
  <2> QED BY <1>1, <1>5, <2>5 DEF Gx, Gy
<1>6. CASE ins \notin Commutative
  <2>1. \A z : Normal(ins, z) = {<<i, z[i]>> : i \in DOMAIN z}
    BY <1>6 DEF Normal
  <2>2. {<<i, Fx[i]>> : i \in DOMAIN x} = {<<i, Fy[i]>> : i \in DOMAIN y}
    BY <1>2, <1>3, <2>1
  <2>3. ASSUME NEW i \in DOMAIN x PROVE i \in DOMAIN y /\ Fx[i] = Fy[i]
    <3>1. <<i, Fx[i]>> \in {<<j, Fy[j]>> : j \in DOMAIN y}
      BY <2>2
    <3> QED BY <3>1
  <2>4. ASSUME NEW j \in DOMAIN y PROVE j \in DOMAIN x
    <3>1. <<j, Fy[j]>> \in {<<i, Fx[i]>> : i \in DOMAIN x}
      BY <2>2
    <3> QED BY <3>1
  <2>5. DOMAIN x = DOMAIN y
    BY <2>3, <2>4
  <2>6. Gx = Gy
    BY <1>2, <1>4, <2>3, <2>5
  <2> QED BY <2>6 DEF Gx, Gy
<1> QED BY <1>5, <1>6

-----------------------------------------------------------------------------
(* Value numbering.                                                        *)

(* What two operations have in common when they compute the same.          *)
Key(g, vn, o) ==
  <<g.ops[o].ins, Normal(g.ops[o].ins, [i \in DOMAIN g.ops[o].args |-> vn[g.ops[o].args[i]]])>>

Pairs(g) == [old : ActiveVals(g), new : ActiveVals(g)]

(* Of the operations visited, V, rep is the first of each kind; the        *)
(* number of a value is the result of that one.                            *)
NumbersOK(g, vn, V, rep) ==
  /\ V \subseteq ActiveOps(g) /\ \A o \in V : Predecessors(g, o) \subseteq V
  /\ rep \in [V -> V]
  /\ \A o \in V : Key(g, vn, rep[o]) = Key(g, vn, o) /\ g.depth[rep[o]] <= g.depth[o]
                  /\ rep[rep[o]] = rep[o]
  /\ \A o, q \in V : Key(g, vn, o) = Key(g, vn, q) => rep[o] = rep[q]
  /\ DOMAIN vn = {v \in ValIds(g) : Producer(g, v) \in V}
  /\ \A o \in V : \A k \in DOMAIN g.ops[o].rets : vn[g.ops[o].rets[k]] = g.ops[rep[o]].rets[k]

TableOK(g, table, vn, V) ==
  /\ \A o \in V : \A k \in DOMAIN g.ops[o].rets :
       /\ Expr(g, vn, o, k) \in DOMAIN table
       /\ table[Expr(g, vn, o, k)] = vn[g.ops[o].rets[k]]
  /\ \A e \in DOMAIN table : \E o \in V : \E k \in DOMAIN g.ops[o].rets : e = Expr(g, vn, o, k)

ReplaceOK(g, replace, vn) ==
  /\ replace \in Seq(Pairs(g))
  /\ \A n \in 1 .. Len(replace) : /\ replace[n].old \in DOMAIN vn
                                  /\ replace[n].new = vn[replace[n].old]
                                  /\ replace[n].new # replace[n].old
  /\ \A v \in DOMAIN vn : vn[v] # v => \E n \in 1 .. Len(replace) : replace[n].old = v

NumberingOK(g, s, V) ==
  /\ \E rep : NumbersOK(g, s.vn, V, rep)
  /\ TableOK(g, s.table, s.vn, V) /\ ReplaceOK(g, s.replace, s.vn)

(* The key and the expressions of an operation depend on its arguments.    *)
LEMMA KeyLocal ==
  ASSUME NEW g, NEW vn, NEW wn, NEW o,
         \A i \in DOMAIN g.ops[o].args : vn[g.ops[o].args[i]] = wn[g.ops[o].args[i]]
  PROVE  Key(g, vn, o) = Key(g, wn, o) /\ \A k : Expr(g, vn, o, k) = Expr(g, wn, o, k)
<1>1. [i \in DOMAIN g.ops[o].args |-> vn[g.ops[o].args[i]]]
        = [i \in DOMAIN g.ops[o].args |-> wn[g.ops[o].args[i]]]
  OBVIOUS
<1> QED BY <1>1 DEF Key, Expr

LEMMA ExprKey ==
  ASSUME NEW g, NEW vn, NEW o, NEW q, NEW k, NEW l
  PROVE  Expr(g, vn, o, k) = Expr(g, vn, q, l) <=> Key(g, vn, o) = Key(g, vn, q) /\ k = l
BY DEF Key, Expr

(* The results of an operation are the values it produces.                 *)
LEMMA ResultAt ==
  ASSUME NEW g, PassInv(g), NEW o \in ActiveOps(g), NEW k \in DOMAIN g.ops[o].rets
  PROVE  /\ g.ops[o].rets[k] \in ActiveVals(g) /\ g.ops[o].rets[k] \in ValIds(g)
         /\ Producer(g, g.ops[o].rets[k]) = o /\ g.vals[g.ops[o].rets[k]].origin.pos = k
<1>1. GraphOK(g) /\ o \in OpIds(g) /\ g.ops[o].active
  BY DEF PassInv, DepthInv, ActiveOps
<1>2. g.ops[o].rets[k] \in ValIds(g) /\ g.vals[g.ops[o].rets[k]].origin = [op |-> o, pos |-> k]
  BY <1>1 DEF GraphOK, LinksOK
<1>3. Producer(g, g.ops[o].rets[k]) = o
  BY <1>2 DEF Producer
<1>4. g.vals[g.ops[o].rets[k]].active
  BY <1>1, <1>2, <1>3 DEF GraphOK, LiveOK
<1>5. g.vals[g.ops[o].rets[k]].origin.pos = k
  BY <1>2
<1>6. g.ops[o].rets[k] \in ActiveVals(g)
  BY <1>2, <1>4 DEF ActiveVals
<1> QED BY <1>2, <1>3, <1>5, <1>6

LEMMA ResultOf ==
  ASSUME NEW g, PassInv(g), NEW o \in ActiveOps(g), NEW v \in ValIds(g), Producer(g, v) = o
  PROVE  /\ g.vals[v].origin.pos \in DOMAIN g.ops[o].rets
         /\ g.ops[o].rets[g.vals[v].origin.pos] = v
<1>1. GraphOK(g)
  BY DEF PassInv, DepthInv
<1> QED BY <1>1 DEF GraphOK, LinksOK, Producer

LEMMA ResultsAre ==
  ASSUME NEW g, PassInv(g), NEW o \in ActiveOps(g)
  PROVE  /\ o \in OpIds(g)
         /\ DOMAIN g.ops[o].rets = 1 .. Len(g.ops[o].rets) /\ Len(g.ops[o].rets) \in Nat
         /\ \A k \in DOMAIN g.ops[o].rets :
              /\ g.ops[o].rets[k] \in ActiveVals(g) /\ g.ops[o].rets[k] \in ValIds(g)
              /\ Producer(g, g.ops[o].rets[k]) = o /\ g.vals[g.ops[o].rets[k]].origin.pos = k
         /\ \A v \in ValIds(g) : Producer(g, v) = o =>
              /\ g.vals[v].origin.pos \in DOMAIN g.ops[o].rets
              /\ g.ops[o].rets[g.vals[v].origin.pos] = v
<1>1. GraphOK(g) /\ o \in OpIds(g)
  BY DEF PassInv, DepthInv, ActiveOps
<1>2. g.ops[o].rets \in Seq(Nat)
  BY <1>1, StoreFacts DEF GraphOK, OpIds, OpRecord
<1>3. DOMAIN g.ops[o].rets = 1 .. Len(g.ops[o].rets) /\ Len(g.ops[o].rets) \in Nat
  BY <1>2
<1>4. ASSUME NEW k \in DOMAIN g.ops[o].rets
      PROVE  /\ g.ops[o].rets[k] \in ActiveVals(g) /\ g.ops[o].rets[k] \in ValIds(g)
             /\ Producer(g, g.ops[o].rets[k]) = o /\ g.vals[g.ops[o].rets[k]].origin.pos = k
  BY ResultAt
<1>5. ASSUME NEW v \in ValIds(g), Producer(g, v) = o
      PROVE  /\ g.vals[v].origin.pos \in DOMAIN g.ops[o].rets
             /\ g.ops[o].rets[g.vals[v].origin.pos] = v
  BY <1>5, ResultOf
<1> QED BY <1>1, <1>3, <1>4, <1>5

(* The recursion of the numbering is one.                                  *)
Unnumbered == [table |-> << >>, vn |-> << >>, replace |-> << >>]

LEMMA NumberingsAre ==
  ASSUME NEW g, Cardinality(ActiveOps(g)) \in Nat
  PROVE  /\ Numberings(g)[0] = Unnumbered
         /\ \A n \in 1 .. Cardinality(ActiveOps(g)) :
              Numberings(g)[n] = Visit(g, Numberings(g)[n - 1], Topological(g)[n])
<1> DEFINE N == Cardinality(ActiveOps(g))
           Start == Unnumbered
           Step(s, n) == Visit(g, s, Topological(g)[n])
           Is(f, m) == f = [n \in 0 .. m |-> IF n = 0 THEN Start ELSE Step(f[n - 1], n)]
           Bad == {m \in Nat : ~ \E f : Is(f, m)}
           F == CHOOSE f : Is(f, N)
<1>1. Numberings(g) = F
  BY DEF Numberings, Unnumbered
<1>2. ASSUME NEW m \in Bad, \A k \in Bad : m <= k PROVE FALSE
  <2> HIDE DEF Start, Step
  <2>1. CASE m = 0
    <3> DEFINE f == [n \in 0 .. 0 |-> Start]
    <3>1. Is(f, 0)
      OBVIOUS
    <3> QED BY <2>1, <3>1
  <2>2. CASE m # 0
    <3>1. PICK k \in Nat : m = k + 1 /\ k \notin Bad
      <4>1. m - 1 \in Nat /\ ~ (m <= m - 1) /\ m = (m - 1) + 1
        BY <2>2
      <4> QED BY <1>2, <4>1
    <3>2. PICK f : Is(f, k)
      BY <3>1
    <3> DEFINE h == [n \in 0 .. m |-> IF n = m THEN Step(f[k], m) ELSE f[n]]
    <3>3. ASSUME NEW n \in 0 .. m PROVE h[n] = IF n = 0 THEN Start ELSE Step(h[n - 1], n)
      <4>1. CASE n = m
        <5>1. h[m - 1] = f[k] /\ h[m] = Step(f[k], m)
          BY <3>1
        <5> HIDE DEF h
        <5> QED BY <2>2, <3>1, <4>1, <5>1
      <4>2. CASE n # m
        <5>1. n \in 0 .. k /\ h[n] = f[n] /\ (n # 0 => h[n - 1] = f[n - 1])
          BY <3>1, <4>2
        <5>2. f[n] = IF n = 0 THEN Start ELSE Step(f[n - 1], n)
          BY <3>2, <5>1
        <5> HIDE DEF h
        <5> QED BY <5>1, <5>2
      <4> QED BY <4>1, <4>2
    <3>4. h = [n \in 0 .. m |-> h[n]]
      OBVIOUS
    <3> HIDE DEF h
    <3>5. Is(h, m)
      BY <3>3, <3>4
    <3> QED BY <3>5
  <2> QED BY <2>1, <2>2
<1>3. Bad = {}
  <2>1. Bad \in SUBSET Nat
    OBVIOUS
  <2> HIDE DEF Bad
  <2> QED BY <1>2, <2>1, NatMin
<1>4. Is(F, N)
  <2>1. \E f : Is(f, N)
    BY <1>3
  <2> HIDE DEF Is
  <2> QED BY <2>1
<1> HIDE DEF F
<1>5. F[0] = Start /\ \A n \in 1 .. N : F[n] = Step(F[n - 1], n)
  <2> HIDE DEF Start, Step
  <2>1. \A n \in 0 .. N : F[n] = IF n = 0 THEN Start ELSE Step(F[n - 1], n)
    BY <1>4
  <2> QED BY <2>1
<1> QED BY <1>1, <1>5

(* So is the one of the replacements.                                      *)
Replaced(s, r) ==
  IF s.legal /\ MayReplace(s.graph, r.old, r.new)
  THEN [s EXCEPT !.graph = ReplaceValUse(@, r.old, r.new)]
  ELSE [s EXCEPT !.legal = FALSE]

LEMMA ReplacingAre ==
  ASSUME NEW g, NEW rs, Len(rs) \in Nat
  PROVE  /\ Replacing(g, rs)[0] = [legal |-> TRUE, graph |-> g]
         /\ \A n \in 1 .. Len(rs) : Replacing(g, rs)[n] = Replaced(Replacing(g, rs)[n - 1], rs[n])
<1> DEFINE N == Len(rs)
           Start == [legal |-> TRUE, graph |-> g]
           Step(s, n) == Replaced(s, rs[n])
           Is(f, m) == f = [n \in 0 .. m |-> IF n = 0 THEN Start ELSE Step(f[n - 1], n)]
           Bad == {m \in Nat : ~ \E f : Is(f, m)}
           F == CHOOSE f : Is(f, N)
<1>1. Replacing(g, rs) = F
  BY DEF Replacing, Replaced
<1>2. ASSUME NEW m \in Bad, \A k \in Bad : m <= k PROVE FALSE
  <2> HIDE DEF Start, Step
  <2>1. CASE m = 0
    <3> DEFINE f == [n \in 0 .. 0 |-> Start]
    <3>1. Is(f, 0)
      OBVIOUS
    <3> QED BY <2>1, <3>1
  <2>2. CASE m # 0
    <3>1. PICK k \in Nat : m = k + 1 /\ k \notin Bad
      <4>1. m - 1 \in Nat /\ ~ (m <= m - 1) /\ m = (m - 1) + 1
        BY <2>2
      <4> QED BY <1>2, <4>1
    <3>2. PICK f : Is(f, k)
      BY <3>1
    <3> DEFINE h == [n \in 0 .. m |-> IF n = m THEN Step(f[k], m) ELSE f[n]]
    <3>3. ASSUME NEW n \in 0 .. m PROVE h[n] = IF n = 0 THEN Start ELSE Step(h[n - 1], n)
      <4>1. CASE n = m
        <5>1. h[m - 1] = f[k] /\ h[m] = Step(f[k], m)
          BY <3>1
        <5> HIDE DEF h
        <5> QED BY <2>2, <3>1, <4>1, <5>1
      <4>2. CASE n # m
        <5>1. n \in 0 .. k /\ h[n] = f[n] /\ (n # 0 => h[n - 1] = f[n - 1])
          BY <3>1, <4>2
        <5>2. f[n] = IF n = 0 THEN Start ELSE Step(f[n - 1], n)
          BY <3>2, <5>1
        <5> HIDE DEF h
        <5> QED BY <5>1, <5>2
      <4> QED BY <4>1, <4>2
    <3>4. h = [n \in 0 .. m |-> h[n]]
      OBVIOUS
    <3> HIDE DEF h
    <3>5. Is(h, m)
      BY <3>3, <3>4
    <3> QED BY <3>5
  <2> QED BY <2>1, <2>2
<1>3. Bad = {}
  <2>1. Bad \in SUBSET Nat
    OBVIOUS
  <2> HIDE DEF Bad
  <2> QED BY <1>2, <2>1, NatMin
<1>4. Is(F, N)
  <2>1. \E f : Is(f, N)
    BY <1>3
  <2> HIDE DEF Is
  <2> QED BY <2>1
<1> HIDE DEF F
<1>5. F[0] = Start /\ \A n \in 1 .. N : F[n] = Step(F[n - 1], n)
  <2> HIDE DEF Start, Step
  <2>1. \A n \in 0 .. N : F[n] = IF n = 0 THEN Start ELSE Step(F[n - 1], n)
    BY <1>4
  <2> QED BY <2>1
<1> QED BY <1>1, <1>5

(* What a visit finds in the table, and the pairs it adds.                 *)
Known(g, s, o) == {k \in DOMAIN g.ops[o].rets : Expr(g, s.vn, o, k) \in DOMAIN s.table}
First(g, s, o) ==
  [k \in DOMAIN g.ops[o].rets |->
     IF k \in Known(g, s, o) THEN s.table[Expr(g, s.vn, o, k)] ELSE g.ops[o].rets[k]]
Place(known, n) == CHOOSE k \in known : Cardinality({l \in known : l < k}) = n - 1
Added(rets, known, first) ==
  [n \in 1 .. Cardinality(known) |-> [old |-> rets[Place(known, n)], new |-> first[Place(known, n)]]]
Exprs(g, s, o) == {Expr(g, s.vn, o, k) : k \in DOMAIN g.ops[o].rets}
Entries(g, s, o) == [e \in Exprs(g, s, o) |-> g.ops[o].rets[e.pos]]
Numbers(g, s, o) == [v \in Range(g.ops[o].rets) |-> First(g, s, o)[g.vals[v].origin.pos]]

LEMMA VisitIs ==
  ASSUME NEW g, NEW s, NEW o
  PROVE  /\ Visit(g, s, o).vn = Over(s.vn, Numbers(g, s, o))
         /\ Visit(g, s, o).table = Over(s.table, Entries(g, s, o))
         /\ Visit(g, s, o).replace = s.replace \o Added(g.ops[o].rets, Known(g, s, o), First(g, s, o))
<1> DEFINE rets == g.ops[o].rets
           exprs == [k \in DOMAIN rets |-> Expr(g, s.vn, o, k)]
           known == {k \in DOMAIN rets : exprs[k] \in DOMAIN s.table}
           first == [k \in DOMAIN rets |-> IF k \in known THEN s.table[exprs[k]] ELSE rets[k]]
           news == [e \in Range(exprs) |-> rets[e.pos]]
           nums == [v \in Range(rets) |-> first[g.vals[v].origin.pos]]
<1>1. /\ Visit(g, s, o).vn = Over(s.vn, nums) /\ Visit(g, s, o).table = Over(s.table, news)
      /\ Visit(g, s, o).replace = s.replace \o Added(rets, known, first)
  BY DEF Visit, Added, Place
<1>2. known = Known(g, s, o)
  BY DEF Known
<1>3. first = First(g, s, o)
  <2>1. \A k \in DOMAIN rets : exprs[k] = Expr(g, s.vn, o, k)
    OBVIOUS
  <2> HIDE DEF exprs, known
  <2> QED BY <1>2, <2>1 DEF First
<1>4. Range(exprs) = Exprs(g, s, o)
  BY DEF Range, Exprs
<1>5. news = Entries(g, s, o)
  <2> HIDE DEF exprs
  <2> QED BY <1>4 DEF Entries
<1>6. nums = Numbers(g, s, o)
  <2> HIDE DEF first
  <2> QED BY <1>3 DEF Numbers
<1> HIDE DEF known, first, news, nums
<1> QED BY <1>1, <1>2, <1>3, <1>5, <1>6

LEMMA OverIs ==
  ASSUME NEW f, NEW h
  PROVE  /\ DOMAIN Over(f, h) = DOMAIN f \cup DOMAIN h
         /\ \A x \in DOMAIN f : Over(f, h)[x] = f[x]
         /\ \A x \in DOMAIN h : x \notin DOMAIN f => Over(f, h)[x] = h[x]
BY DEF Over

(* The first operation of the kind of o: r, another one or o itself.       *)
Kind(g, s, V, rep, o, r) ==
  /\ r \in V \cup {o} /\ Key(g, s.vn, r) = Key(g, s.vn, o) /\ g.depth[r] <= g.depth[o]
  /\ DOMAIN g.ops[r].rets = DOMAIN g.ops[o].rets
  /\ \A k \in DOMAIN g.ops[o].rets : First(g, s, o)[k] = g.ops[r].rets[k]
  /\ r \in V => rep[r] = r /\ Known(g, s, o) = DOMAIN g.ops[o].rets
  /\ r = o => Known(g, s, o) = {}
  /\ \A q \in V : Key(g, s.vn, q) = Key(g, s.vn, o) => r \in V /\ rep[q] = r

LEMMA KindOf ==
  ASSUME NEW g, PassInv(g), NEW s, NEW V, NEW rep, NumbersOK(g, s.vn, V, rep),
         TableOK(g, s.table, s.vn, V), NEW o \in ActiveOps(g), o \notin V,
         \A q \in V : g.depth[q] <= g.depth[o]
  PROVE  \E r : Kind(g, s, V, rep, o, r)
<1> DEFINE rets == g.ops[o].rets
           K(q) == Key(g, s.vn, q)
<1>1. \A q \in ActiveOps(g) : q \in OpIds(g)
  BY DEF ActiveOps
<1>2. CASE \E p \in V : K(p) = K(o)
  <2>1. PICK p \in V : K(p) = K(o)
    BY <1>2
  <2> DEFINE r == rep[p]
  <2>2. r \in V /\ K(r) = K(o) /\ rep[r] = r
    BY <2>1 DEF NumbersOK
  <2>3. r \in OpIds(g) /\ o \in OpIds(g)
    BY <1>1, <2>2 DEF NumbersOK
  <2>4. g.ops[r].ins = g.ops[o].ins
    BY <2>2 DEF Key
  <2>5. DOMAIN g.ops[r].rets = DOMAIN rets
    BY <2>3, <2>4 DEF PassInv, SignedOK
  <2>6. ASSUME NEW k \in DOMAIN rets
        PROVE  k \in Known(g, s, o) /\ s.table[Expr(g, s.vn, o, k)] = g.ops[r].rets[k]
    <3>1. Expr(g, s.vn, o, k) = Expr(g, s.vn, r, k)
      BY <2>2, ExprKey
    <3>2. Expr(g, s.vn, r, k) \in DOMAIN s.table /\ s.table[Expr(g, s.vn, r, k)] = s.vn[g.ops[r].rets[k]]
      BY <2>2, <2>5 DEF TableOK
    <3>3. s.vn[g.ops[r].rets[k]] = g.ops[r].rets[k]
      BY <2>2, <2>5 DEF NumbersOK
    <3> QED BY <3>1, <3>2, <3>3 DEF Known
  <2>7. Known(g, s, o) = DOMAIN rets /\ \A k \in DOMAIN rets : First(g, s, o)[k] = g.ops[r].rets[k]
    BY <2>6 DEF Known, First
  <2>8. \A q \in V : K(q) = K(o) => rep[q] = r
    BY <2>1 DEF NumbersOK
  <2>9. r # o /\ g.depth[r] <= g.depth[o]
    <3>1. r # o
      BY <2>2
    <3> QED BY <2>2, <3>1
  <2> HIDE DEF r
  <2> QED BY <2>2, <2>5, <2>7, <2>8, <2>9 DEF Kind
<1>3. CASE ~ \E p \in V : K(p) = K(o)
  <2>1. ASSUME NEW k \in Known(g, s, o) PROVE FALSE
    <3>1. PICK q \in V : \E l \in DOMAIN g.ops[q].rets : Expr(g, s.vn, o, k) = Expr(g, s.vn, q, l)
      BY DEF Known, TableOK
    <3> QED BY <1>3, <3>1, ExprKey
  <2>2. \A k \in DOMAIN rets : First(g, s, o)[k] = rets[k]
    BY <2>1 DEF First
  <2>3. g.depth[o] <= g.depth[o]
    BY <1>1 DEF PassInv, DepthInv, DepthsOK, Depths
  <2> QED BY <1>3, <2>1, <2>2, <2>3 DEF Kind
<1> QED BY <1>2, <1>3

(* The visit of o numbers its results, and nothing else changes.           *)
Visited(g, s, V, o, r, t) ==
  /\ DOMAIN t.vn = {v \in ValIds(g) : Producer(g, v) \in V \cup {o}}
  /\ DOMAIN s.vn = {v \in ValIds(g) : Producer(g, v) \in V}
  /\ \A v \in DOMAIN s.vn : t.vn[v] = s.vn[v]
  /\ \A k \in DOMAIN g.ops[o].rets : t.vn[g.ops[o].rets[k]] = g.ops[r].rets[k]
  /\ \A q \in V \cup {o} : Key(g, t.vn, q) = Key(g, s.vn, q) /\ \A k : Expr(g, t.vn, q, k) = Expr(g, s.vn, q, k)

LEMMA VisitValues ==
  ASSUME NEW g, PassInv(g), NEW s, NEW V, NEW rep, NumbersOK(g, s.vn, V, rep),
         NEW o \in ActiveOps(g), o \notin V, Predecessors(g, o) \subseteq V,
         NEW r, Kind(g, s, V, rep, o, r)
  PROVE  Visited(g, s, V, o, r, Visit(g, s, o))
<1> DEFINE rets == g.ops[o].rets
           t == Visit(g, s, o)
           new == Numbers(g, s, o)
<1>1. t.vn = Over(s.vn, new)
  BY VisitIs
<1>2. DOMAIN s.vn = {v \in ValIds(g) : Producer(g, v) \in V} /\ V \subseteq ActiveOps(g)
  BY DEF NumbersOK
<1>3. Range(rets) = {v \in ValIds(g) : Producer(g, v) = o}
  <2>1. ASSUME NEW k \in DOMAIN rets PROVE rets[k] \in ValIds(g) /\ Producer(g, rets[k]) = o
    BY ResultAt
  <2>2. \A v \in Range(rets) : v \in ValIds(g) /\ Producer(g, v) = o
    BY <2>1 DEF Range
  <2>3. ASSUME NEW v \in ValIds(g), Producer(g, v) = o PROVE v \in Range(rets)
    <3>1. g.vals[v].origin.pos \in DOMAIN rets /\ rets[g.vals[v].origin.pos] = v
      BY <2>3, ResultOf
    <3> QED BY <3>1 DEF Range
  <2> QED BY <2>2, <2>3
<1>4. DOMAIN new = Range(rets)
  BY DEF Numbers
<1>5. \A k \in DOMAIN rets : rets[k] \in Range(rets) /\ new[rets[k]] = First(g, s, o)[k]
  <2> SUFFICES ASSUME NEW k \in DOMAIN rets
               PROVE  rets[k] \in Range(rets) /\ new[rets[k]] = First(g, s, o)[k]
    OBVIOUS
  <2>1. rets[k] \in Range(rets)
    BY DEF Range
  <2>2. g.vals[rets[k]].origin.pos = k
    BY ResultAt
  <2> QED BY <2>1, <2>2 DEF Numbers
<1> HIDE DEF new, t
<1>6. /\ DOMAIN t.vn = DOMAIN s.vn \cup Range(rets)
      /\ \A v \in DOMAIN s.vn : t.vn[v] = s.vn[v]
      /\ \A v \in Range(rets) : v \notin DOMAIN s.vn => t.vn[v] = new[v]
  <2> DEFINE a == s.vn
  <2>1. /\ DOMAIN Over(a, new) = DOMAIN a \cup DOMAIN new
        /\ \A v \in DOMAIN a : Over(a, new)[v] = a[v]
        /\ \A v \in DOMAIN new : v \notin DOMAIN a => Over(a, new)[v] = new[v]
    <3> HIDE DEF a
    <3> QED BY OverIs
  <2>2. t.vn = Over(a, new)
    BY <1>1
  <2> HIDE DEF rets
  <2> QED BY <1>4, <2>1, <2>2
<1>7. DOMAIN t.vn = {v \in ValIds(g) : Producer(g, v) \in V \cup {o}}
  BY <1>2, <1>3, <1>6
<1>8. ASSUME NEW k \in DOMAIN rets PROVE t.vn[rets[k]] = g.ops[r].rets[k]
  <2>1. rets[k] \in Range(rets) /\ rets[k] \notin DOMAIN s.vn
    BY <1>2, <1>3, <1>5
  <2> QED BY <1>5, <1>6, <2>1 DEF Kind
<1>9. ASSUME NEW q \in V \cup {o}
      PROVE  Key(g, t.vn, q) = Key(g, s.vn, q) /\ \A k : Expr(g, t.vn, q, k) = Expr(g, s.vn, q, k)
  <2>1. q \in ActiveOps(g) /\ q \in OpIds(g) /\ Predecessors(g, q) \subseteq V
    BY <1>2 DEF NumbersOK, ActiveOps
  <2>2. ASSUME NEW i \in DOMAIN g.ops[q].args
        PROVE  t.vn[g.ops[q].args[i]] = s.vn[g.ops[q].args[i]]
    <3>1. g.ops[q].args[i] \in ValIds(g)
      BY <2>1 DEF PassInv, DepthInv, GraphOK, LinksOK
    <3>2. Producer(g, g.ops[q].args[i]) \in V
      BY <2>1 DEF Predecessors
    <3> QED BY <1>2, <1>6, <3>1, <3>2
  <2> DEFINE a == t.vn
             b == s.vn
  <2>3. \A i \in DOMAIN g.ops[q].args : a[g.ops[q].args[i]] = b[g.ops[q].args[i]]
    BY <2>2
  <2> HIDE DEF a, b
  <2>4. Key(g, a, q) = Key(g, b, q) /\ \A k : Expr(g, a, q, k) = Expr(g, b, q, k)
    BY <2>3, KeyLocal
  <2> QED BY <2>4 DEF a, b
<1> QED BY <1>2, <1>6, <1>7, <1>8, <1>9 DEF Visited, t

(* The numbers.                                                            *)
LEMMA VisitNumbers ==
  ASSUME NEW g, PassInv(g), NEW s, NEW V, NEW rep, NumbersOK(g, s.vn, V, rep),
         NEW o \in ActiveOps(g), o \notin V, Predecessors(g, o) \subseteq V,
         NEW r, Kind(g, s, V, rep, o, r), NEW t, Visited(g, s, V, o, r, t)
  PROVE  \E f : NumbersOK(g, t.vn, V \cup {o}, f)
<1> DEFINE W == V \cup {o}
           f == [q \in W |-> IF q = o THEN r ELSE rep[q]]
           K(q) == Key(g, s.vn, q)
<1>1. /\ V \subseteq ActiveOps(g) /\ \A q \in V : Predecessors(g, q) \subseteq V
      /\ rep \in [V -> V]
      /\ \A q \in V : K(rep[q]) = K(q) /\ g.depth[rep[q]] <= g.depth[q] /\ rep[rep[q]] = rep[q]
      /\ \A p, q \in V : K(p) = K(q) => rep[p] = rep[q]
  BY DEF NumbersOK
<1>2. /\ r \in W /\ K(r) = K(o) /\ g.depth[r] <= g.depth[o] /\ (r \in V => rep[r] = r)
      /\ \A q \in V : K(q) = K(o) => r \in V /\ rep[q] = r
  BY DEF Kind
<1>3. \A q \in W : Key(g, t.vn, q) = K(q)
  BY DEF Visited
<1> HIDE DEF K
<1>4. \A q \in V : f[q] = rep[q] /\ f[q] \in V /\ f[q] # o
  BY <1>1
<1>5. f[o] = r
  OBVIOUS
<1>6. f \in [W -> W]
  BY <1>1, <1>2
<1> HIDE DEF f
<1>7. f[r] = r
  BY <1>2, <1>4, <1>5
<1>8. \A q \in W : K(f[q]) = K(q) /\ g.depth[f[q]] <= g.depth[q] /\ f[f[q]] = f[q]
  BY <1>1, <1>2, <1>4, <1>5, <1>7
<1>9. \A p, q \in W : K(p) = K(q) => f[p] = f[q]
  BY <1>1, <1>2, <1>4, <1>5
<1>10. ASSUME NEW q \in W, NEW k \in DOMAIN g.ops[q].rets
       PROVE  t.vn[g.ops[q].rets[k]] = g.ops[f[q]].rets[k]
  <2>1. CASE q = o
    BY <1>5, <2>1 DEF Visited
  <2>2. CASE q # o
    <3>1. q \in V /\ q \in ActiveOps(g)
      BY <1>1, <2>2
    <3>2. g.ops[q].rets[k] \in ValIds(g) /\ Producer(g, g.ops[q].rets[k]) = q
      BY <3>1, ResultAt
    <3>3. t.vn[g.ops[q].rets[k]] = s.vn[g.ops[q].rets[k]]
      BY <3>1, <3>2 DEF Visited
    <3> QED BY <1>4, <3>1, <3>3 DEF NumbersOK
  <2> QED BY <2>1, <2>2
<1>11. /\ W \subseteq ActiveOps(g) /\ \A q \in W : Predecessors(g, q) \subseteq W
       /\ DOMAIN t.vn = {v \in ValIds(g) : Producer(g, v) \in W}
  BY <1>1 DEF Visited
<1>12. \A q \in W : f[q] \in W
  BY <1>6
<1>13. \A q \in W : Key(g, t.vn, f[q]) = Key(g, t.vn, q)
  BY <1>3, <1>8, <1>12
<1>14. \A p, q \in W : Key(g, t.vn, p) = Key(g, t.vn, q) => f[p] = f[q]
  BY <1>3, <1>9
<1> HIDE DEF W
<1>15. NumbersOK(g, t.vn, W, f)
  BY <1>6, <1>8, <1>10, <1>11, <1>13, <1>14 DEF NumbersOK
<1> QED BY <1>15 DEF W

(* The table.                                                              *)
LEMMA VisitTable ==
  ASSUME NEW g, PassInv(g), NEW s, NEW V, NEW rep, V \subseteq ActiveOps(g), TableOK(g, s.table, s.vn, V),
         NEW o \in ActiveOps(g), NEW r, Kind(g, s, V, rep, o, r),
         Visited(g, s, V, o, r, Visit(g, s, o))
  PROVE  TableOK(g, Visit(g, s, o).table, Visit(g, s, o).vn, V \cup {o})
<1> DEFINE rets == g.ops[o].rets
           t == Visit(g, s, o)
           W == V \cup {o}
           E(q, k) == Expr(g, s.vn, q, k)
           new == Entries(g, s, o)
<1>1. t.table = Over(s.table, new)
  BY VisitIs
<1>2. DOMAIN new = Exprs(g, s, o)
  BY DEF Entries
<1>3. \A k \in DOMAIN rets : E(o, k) \in Exprs(g, s, o) /\ new[E(o, k)] = rets[k]
  BY DEF Entries, Exprs, Expr
<1>4. \A e \in Exprs(g, s, o) : \E k \in DOMAIN rets : e = E(o, k)
  BY DEF Exprs
<1> HIDE DEF new, t, E
<1>5. /\ DOMAIN t.table = DOMAIN s.table \cup Exprs(g, s, o)
      /\ \A e \in DOMAIN s.table : t.table[e] = s.table[e]
      /\ \A e \in Exprs(g, s, o) : e \notin DOMAIN s.table => t.table[e] = new[e]
  <2> DEFINE a == s.table
  <2>1. /\ DOMAIN Over(a, new) = DOMAIN a \cup DOMAIN new
        /\ \A e \in DOMAIN a : Over(a, new)[e] = a[e]
        /\ \A e \in DOMAIN new : e \notin DOMAIN a => Over(a, new)[e] = new[e]
    <3> HIDE DEF a
    <3> QED BY OverIs
  <2>2. t.table = Over(a, new)
    BY <1>1
  <2> QED BY <1>2, <2>1, <2>2
<1>6. \A q \in W : \A k : Expr(g, t.vn, q, k) = E(q, k)
  BY DEF Visited, t, E
<1>7. ASSUME NEW q \in W, NEW k \in DOMAIN g.ops[q].rets
      PROVE  E(q, k) \in DOMAIN t.table /\ t.table[E(q, k)] = t.vn[g.ops[q].rets[k]]
  <2>1. CASE q = o
    <3>1. t.vn[rets[k]] = First(g, s, o)[k]
      BY <2>1 DEF Visited, Kind, t
    <3>2. CASE k \in Known(g, s, o)
      <4>1. E(o, k) \in DOMAIN s.table /\ First(g, s, o)[k] = s.table[E(o, k)]
        BY <2>1, <3>2 DEF Known, First, E
      <4> QED BY <1>5, <2>1, <3>1, <4>1
    <3>3. CASE k \notin Known(g, s, o)
      <4>1. E(o, k) \notin DOMAIN s.table /\ First(g, s, o)[k] = rets[k]
        BY <2>1, <3>3 DEF Known, First, E
      <4> QED BY <1>3, <1>5, <2>1, <3>1, <4>1
    <3> QED BY <3>2, <3>3
  <2>2. CASE q # o
    <3>1. q \in V /\ q \in ActiveOps(g)
      BY <2>2
    <3>2. g.ops[q].rets[k] \in ValIds(g) /\ Producer(g, g.ops[q].rets[k]) = q
      BY <3>1, ResultAt
    <3>3. t.vn[g.ops[q].rets[k]] = s.vn[g.ops[q].rets[k]]
      BY <3>1, <3>2 DEF Visited, t
    <3>4. E(q, k) \in DOMAIN s.table /\ s.table[E(q, k)] = s.vn[g.ops[q].rets[k]]
      BY <3>1 DEF TableOK, E
    <3> QED BY <1>5, <3>3, <3>4
  <2> QED BY <2>1, <2>2
<1>8. ASSUME NEW e \in DOMAIN t.table
      PROVE  \E q \in W : \E k \in DOMAIN g.ops[q].rets : e = E(q, k)
  <2>1. CASE e \in DOMAIN s.table
    <3>1. \E q \in V : \E k \in DOMAIN g.ops[q].rets : e = E(q, k)
      BY <2>1 DEF TableOK, E
    <3> QED BY <3>1
  <2>2. CASE e \in Exprs(g, s, o)
    BY <1>4, <2>2
  <2> QED BY <1>5, <2>1, <2>2
<1>9. \A q \in W : \A k \in DOMAIN g.ops[q].rets :
        Expr(g, t.vn, q, k) \in DOMAIN t.table /\ t.table[Expr(g, t.vn, q, k)] = t.vn[g.ops[q].rets[k]]
  BY <1>6, <1>7
<1>10. \A e \in DOMAIN t.table : \E q \in W : \E k \in DOMAIN g.ops[q].rets : e = Expr(g, t.vn, q, k)
  BY <1>6, <1>8
<1> QED BY <1>9, <1>10 DEF TableOK, t

(* The pairs to be replaced: each result once that has a new number.       *)
LEMMA PairsAdded ==
  ASSUME NEW rets, NEW first, NEW L \in Nat
  PROVE  /\ Added(rets, 1 .. L, first) = [n \in 1 .. L |-> [old |-> rets[n], new |-> first[n]]]
         /\ Added(rets, {}, first) = << >>
<1>1. Cardinality(1 .. L) = L
  BY FS_Interval
<1>2. ASSUME NEW n \in 1 .. L PROVE Place(1 .. L, n) = n
  <2>1. ASSUME NEW k \in 1 .. L PROVE Cardinality({l \in 1 .. L : l < k}) = k - 1
    <3>1. {l \in 1 .. L : l < k} = 1 .. k - 1
      OBVIOUS
    <3>2. k - 1 \in Nat
      OBVIOUS
    <3>3. Cardinality(1 .. k - 1) = k - 1
      BY <3>2, FS_Interval
    <3> QED BY <3>1, <3>3
  <2>2. \A k \in 1 .. L : Cardinality({l \in 1 .. L : l < k}) = n - 1 <=> k = n
    BY <2>1
  <2> QED BY <2>2 DEF Place
<1>3. Added(rets, 1 .. L, first) = [n \in 1 .. L |-> [old |-> rets[n], new |-> first[n]]]
  BY <1>1, <1>2 DEF Added
<1>4. Cardinality({}) = 0 /\ 1 .. 0 = {}
  BY FS_EmptySet
<1>5. Added(rets, {}, first) = << >>
  BY <1>4 DEF Added
<1> QED BY <1>3, <1>5

LEMMA VisitReplace ==
  ASSUME NEW g, PassInv(g), NEW s, NEW V, NEW rep, V \subseteq ActiveOps(g),
         ReplaceOK(g, s.replace, s.vn), NEW o \in ActiveOps(g), o \notin V,
         NEW r, Kind(g, s, V, rep, o, r), Visited(g, s, V, o, r, Visit(g, s, o))
  PROVE  ReplaceOK(g, Visit(g, s, o).replace, Visit(g, s, o).vn)
<1>0. /\ o \in OpIds(g)
      /\ DOMAIN g.ops[o].rets = 1 .. Len(g.ops[o].rets) /\ Len(g.ops[o].rets) \in Nat
      /\ \A k \in DOMAIN g.ops[o].rets :
              /\ g.ops[o].rets[k] \in ActiveVals(g) /\ g.ops[o].rets[k] \in ValIds(g)
              /\ Producer(g, g.ops[o].rets[k]) = o /\ g.vals[g.ops[o].rets[k]].origin.pos = k
      /\ \A v \in ValIds(g) : Producer(g, v) = o =>
              /\ g.vals[v].origin.pos \in DOMAIN g.ops[o].rets
              /\ g.ops[o].rets[g.vals[v].origin.pos] = v
  BY ResultsAre
<1> DEFINE rets == g.ops[o].rets
           L == Len(rets)
           t == Visit(g, s, o)
           known == Known(g, s, o)
           first == First(g, s, o)
           old == s.replace
           new == Added(rets, known, first)
<1>1. t.replace = old \o new
  BY VisitIs
<1>2. /\ L \in Nat /\ DOMAIN rets = 1 .. L
      /\ \A k \in 1 .. L : rets[k] \in ActiveVals(g) /\ rets[k] \in ValIds(g) /\ Producer(g, rets[k]) = o
      /\ \A v \in ValIds(g) : Producer(g, v) = o => g.vals[v].origin.pos \in 1 .. L /\ rets[g.vals[v].origin.pos] = v
  BY <1>0
<1>3. /\ \A k \in 1 .. L : t.vn[rets[k]] = g.ops[r].rets[k] /\ first[k] = g.ops[r].rets[k]
      /\ DOMAIN s.vn = {v \in ValIds(g) : Producer(g, v) \in V}
      /\ DOMAIN t.vn = {v \in ValIds(g) : Producer(g, v) \in V \cup {o}}
      /\ \A v \in DOMAIN s.vn : t.vn[v] = s.vn[v]
  BY <1>2 DEF Visited, Kind
<1>4. /\ old \in Seq(Pairs(g)) /\ Len(old) \in Nat
      /\ \A n \in 1 .. Len(old) : old[n].old \in DOMAIN s.vn /\ old[n].new = s.vn[old[n].old] /\ old[n].new # old[n].old
      /\ \A v \in DOMAIN s.vn : s.vn[v] # v => \E n \in 1 .. Len(old) : old[n].old = v
  BY DEF ReplaceOK
<1>5. \A n \in 1 .. Len(old) : old[n].old \in DOMAIN t.vn /\ old[n].new = t.vn[old[n].old]
  <2>1. DOMAIN s.vn \subseteq DOMAIN t.vn
    BY <1>3
  <2> HIDE DEF t, old
  <2> QED BY <1>3, <1>4, <2>1
<1> HIDE DEF t, first, known, new, old
<1>6. CASE r \in V
  <2>1. known = 1 .. L
    BY <1>2, <1>6 DEF Kind, known
  <2>2. new = [n \in 1 .. L |-> [old |-> rets[n], new |-> first[n]]]
    BY <1>2, <2>1, PairsAdded DEF new
  <2>3. r \in ActiveOps(g) /\ r # o /\ DOMAIN g.ops[r].rets = 1 .. L
    BY <1>2, <1>6 DEF Kind
  <2>4. \A k \in 1 .. L : first[k] \in ActiveVals(g) /\ Producer(g, first[k]) = r
    <3>1. ASSUME NEW k \in DOMAIN g.ops[r].rets
          PROVE  g.ops[r].rets[k] \in ActiveVals(g) /\ Producer(g, g.ops[r].rets[k]) = r
      <4>1. r \in ActiveOps(g)
        BY <2>3
      <4> QED BY <4>1, ResultAt
    <3> QED BY <1>3, <2>3, <3>1
  <2>5. \A n \in 1 .. L : new[n] \in Pairs(g) /\ new[n].old = rets[n] /\ new[n].new = first[n]
    BY <1>2, <2>2, <2>4 DEF Pairs
  <2>6. new \in Seq(Pairs(g)) /\ Len(new) = L
    <3>1. new = [n \in 1 .. L |-> new[n]]
      BY <2>2
    <3> HIDE DEF L
    <3> QED BY <1>2, <2>5, <3>1
  <2>7. /\ t.replace \in Seq(Pairs(g)) /\ Len(t.replace) = Len(old) + L
        /\ \A n \in 1 .. Len(old) : t.replace[n] = old[n]
        /\ \A n \in 1 .. L : t.replace[Len(old) + n] = new[n]
    <3> DEFINE P == Pairs(g)
    <3>1. old \in Seq(P) /\ new \in Seq(P) /\ Len(new) = L
      BY <1>4, <2>6
    <3> HIDE DEF L, P
    <3>2. /\ old \o new \in Seq(P) /\ Len(old \o new) = Len(old) + Len(new)
          /\ \A n \in 1 .. Len(old) : (old \o new)[n] = old[n]
          /\ \A n \in 1 .. Len(new) : (old \o new)[Len(old) + n] = new[n]
      <4>1. old \o new \in Seq(P) /\ Len(old \o new) = Len(old) + Len(new)
        BY <3>1
      <4>2. ASSUME NEW n \in 1 .. Len(old) PROVE (old \o new)[n] = old[n]
        BY <3>1
      <4>3. ASSUME NEW n \in 1 .. Len(new) PROVE (old \o new)[Len(old) + n] = new[n]
        BY <3>1
      <4> QED BY <4>1, <4>2, <4>3
    <3> QED BY <1>1, <3>1, <3>2 DEF P
  <2>8. ASSUME NEW n \in 1 .. Len(t.replace)
        PROVE  t.replace[n].old \in DOMAIN t.vn /\ t.replace[n].new = t.vn[t.replace[n].old] /\ t.replace[n].new # t.replace[n].old
    <3>1. CASE n \in 1 .. Len(old)
      BY <1>4, <1>5, <2>7, <3>1
    <3>2. CASE n \notin 1 .. Len(old)
      <4> DEFINE k == n - Len(old)
      <4>1. k \in 1 .. L /\ n = Len(old) + k
        <5> HIDE DEF L
        <5> QED BY <1>2, <1>4, <2>7, <3>2
      <4> HIDE DEF k, L, rets
      <4>2. t.replace[n].old = rets[k] /\ t.replace[n].new = first[k]
        BY <2>5, <2>7, <4>1
      <4>3. rets[k] \in DOMAIN t.vn /\ first[k] = t.vn[rets[k]]
        BY <1>2, <1>3, <4>1
      <4>4. first[k] # rets[k]
        BY <1>2, <2>3, <2>4, <4>1
      <4> QED BY <4>2, <4>3, <4>4
    <3> QED BY <3>1, <3>2
  <2>9. ASSUME NEW v \in DOMAIN t.vn, t.vn[v] # v PROVE \E n \in 1 .. Len(t.replace) : t.replace[n].old = v
    <3>1. CASE v \in DOMAIN s.vn
      <4>1. PICK n \in 1 .. Len(old) : old[n].old = v
        BY <1>3, <1>4, <2>9, <3>1
      <4>2. n \in 1 .. Len(t.replace)
        <5> HIDE DEF L
        <5> QED BY <1>2, <1>4, <2>7
      <4> QED BY <2>7, <4>1, <4>2
    <3>2. CASE v \notin DOMAIN s.vn
      <4>1. v \in ValIds(g) /\ Producer(g, v) = o
        BY <1>3, <3>2
      <4>2. PICK k \in 1 .. L : rets[k] = v
        BY <1>2, <4>1
      <4> HIDE DEF L, rets
      <4>3. Len(old) + k \in 1 .. Len(t.replace)
        BY <1>2, <1>4, <2>7
      <4>4. t.replace[Len(old) + k].old = v
        BY <2>5, <2>7, <4>2
      <4> QED BY <4>3, <4>4
    <3> QED BY <3>1, <3>2
  <2> QED BY <2>7, <2>8, <2>9 DEF ReplaceOK, t
<1>7. CASE r \notin V
  <2>1. r = o /\ known = {}
    BY <1>7 DEF Kind, known
  <2>2. new = << >>
    BY <2>1, PairsAdded DEF new
  <2>3. t.replace = old
    <3>1. t.replace = old \o << >>
      BY <1>1, <2>2
    <3> QED BY <1>4, <3>1
  <2>4. ASSUME NEW v \in DOMAIN t.vn, t.vn[v] # v PROVE v \in DOMAIN s.vn
    <3> SUFFICES ASSUME v \notin DOMAIN s.vn PROVE FALSE
      OBVIOUS
    <3>1. v \in ValIds(g) /\ Producer(g, v) = o
      BY <1>3
    <3>2. PICK k \in 1 .. L : rets[k] = v
      BY <1>2, <3>1
    <3> QED BY <1>3, <2>1, <2>4, <3>2
  <2>5. \A v \in DOMAIN t.vn : t.vn[v] # v => \E n \in 1 .. Len(old) : old[n].old = v
    BY <1>3, <1>4, <2>4
  <2> QED BY <1>4, <1>5, <2>3, <2>5 DEF ReplaceOK, t
<1> QED BY <1>6, <1>7

LEMMA VisitKeeps ==
  ASSUME NEW g, PassInv(g), NEW s, NEW V, NumberingOK(g, s, V),
         NEW o \in ActiveOps(g), o \notin V, Predecessors(g, o) \subseteq V,
         \A q \in V : g.depth[q] <= g.depth[o]
  PROVE  NumberingOK(g, Visit(g, s, o), V \cup {o})
<1>1. PICK rep : NumbersOK(g, s.vn, V, rep)
  BY DEF NumberingOK
<1>2. TableOK(g, s.table, s.vn, V) /\ ReplaceOK(g, s.replace, s.vn) /\ V \subseteq ActiveOps(g)
  BY <1>1 DEF NumberingOK, NumbersOK
<1>3. PICK r : Kind(g, s, V, rep, o, r)
  BY <1>1, <1>2, KindOf
<1> DEFINE t == Visit(g, s, o)
<1>4. Visited(g, s, V, o, r, t)
  BY <1>1, <1>3, VisitValues
<1>5. \E f : NumbersOK(g, t.vn, V \cup {o}, f)
  <2> HIDE DEF t
  <2> QED BY <1>1, <1>3, <1>4, VisitNumbers
<1>6. TableOK(g, t.table, t.vn, V \cup {o})
  BY <1>2, <1>3, <1>4, VisitTable
<1>7. ReplaceOK(g, t.replace, t.vn)
  BY <1>2, <1>3, <1>4, VisitReplace
<1> HIDE DEF t
<1>8. NumberingOK(g, t, V \cup {o})
  BY <1>5, <1>6, <1>7 DEF NumberingOK
<1> QED BY <1>8 DEF t

(* After the walk every active operation has been numbered.                *)
LEMMA Numbered ==
  ASSUME NEW g, PassInv(g)
  PROVE  NumberingOK(g, Numbering(g), ActiveOps(g))
<1> DEFINE A == ActiveOps(g)
           N == Cardinality(A)
           order == Topological(g)
           S(n) == Numberings(g)[n]
           Seen(n) == {order[m] : m \in 1 .. n}
           Bad == {n \in Nat : n <= N /\ ~NumberingOK(g, S(n), Seen(n))}
<1>1. /\ N \in Nat
      /\ \A n \in 1 .. N : order[n] \in A
      /\ \A o \in A : \E n \in 1 .. N : order[n] = o
      /\ \A m, n \in 1 .. N : m < n => order[m] # order[n] /\ g.depth[order[m]] <= g.depth[order[n]]
  <2>1. A \in SUBSET OpIds(g) /\ DepthInv(g)
    BY DEF PassInv, ActiveOps
  <2> QED BY <2>1, ByDepthIs DEF Topological
<1>2. S(0) = Unnumbered /\ \A n \in 1 .. N : S(n) = Visit(g, S(n - 1), order[n])
  BY <1>1, NumberingsAre
<1>3. ASSUME NEW n \in 1 .. N, NEW p \in Predecessors(g, order[n])
      PROVE  \E m \in 1 .. N : m < n /\ order[m] = p
  BY WalkSorted DEF PassInv
<1> HIDE DEF S, order, N
<1>4. ASSUME NEW n \in Bad, \A k \in Bad : n <= k PROVE FALSE
  <2>1. CASE n = 0
    <3>1. Seen(0) = {}
      OBVIOUS
    <3> DEFINE rep == [x \in {} |-> x]
    <3>2. rep \in [{} -> {}]
      OBVIOUS
    <3>3. /\ Unnumbered.vn = << >> /\ Unnumbered.table = << >> /\ Unnumbered.replace = << >>
          /\ DOMAIN << >> = {}
      BY DEF Unnumbered
    <3>4. \E f : NumbersOK(g, Unnumbered.vn, {}, f)
      <4> HIDE DEF rep
      <4>1. {v \in ValIds(g) : Producer(g, v) \in {}} = {}
        OBVIOUS
      <4>2. NumbersOK(g, Unnumbered.vn, {}, rep)
        BY <3>2, <3>3, <4>1 DEF NumbersOK
      <4> QED BY <4>2
    <3>5. TableOK(g, Unnumbered.table, Unnumbered.vn, {})
      BY <3>3 DEF TableOK
    <3>6. ReplaceOK(g, Unnumbered.replace, Unnumbered.vn)
      <4>1. << >> \in Seq(Pairs(g)) /\ Len(<< >>) = 0
        OBVIOUS
      <4> QED BY <3>3, <4>1 DEF ReplaceOK
    <3>7. NumberingOK(g, Unnumbered, {})
      BY <3>4, <3>5, <3>6 DEF NumberingOK
    <3> QED BY <1>2, <2>1, <3>1, <3>7
  <2>2. CASE n # 0
    <3> DEFINE k == n - 1
               o == order[n]
    <3>1. k \in Nat /\ ~ (n <= k) /\ k <= N /\ n = k + 1 /\ n \in 1 .. N
      BY <1>1, <2>2
    <3>2. NumberingOK(g, S(k), Seen(k))
      BY <1>4, <3>1
    <3>3. S(n) = Visit(g, S(k), o) /\ o \in ActiveOps(g)
      BY <1>1, <1>2, <3>1
    <3>4. Seen(n) = Seen(k) \cup {o} /\ o \notin Seen(k)
      BY <1>1, <3>1
    <3>5. Predecessors(g, o) \subseteq Seen(k)
      <4> SUFFICES ASSUME NEW p \in Predecessors(g, o) PROVE p \in Seen(k)
        OBVIOUS
      <4>1. PICK m \in 1 .. N : m < n /\ order[m] = p
        BY <1>3, <3>1
      <4>2. m \in 1 .. k
        BY <1>1, <3>1, <4>1
      <4> QED BY <4>1, <4>2
    <3>6. \A q \in Seen(k) : g.depth[q] <= g.depth[o]
      BY <1>1, <3>1
    <3> HIDE DEF o, k, Seen
    <3>7. NumberingOK(g, S(n), Seen(n))
      BY <3>2, <3>3, <3>4, <3>5, <3>6, VisitKeeps
    <3> QED BY <3>7
  <2> QED BY <2>1, <2>2
<1>5. Bad = {}
  <2>1. Bad \in SUBSET Nat
    OBVIOUS
  <2> HIDE DEF Bad
  <2> QED BY <1>4, <2>1, NatMin
<1>6. Seen(N) = A
  BY <1>1
<1>7. NumberingOK(g, S(N), Seen(N))
  BY <1>1, <1>5
<1> QED BY <1>6, <1>7 DEF Numbering, S, N

(* A value's number is an active value of the same kind that is its own.   *)
LEMMA NumberOf ==
  ASSUME NEW g, PassInv(g), NEW vn, NEW rep, NumbersOK(g, vn, ActiveOps(g), rep)
  PROVE  /\ DOMAIN vn = ActiveVals(g)
         /\ \A v \in ActiveVals(g) :
              /\ vn[v] \in ActiveVals(g) /\ vn[vn[v]] = vn[v]
              /\ Producer(g, vn[v]) = rep[Producer(g, v)]
              /\ g.vals[vn[v]].origin.pos = g.vals[v].origin.pos
              /\ g.vals[vn[v]].type = g.vals[v].type
              /\ ValDepth(g, vn[v]) <= ValDepth(g, v)
<1>0. GraphOK(g) /\ DepthInv(g)
  BY DEF PassInv, DepthInv
<1>1. ActiveVals(g) = {v \in ValIds(g) : Producer(g, v) \in ActiveOps(g)}
  <2>1. ASSUME NEW v \in ValIds(g)
        PROVE  g.vals[v].active = g.ops[Producer(g, v)].active /\ Producer(g, v) \in OpIds(g)
    BY <1>0 DEF GraphOK, LiveOK, LinksOK, Producer
  <2> QED BY <2>1 DEF ActiveVals, ActiveOps
<1>2. DOMAIN vn = ActiveVals(g)
  BY <1>1 DEF NumbersOK
<1>3. ASSUME NEW v \in ActiveVals(g)
      PROVE  /\ vn[v] \in ActiveVals(g) /\ vn[vn[v]] = vn[v]
             /\ Producer(g, vn[v]) = rep[Producer(g, v)]
             /\ g.vals[vn[v]].origin.pos = g.vals[v].origin.pos
             /\ g.vals[vn[v]].type = g.vals[v].type
             /\ ValDepth(g, vn[v]) <= ValDepth(g, v)
  <2> DEFINE o == Producer(g, v)
             k == g.vals[v].origin.pos
             r == rep[o]
  <2>1. o \in ActiveOps(g) /\ o \in OpIds(g) /\ k \in DOMAIN g.ops[o].rets /\ g.ops[o].rets[k] = v /\ v \in ValIds(g)
    BY <1>0, ValuesBy
  <2>2. /\ r \in ActiveOps(g) /\ Key(g, vn, r) = Key(g, vn, o) /\ g.depth[r] <= g.depth[o] /\ rep[r] = r
        /\ vn[v] = g.ops[r].rets[k]
    <3>1. /\ rep \in [ActiveOps(g) -> ActiveOps(g)]
          /\ \A p \in ActiveOps(g) : Key(g, vn, rep[p]) = Key(g, vn, p) /\ g.depth[rep[p]] <= g.depth[p]
                                    /\ rep[rep[p]] = rep[p]
          /\ \A p \in ActiveOps(g) : \A l \in DOMAIN g.ops[p].rets : vn[g.ops[p].rets[l]] = g.ops[rep[p]].rets[l]
      BY DEF NumbersOK
    <3>2. vn[g.ops[o].rets[k]] = g.ops[r].rets[k]
      BY <2>1, <3>1
    <3> HIDE DEF o, k
    <3> QED BY <2>1, <3>1, <3>2
  <2>3. r \in OpIds(g) /\ g.ops[r].ins = g.ops[o].ins
    BY <2>2 DEF Key, ActiveOps
  <2>4. k \in DOMAIN g.ops[r].rets
    BY <2>1, <2>3 DEF PassInv, SignedOK
  <2> HIDE DEF o, k, r
  <2>5. vn[v] \in ActiveVals(g) /\ vn[v] \in ValIds(g) /\ Producer(g, vn[v]) = r /\ g.vals[vn[v]].origin.pos = k
    <3>1. r \in ActiveOps(g)
      BY <2>2
    <3>2. /\ g.ops[r].rets[k] \in ActiveVals(g) /\ g.ops[r].rets[k] \in ValIds(g)
          /\ Producer(g, g.ops[r].rets[k]) = r /\ g.vals[g.ops[r].rets[k]].origin.pos = k
      BY <2>4, <3>1, ResultAt
    <3> QED BY <2>2, <3>2
  <2>6. vn[vn[v]] = vn[v]
    BY <2>2, <2>4 DEF NumbersOK
  <2>7. g.vals[vn[v]].type = Signature[g.ops[r].ins].rets[k]
    BY <2>5 DEF PassInv, SignedOK
  <2>8. g.vals[v].type = Signature[g.ops[o].ins].rets[k]
    BY <2>1 DEF PassInv, SignedOK, o, k
  <2>9. ValDepth(g, vn[v]) = g.depth[r] /\ ValDepth(g, v) = g.depth[o]
    BY <2>5 DEF ValDepth, o
  <2> QED BY <2>2, <2>3, <2>5, <2>6, <2>7, <2>8, <2>9 DEF o, k, r
<1> QED BY <1>2, <1>3

LEMMA ArgsFinite ==
  ASSUME NEW g, PassInv(g), NEW o \in ActiveOps(g)
  PROVE  IsFiniteSet(DOMAIN g.ops[o].args)
<1>1. g.ops[o].args \in Seq(Nat)
  BY StoreFacts DEF PassInv, DepthInv, GraphOK, ActiveOps, OpIds, OpRecord
<1>2. Len(g.ops[o].args) \in Nat /\ DOMAIN g.ops[o].args = 1 .. Len(g.ops[o].args)
  BY <1>1
<1> QED BY <1>2, FS_Interval

(* Terms agree where instruction, position and arguments do.               *)
LEMMA TermsAgree ==
  ASSUME NEW g, NEW h, NEW t, NEW u, NEW v, NEW w
  PROVE  LET p == g.ops[Producer(g, v)]
             q == h.ops[Producer(h, w)]
         IN  TermBy(g, t, v) = TermBy(h, u, w) <=>
               /\ p.ins = q.ins /\ g.vals[v].origin.pos = h.vals[w].origin.pos
               /\ Normal(p.ins, Read(t, p.args)) = Normal(p.ins, Read(u, q.args))
BY DEF TermBy, Read

(* Values with one number compute the same.                                *)
LEMMA NumbersSound ==
  ASSUME NEW g, PassInv(g), NEW vn, NEW rep, NumbersOK(g, vn, ActiveOps(g), rep)
  PROVE  \A v \in ActiveVals(g) : Terms(g)[vn[v]] = Terms(g)[v]
<1> DEFINE T == Terms(g)
           Bad == {m \in Nat : \E v \in ActiveVals(g) : ValDepth(g, v) = m /\ T[vn[v]] # T[v]}
<1>0. DepthInv(g)
  BY DEF PassInv
<1> HIDE DEF T
<1>1. ASSUME NEW m \in Bad, \A k \in Bad : m <= k PROVE FALSE
  <2>1. PICK v \in ActiveVals(g) : ValDepth(g, v) = m /\ T[vn[v]] # T[v]
    OBVIOUS
  <2> DEFINE o == Producer(g, v)
             r == rep[o]
             w == vn[v]
             x == g.ops[r].args
             y == g.ops[o].args
  <2>2. w \in ActiveVals(g) /\ Producer(g, w) = r /\ g.vals[w].origin.pos = g.vals[v].origin.pos
    BY NumberOf
  <2>3. o \in ActiveOps(g) /\ r \in ActiveOps(g)
    BY <1>0, <2>2, ValuesBy
  <2>4. Key(g, vn, r) = Key(g, vn, o) /\ g.depth[r] <= g.depth[o]
    BY <2>3 DEF NumbersOK
  <2>5. ASSUME NEW q \in {o, r}, NEW i \in DOMAIN g.ops[q].args
        PROVE  T[vn[g.ops[q].args[i]]] = T[g.ops[q].args[i]]
    <3> DEFINE a == g.ops[q].args[i]
    <3>1. q \in ActiveOps(g) /\ g.depth[q] <= g.depth[o] /\ g.depth[o] \in Nat /\ g.depth[q] \in Nat
      BY <1>0, <2>3, <2>4 DEF DepthInv, DepthsOK, Depths, ActiveOps
    <3>2. a \in ActiveVals(g) /\ ValDepth(g, a) \in Nat /\ ValDepth(g, a) < g.depth[q]
      BY <1>0, <3>1, ValuesUp
    <3>3. ~ (m <= ValDepth(g, a))
      BY <2>1, <3>1, <3>2 DEF ValDepth
    <3> HIDE DEF a
    <3> QED BY <1>1, <3>2, <3>3 DEF a
  <2> HIDE DEF o, r, w
  <2>6. \A i \in DOMAIN x, j \in DOMAIN y : vn[x[i]] = vn[y[j]] => T[x[i]] = T[y[j]]
    <3>1. \A i \in DOMAIN x : T[vn[x[i]]] = T[x[i]]
      BY <2>5
    <3>2. \A j \in DOMAIN y : T[vn[y[j]]] = T[y[j]]
      BY <2>5
    <3> HIDE DEF x, y
    <3> QED BY <3>1, <3>2
  <2>7. IsFiniteSet(DOMAIN x) /\ IsFiniteSet(DOMAIN y)
    BY <2>3, ArgsFinite
  <2> DEFINE ins == g.ops[o].ins
  <2>8. g.ops[r].ins = ins
        /\ Normal(ins, Read(vn, x)) = Normal(ins, Read(vn, y))
    BY <2>4 DEF Key, Read
  <2> HIDE DEF x, y, ins
  <2>9. Normal(ins, Read(T, x)) = Normal(ins, Read(T, y))
    BY <2>6, <2>7, <2>8, NormalCarries
  <2>10. TermBy(g, T, w) = TermBy(g, T, v)
    BY <2>2, <2>8, <2>9, TermsAgree DEF x, y, ins, o
  <2>11. T[w] = TermBy(g, T, w) /\ T[v] = TermBy(g, T, v)
    BY <1>0, <2>2, TermsAre DEF T
  <2> QED BY <2>1, <2>10, <2>11 DEF w
<1>2. Bad = {}
  <2>1. Bad \in SUBSET Nat
    OBVIOUS
  <2> HIDE DEF Bad
  <2> QED BY <1>1, <2>1, NatMin
<1> QED BY <1>0, <1>2, ValuesBy DEF T

(* Values that compute the same have one number.                           *)
LEMMA NumbersComplete ==
  ASSUME NEW g, PassInv(g), NEW vn, NEW rep, NumbersOK(g, vn, ActiveOps(g), rep)
  PROVE  \A v, w \in ActiveVals(g) : Terms(g)[v] = Terms(g)[w] => vn[v] = vn[w]
<1> DEFINE T == Terms(g)
           Bad == {m \in Nat : \E v, w \in ActiveVals(g) :
                                  ValDepth(g, v) = m /\ T[v] = T[w] /\ vn[v] # vn[w]}
<1>0. DepthInv(g)
  BY DEF PassInv
<1> HIDE DEF T
<1>1. ASSUME NEW m \in Bad, \A k \in Bad : m <= k PROVE FALSE
  <2>1. PICK v \in ActiveVals(g), w \in ActiveVals(g) :
          ValDepth(g, v) = m /\ T[v] = T[w] /\ vn[v] # vn[w]
    OBVIOUS
  <2> DEFINE o == Producer(g, v)
             q == Producer(g, w)
             x == g.ops[o].args
             y == g.ops[q].args
             ins == g.ops[o].ins
  <2>2. /\ o \in ActiveOps(g) /\ g.vals[v].origin.pos \in DOMAIN g.ops[o].rets
        /\ g.ops[o].rets[g.vals[v].origin.pos] = v
        /\ q \in ActiveOps(g) /\ g.vals[w].origin.pos \in DOMAIN g.ops[q].rets
        /\ g.ops[q].rets[g.vals[w].origin.pos] = w
    BY <1>0, ValuesBy
  <2>3. T[w] = TermBy(g, T, w) /\ T[v] = TermBy(g, T, v)
    BY <1>0, TermsAre DEF T
  <2>4. /\ g.ops[q].ins = ins /\ g.vals[v].origin.pos = g.vals[w].origin.pos
        /\ Normal(ins, Read(T, x)) = Normal(ins, Read(T, y))
    BY <2>1, <2>3, TermsAgree
  <2>5. ASSUME NEW i \in DOMAIN x, NEW j \in DOMAIN y, T[x[i]] = T[y[j]] PROVE vn[x[i]] = vn[y[j]]
    <3> DEFINE a == x[i]
               b == y[j]
    <3>1. /\ a \in ActiveVals(g) /\ ValDepth(g, a) \in Nat /\ ValDepth(g, a) < g.depth[o] /\ g.depth[o] \in Nat
          /\ b \in ActiveVals(g)
      BY <1>0, <2>2, ValuesUp
    <3>2. ~ (m <= ValDepth(g, a))
      BY <2>1, <3>1 DEF ValDepth
    <3> HIDE DEF a, b
    <3>3. T[a] = T[b] => vn[a] = vn[b]
      BY <1>1, <3>1, <3>2
    <3> QED BY <2>5, <3>3 DEF a, b
  <2>6. IsFiniteSet(DOMAIN x) /\ IsFiniteSet(DOMAIN y)
    BY <2>2, ArgsFinite
  <2> HIDE DEF o, q, x, y, ins
  <2>7. Normal(ins, Read(vn, x)) = Normal(ins, Read(vn, y))
    BY <2>4, <2>5, <2>6, NormalCarries
  <2>8. Key(g, vn, o) = Key(g, vn, q)
    BY <2>4, <2>7 DEF Key, x, y, ins, Read
  <2>9. rep[o] = rep[q]
    BY <2>2, <2>8 DEF NumbersOK
  <2>10. vn[v] = g.ops[rep[o]].rets[g.vals[v].origin.pos] /\ vn[w] = g.ops[rep[q]].rets[g.vals[w].origin.pos]
    <3>1. \A p \in ActiveOps(g) : \A k \in DOMAIN g.ops[p].rets : vn[g.ops[p].rets[k]] = g.ops[rep[p]].rets[k]
      BY DEF NumbersOK
    <3>2. vn[g.ops[o].rets[g.vals[v].origin.pos]] = g.ops[rep[o]].rets[g.vals[v].origin.pos]
      BY <2>2, <3>1
    <3>3. vn[g.ops[q].rets[g.vals[w].origin.pos]] = g.ops[rep[q]].rets[g.vals[w].origin.pos]
      BY <2>2, <3>1
    <3> QED BY <2>2, <3>2, <3>3
  <2> QED BY <2>1, <2>4, <2>9, <2>10
<1>2. Bad = {}
  <2>1. Bad \in SUBSET Nat
    OBVIOUS
  <2> HIDE DEF Bad
  <2> QED BY <1>1, <2>1, NatMin
<1> QED BY <1>0, <1>2, ValuesBy DEF T

-----------------------------------------------------------------------------
(* Replacements.                                                           *)

(* No path leads to a lower rank.                                          *)
LEMMA ReachesRank ==
  ASSUME NEW g, DepthInv(g), NEW rank, Ranked(g, rank), NEW p \in OpIds(g), NEW o \in OpIds(g),
         Reaches(g, o, p)
  PROVE  rank[o] <= rank[p]
<1> DEFINE Gap(x, m) == g.depth[p] = g.depth[x] + m
           Bad == {m \in Nat : \E x \in OpIds(g) : Reaches(g, x, p) /\ Gap(x, m) /\ ~ (rank[x] <= rank[p])}
<1>1. /\ GraphOK(g) /\ Ranked(g, g.depth)
      /\ \A x \in OpIds(g) : g.depth[x] \in Nat /\ rank[x] \in Nat
  BY DepthsRank DEF DepthInv, DepthsOK, Ranked, Depths
<1>2. ASSUME NEW m \in Bad, \A k \in Bad : m <= k PROVE FALSE
  <2>1. PICK x \in OpIds(g) : Reaches(g, x, p) /\ Gap(x, m) /\ ~ (rank[x] <= rank[p])
    OBVIOUS
  <2>2. x # p
    BY <1>1, <2>1
  <2>3. PICK u \in UsersOfOp(g, x) : u = p \/ Reaches(g, u, p)
    BY <1>1, <2>1, <2>2, ReachesIs
  <2>4. u \in OpIds(g) /\ x \in Predecessors(g, u)
    BY <1>1, <2>3, UsersAre DEF ActiveOps
  <2>5. rank[x] < rank[u] /\ g.depth[x] < g.depth[u]
    BY <1>1, <2>4 DEF Ranked
  <2>6. u # p /\ Reaches(g, u, p) /\ ~ (rank[u] <= rank[p])
    BY <1>1, <2>1, <2>3, <2>4, <2>5
  <2>7. g.depth[u] < g.depth[p]
    BY <1>1, <2>4, <2>6, ReachesIs
  <2> DEFINE k == g.depth[p] - g.depth[u]
  <2>8. k \in Nat /\ Gap(u, k) /\ ~ (m <= k)
    BY <1>1, <2>1, <2>4, <2>5, <2>7
  <2>9. k \in Bad
    <3> HIDE DEF k, Gap
    <3> QED BY <2>4, <2>6, <2>8
  <2> QED BY <1>2, <2>8, <2>9
<1>3. Bad = {}
  <2>1. Bad \in SUBSET Nat
    OBVIOUS
  <2> HIDE DEF Bad
  <2> QED BY <1>2, <2>1, NatMin
<1> SUFFICES ASSUME ~ (rank[o] <= rank[p]) PROVE FALSE
  OBVIOUS
<1>4. CASE o = p
  BY <1>1, <1>4
<1>5. CASE o # p
  <2> DEFINE m == g.depth[p] - g.depth[o]
  <2>1. g.depth[o] < g.depth[p]
    BY <1>1, <1>5, ReachesIs
  <2>2. m \in Nat /\ Gap(o, m)
    BY <1>1, <2>1
  <2> HIDE DEF m, Gap
  <2>3. m \in Bad
    BY <2>2
  <2> QED BY <1>3, <2>3
<1> QED BY <1>4, <1>5

(* The users of a value take it as an argument.                            *)
LEMMA UserTakes ==
  ASSUME NEW g, GraphOK(g), NEW v \in ValIds(g), NEW u \in Users(g, v)
  PROVE  u \in ActiveOps(g) /\ \E i \in DOMAIN g.ops[u].args : g.ops[u].args[i] = v
<1>1. PICK w \in g.vals[v].users : w.op = u
  BY DEF Users
<1>2. w \in Position
  BY <1>1, StoreFacts DEF GraphOK, ValIds, ValRecord
<1>3. w.pos \in DOMAIN g.ops[w.op].args /\ g.ops[w.op].args[w.pos] = v
  BY <1>1, <1>2 DEF GraphOK, UsesOK
<1> QED BY <1>1, <1>3 DEF Users

(* Arguments only ever move to shallower operations: the depths of the     *)
(* graph before rank every graph on the way.                               *)
Shallower(g, image) ==
  \A v \in ValIds(g) : image[v] \in ValIds(g) /\ ValDepth(g, image[v]) <= ValDepth(g, v)

LEMMA SwappedRanked ==
  ASSUME NEW g, DepthInv(g), NEW h, NEW image, Swapped(g, h, image), Shallower(g, image)
  PROVE  Ranked(h, g.depth)
<1>1. GraphOK(g) /\ Ranked(g, g.depth) /\ g.depth \in Depths(g)
  BY DepthsRank DEF DepthInv, DepthsOK
<1>2. OpIds(h) = OpIds(g) /\ ValIds(h) = ValIds(g)
  BY DEF Swapped, SameShape
<1>3. ASSUME NEW o \in OpIds(g), NEW p \in Predecessors(h, o) PROVE g.depth[p] < g.depth[o]
  <2>1. PICK i \in DOMAIN h.ops[o].args : p = Producer(h, h.ops[o].args[i])
    BY DEF Predecessors
  <2> DEFINE a == g.ops[o].args[i]
             b == image[a]
  <2>2. i \in DOMAIN g.ops[o].args /\ h.ops[o].args[i] = b
    BY <2>1 DEF Swapped
  <2>3. a \in ValIds(g) /\ Producer(g, a) \in Predecessors(g, o)
    BY <1>1, <2>2 DEF GraphOK, LinksOK, Predecessors
  <2>4. ValDepth(g, a) < g.depth[o]
    BY <1>1, <2>3 DEF Ranked, ValDepth
  <2>5. b \in ValIds(g) /\ ValDepth(g, b) <= ValDepth(g, a)
    BY <2>3 DEF Shallower
  <2>6. p = Producer(g, b)
    BY <2>1, <2>2, <2>5 DEF Swapped, SameShape, Producer
  <2>7. Producer(g, a) \in OpIds(g) /\ Producer(g, b) \in OpIds(g)
    BY <1>1, <2>3, <2>5 DEF GraphOK, LinksOK, Producer
  <2> HIDE DEF a, b
  <2> QED BY <1>1, <2>4, <2>5, <2>6, <2>7 DEF Depths, ValDepth
<1> QED BY <1>1, <1>2, <1>3 DEF Ranked, Depths

(* What the first n replacements make of a value.                          *)
ImageOf(g, vn, rs, n) ==
  [v \in ValIds(g) |-> IF \E m \in 1 .. n : rs[m].old = v THEN vn[v] ELSE v]

LEMMA ImageIs ==
  ASSUME NEW g, PassInv(g), NEW vn, NEW rep, NumbersOK(g, vn, ActiveOps(g), rep),
         NEW rs, ReplaceOK(g, rs, vn), NEW n \in Nat, n <= Len(rs)
  PROVE  Shallower(g, ImageOf(g, vn, rs, n))
<1> SUFFICES ASSUME NEW v \in ValIds(g)
             PROVE  ImageOf(g, vn, rs, n)[v] \in ValIds(g)
                    /\ ValDepth(g, ImageOf(g, vn, rs, n)[v]) <= ValDepth(g, v)
  BY DEF Shallower
<1>1. Len(rs) \in Nat
  BY DEF ReplaceOK
<1>2. CASE \E m \in 1 .. n : rs[m].old = v
  <2>1. PICK m \in 1 .. n : rs[m].old = v
    BY <1>2
  <2>2. m \in 1 .. Len(rs)
    BY <1>1
  <2>3. v \in ActiveVals(g)
    BY <2>1, <2>2, NumberOf DEF ReplaceOK
  <2>4. vn[v] \in ActiveVals(g) /\ ValDepth(g, vn[v]) <= ValDepth(g, v)
    BY <2>3, NumberOf
  <2>5. ImageOf(g, vn, rs, n)[v] = vn[v]
    BY <1>2 DEF ImageOf
  <2> QED BY <2>4, <2>5 DEF ActiveVals
<1>3. CASE ~ \E m \in 1 .. n : rs[m].old = v
  <2>1. ImageOf(g, vn, rs, n)[v] = v
    BY <1>3 DEF ImageOf
  <2>2. ValDepth(g, v) \in Nat
    BY DEF PassInv, DepthInv, GraphOK, LinksOK, DepthsOK, Depths, ValDepth, Producer
  <2> QED BY <2>1, <2>2
<1> QED BY <1>2, <1>3

(* One more replacement is legal and moves one more value.                 *)
LEMMA ReplaceStep ==
  ASSUME NEW g, PassInv(g), NEW vn, NEW rep, NumbersOK(g, vn, ActiveOps(g), rep),
         NEW rs, ReplaceOK(g, rs, vn), NEW n \in 1 .. Len(rs),
         NEW h, PassInv(h), Swapped(g, h, ImageOf(g, vn, rs, n - 1))
  PROVE  /\ MayReplace(h, rs[n].old, rs[n].new)
         /\ PassInv(ReplaceValUse(h, rs[n].old, rs[n].new))
         /\ Swapped(g, ReplaceValUse(h, rs[n].old, rs[n].new), ImageOf(g, vn, rs, n))
<1> DEFINE old == rs[n].old
           new == rs[n].new
           was == ImageOf(g, vn, rs, n - 1)
           is == ImageOf(g, vn, rs, n)
           one == [v \in ValIds(h) |-> IF v = old THEN new ELSE v]
           f == ReplaceValUse(h, old, new)
<1>1. GraphOK(g) /\ DepthInv(g) /\ GraphOK(h) /\ DepthInv(h) /\ Len(rs) \in Nat
  BY DEF PassInv, DepthInv, ReplaceOK
<1>2. old \in ActiveVals(g) /\ new = vn[old] /\ new # old /\ new \in ActiveVals(g)
  BY NumberOf DEF ReplaceOK
<1>3. OpIds(h) = OpIds(g) /\ ValIds(h) = ValIds(g)
      /\ \A v \in ValIds(g) : Producer(h, v) = Producer(g, v) /\ h.vals[v].type = g.vals[v].type
  BY DEF Swapped, SameShape, Producer
<1>4. ASSUME NEW v \in ActiveVals(g) PROVE v \in ActiveVals(h)
  <2>1. v \in ValIds(g) /\ g.vals[v].active = g.ops[Producer(g, v)].active /\ Producer(g, v) \in OpIds(g) /\ g.vals[v].active
    BY <1>1 DEF ActiveVals, GraphOK, LiveOK, LinksOK, Producer
  <2>2. h.vals[v].active = h.ops[Producer(g, v)].active
    BY <1>1, <1>3, <2>1 DEF GraphOK, LiveOK
  <2>3. h.ops[Producer(g, v)].active
    BY <2>1 DEF Swapped
  <2> QED BY <1>3, <2>1, <2>2, <2>3 DEF ActiveVals
<1>5. old \in ActiveVals(h) /\ new \in ActiveVals(h) /\ old \in ValIds(g) /\ new \in ValIds(g)
  BY <1>2, <1>4 DEF ActiveVals
<1>6. h.vals[old].type = h.vals[new].type
  BY <1>2, <1>3, <1>5, NumberOf
<1>7. Ranked(h, g.depth)
  <2>1. n - 1 \in Nat /\ n - 1 <= Len(rs)
    BY <1>1
  <2>2. Shallower(g, was)
    BY <2>1, ImageIs
  <2> HIDE DEF was
  <2> QED BY <1>1, <2>2, SwappedRanked DEF was
<1>8. ASSUME NEW u \in Users(h, old), Reaches(h, u, Producer(h, new)) PROVE FALSE
  <2>1. u \in ActiveOps(h) /\ u \in OpIds(h) /\ Producer(h, old) \in Predecessors(h, u)
    BY <1>1, <1>3, <1>5, UserTakes DEF Predecessors, ActiveOps
  <2>2. g.depth[Producer(h, old)] < g.depth[u]
    BY <1>7, <2>1 DEF Ranked
  <2>3. Producer(h, new) \in OpIds(h) /\ Producer(h, old) \in OpIds(h)
    BY <1>1, <1>3, <1>5 DEF GraphOK, LinksOK, Producer
  <2>4. g.depth[u] <= g.depth[Producer(h, new)]
    BY <1>1, <1>7, <1>8, <2>1, <2>3, ReachesRank
  <2>5. g.depth[Producer(h, new)] <= g.depth[Producer(h, old)]
    BY <1>2, <1>3, <1>5, NumberOf DEF ValDepth
  <2>6. g.depth[u] \in Nat /\ g.depth[Producer(h, new)] \in Nat /\ g.depth[Producer(h, old)] \in Nat
    BY <1>7, <2>1, <2>3 DEF Ranked, Depths
  <2> QED BY <2>2, <2>4, <2>5, <2>6
<1>9. MayReplace(h, old, new)
  BY <1>5, <1>6, <1>8 DEF MayReplace
<1>10. \A v \in ValIds(h) : one[v] = IF v = old THEN new ELSE v
  OBVIOUS
<1>11. PassInv(f) /\ Swapped(h, f, one)
  <2> HIDE DEF one, old, new
  <2> QED BY <1>5, <1>9, <1>10, ReplaceShape
<1>12. ASSUME NEW v \in ValIds(g) PROVE was[v] \in ValIds(g) /\ one[was[v]] = is[v]
  <2>1. CASE \E m \in 1 .. n - 1 : rs[m].old = v
    <3>1. PICK m \in 1 .. n - 1 : rs[m].old = v
      BY <2>1
    <3>2. m \in 1 .. Len(rs) /\ m \in 1 .. n
      BY <1>1
    <3>3. v \in ActiveVals(g)
      BY <3>1, <3>2, NumberOf DEF ReplaceOK
    <3>4. was[v] = vn[v] /\ is[v] = vn[v]
      BY <2>1, <3>1, <3>2 DEF ImageOf
    <3>5. vn[v] \in ActiveVals(g) /\ vn[vn[v]] = vn[v]
      BY <3>3, NumberOf
    <3>6. vn[v] # old
      BY <1>2, <3>5
    <3> HIDE DEF old, new, was, is, one
    <3> QED BY <1>3, <1>10, <3>4, <3>5, <3>6 DEF ActiveVals
  <2>2. CASE ~ \E m \in 1 .. n - 1 : rs[m].old = v
    <3>1. was[v] = v
      BY <2>2 DEF ImageOf
    <3>2. (\E m \in 1 .. n : rs[m].old = v) <=> v = old
      <4>1. \A m \in 1 .. n : m \in 1 .. n - 1 \/ m = n
        BY <1>1
      <4>2. n \in 1 .. n
        BY <1>1
      <4> QED BY <2>2, <4>1, <4>2
    <3>3. is[v] = IF v = old THEN vn[v] ELSE v
      BY <3>2 DEF ImageOf
    <3> HIDE DEF old, new, was, is, one
    <3> QED BY <1>2, <1>3, <1>10, <3>1, <3>3
  <2> QED BY <2>1, <2>2
<1> HIDE DEF f, was, is, one, old, new
<1>13. SameShape(g, f)
  BY <1>11 DEF Swapped, SameShape
<1>14. ASSUME NEW o \in OpIds(g)
       PROVE  /\ f.ops[o].active <=> g.ops[o].active
              /\ DOMAIN f.ops[o].args = DOMAIN g.ops[o].args
              /\ \A i \in DOMAIN g.ops[o].args : f.ops[o].args[i] = is[g.ops[o].args[i]]
  <2>1. /\ f.ops[o].active <=> h.ops[o].active
        /\ DOMAIN f.ops[o].args = DOMAIN h.ops[o].args
        /\ \A i \in DOMAIN h.ops[o].args : f.ops[o].args[i] = one[h.ops[o].args[i]]
    BY <1>3, <1>11 DEF Swapped
  <2>2. /\ h.ops[o].active <=> g.ops[o].active
        /\ DOMAIN h.ops[o].args = DOMAIN g.ops[o].args
        /\ \A i \in DOMAIN g.ops[o].args : h.ops[o].args[i] = was[g.ops[o].args[i]]
    BY DEF Swapped, was
  <2>3. \A i \in DOMAIN g.ops[o].args : g.ops[o].args[i] \in ValIds(g)
    BY <1>1 DEF GraphOK, LinksOK
  <2> QED BY <1>12, <2>1, <2>2, <2>3
<1>15. Swapped(g, f, is)
  BY <1>13, <1>14 DEF Swapped
<1> QED BY <1>9, <1>11, <1>15 DEF f, is, old, new

(* The replacements of a numbering all happen.                             *)
LEMMA AllReplaced ==
  ASSUME NEW g, PassInv(g), NEW vn, NEW rep, NumbersOK(g, vn, ActiveOps(g), rep),
         NEW rs, ReplaceOK(g, rs, vn)
  PROVE  /\ MayMakeReplacements(g, rs) /\ PassInv(MakeReplacements(g, rs))
         /\ Swapped(g, MakeReplacements(g, rs), ImageOf(g, vn, rs, Len(rs)))
<1> DEFINE R(n) == Replacing(g, rs)[n]
           N == Len(rs)
           Good(n) == /\ R(n) = [legal |-> TRUE, graph |-> R(n).graph]
                      /\ PassInv(R(n).graph) /\ Swapped(g, R(n).graph, ImageOf(g, vn, rs, n))
           Bad == {n \in Nat : n <= N /\ ~Good(n)}
<1>1. N \in Nat
  BY DEF ReplaceOK
<1>2. R(0) = [legal |-> TRUE, graph |-> g] /\ \A n \in 1 .. N : R(n) = Replaced(R(n - 1), rs[n])
  BY <1>1, ReplacingAre
<1>3. MayMakeReplacements(g, rs) = R(N).legal /\ MakeReplacements(g, rs) = R(N).graph
  BY DEF MayMakeReplacements, MakeReplacements
<1> HIDE DEF R, N
<1>4. ASSUME NEW n \in Bad, \A k \in Bad : n <= k PROVE FALSE
  <2>1. CASE n = 0
    <3>1. R(0).graph = g
      BY <1>2
    <3>2. ASSUME NEW v \in ValIds(g) PROVE ImageOf(g, vn, rs, 0)[v] = v
      BY DEF ImageOf
    <3>3. \A o \in OpIds(g) : \A i \in DOMAIN g.ops[o].args : g.ops[o].args[i] \in ValIds(g)
      BY DEF PassInv, DepthInv, GraphOK, LinksOK
    <3>4. Swapped(g, g, ImageOf(g, vn, rs, 0))
      BY <3>2, <3>3 DEF Swapped, SameShape
    <3>5. Good(0)
      BY <1>2, <3>1, <3>4
    <3> HIDE DEF Good
    <3> QED BY <2>1, <3>5
  <2>2. CASE n # 0
    <3> DEFINE k == n - 1
               h == R(k).graph
               f == ReplaceValUse(h, rs[n].old, rs[n].new)
    <3>1. k \in Nat /\ ~ (n <= k) /\ k <= N /\ n = k + 1 /\ n \in 1 .. N
      BY <1>1, <2>2
    <3>2. Good(k)
      BY <1>4, <3>1
    <3>3. MayReplace(h, rs[n].old, rs[n].new) /\ PassInv(f) /\ Swapped(g, f, ImageOf(g, vn, rs, n))
      <4> HIDE DEF h
      <4>1. PassInv(h) /\ Swapped(g, h, ImageOf(g, vn, rs, n - 1))
        BY <3>2 DEF h
      <4> QED BY <3>1, <4>1, ReplaceStep DEF N
    <3>4. R(n) = [legal |-> TRUE, graph |-> f]
      <4> HIDE DEF h
      <4>1. R(k) = [legal |-> TRUE, graph |-> h]
        BY <3>2 DEF h
      <4>2. R(k).legal /\ R(k).graph = h /\ R(n) = Replaced(R(k), rs[n])
        BY <1>2, <3>1, <4>1
      <4>3. R(n) = [R(k) EXCEPT !.graph = f]
        BY <3>3, <4>2 DEF Replaced
      <4> HIDE DEF f
      <4>4. R(n).legal = TRUE /\ R(n).graph = f /\ R(n) = [legal |-> R(n).legal, graph |-> R(n).graph]
        BY <4>1, <4>3
      <4> QED BY <4>4
    <3> HIDE DEF f, h, k
    <3>5. R(n).graph = f
      BY <3>4
    <3>6. Good(n)
      BY <3>3, <3>4, <3>5
    <3> QED BY <3>6
  <2> QED BY <2>1, <2>2
<1>5. Bad = {}
  <2>1. Bad \in SUBSET Nat
    OBVIOUS
  <2> HIDE DEF Bad
  <2> QED BY <1>4, <2>1, NatMin
<1>6. Good(N)
  <2>1. N \in Nat /\ N <= N /\ N \notin Bad
    BY <1>1, <1>5
  <2> HIDE DEF Good
  <2> QED BY <2>1
<1>7. R(N).legal
  BY <1>6
<1> QED BY <1>3, <1>6, <1>7 DEF N

(* In the end every active value stands for its number.                    *)
LEMMA FinalImage ==
  ASSUME NEW g, PassInv(g), NEW vn, NEW rep, NumbersOK(g, vn, ActiveOps(g), rep),
         NEW rs, ReplaceOK(g, rs, vn), NEW v \in ActiveVals(g)
  PROVE  ImageOf(g, vn, rs, Len(rs))[v] = vn[v]
<1>1. v \in ValIds(g) /\ v \in DOMAIN vn
  BY NumberOf DEF ActiveVals
<1>2. CASE vn[v] = v
  BY <1>1, <1>2 DEF ImageOf
<1>3. CASE vn[v] # v
  <2>1. \E m \in 1 .. Len(rs) : rs[m].old = v
    BY <1>1, <1>3 DEF ReplaceOK
  <2> QED BY <1>1, <2>1 DEF ImageOf
<1> QED BY <1>2, <1>3

-----------------------------------------------------------------------------
(* What a pass keeps.                                                      *)

(* Activity of the values follows the one of the operations.               *)
LEMMA ActiveBy ==
  ASSUME NEW g, GraphOK(g)
  PROVE  ActiveVals(g) = {v \in ValIds(g) : Producer(g, v) \in ActiveOps(g)}
<1>1. ASSUME NEW v \in ValIds(g)
      PROVE  g.vals[v].active = g.ops[Producer(g, v)].active /\ Producer(g, v) \in OpIds(g)
  BY DEF GraphOK, LiveOK, LinksOK, Producer
<1> QED BY <1>1 DEF ActiveVals, ActiveOps

(* Replacing arguments by others of the same term keeps every term.        *)
LEMMA SwappedTerms ==
  ASSUME NEW g, PassInv(g), NEW h, PassInv(h), NEW image, Swapped(g, h, image),
         \A v \in ActiveVals(g) : image[v] \in ActiveVals(g) /\ Terms(g)[image[v]] = Terms(g)[v]
  PROVE  /\ ActiveOps(h) = ActiveOps(g) /\ ActiveVals(h) = ActiveVals(g)
         /\ \A v \in ActiveVals(g) : Terms(h)[v] = Terms(g)[v]
<1> DEFINE T == Terms(g)
<1>0. GraphOK(g) /\ DepthInv(g) /\ GraphOK(h) /\ DepthInv(h)
  BY DEF PassInv, DepthInv
<1>1. OpIds(h) = OpIds(g) /\ ValIds(h) = ValIds(g) /\ \A v \in ValIds(g) : Producer(h, v) = Producer(g, v)
  BY DEF Swapped, SameShape, Producer
<1>2. ActiveOps(h) = ActiveOps(g)
  BY <1>1 DEF Swapped, ActiveOps
<1>3. ActiveVals(h) = ActiveVals(g)
  BY <1>0, <1>1, <1>2, ActiveBy
<1>4. ASSUME NEW v \in ActiveVals(h) PROVE T[v] = TermBy(h, T, v)
  <2> DEFINE o == Producer(g, v)
             x == g.ops[o].args
             y == h.ops[o].args
  <2>1. v \in ValIds(g) /\ o \in ActiveOps(g) /\ o \in OpIds(g) /\ Producer(h, v) = o
    BY <1>0, <1>1, <1>3, ValuesBy
  <2>2. h.ops[o].ins = g.ops[o].ins /\ h.vals[v].origin.pos = g.vals[v].origin.pos
    BY <2>1 DEF Swapped, SameShape
  <2>3. ASSUME NEW i \in DOMAIN x PROVE T[y[i]] = T[x[i]]
    <3>1. x[i] \in ActiveVals(g) /\ y[i] = image[x[i]]
      BY <1>0, <2>1 DEF GraphOK, LiveOK, Swapped
    <3> QED BY <3>1
  <2>4. DOMAIN y = DOMAIN x
    BY <2>1 DEF Swapped
  <2>5. Read(T, x) = Read(T, y)
    <3> HIDE DEF x, y, T
    <3> QED BY <2>3, <2>4 DEF Read
  <2> HIDE DEF T
  <2>6. TermBy(g, T, v) = TermBy(h, T, v)
    BY <2>1, <2>2, <2>5, TermsAgree
  <2>7. T[v] = TermBy(g, T, v)
    BY <1>0, <1>3, TermsAre DEF T
  <2> QED BY <2>6, <2>7
<1> HIDE DEF T
<1>5. \A v \in ActiveVals(h) : T[v] = Terms(h)[v]
  BY <1>0, <1>4, TermsOnly
<1> QED BY <1>2, <1>3, <1>5 DEF T

(* So does leaving operations out, for what is left.                       *)
LEMMA FewerTerms ==
  ASSUME NEW g, PassInv(g), NEW h, PassInv(h), NEW gone, Fewer(g, h, gone)
  PROVE  \A v \in ActiveVals(h) : v \in ActiveVals(g) /\ Terms(h)[v] = Terms(g)[v]
<1> DEFINE T == Terms(g)
<1>0. GraphOK(g) /\ DepthInv(g) /\ GraphOK(h) /\ DepthInv(h)
  BY DEF PassInv, DepthInv
<1>1. OpIds(h) = OpIds(g) /\ ValIds(h) = ValIds(g) /\ \A v \in ValIds(g) : Producer(h, v) = Producer(g, v)
  BY DEF Fewer, SameShape, Producer
<1>2. ActiveOps(h) \subseteq ActiveOps(g)
  BY <1>1 DEF Fewer, ActiveOps
<1>3. ActiveVals(h) \subseteq ActiveVals(g)
  BY <1>0, <1>1, <1>2, ActiveBy
<1>4. ASSUME NEW v \in ActiveVals(h) PROVE T[v] = TermBy(h, T, v)
  <2> DEFINE o == Producer(g, v)
  <2>1. v \in ValIds(g) /\ o \in OpIds(g) /\ Producer(h, v) = o
    BY <1>0, <1>1, <1>3, ValuesBy
  <2>2. h.ops[o].ins = g.ops[o].ins /\ h.vals[v].origin.pos = g.vals[v].origin.pos /\ h.ops[o].args = g.ops[o].args
    BY <2>1 DEF Fewer, SameShape
  <2> HIDE DEF T
  <2>3. TermBy(g, T, v) = TermBy(h, T, v)
    BY <2>1, <2>2, TermsAgree
  <2>4. T[v] = TermBy(g, T, v)
    BY <1>0, <1>3, TermsAre DEF T
  <2> QED BY <2>3, <2>4
<1> HIDE DEF T
<1>5. \A v \in ActiveVals(h) : T[v] = Terms(h)[v]
  BY <1>0, <1>4, TermsOnly
<1> QED BY <1>3, <1>5 DEF T

(* The meaning is kept when the effects receive the same terms.            *)
LEMMA MeaningBy ==
  ASSUME NEW g, NEW h, Effects(h) \cap ActiveOps(h) = Effects(g) \cap ActiveOps(g),
         \A o \in Effects(g) \cap ActiveOps(g) :
           /\ h.ops[o].ins = g.ops[o].ins /\ DOMAIN h.ops[o].args = DOMAIN g.ops[o].args
           /\ \A i \in DOMAIN g.ops[o].args : Terms(h)[h.ops[o].args[i]] = Terms(g)[g.ops[o].args[i]]
  PROVE  Meaning(h) = Meaning(g)
<1> DEFINE E == Effects(g) \cap ActiveOps(g)
           Input(f, o) == <<f.ops[o].ins, [i \in DOMAIN f.ops[o].args |-> Terms(f)[f.ops[o].args[i]]]>>
<1>1. ASSUME NEW o \in E PROVE Input(h, o) = Input(g, o)
  <2>1. [i \in DOMAIN h.ops[o].args |-> Terms(h)[h.ops[o].args[i]]]
          = [i \in DOMAIN g.ops[o].args |-> Terms(g)[g.ops[o].args[i]]]
    OBVIOUS
  <2> QED BY <2>1
<1>2. Meaning(h) = [o \in E |-> Input(h, o)] /\ Meaning(g) = [o \in E |-> Input(g, o)]
  BY DEF Meaning
<1> HIDE DEF E, Input
<1> QED BY <1>1, <1>2

LEMMA DceMeaning ==
  ASSUME NEW g, PassInv(g)
  PROVE  Meaning(WithoutDeadCode(g)) = Meaning(g)
<1> DEFINE h == WithoutDeadCode(g)
<1>1. PassInv(h) /\ Fewer(g, h, Dead(g)) /\ ActiveOps(h) = Live(g) /\ GraphOK(g) /\ GraphOK(h)
  BY DceSound DEF PassInv, DepthInv
<1> HIDE DEF h
<1>2. Effects(h) = Effects(g)
  BY <1>1 DEF Effects, IsEffect, Fewer, SameShape
<1>3. Effects(h) \cap ActiveOps(h) = Effects(g) \cap ActiveOps(g)
  <2>1. Live(g) \subseteq ActiveOps(g) /\ Effects(g) \cap ActiveOps(g) \subseteq Live(g)
    BY <1>1, LiveIs
  <2> QED BY <1>1, <1>2, <2>1
<1>4. ASSUME NEW o \in Effects(g) \cap ActiveOps(g)
      PROVE  /\ h.ops[o].ins = g.ops[o].ins /\ DOMAIN h.ops[o].args = DOMAIN g.ops[o].args
             /\ \A i \in DOMAIN g.ops[o].args : Terms(h)[h.ops[o].args[i]] = Terms(g)[g.ops[o].args[i]]
  <2>1. o \in OpIds(g) /\ o \in ActiveOps(h)
    BY <1>3 DEF ActiveOps
  <2>2. h.ops[o].ins = g.ops[o].ins /\ h.ops[o].args = g.ops[o].args
    BY <1>1, <2>1 DEF Fewer, SameShape
  <2>3. \A i \in DOMAIN h.ops[o].args : h.ops[o].args[i] \in ActiveVals(h)
    BY <1>1, <2>1 DEF GraphOK, LiveOK
  <2>4. \A v \in ActiveVals(h) : Terms(h)[v] = Terms(g)[v]
    BY <1>1, FewerTerms
  <2> QED BY <2>2, <2>3, <2>4
<1>5. Meaning(h) = Meaning(g)
  BY <1>3, <1>4, MeaningBy
<1> QED BY <1>5 DEF h

(* The replacements of common subexpressions.                              *)
LEMMA CseSound ==
  ASSUME NEW g, PassInv(g)
  PROVE  LET h == MakeReplacements(g, Numbering(g).replace)
         IN  /\ MayMakeReplacements(g, Numbering(g).replace) /\ PassInv(h)
             /\ \E vn, rep, image :
                  /\ NumbersOK(g, vn, ActiveOps(g), rep) /\ Swapped(g, h, image)
                  /\ \A v \in ActiveVals(g) : image[v] = vn[v]
             /\ ActiveOps(h) = ActiveOps(g) /\ ActiveVals(h) = ActiveVals(g)
             /\ \A v \in ActiveVals(g) : Terms(h)[v] = Terms(g)[v]
<1> DEFINE vn == Numbering(g).vn
           rs == Numbering(g).replace
           h == MakeReplacements(g, rs)
           image == ImageOf(g, vn, rs, Len(rs))
<1>1. NumberingOK(g, Numbering(g), ActiveOps(g))
  BY Numbered
<1>2. PICK rep : NumbersOK(g, vn, ActiveOps(g), rep)
  BY <1>1 DEF NumberingOK
<1>3. ReplaceOK(g, rs, vn)
  BY <1>1 DEF NumberingOK
<1> HIDE DEF vn, rs
<1>4. MayMakeReplacements(g, rs) /\ PassInv(h) /\ Swapped(g, h, image)
  BY <1>2, <1>3, AllReplaced
<1>5. \A v \in ActiveVals(g) : image[v] = vn[v]
  BY <1>2, <1>3, FinalImage
<1>6. \A v \in ActiveVals(g) : image[v] \in ActiveVals(g) /\ Terms(g)[image[v]] = Terms(g)[v]
  BY <1>2, <1>5, NumberOf, NumbersSound
<1> HIDE DEF h, image
<1>7. /\ ActiveOps(h) = ActiveOps(g) /\ ActiveVals(h) = ActiveVals(g)
      /\ \A v \in ActiveVals(g) : Terms(h)[v] = Terms(g)[v]
  BY <1>4, <1>6, SwappedTerms
<1>8. \E f, r, i : /\ NumbersOK(g, f, ActiveOps(g), r) /\ Swapped(g, h, i)
                   /\ \A v \in ActiveVals(g) : i[v] = f[v]
  BY <1>2, <1>4, <1>5
<1> QED BY <1>4, <1>7, <1>8 DEF h, rs

LEMMA CseMeaning ==
  ASSUME NEW g, PassInv(g)
  PROVE  Meaning(WithoutCommonSubexpressions(g)) = Meaning(g)
<1> DEFINE h == MakeReplacements(g, Numbering(g).replace)
<1>1. /\ PassInv(h) /\ ActiveOps(h) = ActiveOps(g)
      /\ \A v \in ActiveVals(g) : Terms(h)[v] = Terms(g)[v]
  BY CseSound
<1>2. PICK vn, rep, image : /\ NumbersOK(g, vn, ActiveOps(g), rep) /\ Swapped(g, h, image)
                            /\ \A v \in ActiveVals(g) : image[v] = vn[v]
  BY CseSound
<1> HIDE DEF h
<1>3. Effects(h) \cap ActiveOps(h) = Effects(g) \cap ActiveOps(g)
  BY <1>1, <1>2 DEF Effects, IsEffect, Swapped, SameShape
<1>4. ASSUME NEW o \in Effects(g) \cap ActiveOps(g)
      PROVE  /\ h.ops[o].ins = g.ops[o].ins /\ DOMAIN h.ops[o].args = DOMAIN g.ops[o].args
             /\ \A i \in DOMAIN g.ops[o].args : Terms(h)[h.ops[o].args[i]] = Terms(g)[g.ops[o].args[i]]
  <2>1. o \in OpIds(g)
    BY DEF ActiveOps
  <2>2. ASSUME NEW i \in DOMAIN g.ops[o].args
        PROVE  Terms(h)[h.ops[o].args[i]] = Terms(g)[g.ops[o].args[i]]
    <3> DEFINE a == g.ops[o].args[i]
    <3>1. a \in ActiveVals(g) /\ h.ops[o].args[i] = image[a]
      BY <1>2, <2>1 DEF PassInv, DepthInv, GraphOK, LiveOK, Swapped
    <3> HIDE DEF a
    <3>2. image[a] = vn[a] /\ vn[a] \in ActiveVals(g) /\ Terms(g)[vn[a]] = Terms(g)[a]
      BY <1>2, <3>1, NumberOf, NumbersSound
    <3> QED BY <1>1, <3>1, <3>2 DEF a
  <2> QED BY <1>2, <2>1, <2>2 DEF Swapped, SameShape
<1>5. Meaning(h) = Meaning(g)
  BY <1>3, <1>4, MeaningBy
<1>6. Meaning(WithoutDeadCode(h)) = Meaning(h)
  BY <1>1, DceMeaning
<1> QED BY <1>5, <1>6 DEF WithoutCommonSubexpressions, h

(* A value that is left is the first of its number.                        *)
LEMMA LeftIsFirst ==
  ASSUME NEW g, PassInv(g), NEW h, PassInv(h), NEW vn, NEW rep, NEW image,
         NumbersOK(g, vn, ActiveOps(g), rep), Swapped(g, h, image),
         \A v \in ActiveVals(g) : image[v] = vn[v], NEW v \in ActiveVals(WithoutDeadCode(h))
  PROVE  v \in ActiveVals(g) /\ vn[v] = v
<1> DEFINE f == WithoutDeadCode(h)
           o == Producer(g, v)
           k == g.vals[v].origin.pos
<1>0. GraphOK(g) /\ DepthInv(g) /\ GraphOK(h)
  BY DEF PassInv, DepthInv
<1>1. PassInv(f) /\ DepthInv(f) /\ Fewer(h, f, Dead(h)) /\ ActiveOps(f) = Live(h)
  BY DceSound DEF PassInv
<1>2. Live(h) \subseteq ActiveOps(h)
  BY <1>0, LiveIs
<1> HIDE DEF f
<1>3. v \in ValIds(f) /\ Producer(f, v) \in Live(h)
  BY <1>1, ValuesBy DEF f
<1>4. v \in ValIds(g) /\ Producer(f, v) = o /\ OpIds(h) = OpIds(g)
      /\ \A w \in ValIds(g) : Producer(h, w) = Producer(g, w)
  BY <1>1, <1>3 DEF Fewer, Swapped, SameShape, Producer
<1>5. ActiveOps(h) = ActiveOps(g)
  BY <1>4 DEF Swapped, ActiveOps
<1>6. v \in ActiveVals(g) /\ o \in ActiveOps(g) /\ o \in Live(h) /\ o \in OpIds(g)
  BY <1>0, <1>2, <1>3, <1>4, <1>5, ActiveBy DEF ActiveOps
<1>7. k \in DOMAIN g.ops[o].rets /\ g.ops[o].rets[k] = v
  BY <1>0, <1>6, ValuesBy
<1>8. ~IsEffect(h, o)
  <2>1. h.ops[o].rets = g.ops[o].rets
    BY <1>6 DEF Swapped, SameShape
  <2> QED BY <1>7, <2>1 DEF IsEffect
<1>9. PICK u \in Live(h) : o \in Predecessors(h, u)
  BY <1>0, <1>6, <1>8, LiveIs
<1>10. u \in ActiveOps(g) /\ u \in OpIds(g)
  BY <1>2, <1>5 DEF ActiveOps
<1>11. PICK i \in DOMAIN h.ops[u].args : Producer(h, h.ops[u].args[i]) = o
  BY <1>9 DEF Predecessors
<1> DEFINE a == g.ops[u].args[i]
<1>12. a \in ActiveVals(g) /\ h.ops[u].args[i] = image[a]
  BY <1>0, <1>10, <1>11 DEF GraphOK, LiveOK, Swapped
<1> HIDE DEF a, o, k
<1>13. vn[a] \in ActiveVals(g) /\ Producer(g, vn[a]) = rep[Producer(g, a)] /\ Producer(g, a) \in ActiveOps(g)
  BY <1>0, <1>12, NumberOf, ValuesBy
<1>14. rep[Producer(g, a)] = o
  BY <1>4, <1>11, <1>12, <1>13 DEF ActiveVals
<1>15. rep[o] = o
  BY <1>13, <1>14 DEF NumbersOK
<1>16. vn[g.ops[o].rets[k]] = g.ops[rep[o]].rets[k]
  BY <1>6, <1>7 DEF NumbersOK
<1> QED BY <1>6, <1>7, <1>15, <1>16

LEMMA CseComplete ==
  ASSUME NEW g, PassInv(g)
  PROVE  LET rest == WithoutCommonSubexpressions(g)
         IN  \A v, w \in ActiveVals(rest) : Terms(rest)[v] = Terms(rest)[w] => v = w
<1> DEFINE h == MakeReplacements(g, Numbering(g).replace)
           rest == WithoutDeadCode(h)
<1>1. /\ PassInv(h) /\ ActiveVals(h) = ActiveVals(g)
      /\ \A v \in ActiveVals(g) : Terms(h)[v] = Terms(g)[v]
  BY CseSound
<1>2. PICK vn, rep, image : /\ NumbersOK(g, vn, ActiveOps(g), rep) /\ Swapped(g, h, image)
                            /\ \A v \in ActiveVals(g) : image[v] = vn[v]
  BY CseSound
<1>3. WithoutCommonSubexpressions(g) = rest
  BY DEF WithoutCommonSubexpressions
<1> HIDE DEF h
<1>4. PassInv(rest) /\ Fewer(h, rest, Dead(h))
  BY <1>1, DceSound
<1>5. \A v \in ActiveVals(rest) : v \in ActiveVals(g) /\ vn[v] = v
  BY <1>1, <1>2, LeftIsFirst
<1> HIDE DEF rest
<1>6. \A v \in ActiveVals(rest) : Terms(rest)[v] = Terms(h)[v]
  BY <1>1, <1>4, FewerTerms
<1>7. ASSUME NEW v \in ActiveVals(rest), NEW w \in ActiveVals(rest), Terms(rest)[v] = Terms(rest)[w]
      PROVE  v = w
  <2>1. Terms(g)[v] = Terms(g)[w]
    BY <1>1, <1>5, <1>6, <1>7
  <2>2. vn[v] = vn[w]
    BY <1>2, <1>5, <2>1, NumbersComplete
  <2> QED BY <1>5, <2>2
<1> QED BY <1>3, <1>7

-----------------------------------------------------------------------------
(* Over every history of edits and passes.                                 *)

(* Every edit and every pass leaves a graph whose stores are linked both   *)
(* ways, whose use lists and depths are exact, where nothing active stands *)
(* on something inactive, and whose results are those of the signatures.   *)
THEOREM PassesInvariant == IrPassesSpec => []PassInv(ir)
<1>1. IrInit => PassInv(ir)
  <2> SUFFICES ASSUME IrInit PROVE GraphOK(ir) /\ DepthsOK(ir) /\ SignedOK(ir)
    BY DEF PassInv, DepthInv
  <2>1. ir.ops = << >> /\ ir.vals = << >> /\ ir.depth = << >>
    BY DEF IrInit, EmptyIr
  <2>2. OpIds(ir) = {} /\ ValIds(ir) = {} /\ ActiveOps(ir) = {}
    BY <2>1 DEF OpIds, ValIds, ActiveOps
  <2>3. DepthsOK(ir)
    BY <2>1, <2>2 DEF DepthsOK, Depths, Wrong
  <2>4. GraphOK(ir)
    BY <2>1, <2>2 DEF GraphOK, StoresOK, LinksOK, UsesOK, LiveOK
  <2>5. SignedOK(ir)
    BY <2>2 DEF SignedOK
  <2> QED BY <2>3, <2>4, <2>5
<1>2. PassInv(ir) /\ [IrPassesNext]_ir => PassInv(ir)'
  <2> SUFFICES ASSUME PassInv(ir), [IrPassesNext]_ir PROVE PassInv(ir')
    BY DEF PassInv, SignedOK, DepthInv, DepthsOK, Depths, Wrong, Deepest, Predecessors, GraphOK, StoresOK,
           LinksOK, UsesOK, LiveOK, OpIds, ValIds, ActiveOps, ActiveVals, Producer
  <2>0. GraphOK(ir) /\ DepthInv(ir)
    BY DEF PassInv, DepthInv
  <2>1. ASSUME NEW ins \in Instructions, NEW args \in [DOMAIN Signature[ins].args -> ActiveVals(ir)],
               AddOperation(ins, args)
        PROVE  PassInv(ir')
    <3>1. ActiveVals(ir) \subseteq Nat
      BY <2>0, StoreFacts DEF GraphOK, ActiveVals, ValIds
    <3>2. Signature[ins].args \in Seq(Types)
      BY SignatureAssumption DEF Instructions
    <3>3. args \in Seq(Nat)
      <4>1. Len(Signature[ins].args) \in Nat /\ DOMAIN Signature[ins].args = 1 .. Len(Signature[ins].args)
        BY <3>2
      <4>2. args \in [1 .. Len(Signature[ins].args) -> Nat]
        BY <3>1, <4>1
      <4> QED BY <4>1, <4>2
    <3>4. MayAddOp(ir, ins, args) /\ ir' = AddOp(ir, ins, args)
      BY <2>1 DEF AddOperation
    <3>5. GraphOK(ir') /\ DepthsOK(ir') /\ SignedOK(ir')
      BY <2>0, <3>3, <3>4, AddOpSound, AddDepths, AddSigned
    <3> QED BY <3>5 DEF PassInv, DepthInv
  <2>2. ASSUME NEW old \in ActiveVals(ir), NEW new \in ActiveVals(ir), ReplaceUses(old, new)
        PROVE  PassInv(ir')
    <3> DEFINE image == [v \in ValIds(ir) |-> IF v = old THEN new ELSE v]
    <3>1. \A v \in ValIds(ir) : image[v] = IF v = old THEN new ELSE v
      OBVIOUS
    <3>2. MayReplace(ir, old, new) /\ ir' = ReplaceValUse(ir, old, new)
      BY <2>2 DEF ReplaceUses
    <3> HIDE DEF image
    <3>3. PassInv(ReplaceValUse(ir, old, new))
      BY <3>1, <3>2, ReplaceShape
    <3> QED BY <3>2, <3>3
  <2>3. ASSUME NEW o \in ActiveOps(ir), DeleteOperation(o)
        PROVE  PassInv(ir')
    BY <2>3, DeleteShape DEF DeleteOperation
  <2>4. CASE EliminateDeadCode
    BY <2>4, DceSound DEF EliminateDeadCode
  <2>5. CASE EliminateCommonSubexpressions
    <3>1. PassInv(WithoutCommonSubexpressions(ir))
      BY CseSound, DceSound DEF WithoutCommonSubexpressions
    <3> QED BY <2>5, <3>1 DEF EliminateCommonSubexpressions
  <2>6. CASE UNCHANGED ir
    BY <2>6
  <2> QED BY <2>1, <2>2, <2>3, <2>4, <2>5, <2>6 DEF IrPassesNext, IrNext
<1> QED BY <1>1, <1>2, PTL DEF IrPassesSpec

LEMMA SoundParts == PassInv(ir) => GraphOK(ir) /\ DepthInv(ir)
BY DEF PassInv, DepthInv

(* Use-def chains are exact after every history of edits and passes: the   *)
(* use list of a value is the set of positions where it is an argument.    *)
THEOREM UseDefExact == IrPassesSpec => []UseDef
BY PassesInvariant, SoundParts, SoundUses, PTL

(* Nothing alive ever stands on something deleted.                         *)
THEOREM NothingDeadUsed == IrPassesSpec => []NoDeadUse
BY PassesInvariant, SoundParts, SoundLives, PTL

(* Every depth is what a computation from scratch would give, whatever     *)
(* replacements moved operations deeper or less deep, and the walk by      *)
(* depth visits every operation after those it depends on.                 *)
THEOREM DepthsAlwaysExact == IrPassesSpec => []DepthsExact
BY PassesInvariant, SoundParts, ExactDepths, PTL

(* The search that decides whether a replacement would make a cycle finds  *)
(* every path, though it stops where the depths exclude one.               *)
THEOREM PruneAlwaysSound == IrPassesSpec => []PruneSound
BY PassesInvariant, SoundParts, SamePrune, PTL

(* After any history the only panic of either pass is the walk of dead     *)
(* code elimination over an effect that has been deleted (dce.rs:40-41),   *)
(* and no such effect goes by without it: on any other graph each          *)
(* replacement is legal in what the ones before it left, and each          *)
(* operation has lost its users when it is deleted (cse.rs, dce.rs).       *)
THEOREM PassesPanicAtDeletedEffects == IrPassesSpec => []PanicsAtDeletedEffects
<1>1. PassInv(ir) => PanicsAtDeletedEffects
  <2> SUFFICES ASSUME PassInv(ir) PROVE PanicsAtDeletedEffects
    OBVIOUS
  <2> DEFINE h == MakeReplacements(ir, Numbering(ir).replace)
  <2>1. MayMakeReplacements(ir, Numbering(ir).replace) /\ PassInv(h)
    BY CseSound
  <2> HIDE DEF h
  <2>2. MayBatchDelete(ir, Dead(ir)) /\ MayBatchDelete(h, Dead(h))
    BY <2>1, DceSound
  <2> QED BY <2>1, <2>2 DEF PanicsAtDeletedEffects, DceAsserts, CseAsserts, h
<1> QED BY <1>1, PassesInvariant, PTL

(* No pass changes the terms that the effects of the program receive.      *)
THEOREM MeaningAlwaysKept == IrPassesSpec => []MeaningKept
<1>1. PassInv(ir) => MeaningKept
  BY DceMeaning, CseMeaning DEF MeaningKept
<1> QED BY <1>1, PassesInvariant, PTL

(* What common subexpression elimination leaves has no two values of one   *)
(* term, commutative instructions included.                                *)
THEOREM NothingDuplicated == IrPassesSpec => []NoDuplicateLeft
<1>1. PassInv(ir) => NoDuplicateLeft
  BY CseComplete DEF NoDuplicateLeft
<1> QED BY <1>1, PassesInvariant, PTL
=============================================================================
