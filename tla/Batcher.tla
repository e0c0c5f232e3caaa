------------------------------ MODULE Batcher ------------------------------
(***************************************************************************)
(* The batcher of the pipeline: bootstraps are grouped into batches that   *)
(* the PBS processing element runs at once.  Batches are extracted twice,  *)
(* walking the program from its inputs and from its outputs; the walk with *)
(* fewer batches wins, and its order is the one in which the program is    *)
(* translated, a whole batch replacing the first of its members.           *)
(***************************************************************************)
EXTENDS HpuProgram

CONSTANTS Sources,    \* programs, without dead operations
          BatchSize   \* pbs_max_batch_size

(* What the lowering of an integer operation leaves, after the elimination *)
(* of dead operations: an operation reads what earlier ones define and is  *)
(* of the arity of its kind, a bootstrap has a user, and the number of an  *)
(* operation fits the field of a word that names a source or destination.  *)
IsSource(code) ==
  /\ code \in Seq(Range(code)) /\ Len(code) < 2 ^ 16
  /\ \A n \in Ops(code) :
       /\ code[n].kind \in {"ld", "st", "lin", "imm", "cst", "pbs"}
       /\ code[n].args \in Seq(UNION {Range(Results(code, o)) : o \in 1 .. n - 1})
       /\ IF code[n].kind = "pbs"
          THEN Len(code[n].args) = 1 /\ code[n].nret \in {1, 2} /\ Users(code, n) # {}
          ELSE /\ Len(code[n].args) = Arity(code[n].kind)
               /\ code[n].nret = IF code[n].kind = "st" THEN 0 ELSE 1

ASSUME BatchSizeAssumption == BatchSize \in Nat \ {0}
ASSUME SourcesAssumption == \A code \in Sources : IsSource(code)

VARIABLES source,     \* the program
          walk,       \* "forward", "backward", "translate", "done"
          waiting,    \* operation -> predecessors (backward: users) to come
          worklist, ready, order, batches,
          forward,    \* the result of the forward walk
          batched,    \* the translation so far
          valmap      \* source value -> value of batched

bvars == <<source, walk, waiting, worklist, ready, order, batches, forward, batched, valmap>>

(* A bootstrap weighs a thousand other operations.                         *)
Weight(o) == IF IsPbs(source, o) THEN 1000 ELSE 1

Depth == LET depth[o \in Ops(source)] == Weight(o) + Max({0} \cup {depth[p] : p \in Preds(source, o)})
         IN  depth
Height == LET height[o \in Ops(source)] == Weight(o) + Max({0} \cup {height[u] : u \in Users(source, o)})
          IN  height

(* What is looked at after an operation, and its rank.                     *)
Next_(o) == IF walk = "forward" THEN Users(source, o) ELSE Preds(source, o)
Priority == IF walk = "forward" THEN Height ELSE Depth

-----------------------------------------------------------------------------
(* An operation waits for as many as it has in count; a walk starts from   *)
(* those that wait for none.                                               *)
Predecessors(code) == [o \in Ops(code) |-> Cardinality(Preds(code, o))]
Followers(code) == [o \in Ops(code) |-> Cardinality(Users(code, o))]
Free(count) == Ascending({o \in DOMAIN count : count[o] = 0})

BatcherInit ==
  /\ source \in Sources
  /\ walk = "forward"
  /\ waiting = Predecessors(source) /\ worklist = Free(waiting)
  /\ ready = << >> /\ order = << >> /\ batches = << >>
  /\ forward = [batches |-> << >>, order |-> << >>]
  /\ batched = << >>
  /\ valmap = << >>

Walking == walk \in {"forward", "backward"}

(* What becomes ready when o has been visited.                             *)
ReleasedEarly(o) == {u \in Next_(o) : waiting[u] >= 1 /\ u \notin Range(ready \o worklist)}
Released(o) == {u \in Next_(o) : waiting[u] = 1}

(* First in, first out: the members of a batch are taken before what they  *)
(* release, which keeps a batch together in the order.                     *)
LastInFirst(list, released) == released \o list
Queued(list, released) == list \o released

Visit ==
  /\ Walking /\ worklist # << >>
  /\ LET o == Head(worklist)
     IN  /\ order' = Append(order, o)
         /\ waiting' = [u \in Ops(source) |-> waiting[u] - (IF u \in Next_(o) THEN 1 ELSE 0)]
         /\ worklist' = Queued(Tail(worklist), Ascending({u \in Released(o) : ~IsPbs(source, u)}))
         /\ ready' = ready \o Ascending({u \in Released(o) : IsPbs(source, u)})
  /\ UNCHANGED <<source, walk, batches, forward, batched, valmap>>

(* The batch takes the most critical of the ready bootstraps, once nothing *)
(* else is left to visit.                                                  *)
MayCloseEarly == Walking /\ ready # << >>
MayClose == Walking /\ worklist = << >> /\ ready # << >>

CloseBatch ==
  /\ MayClose
  /\ LET sorted == SortedBy(ready, Priority)
         size == Min({BatchSize, Len(ready)})
         batch == SubSeq(Reverse(sorted), 1, size)
     IN  /\ batches' = Append(batches, batch)
         /\ worklist' = worklist \o batch
         /\ ready' = SubSeq(sorted, 1, Len(sorted) - size)
  /\ UNCHANGED <<source, walk, waiting, order, forward, batched, valmap>>

TurnBack ==
  /\ walk = "forward" /\ worklist = << >> /\ ready = << >>
  /\ walk' = "backward"
  /\ forward' = [batches |-> batches, order |-> order]
  /\ waiting' = Followers(source) /\ worklist' = Free(waiting')
  /\ ready' = << >> /\ order' = << >> /\ batches' = << >>
  /\ UNCHANGED <<source, batched, valmap>>

(* The forward walk wins a tie.                                            *)
Choose ==
  /\ walk = "backward" /\ worklist = << >> /\ ready = << >>
  /\ walk' = "translate"
  /\ IF Len(forward.batches) <= Len(batches)
     THEN batches' = forward.batches /\ order' = forward.order
     ELSE batches' = batches /\ order' = Reverse(order)
  /\ UNCHANGED <<source, waiting, worklist, ready, forward, batched, valmap>>

-----------------------------------------------------------------------------
Members(batch) == {batch[j] : j \in DOMAIN batch}

ByValue(S) == [n \in 1 .. Cardinality(S) |->
  CHOOSE v \in S : Cardinality({w \in S : w[1] < v[1] \/ (w[1] = v[1] /\ w[2] < v[2])}) = n - 1]

(* The interface of a batch: what its members read from outside, and the   *)
(* results of the members that have a user outside.                        *)
Inputs(batch) ==
  ByValue({v \in UNION {Range(source[o].args) : o \in Members(batch)} : v[1] \notin Members(batch)})
Outputs(batch) ==
  ByValue(UNION {Range(Results(source, o)) : o \in {m \in Members(batch) : Users(source, m) \ Members(batch) # {}}})

Single(o) == [kind |-> source[o].kind, src |-> o, nret |-> source[o].nret, body |-> << >>,
              args |-> [i \in DOMAIN source[o].args |-> valmap[source[o].args[i]]]]

BatchOp(batch) ==
  LET inputs == Inputs(batch)
      outputs == Outputs(batch)
  IN  [kind |-> "batch", src |-> 0, nret |-> Len(outputs),
       args |-> [i \in DOMAIN inputs |-> valmap[inputs[i]]],
       body |-> [j \in DOMAIN batch |->
                   [src |-> batch[j], nret |-> source[batch[j]].nret,
                    args |-> [i \in DOMAIN source[batch[j]].args |-> Position(inputs, source[batch[j]].args[i])],
                    rets |-> [k \in 1 .. source[batch[j]].nret |-> Position(outputs, <<batch[j], k>>)]]]]

BatchOf(o) == CHOOSE b \in Range(batches) : o \in Members(b)

(* The assertions of the translation of one operation: what it reads is    *)
(* translated, what it defines is not, a bootstrap is in a batch.          *)
Translatable(read, defined) ==
  Range(read) \subseteq DOMAIN valmap /\ Range(defined) \cap DOMAIN valmap = {}

CanTranslate(o) ==
  IF ~IsPbs(source, o) THEN Translatable(source[o].args, Results(source, o))
  ELSE <<o, 1>> \in DOMAIN valmap \/
       /\ \E b \in Range(batches) : o \in Members(b)
       /\ Translatable(Inputs(BatchOf(o)), Outputs(BatchOf(o)))

Define(values) ==
  [v \in DOMAIN valmap \cup Range(values) |->
     IF v \in DOMAIN valmap THEN valmap[v] ELSE <<Len(batched) + 1, Position(values, v)>>]

Translate ==
  /\ walk = "translate" /\ order # << >>
  /\ CanTranslate(Head(order))
  /\ order' = Tail(order)
  /\ LET o == Head(order)
     IN  CASE ~IsPbs(source, o) -> /\ batched' = Append(batched, Single(o))
                                   /\ valmap' = Define(Results(source, o))
           [] IsPbs(source, o) /\ <<o, 1>> \in DOMAIN valmap -> UNCHANGED <<batched, valmap>>
           [] OTHER -> /\ batched' = Append(batched, BatchOp(BatchOf(o)))
                       /\ valmap' = Define(Outputs(BatchOf(o)))
  /\ UNCHANGED <<source, walk, waiting, worklist, ready, batches, forward>>

Translated ==
  /\ walk = "translate" /\ order = << >>
  /\ walk' = "done"
  /\ UNCHANGED <<source, waiting, worklist, ready, order, batches, forward, batched, valmap>>

BatcherNext == Visit \/ CloseBatch \/ TurnBack \/ Choose \/ Translate \/ Translated

-----------------------------------------------------------------------------
(* No assertion of the translation fails: when the order reaches a batch,  *)
(* everything any of its members reads has been translated.                *)
BatcherNeverPanics == walk = "translate" /\ order # << >> => CanTranslate(Head(order))

(* A batch fits the hardware and its members can run at once: none depends *)
(* on another, be it through operations outside the batch.                 *)
BatchesRunnable ==
  \A b \in Range(batches) :
    /\ Len(b) \in 1 .. BatchSize /\ IsInjective(b)
    /\ \A o, p \in Members(b) : o \notin Ancestors(source)[p]

(* A walk closes a batch short only if everything that remains must wait   *)
(* for it: each member of the next batch needs one of its members.         *)
ShortOnlyIfBlocked ==
  Walking =>
    \A n \in 1 .. Len(batches) - 1 :
      Len(batches[n]) < BatchSize =>
        \A o \in Members(batches[n + 1]) : \E p \in Members(batches[n]) :
          IF walk = "forward" THEN p \in Ancestors(source)[o] ELSE o \in Ancestors(source)[p]

=============================================================================
