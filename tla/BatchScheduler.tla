-------------------------- MODULE BatchScheduler ---------------------------
(***************************************************************************)
(* The list scheduler of the pipeline: a batched program is put in the     *)
(* order in which three processing elements, each taking one operation at  *)
(* a time, would start it if operations took their configured latencies.   *)
(***************************************************************************)
EXTENDS HpuProgram

CONSTANTS AluLatency, MemLatency, PbsLatencyA, PbsLatencyB, PbsLatencyM

ASSUME LatencyAssumption ==
  {AluLatency, MemLatency, PbsLatencyA, PbsLatencyB, PbsLatencyM} \subseteq Nat

VARIABLES program,    \* the batched program
          pending,    \* operation -> predecessors to retire
          queue,      \* lane -> ready operations
          busy,       \* the lanes at work
          events,     \* retirements to come: [at, op]
          issued,     \* the schedule
          now         \* the cycle of the last retirement

svars == <<program, pending, queue, busy, events, issued, now>>

Units == {"pep", "pem", "pea"}
Lanes == Units \cup {"ctl"}

Lane(op) == CASE op.kind = "lin" -> "pea"
              [] op.kind \in {"ld", "st", "imm"} -> "pem"
              [] op.kind = "batch" -> "pep"
              [] op.kind = "cst" -> "ctl"

Latency(op) == CASE Lane(op) = "pea" -> AluLatency
                 [] Lane(op) = "pem" -> MemLatency
                 [] Lane(op) = "pep" -> PbsLatencyA * Max({Len(op.body), PbsLatencyM}) + PbsLatencyB
                 [] Lane(op) = "ctl" -> 0

(* How many batches still hang on an operation.                            *)
BatchHeight(code) ==
  LET height[o \in Ops(code)] ==
        Max({0} \cup {height[u] : u \in Users(code, o)}) + (IF code[o].kind = "batch" THEN 1 ELSE 0)
  IN  height

-----------------------------------------------------------------------------
(* One round of issue, from the given queues: every constant, then the     *)
(* most urgent operation of each lane that is idle.                        *)
Issue(code, queues, idle, cycle, constantsAt) ==
  LET sorted(l) == SortedBy(queues[l], BatchHeight(code))
      starts == {l \in Units : l \in idle /\ queues[l] # << >>}
      one(l) == IF l \in starts THEN <<sorted(l)[Len(queues[l])]>> ELSE << >>
      started == one("pep") \o one("pem") \o one("pea")
  IN  [issued |-> Reverse(queues["ctl"]) \o started,
       busy |-> starts \cup (Units \ idle),
       queue |-> [l \in Lanes |-> CASE l = "ctl" -> << >>
                                    [] l \in starts -> SubSeq(sorted(l), 1, Len(queues[l]) - 1)
                                    [] OTHER -> queues[l]],
       events |-> {[at |-> constantsAt, op |-> o] : o \in Range(queues["ctl"])}
                    \cup {[at |-> cycle + Latency(code[o]), op |-> o] : o \in Range(started)}]

SchedulerInit ==
  /\ program = << >> /\ pending = << >> /\ issued = << >>
  /\ queue = [l \in Lanes |-> << >>] /\ busy = {} /\ events = {} /\ now = 0

StartSchedule(code) ==
  /\ program' = code
  /\ pending' = [o \in Ops(code) |-> Cardinality(Preds(code, o))]
  /\ LET queues == [l \in Lanes |-> Ascending({o \in Ops(code) : Preds(code, o) = {} /\ Lane(code[o]) = l})]
         first == Issue(code, queues, Units, 0, 0)
     IN  /\ issued' = first.issued /\ busy' = first.busy
         /\ queue' = first.queue /\ events' = first.events
  /\ now' = 0

IdleBefore(e) == Units \ busy
IdleAfter(e) == Units \ (busy \ {Lane(program[e.op])})

(* The first retirement to come frees its lane and releases its users; of  *)
(* several at one cycle the heap may yield any.                            *)
RetireOp(e) ==
  /\ e \in events /\ \A f \in events : e.at <= f.at
  /\ LET released(l) == Ascending({u \in Users(program, e.op) : pending[u] = 1 /\ Lane(program[u]) = l})
         round == Issue(program, [l \in Lanes |-> queue[l] \o released(l)],
                        IdleAfter(e), e.at, e.at + 1)
     IN  /\ pending' = [u \in Ops(program) |-> pending[u] - (IF u \in Users(program, e.op) THEN 1 ELSE 0)]
         /\ issued' = issued \o round.issued
         /\ busy' = round.busy
         /\ queue' = round.queue
         /\ events' = (events \ {e}) \cup round.events
  /\ now' = e.at
  /\ UNCHANGED program

ScheduleNext == \E e \in events : RetireOp(e)

(* The scheduler by itself: any program the batcher may hand on.           *)
Schedule == (\E code : WellFormed(code) /\ StartSchedule(code)) \/ ScheduleNext

ScheduleSpec == SchedulerInit /\ [][Schedule]_svars

(* The program in another order, values renamed.                           *)
Reordered(code, order) == [n \in DOMAIN order |-> code[order[n]]]
Reschedule(code, order) ==
  LET place(o) == CHOOSE n \in DOMAIN order : order[n] = o
  IN  [n \in DOMAIN order |->
         [code[order[n]] EXCEPT !.args = [i \in DOMAIN @ |-> <<place(@[i][1]), @[i][2]>>]]]

-----------------------------------------------------------------------------
(* What a lane runs started after its arguments had retired, and no lane   *)
(* runs two operations.                                                    *)
LanesExclusive ==
  LET running(l) == {e \in events : Lane(program[e.op]) = l}
  IN  /\ \A l \in Lanes \ {"ctl"} : Cardinality(running(l)) = IF l \in busy THEN 1 ELSE 0
      /\ \A e \in events : \A f \in events : f.op \notin Preds(program, e.op)

(* The scheduler never leaves a lane idle while an operation waits for it, *)
(* so its event heap cannot run dry early.                                 *)
NoLaneStarves == \A l \in Lanes : queue[l] # << >> => l \in busy

(* The assertions of the rescheduling: when nothing is left to retire, the *)
(* list holds every operation, after those it depends on; and on the way   *)
(* there a lane is busy exactly while it runs one operation, and no        *)
(* operation waits for a lane that is not.                                 *)
ScheduleComplete ==
  /\ events = {} => IsSchedule(program, issued)
  /\ LanesExclusive
  /\ NoLaneStarves
=============================================================================
