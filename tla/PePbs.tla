------------------------------- MODULE PePbs -------------------------------
(***************************************************************************)
(* The programmable-bootstrapping processing element (pe_pbs.rs).          *)
(*                                                                         *)
(* A DOp waits in a queue, then lives in a memory that is one FIFO cut by  *)
(* four boundaries, counted from its front:                                *)
(*                                                                         *)
(*     back  | loading | waiting | working | parking | unloading |  front  *)
(*                     ^waiting  ^working  ^parking  ^unloading            *)
(*                                                                         *)
(* The boundary "waiting" is the number of DOps in the areas to its right, *)
(* and so on.  Loading and unloading take one DOp at a time; a batch of    *)
(* waiting DOps is worked on at once when a flush or MaxBatchSize DOps are *)
(* there, or when the timeout expires.                                     *)
(***************************************************************************)
EXTENDS Dispatcher, Program, FiniteSetsExt

CONSTANTS
  PbsQueueCapacity,   \* pbs_fifo_capacity
  PbsMemoryCapacity,  \* pbs_memory_capacity
  MaxBatchSize,       \* pbs_max_batch_size
  PbsTimeout,         \* pbs_timeout
  LoadUnloadLatency,  \* pbs_load_unload_latency
  ProcessingA, ProcessingB, ProcessingM  \* pbs_processing_latency_{a,b,m}

ASSUME PbsAssumption ==
  /\ PbsQueueCapacity \in Nat \ {0}
  /\ PbsMemoryCapacity \in Nat \ {0}
  /\ MaxBatchSize \in 1 .. PbsMemoryCapacity
  /\ PbsTimeout \in Nat
  /\ LoadUnloadLatency \in Nat \ {0}
  /\ ProcessingA \in Nat \ {0} /\ ProcessingB \in Nat /\ ProcessingM \in Nat

VARIABLES
  pbsQueue,           \* PePbs::queue
  memory,             \* PePbsMemory::memory
  bound,              \* its four boundaries
  timeoutRunning      \* PePbs::timeout_running

pbsVars == <<pbsQueue, memory, bound, timeoutRunning>>

PbsInit ==
  /\ pbsQueue = <<>>
  /\ memory = <<>>
  /\ bound = [waiting |-> 0, working |-> 0, parking |-> 0, unloading |-> 0]
  /\ timeoutRunning = FALSE

(* PePbsMemory::n_loading and the like.                                    *)
NLoading == Len(memory) - bound.waiting
NWaiting == bound.waiting - bound.working
NWorking == bound.working - bound.parking
NParking == bound.parking - bound.unloading
NUnloading == bound.unloading

PbsQueueFull == Len(pbsQueue) = PbsQueueCapacity
MayLoad == Len(memory) # PbsMemoryCapacity /\ NLoading = 0

(* FlatLinLatency::compute_latency.                                        *)
ProcessingLatency(n) ==
  ProcessingA * (IF n > ProcessingM THEN n ELSE ProcessingM) + ProcessingB

(* what_now, for a memory mem cut at b: what to do with its waiting DOps.  *)
(* The batch closes at the first flush, or at MaxBatchSize DOps.  Mutant:  *)
(* it closes before the flush.                                             *)
BatchEndsBeforeFlush(mem, b) ==
  {n \in 1 .. b.waiting - b.working - 1 :
     n = MaxBatchSize \/ IsPbsFlush(prog[mem[b.working + n + 1]])}
BatchEnds(mem, b) ==
  {n \in 1 .. b.waiting - b.working :
     n = MaxBatchSize \/ IsPbsFlush(prog[mem[b.working + n]])}
WhatNow(mem, b) ==
  CASE b.working > b.parking -> [hint |-> "AlreadyWorking"]
    [] b.working = b.parking /\ b.waiting = b.working -> [hint |-> "NoWaitings"]
    [] OTHER ->
         IF BatchEnds(mem, b) # {}
         THEN [hint |-> "MustLaunchBatch", size |-> Min(BatchEnds(mem, b))]
         ELSE [hint |-> "CanLaunchIncompleteBatch",
               size |-> b.waiting - b.working]

LaunchBatch(hint) == Now(BatchEvent("PePbsLaunchProcessing", hint.size))

(* LaunchLoad may follow when memory mem cut at b has room and q is not    *)
(* empty.  Mutant: while another load is running, too.                     *)
NextLoadAnyway(q, mem, b) ==
  IF q # <<>> /\ Len(mem) # PbsMemoryCapacity
  THEN {Now(Event("PePbsLaunchLoadMemory"))} ELSE {}
NextLoad(q, mem, b) ==
  IF q # <<>> /\ Len(mem) # PbsMemoryCapacity /\ Len(mem) = b.waiting
  THEN {Now(Event("PePbsLaunchLoadMemory"))} ELSE {}

-----------------------------------------------------------------------------
(* IscIssueDOp(d) for a PBS.                                               *)
PbsIssueAsserts == ~ PbsQueueFull
PbsIssue(t, d) ==
  /\ PbsIssueAsserts
  /\ pbsQueue' = Append(pbsQueue, d)
  /\ LET arms == ~ timeoutRunning /\ NWorking = 0 IN
       /\ timeoutRunning' = (timeoutRunning \/ arms)
       /\ Handle(t,
            {Now(DopEvent("IscUnlockIssue", d))}
            \cup (IF arms THEN {After(PbsTimeout, Event("PePbsTimeout"))}
                  ELSE {})
            \cup (IF Len(pbsQueue') = PbsQueueCapacity
                  THEN {Now(LaneEvent("PeUnavailable", "Pbs"))} ELSE {})
            \cup NextLoad(pbsQueue', memory, bound))
  /\ UNCHANGED <<memory, bound>>

(* PePbsLaunchLoadMemory.                                                  *)
LaunchLoadAsserts == pbsQueue # <<>> /\ MayLoad
LaunchLoad(t) ==
  /\ LaunchLoadAsserts
  /\ LET d == Head(pbsQueue) IN
       /\ memory' = Append(memory, d)
       /\ Handle(t,
            {After(LoadUnloadLatency, DopEvent("PePbsLandLoadMemory", d))}
            \cup (IF PbsQueueFull THEN {Now(LaneEvent("PeAvailable", "Pbs"))}
                  ELSE {}))
  /\ pbsQueue' = Tail(pbsQueue)
  /\ UNCHANGED <<bound, timeoutRunning>>

(* PePbsLandLoadMemory(d).                                                 *)
LandLoadAsserts == NLoading > 0
LandLoad(t, d) ==
  /\ LandLoadAsserts
  /\ bound' = [bound EXCEPT !.waiting = @ + 1]
  /\ LET hint == WhatNow(memory, bound') IN
       /\ hint.hint # "NoWaitings"
       /\ Handle(t,
            {Now(DopEvent("IscUnlockRead", d))}
            \cup NextLoad(pbsQueue, memory, bound')
            \cup (IF hint.hint = "MustLaunchBatch" THEN {LaunchBatch(hint)}
                  ELSE {}))
  /\ UNCHANGED <<pbsQueue, memory, timeoutRunning>>

(* PePbsTimeout.  A timeout is never cancelled: one that comes when none   *)
(* is expected is ignored.                                                 *)
TimeoutAsserts ==
  timeoutRunning => WhatNow(memory, bound).hint = "CanLaunchIncompleteBatch"
Timeout(t) ==
  /\ TimeoutAsserts
  /\ timeoutRunning' = FALSE
  /\ Handle(t, IF timeoutRunning THEN {LaunchBatch(WhatNow(memory, bound))}
               ELSE {})
  /\ UNCHANGED <<pbsQueue, memory, bound>>

(* PePbsLaunchProcessing(n).                                               *)
LaunchProcessingAsserts(n) == n > 0 /\ NWaiting >= n /\ NWorking = 0
LaunchProcessing(t, n) ==
  /\ LaunchProcessingAsserts(n)
  /\ timeoutRunning' = FALSE
  /\ bound' = [bound EXCEPT !.working = @ + n]
  /\ Handle(t, {After(ProcessingLatency(n),
                      BatchEvent("PePbsLandProcessing", n))})
  /\ UNCHANGED <<pbsQueue, memory>>

(* PePbsLandProcessing(n).                                                 *)
LandProcessingHint ==
  WhatNow(memory, [bound EXCEPT !.parking = bound.working])
LandProcessingAsserts(n) ==
  /\ n = NWorking /\ n > 0
  /\ LandProcessingHint.hint = "CanLaunchIncompleteBatch" => ~ timeoutRunning
LandProcessing(t, n) ==
  /\ LandProcessingAsserts(n)
  /\ bound' = [bound EXCEPT !.parking = bound.working]
  /\ LET hint == LandProcessingHint IN
       /\ timeoutRunning' = CASE hint.hint = "CanLaunchIncompleteBatch" -> TRUE
                              [] hint.hint = "NoWaitings" -> FALSE
                              [] OTHER -> timeoutRunning
       /\ Handle(t,
            {Now(Event("PePbsLaunchUnloadMemory"))}
            \cup (CASE hint.hint = "MustLaunchBatch" -> {LaunchBatch(hint)}
                    [] hint.hint = "CanLaunchIncompleteBatch" ->
                         {After(PbsTimeout, Event("PePbsTimeout"))}
                    [] OTHER -> {}))
  /\ UNCHANGED <<pbsQueue, memory>>

(* PePbsLaunchUnloadMemory.                                                *)
LaunchUnloadAsserts == NParking > 0 /\ NUnloading = 0
LaunchUnload(t) ==
  /\ LaunchUnloadAsserts
  /\ bound' = [bound EXCEPT !.unloading = @ + 1]
  /\ LET d == memory[bound.unloading + 1] IN
       Handle(t, {After(LoadUnloadLatency * NumberOutputs(prog[d]),
                        DopEvent("PePbsLandUnloadMemory", d))})
  /\ UNCHANGED <<pbsQueue, memory, timeoutRunning>>

(* PePbsLandUnloadMemory(d).  The handler ignores d: the DOp at the front  *)
(* of the memory is the one that leaves.                                   *)
LandUnloadAsserts == NUnloading > 0
LandUnload(t) ==
  /\ LandUnloadAsserts
  /\ memory' = Tail(memory)
  /\ bound' = [area \in DOMAIN bound |-> bound[area] - 1]
  /\ Handle(t,
       {Now(DopEvent("IscUnlockWrite", Head(memory)))}
       \cup (IF bound'.parking > bound'.unloading
             THEN {Now(Event("PePbsLaunchUnloadMemory"))} ELSE {})
       \cup NextLoad(pbsQueue, memory', bound'))
  /\ UNCHANGED <<pbsQueue, timeoutRunning>>
=============================================================================
