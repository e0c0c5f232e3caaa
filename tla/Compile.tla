------------------------------ MODULE Compile ------------------------------
(***************************************************************************)
(* The pipeline from HpuLang to DOps: the batcher, then the list           *)
(* scheduler, then the register allocator, each on the result of the one   *)
(* before it.                                                              *)
(***************************************************************************)
EXTENDS Batcher, BatchScheduler, RegAlloc

VARIABLE pass    \* "batch", "schedule", "allocate"

vars == <<bvars, svars, avars, pass>>

CompileInit ==
  /\ pass = "batch"
  /\ BatcherInit
  /\ SchedulerInit
  /\ AllocInit

BatchProgram ==
  /\ pass = "batch" /\ BatcherNext
  /\ UNCHANGED <<svars, avars, pass>>

StartScheduling ==
  /\ pass = "batch" /\ walk = "done"
  /\ pass' = "schedule"
  /\ UNCHANGED <<bvars, avars>>
  /\ StartSchedule(batched)

ScheduleProgram ==
  /\ pass = "schedule" /\ ScheduleNext
  /\ UNCHANGED <<bvars, avars, pass>>

StartAllocating ==
  /\ pass = "schedule" /\ events = {}
  /\ pass' = "allocate"
  /\ UNCHANGED <<bvars, svars>>
  /\ StartAllocation(Reschedule(program, issued))

AllocateProgram ==
  /\ pass = "allocate" /\ AllocateNext
  /\ UNCHANGED <<bvars, svars, pass>>

Compiled == pass = "allocate" /\ phase = "done"

CompileNext ==
  \/ BatchProgram \/ StartScheduling \/ ScheduleProgram
  \/ StartAllocating \/ AllocateProgram
  \/ Compiled /\ UNCHANGED vars

CompileSpec == CompileInit /\ [][CompileNext]_vars

-----------------------------------------------------------------------------
(* What is allocated computes every operation of the source once, on the   *)
(* values it has in the source, and the words it becomes leave at every    *)
(* destination of the source, and nowhere else, the value stored there.    *)
ScheduledImplements == pass = "allocate" => WellFormed(input) /\ Implements(input, source)

CompiledImplements == ScheduledImplements /\ (Compiled => StoresDelivered)

(* No assertion of the allocator fails on a program that fits the register *)
(* file, reads nothing twice in one operation, uses every result and has   *)
(* no plaintext input.                                                     *)
AllocatorNeverPanics == pass = "allocate" /\ Fits /\ Regular => CanGoOn

(* No pass panics: the batcher translates nothing before what it reads,    *)
(* and the allocator finds the registers it insists on.                    *)
CompilerNeverPanics == BatcherNeverPanics /\ AllocatorNeverPanics

(* The allocator does not panic on plaintext inputs either.                *)
PlaintextsAllocated == pass = "allocate" /\ Fits => CanGoOn
=============================================================================
