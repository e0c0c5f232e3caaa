-------------------------------- MODULE Hpu --------------------------------
(***************************************************************************)
(* The simulated HPU (zhc_sim/src/hpu/mod.rs) under the simulation loop    *)
(* play_until_event(IscProcessOver) of simulator.rs: the event queue, the  *)
(* instruction scheduler, the processing elements and the retirement list, *)
(* executing one stream of DOps pushed at cycle 0.                         *)
(*                                                                         *)
(* Hpu::handle gives every popped event to every component; the actions    *)
(* below name, for each event, the components that react to it.  A handler *)
(* whose assertions fail would panic: here its action is not enabled, and  *)
(* NoPanic says that this does not happen.                                 *)
(***************************************************************************)
EXTENDS Isc, PeLanes, PePbs, SequencesExt

CONSTANT QueryPeriod  \* isc_query_period

ASSUME QueryPeriodAssumption == QueryPeriod \in Nat \ {0}

VARIABLES
  retired,            \* Retirement::dops
  encountered,        \* cond_encountered: IscProcessOver came in this step
  outcome             \* SimulationState of the last step_cond

vars == <<iscVars, dispatcherVars, laneVars, pbsVars, retired, encountered,
          outcome>>

(* The query that follows an event with side effects, unless one is pending*)
(* already.  Mutant: it follows in the same cycle.                         *)
QueryAtOnce(pending) == AfterIfNotThere(pending, 0, Event("IscQuery"))
QueryAfterPeriod(pending) ==
  AfterIfNotThere(pending, QueryPeriod, Event("IscQuery"))

(* Trigger t pops, nothing but the scheduler reacts, and the query that    *)
(* follows is armed unless one is pending already.                         *)
HandleAndRearm(t, new) ==
  Handle(t, new \cup QueryAfterPeriod(triggers \ {t}))

HpuInit ==
  /\ IscInit
  /\ LanesInit
  /\ PbsInit
  /\ DispatcherInit({[at |-> 0, event |-> BatchEvent("IscPushDOps", Len(prog))],
                     [at |-> 1, event |-> Event("IscQuery")]})
  /\ retired = <<>>
  /\ encountered = FALSE
  /\ outcome = "MayContinue"

othersUnchanged == UNCHANGED <<encountered, outcome>>
pesUnchanged == UNCHANGED <<laneVars, pbsVars>>

-----------------------------------------------------------------------------
(* Events of the scheduler.                                                *)

OnPushDOps(t) ==
  /\ t.event.type = "IscPushDOps"
  /\ PushDOps(t.event.size)
  /\ HandleAndRearm(t, {})
  /\ pesUnchanged /\ UNCHANGED retired

OnUnlock(t) ==
  /\ \/ t.event.type = "IscUnlockIssue" /\ UnlockIssue(t.event.id)
     \/ t.event.type = "IscUnlockRead" /\ UnlockRead(t.event.id)
     \/ t.event.type = "IscUnlockWrite" /\ UnlockWrite(t.event.id)
  /\ HandleAndRearm(t, {})
  /\ pesUnchanged /\ UNCHANGED retired

OnAvailable(t) ==
  /\ t.event.type = "PeAvailable"
  /\ SetAvailable(t.event.lane, TRUE)
  /\ HandleAndRearm(t, {})
  /\ pesUnchanged /\ UNCHANGED retired

OnUnavailable(t) ==
  /\ t.event.type = "PeUnavailable"
  /\ SetAvailable(t.event.lane, FALSE)
  /\ Handle(t, {})
  /\ pesUnchanged /\ UNCHANGED retired

(* A query with nothing to do, after which no query is pending.            *)
NothingToDo ==
  /\ ~ MayReadUnlock
  /\ ~ MayRefill
  /\ ~ MayRetire
  /\ ~ (MayIssue /\ \E d \in InPool : Issuable(d))
QueryIdle == NothingToDo /\ UNCHANGED iscVars

OnQuery(t) ==
  /\ t.event.type = "IscQuery"
  /\ \/ QueryReadUnlock /\ HandleAndRearm(t, {})
     \/ QueryRefill /\ HandleAndRearm(t, {})
     \/ /\ QueryRetire
        /\ HandleAndRearm(t, {Now(DopEvent("IscRetireDOp", Head(writeUnlocks)))})
     \/ \E d \in InPool :
          /\ QueryIssue(d)
          /\ HandleAndRearm(t, {Now(DopEvent("IscIssueDOp", d))})
     \/ QueryIdle /\ Handle(t, {})
  /\ pesUnchanged /\ UNCHANGED retired

(* Mutant: the process is over one DOp too early.                          *)
OnRetireDOpOverEarly(t) ==
  /\ t.event.type = "IscRetireDOp"
  /\ RetireDOp
  /\ retired' = Append(retired, t.event.id)
  /\ HandleAndRearm(t, IF processed' + 1 >= pushed
                       THEN {After(1, Event("IscProcessOver"))} ELSE {})
  /\ pesUnchanged
OnRetireDOp(t) ==
  /\ t.event.type = "IscRetireDOp"
  /\ RetireDOp
  /\ retired' = Append(retired, t.event.id)
  /\ HandleAndRearm(t, IF processed' = pushed
                       THEN {After(1, Event("IscProcessOver"))} ELSE {})
  /\ pesUnchanged

OnProcessOver(t) ==
  /\ t.event.type = "IscProcessOver"
  /\ Handle(t, {})
  /\ encountered' = TRUE
  /\ pesUnchanged /\ UNCHANGED <<iscVars, retired, outcome>>

-----------------------------------------------------------------------------
(* Events of the processing elements.                                      *)

OnIssueDOp(t) ==
  /\ t.event.type = "IscIssueDOp"
  /\ LET d == t.event.id
         lane == Affinity(prog[d])
     IN  \/ lane \in Lanes /\ LaneIssue(t, lane, d) /\ UNCHANGED pbsVars
         \/ lane = "Ctl" /\ CtlIssue(t, d) /\ UNCHANGED pbsVars
         \/ lane = "Pbs" /\ PbsIssue(t, d) /\ UNCHANGED laneVars
  /\ UNCHANGED <<iscVars, retired>>

OnLane(t) ==
  /\ \/ t.event.type = "PeLaunchProcessing" /\ LaneLaunch(t, t.event.lane)
     \/ t.event.type = "PeLandProcessing" /\ LaneLand(t, t.event.lane)
  /\ UNCHANGED <<iscVars, pbsVars, retired>>

OnPbs(t) ==
  /\ \/ t.event.type = "PePbsLaunchLoadMemory" /\ LaunchLoad(t)
     \/ t.event.type = "PePbsLandLoadMemory" /\ LandLoad(t, t.event.id)
     \/ t.event.type = "PePbsTimeout" /\ Timeout(t)
     \/ t.event.type = "PePbsLaunchProcessing" /\ LaunchProcessing(t, t.event.size)
     \/ t.event.type = "PePbsLandProcessing" /\ LandProcessing(t, t.event.size)
     \/ t.event.type = "PePbsLaunchUnloadMemory" /\ LaunchUnload(t)
     \/ t.event.type = "PePbsLandUnloadMemory" /\ LandUnload(t)
  /\ UNCHANGED <<iscVars, laneVars, retired>>

-----------------------------------------------------------------------------
(* The simulation loop.                                                    *)

(* Hpu::handle: every component gets the event of trigger t.               *)
HandleEvent(t) ==
  \/ OnProcessOver(t)
  \/ /\ \/ OnPushDOps(t)
        \/ OnUnlock(t)
        \/ OnAvailable(t)
        \/ OnUnavailable(t)
        \/ OnQuery(t)
        \/ OnRetireDOp(t)
        \/ OnIssueDOp(t)
        \/ OnLane(t)
        \/ OnPbs(t)
     /\ othersUnchanged

PopAndHandle == outcome = "MayContinue" /\ \E t \in Ready : HandleEvent(t)

(* No event is left in this cycle: step_cond returns, and play_until_event *)
(* stops, panics or takes the next step.                                   *)
EndCycle ==
  /\ outcome = "MayContinue"
  /\ Ready = {}
  /\ \/ encountered /\ outcome' = "CondEncountered" /\ UNCHANGED dispatcherVars
     \/ /\ ~ encountered
        /\ triggers = {}
        /\ outcome' = "SimulationOver"
        /\ UNCHANGED dispatcherVars
     \/ ~ encountered /\ Advance /\ UNCHANGED outcome
  /\ pesUnchanged /\ UNCHANGED <<iscVars, retired, encountered>>

Stopped == outcome # "MayContinue" /\ UNCHANGED vars

HpuNext == PopAndHandle \/ EndCycle \/ Stopped

HpuSpec == HpuInit /\ [][HpuNext]_vars

(* play_until_event is a loop that always takes its next step.             *)
FairHpuSpec == HpuSpec /\ WF_vars(PopAndHandle \/ EndCycle)

-----------------------------------------------------------------------------
(* Properties.                                                             *)

Pending(type) == {t \in triggers : t.event.type = type}
DopsOf(type) == {t.event.id : t \in Pending(type)}

(* The assertions, unwraps and panics of the handlers of an event.         *)
Asserts(e) ==
  CASE e.type = "IscUnlockIssue" ->
         e.id \in InPool /\ pool[e.id].state = "Pending"
    [] e.type = "IscQuery" ->
         IF MayReadUnlock
         THEN /\ Head(readUnlocks) \in InPool
              /\ pool[Head(readUnlocks)].state = "Issued"
         ELSE (~ MayRefill /\ MayRetire) =>
                /\ Head(writeUnlocks) \in InPool
                /\ pool[Head(writeUnlocks)].state = "Loaded"
    [] e.type = "IscIssueDOp" ->
         LET lane == Affinity(prog[e.id]) IN
           /\ lane \in Lanes => LaneIssueAsserts(lane)
           /\ lane = "Pbs" => PbsIssueAsserts
    [] e.type = "PeLaunchProcessing" -> LaneLaunchAsserts(e.lane)
    [] e.type = "PeLandProcessing" -> LaneLandAsserts(e.lane)
    [] e.type = "PePbsLaunchLoadMemory" -> LaunchLoadAsserts
    [] e.type = "PePbsLandLoadMemory" -> LandLoadAsserts
    [] e.type = "PePbsTimeout" -> TimeoutAsserts
    [] e.type = "PePbsLaunchProcessing" -> LaunchProcessingAsserts(e.size)
    [] e.type = "PePbsLandProcessing" -> LandProcessingAsserts(e.size)
    [] e.type = "PePbsLaunchUnloadMemory" -> LaunchUnloadAsserts
    [] e.type = "PePbsLandUnloadMemory" -> LandUnloadAsserts
    [] OTHER -> TRUE

(* No handler panics, in whatever order the events of a cycle are handled. *)
NoPanic == outcome = "MayContinue" => \A t \in Ready : Asserts(t.event)

(* play_until_event finds its event: the queue never runs empty before.    *)
NeverStalls == outcome # "SimulationOver"

(* When the simulation ends, every DOp has retired exactly once and nothing*)
(* is left in the scheduler or in a processing element.                    *)
CompletionSound ==
  outcome = "CondEncountered" =>
    /\ Len(retired) = Len(prog)
    /\ {retired[k] : k \in 1 .. Len(retired)} = Ids
    /\ InPool = {} /\ FrontBuffer = {}
    /\ readUnlocks = <<>> /\ writeUnlocks = <<>>
    /\ \A lane \in Lanes : queue[lane] = <<>> /\ current[lane] = NoDop
    /\ pbsQueue = <<>> /\ memory = <<>>

(* A DOp that was issued and has not been written is in exactly one place, *)
(* and there once; no other DOp is in any.                                 *)
Lines == [place \in Lanes \cup {"PbsQueue", "PbsMemory"} |->
            CASE place = "PbsQueue"  -> pbsQueue
              [] place = "PbsMemory" -> memory
              [] OTHER               -> queue[place]]
Holds(line, d) == \E k \in DOMAIN line : line[k] = d
PlacesOf(d) ==
  {place \in DOMAIN Lines : Holds(Lines[place], d)}
  \cup {type \in {"IscIssueDOp", "IscUnlockWrite"} : d \in DopsOf(type)}
Conservation ==
  /\ \A place \in DOMAIN Lines : IsInjective(Lines[place])
  /\ \A d \in Ids : IF d \in issued \ writeDone
                    THEN \E place \in PlacesOf(d) : PlacesOf(d) = {place}
                    ELSE PlacesOf(d) = {}

(* The scheduler never takes a full lane for an available one: at the end  *)
(* of a cycle, the PeUnavailable of a lane that has filled up has come, and*)
(* no PeAvailable after it.                                                *)
Full(lane) == IF lane = "Pbs" THEN PbsQueueFull ELSE LaneFull(lane)
FullIsUnavailable ==
  Ready = {} => \A lane \in TrackedLanes : Full(lane) => ~ tracker[lane]

(* The PBSes worked on together are closed by the one flush among them,    *)
(* the last to arrive, and none of the PBSes that this flush closes in the *)
(* stream is still to come: they are worked on now or have been before.    *)
(* PBSes of an earlier batch may be with them only if the flush is a batch *)
(* by itself, because only such a flush overtakes an earlier one           *)
(* (BatchesInOrder).  This is for the streams of the compiler, where a     *)
(* flush closes every batch, of at most MaxBatchSize PBSes that do not     *)
(* depend on each other, and for a timeout that outlasts a batch.          *)
Batch(f) ==
  {i \in Ids : /\ Affinity(prog[i]) = "Pbs" /\ i <= f
               /\ \A g \in i .. f - 1 : ~ IsPbsFlush(prog[g])}
Working == {memory[k] : k \in bound.parking + 1 .. bound.working}
Processed == writeDone \cup {memory[k] : k \in 1 .. bound.parking}
                       \cup DopsOf("IscUnlockWrite")
InBatches ==
  \A i \in Ids : Affinity(prog[i]) = "Pbs" =>
    \E f \in Ids :
      /\ i \in Batch(f) /\ IsPbsFlush(prog[f])
      /\ Cardinality(Batch(f)) <= MaxBatchSize
      /\ \A j \in Batch(f) : ~ ReadAfterWrite(i, j) /\ ~ WriteAfterWrite(i, j)
BatchIntegrity ==
  NWorking > 0 /\ InBatches =>
    LET f == memory[bound.working] IN
      /\ {i \in Working : IsPbsFlush(prog[i])} = {f}
      /\ Batch(f) \subseteq Working \cup Processed
      /\ Working \subseteq Batch(f) \/ (Batch(f) = {f} /\ \A i \in Working : i <= f)

(* A running timeout is one whose PePbsTimeout is still to come.           *)
TimerArmed == timeoutRunning => Pending("PePbsTimeout") # {}

(* What the scheduler and the PBS element note about events, and set and   *)
(* reset by events, is true of the queues and of the events to come.       *)
StatusRight == FullIsUnavailable /\ TimerArmed

(* The panic of the PePbsTimeout handler, "Unexpected state encoutered     *)
(* during timeout", does not happen.  It does: a timeout is dearmed by the *)
(* flag alone, so that the PePbsTimeout of an older one, which is still in *)
(* the queue, is taken for the expiry of a newer one.                      *)
TimeoutExpected ==
  \A t \in Ready : t.event.type = "PePbsTimeout" => TimeoutAsserts

(* The simulation finishes.                                                *)
Completes == <>(outcome = "CondEncountered")
-----------------------------------------------------------------------------
(* The parts of the inductive invariant behind the safety properties.      *)

(* The shape of the triggers.  An event of NowTypes is always due in the   *)
(* cycle that schedules it; only a timeout can be pending twice.           *)
NowTypes == {"IscIssueDOp", "IscUnlockIssue", "IscRetireDOp", "PeAvailable",
             "PeUnavailable", "PeLaunchProcessing", "PePbsLaunchLoadMemory",
             "PePbsLaunchProcessing", "PePbsLaunchUnloadMemory"}
PlainTypes == {"IscQuery", "IscProcessOver", "PePbsLaunchLoadMemory",
               "PePbsTimeout", "PePbsLaunchUnloadMemory"}
DopTypes == {"IscIssueDOp", "IscUnlockIssue", "IscUnlockRead", "IscUnlockWrite",
             "IscRetireDOp", "PePbsLandLoadMemory", "PePbsLandUnloadMemory"}
SizeTypes == {"IscPushDOps", "PePbsLaunchProcessing", "PePbsLandProcessing"}
EventOK(e) ==
  \/ e.type \in PlainTypes /\ e = Event(e.type)
  \/ e.type \in DopTypes /\ e = DopEvent(e.type, e.id) /\ e.id \in Ids
  \/ e.type \in SizeTypes /\ e = BatchEvent(e.type, e.size) /\ e.size \in Nat
  \/ /\ e.type \in {"PeLaunchProcessing", "PeLandProcessing"}
     /\ e = LaneEvent(e.type, e.lane) /\ e.lane \in Lanes
  \/ /\ e.type \in {"PeAvailable", "PeUnavailable"}
     /\ e = LaneEvent(e.type, e.lane) /\ e.lane \in TrackedLanes
TriggerOK(t) ==
  /\ t = [at |-> t.at, event |-> t.event]
  /\ t.at \in Nat /\ t.at >= now
  /\ EventOK(t.event)
  /\ t.event.type \in NowTypes => t.at = now
TriggersOK == now \in Nat /\ \A t \in triggers : TriggerOK(t)
Once ==
  \A t, u \in triggers :
    t.event = u.event /\ t.event.type # "PePbsTimeout" => t = u

(* Every variable has its type.                                            *)
Areas == {"waiting", "working", "parking", "unloading"}
HpuTypeOK ==
  /\ IscTypeOK
  /\ TriggersOK
  /\ queue \in [Lanes -> Seq(Ids)]
  /\ current \in [Lanes -> Ids \cup {NoDop}]
  /\ pbsQueue \in Seq(Ids)
  /\ memory \in Seq(Ids)
  /\ bound \in [Areas -> Nat]
  /\ timeoutRunning \in BOOLEAN
  /\ retired \in Seq(Ids)
  /\ encountered \in BOOLEAN
  /\ outcome \in {"MayContinue", "CondEncountered", "SimulationOver"}

(* A query is not due in the cycle of an issue before its acknowledgement. *)
QueryLater == \A t \in triggers : t.event.type = "IscQuery" => t.at > now
IssueTypes == {"IscIssueDOp", "IscUnlockIssue"}
IssueInv ==
  /\ \A t \in triggers : t.event.type \in IssueTypes =>
       /\ t.event.id \in issued \cap InPool
       /\ pool[t.event.id].state = "Pending"
       /\ QueryLater
       /\ \A u \in triggers : u.event.type \in IssueTypes => t = u
  /\ \A d \in issued \cap InPool : pool[d].state = "Pending" =>
       \E t \in triggers : t.event.type \in IssueTypes /\ t.event.id = d

(* Where a DOp that was issued is, and what is still to be said of it.     *)
Fresh(d) == d \in issued /\ d \notin readDone /\ d \notin writeDone
Unanswered(d) == d \notin DopsOf("IscIssueDOp") /\ d \notin DopsOf("IscUnlockWrite")
Unread(d) == d \notin DopsOf("IscUnlockRead")
PlaceAt(d) ==
  /\ \A lane \in Lanes : Holds(queue[lane], d) =>
       Affinity(prog[d]) = lane /\ Fresh(d) /\ Unanswered(d) /\ Unread(d)
  /\ Holds(pbsQueue, d) =>
       /\ Affinity(prog[d]) = "Pbs" /\ Fresh(d) /\ Unanswered(d) /\ Unread(d)
       /\ ~ Holds(memory, d)
  /\ Holds(memory, d) =>
       Affinity(prog[d]) = "Pbs" /\ d \in issued \ writeDone /\ Unanswered(d)
  /\ d \in DopsOf("IscIssueDOp") =>
       Fresh(d) /\ Unread(d) /\ d \notin DopsOf("IscUnlockWrite")
  /\ d \in DopsOf("IscUnlockWrite") => d \in issued \ writeDone
  /\ d \in DopsOf("IscUnlockRead") => d \in issued \ readDone
  /\ d \in issued \ writeDone => PlacesOf(d) # {}
PlaceInv ==
  /\ \A place \in DOMAIN Lines : IsInjective(Lines[place])
  /\ \A d \in Ids : PlaceAt(d)

(* A result is written after the operands are read, except in a control    *)
(* instruction, for which both are done before the next query.  In the     *)
(* memory of the PBS element, what has been loaded has been read.          *)
ReadsNow(d) == Now(DopEvent("IscUnlockRead", d)) \in triggers
ReadFirst ==
  \A t \in triggers : t.event.type = "IscUnlockWrite" =>
    \/ t.event.id \in readDone
    \/ Affinity(prog[t.event.id]) = "Ctl" /\ ReadsNow(t.event.id)
    \/ \E u \in triggers : u.event = DopEvent("IscUnlockRead", t.event.id) /\ u.at < t.at
CtlAtOnce ==
  \A t \in triggers :
    t.event.type = "IscUnlockRead" /\ Affinity(prog[t.event.id]) = "Ctl" =>
      t.at = now /\ QueryLater
MemoryRead ==
  /\ \A k \in 1 .. Len(memory) :
       /\ k <= bound.parking => memory[k] \in readDone
       /\ k <= bound.waiting => memory[k] \in readDone \/ ReadsNow(memory[k])
       /\ k > bound.waiting => memory[k] \notin readDone /\ Unread(memory[k])
  /\ \A t \in Ready : t.event.type = "PePbsLandProcessing" =>
       \A k \in 1 .. bound.working : memory[k] \in readDone
WrittenRead ==
  \A d \in writeDone \ readDone : Affinity(prog[d]) = "Ctl" /\ ReadsNow(d)
ReadInv == ReadFirst /\ CtlAtOnce /\ MemoryRead /\ WrittenRead

(* The scheduler's buffers: its DOps that are read but not marked as read, *)
(* and some of those that are written.                                     *)
BufferInv ==
  /\ IsInjective(readUnlocks) /\ IsInjective(writeUnlocks)
  /\ \A d \in Ids :
       /\ Holds(readUnlocks, d) <=> d \in InPool \cap readDone /\ NotLoaded(d)
       /\ Holds(writeUnlocks, d) => d \in InPool \cap writeDone
       /\ d \in InPool => pool[d].state # "Finished"

(* The lanes: one operation at a time, whose landing comes with or after   *)
(* its IscUnlockWrite.                                                     *)
LaneAt(lane) ==
  /\ Len(queue[lane]) <= QueueCapacity
  /\ \A t \in triggers :
       /\ t.event = LaneEvent("PeLaunchProcessing", lane) =>
            queue[lane] # <<>> /\ current[lane] = NoDop
       /\ t.event = LaneEvent("PeLandProcessing", lane) => current[lane] # NoDop
  /\ current[lane] = NoDop /\ queue[lane] # <<>> =>
       Now(LaneEvent("PeLaunchProcessing", lane)) \in triggers
  /\ current[lane] # NoDop =>
       /\ current[lane] \in issued
       /\ \E t \in triggers :
            /\ t.event = LaneEvent("PeLandProcessing", lane)
            /\ \/ t.at = now
               \/ [at |-> t.at, event |-> DopEvent("IscUnlockWrite", current[lane])] \in triggers
LaneInv == \A lane \in Lanes : LaneAt(lane)

(* A full lane is marked unavailable, or will be before the next query;    *)
(* one to which a DOp is on its way has room.                              *)
Comes(event) == \E t \in triggers : t.event = event
AvailableAt(lane) ==
  /\ Full(lane) => /\ ~ Comes(LaneEvent("PeAvailable", lane))
                   /\ tracker[lane] => Comes(LaneEvent("PeUnavailable", lane))
  /\ Comes(LaneEvent("PeUnavailable", lane)) => QueryLater
  /\ tracker[lane] /\ Comes(LaneEvent("PeAvailable", lane)) => QueryLater
  /\ \A t \in triggers :
       t.event.type = "IscIssueDOp" /\ Affinity(prog[t.event.id]) = lane =>
         ~ Full(lane) /\ ~ Comes(LaneEvent("PeAvailable", lane))
AvailableInv == \A lane \in TrackedLanes : AvailableAt(lane)

(* The memory of the PBS element: the order of its boundaries, and the     *)
(* event that ends what each area does.                                    *)
PbsBounds ==
  /\ Len(pbsQueue) <= PbsQueueCapacity
  /\ bound.unloading <= 1 /\ bound.unloading <= bound.parking
  /\ bound.parking <= bound.working /\ bound.working <= bound.waiting
  /\ bound.waiting <= Len(memory) /\ Len(memory) <= bound.waiting + 1
  /\ Len(memory) <= PbsMemoryCapacity
PbsExpects(t) ==
  /\ t.event.type = "PePbsLaunchLoadMemory" => LaunchLoadAsserts
  /\ t.event.type = "PePbsLandLoadMemory" =>
       LandLoadAsserts /\ t.event.id = memory[Len(memory)]
  /\ t.event.type = "PePbsLandUnloadMemory" =>
       LandUnloadAsserts /\ t.event.id = memory[1]
  /\ t.event.type = "PePbsLandProcessing" => t.event.size = NWorking /\ NWorking > 0
PbsEnds ==
  /\ NLoading > 0 => Pending("PePbsLandLoadMemory") # {}
  /\ NWorking > 0 => Pending("PePbsLandProcessing") # {}
  /\ NUnloading > 0 => Pending("PePbsLandUnloadMemory") # {}
NoTimerAtWork == NWorking > 0 => ~ timeoutRunning
PbsInv ==
  /\ PbsBounds
  /\ \A t \in triggers : PbsExpects(t)
  /\ PbsEnds /\ TimerArmed /\ NoTimerAtWork

(* DOps retire once, and the process is over with the last one.            *)
RetireInv ==
  /\ pushed \in {0, Len(prog)}
  /\ \A t \in triggers : t.event.type = "IscPushDOps" =>
       pushed = 0 /\ t.event.size = Len(prog)
  /\ Len(retired) = processed
  /\ IsInjective(retired)
  /\ \A k \in DOMAIN retired : retired[k] \in Retired
  /\ \A t \in triggers : t.event.type = "IscRetireDOp" =>
       t.event.id \in Retired /\ ~ Holds(retired, t.event.id)
  /\ encountered \/ Comes(Event("IscProcessOver")) =>
       processed = Len(prog) /\ pushed = Len(prog)
  /\ outcome = "CondEncountered" => encountered /\ Ready = {}

HpuInv ==
  /\ HpuTypeOK /\ Once /\ IscInv
  /\ IssueInv /\ PlaceInv /\ ReadInv /\ BufferInv
  /\ LaneInv /\ AvailableInv /\ PbsInv /\ RetireInv

-----------------------------------------------------------------------------
(* Why the queue may run empty before the process is over.                 *)

(* What there is to do is coming: a query for the scheduler, a launch for  *)
(* a batch that is complete, a load for a PBS that finds room, an unload   *)
(* for a result, the retirement of what has left the pool, the end of the  *)
(* process when all has retired.                                           *)
QueryComes == Comes(Event("IscQuery")) \/ NothingToDo
PbsComes ==
  /\ NWorking = 0 /\ BatchEnds(memory, bound) # {} => Pending("PePbsLaunchProcessing") # {}
  /\ pbsQueue # <<>> /\ MayLoad => Comes(Event("PePbsLaunchLoadMemory"))
  /\ NParking > 0 /\ NUnloading = 0 => Comes(Event("PePbsLaunchUnloadMemory"))
RetireComes ==
  /\ pushed # Len(prog) => Pending("IscPushDOps") # {}
  /\ \A d \in InPool \cap writeDone : Holds(writeUnlocks, d)
  /\ \A d \in Retired : Holds(retired, d) \/ d \in DopsOf("IscRetireDOp")
  /\ processed = Len(prog) /\ prog # <<>> => encountered \/ Comes(Event("IscProcessOver"))
  /\ outcome = "SimulationOver" => triggers = {} /\ ~ encountered
ProgressInv == QueryComes /\ PbsComes /\ RetireComes

(* The queue runs empty too early for one of three reasons only: there is  *)
(* nothing to execute, so that nothing retires last; a lane that has room  *)
(* is marked unavailable, because a PeUnavailable was handled after the    *)
(* PeAvailable of its cycle; or PBSes wait for a batch that is not full,   *)
(* and no timeout is running.                                              *)
StallExplained ==
  \/ prog = <<>>
  \/ \E lane \in TrackedLanes : ~ Full(lane) /\ ~ tracker[lane]
  \/ NWaiting > 0 /\ BatchEnds(memory, bound) = {} /\ ~ timeoutRunning
=============================================================================
