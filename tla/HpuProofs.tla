----------------------------- MODULE HpuProofs ------------------------------
(***************************************************************************)
(* Proofs about the composed HPU, for every program, latency and capacity: *)
(* what each handler does to the pending events, to the queues and to the  *)
(* scheduler; that it keeps the inductive invariant (types, events pending *)
(* once, issues acknowledged, DOps in one place, reads before writes, the  *)
(* buffers of the scheduler, the lanes and their room, the PBS element,    *)
(* retirement); that the whole implements the scheduler among legal        *)
(* processing elements; and what follows: conservation of DOps, right      *)
(* availability, sound completion, and handlers that do not panic.  Last,  *)
(* what there is to do is always coming, so that a simulation that ends    *)
(* too early does so for one of three reasons.                             *)
(***************************************************************************)
EXTENDS Hpu, IscProofs, WellFoundedInduction

-----------------------------------------------------------------------------
(* Triggers: what a handler schedules.                                     *)

(* A handler schedules well-formed triggers: about a DOp, about a lane,    *)
(* about the room of a lane, with a size, or with nothing more.            *)
LEMMA DopTrigger ==
  ASSUME now \in Nat, NEW delay \in Nat, NEW d \in Ids, NEW type \in DopTypes,
         type \in NowTypes => delay = 0
  PROVE  TriggerOK(After(delay, DopEvent(type, d)))
BY DEF TriggerOK, After, DopEvent, EventOK

(* The events of a lane.                                                   *)
LEMMA LaneTrigger ==
  ASSUME now \in Nat, NEW delay \in Nat, NEW lane \in Lanes,
         NEW type \in {"PeLaunchProcessing", "PeLandProcessing"},
         type \in NowTypes => delay = 0
  PROVE  TriggerOK(After(delay, LaneEvent(type, lane)))
BY DEF TriggerOK, After, LaneEvent, EventOK

(* What a lane or the PBS element tells the scheduler of its room.         *)
LEMMA TrackerTrigger ==
  ASSUME now \in Nat, NEW lane \in TrackedLanes,
         NEW type \in {"PeAvailable", "PeUnavailable"}
  PROVE  TriggerOK(After(0, LaneEvent(type, lane)))
BY DEF TriggerOK, After, LaneEvent, EventOK

(* The events that carry a number of DOps.                                 *)
LEMMA SizeTrigger ==
  ASSUME now \in Nat, NEW delay \in Nat, NEW n \in Nat, NEW type \in SizeTypes,
         type \in NowTypes => delay = 0
  PROVE  TriggerOK(After(delay, BatchEvent(type, n)))
BY DEF TriggerOK, After, BatchEvent, EventOK

(* The events that carry nothing.                                          *)
LEMMA PlainTrigger ==
  ASSUME now \in Nat, NEW delay \in Nat, NEW type \in PlainTypes,
         type \in NowTypes => delay = 0
  PROVE  TriggerOK(After(delay, Event(type)))
BY DEF TriggerOK, After, Event, EventOK

(* Rearming schedules the one query, and only when no other is to come.    *)
LEMMA Rearm ==
  ASSUME TriggersOK, NEW t \in triggers, NEW u \in QueryAfterPeriod(triggers \ {t})
  PROVE  /\ u = After(QueryPeriod, Event("IscQuery"))
         /\ \A v \in triggers \ {t} : v.event.type # "IscQuery"
<1>1. u = After(QueryPeriod, Event("IscQuery"))
  BY DEF QueryAfterPeriod, AfterIfNotThere
<1>2. ASSUME NEW v \in triggers \ {t}, v.event.type = "IscQuery" PROVE FALSE
  <2>1. v.event = Event("IscQuery")
    BY <1>2 DEF TriggersOK, TriggerOK, EventOK, PlainTypes, DopTypes, SizeTypes
  <2> QED
    BY <2>1 DEF QueryAfterPeriod, AfterIfNotThere
<1> QED
  BY <1>1, <1>2

(* The order of the numbers is well-founded.                               *)
LEMMA LessWF ==
  \E R : IsWellFoundedOn(R, Nat) /\ \A x, y \in Nat : y < x => <<y, x>> \in R
<1>1. \A x, y \in Nat : y < x => <<y, x>> \in OpToRel(<,Nat)
  BY DEF OpToRel
<1> WITNESS OpToRel(<,Nat)
<1> QED
  BY <1>1, NatLessThanWellFounded

(* A non-empty set of numbers has a least one.                             *)
LEMMA NatMin ==
  ASSUME NEW S \in SUBSET Nat, S # {}
  PROVE  \E m \in S : \A y \in S : m <= y
<1>1. PICK R : IsWellFoundedOn(R, Nat) /\ \A x, y \in Nat : y < x => <<y, x>> \in R
  BY LessWF
<1>2. PICK m \in S : \A y \in S : ~ (<<y, m>> \in R)
  BY <1>1, WFMin
<1>3. \A y \in S : ~ (y < m)
  BY <1>1, <1>2
<1> QED
  BY <1>3

(* The hint that policy.rs gives, and the size of the batch it asks for,   *)
(* which is never more than what waits.                                    *)
LEMMA WhatNowSize ==
  ASSUME NEW mem, NEW b \in [Areas -> Nat], b.parking <= b.working, b.working <= b.waiting
  PROVE  LET h == WhatNow(mem, b) IN
         /\ h.hint \in {"AlreadyWorking", "NoWaitings", "MustLaunchBatch", "CanLaunchIncompleteBatch"}
         /\ h.hint = "AlreadyWorking" <=> b.working > b.parking
         /\ h.hint = "NoWaitings" <=> b.working = b.parking /\ b.waiting = b.working
         /\ h.hint \in {"MustLaunchBatch", "CanLaunchIncompleteBatch"} =>
              h.size \in Nat \ {0} /\ h.size <= b.waiting - b.working
<1> USE DEF Areas
<1>1. CASE b.working > b.parking
  BY <1>1 DEF WhatNow
<1>2. CASE b.working = b.parking /\ b.waiting = b.working
  BY <1>2 DEF WhatNow
<1>3. CASE b.working = b.parking /\ b.waiting > b.working
  <2>1. CASE BatchEnds(mem, b) = {}
    BY <1>3, <2>1 DEF WhatNow
  <2>2. CASE BatchEnds(mem, b) # {}
    <3>1. BatchEnds(mem, b) \in SUBSET Nat /\ BatchEnds(mem, b) \subseteq 1 .. b.waiting - b.working
      BY DEF BatchEnds
    <3>2. PICK m \in BatchEnds(mem, b) : \A y \in BatchEnds(mem, b) : m <= y
      BY <2>2, <3>1, NatMin
    <3>3. Min(BatchEnds(mem, b)) \in BatchEnds(mem, b)
      BY <3>2 DEF Min
    <3>4. Min(BatchEnds(mem, b)) \in 1 .. b.waiting - b.working
      BY <3>1, <3>3
    <3>5. WhatNow(mem, b) = [hint |-> "MustLaunchBatch", size |-> Min(BatchEnds(mem, b))]
      BY <1>3, <2>2 DEF WhatNow
    <3> QED
      BY <1>3, <3>4, <3>5
  <2> QED
    BY <2>1, <2>2
<1> QED
  BY <1>1, <1>2, <1>3

(* The events that the handlers of an event schedule.                      *)
Emits(type) ==
  CASE type \in {"IscPushDOps", "IscUnlockIssue", "IscUnlockRead",
                 "IscUnlockWrite", "PeAvailable"} -> {"IscQuery"}
    [] type = "IscQuery" -> {"IscQuery", "IscRetireDOp", "IscIssueDOp"}
    [] type = "IscRetireDOp" -> {"IscQuery", "IscProcessOver"}
    [] type = "IscIssueDOp" ->
         {"IscUnlockIssue", "IscUnlockRead", "IscUnlockWrite", "PeUnavailable",
          "PeLaunchProcessing", "PePbsLaunchLoadMemory", "PePbsTimeout"}
    [] type = "PeLaunchProcessing" ->
         {"IscUnlockRead", "IscUnlockWrite", "PeLandProcessing", "PeAvailable"}
    [] type = "PeLandProcessing" -> {"PeLaunchProcessing"}
    [] type = "PePbsLaunchLoadMemory" -> {"PePbsLandLoadMemory", "PeAvailable"}
    [] type = "PePbsLandLoadMemory" ->
         {"IscUnlockRead", "PePbsLaunchLoadMemory", "PePbsLaunchProcessing"}
    [] type = "PePbsTimeout" -> {"PePbsLaunchProcessing"}
    [] type = "PePbsLaunchProcessing" -> {"PePbsLandProcessing"}
    [] type = "PePbsLandProcessing" ->
         {"PePbsLaunchUnloadMemory", "PePbsLaunchProcessing", "PePbsTimeout"}
    [] type = "PePbsLaunchUnloadMemory" -> {"PePbsLandUnloadMemory"}
    [] type = "PePbsLandUnloadMemory" ->
         {"IscUnlockWrite", "PePbsLaunchUnloadMemory", "PePbsLaunchLoadMemory"}
    [] OTHER -> {}

(* What every handler does to time and to the triggers.                    *)
Pops(t) ==
  /\ now' = now /\ prog' = prog
  /\ \A u \in triggers : u # t => u \in triggers'
  /\ \A u \in triggers' :
       \/ u \in triggers /\ u # t
       \/ /\ TriggerOK(u) /\ u.event.type \in Emits(t.event.type)
          /\ u.event.type = "IscQuery" => u.at > now

(* A handler that schedules the triggers of new.                           *)
LEMMA PopsBy ==
  ASSUME NEW t \in triggers, NEW new, Handle(t, new), prog' = prog,
         \A u \in new : /\ TriggerOK(u) /\ u.event.type \in Emits(t.event.type)
                        /\ u.event.type = "IscQuery" => u.at > now
  PROVE  Pops(t)
BY DEF Handle, Pops

(* A handler that schedules the triggers of new and rearms the query.      *)
LEMMA PopsAndRearms ==
  ASSUME TriggersOK, NEW t \in triggers, NEW new, HandleAndRearm(t, new), prog' = prog,
         "IscQuery" \in Emits(t.event.type),
         \A u \in new : /\ TriggerOK(u) /\ u.event.type \in Emits(t.event.type)
                        /\ u.event.type # "IscQuery"
  PROVE  Pops(t)
<1>1. \A u \in QueryAfterPeriod(triggers \ {t}) : u = After(QueryPeriod, Event("IscQuery"))
  BY Rearm
<1>2. now \in Nat /\ QueryPeriod \in Nat /\ QueryPeriod > 0
  BY QueryPeriodAssumption DEF TriggersOK
<1>3. TriggerOK(After(QueryPeriod, Event("IscQuery")))
  BY <1>2, PlainTrigger DEF PlainTypes, NowTypes
<1>4. /\ After(QueryPeriod, Event("IscQuery")).event.type = "IscQuery"
      /\ After(QueryPeriod, Event("IscQuery")).at > now
  BY <1>2 DEF After, Event
<1> DEFINE all == new \cup QueryAfterPeriod(triggers \ {t})
<1>5. Handle(t, all)
  BY DEF HandleAndRearm
<1>6. \A u \in all : /\ TriggerOK(u) /\ u.event.type \in Emits(t.event.type)
                     /\ u.event.type = "IscQuery" => u.at > now
  BY <1>1, <1>3, <1>4
<1> HIDE DEF all
<1> QED
  BY <1>5, <1>6, PopsBy

(* The two parts of a queue.                                               *)
LEMMA HeadTail ==
  ASSUME NEW S, NEW s \in Seq(S), s # <<>>
  PROVE  /\ Head(s) \in S /\ Head(s) = s[1]
         /\ Tail(s) \in Seq(S) /\ Len(Tail(s)) = Len(s) - 1 /\ Len(s) \in Nat \ {0}
         /\ \A k \in 1 .. Len(Tail(s)) : Tail(s)[k] = s[k + 1]
         /\ \A k \in 1 .. Len(s) : s[k] \in S
OBVIOUS

(* A queue and one more element.                                           *)
LEMMA AppendSeq ==
  ASSUME NEW S, NEW s \in Seq(S), NEW e \in S
  PROVE  /\ Append(s, e) \in Seq(S) /\ Len(Append(s, e)) = Len(s) + 1
         /\ Len(s) \in Nat
         /\ \A k \in 1 .. Len(s) : Append(s, e)[k] = s[k]
         /\ Append(s, e)[Len(s) + 1] = e
OBVIOUS

(* What is in the pool or was issued is a DOp of the program.              *)
LEMMA PoolInIds ==
  ASSUME IscTypeOK
  PROVE  Len(prog) \in Nat /\ InPool \subseteq Ids /\ issued \subseteq Ids
<1>1. Len(prog) \in Nat
  <2>1. prog \in Seq(DopInstruction)
    BY ProgramsAssumption DEF IscTypeOK
  <2> QED
    BY <2>1
<1> QED
  BY <1>1 DEF IscTypeOK, Ids

(* Every handler pops its trigger and schedules well-formed ones.          *)
LEMMA PopStep ==
  ASSUME HpuTypeOK, PbsInv, NEW t \in Ready, HandleEvent(t)
  PROVE  Pops(t)
<1> USE DEF Ready
<1>0. t \in triggers /\ TriggersOK /\ now \in Nat
  BY DEF HpuTypeOK, TriggersOK
<1>a. \A d : d \in Ids => TriggerOK(Now(DopEvent("IscUnlockIssue", d)))
  BY <1>0, DopTrigger DEF Now, DopTypes, NowTypes
<1>1. CASE OnProcessOver(t)
  BY <1>0, <1>1, PopsBy DEF OnProcessOver, iscVars
<1>2. CASE OnPushDOps(t)
  BY <1>0, <1>2, PopsAndRearms DEF OnPushDOps, PushDOps, Emits
<1>3. CASE OnUnlock(t)
  <2>1. "IscQuery" \in Emits(t.event.type)
    BY <1>3 DEF OnUnlock, Emits
  <2>2. HandleAndRearm(t, {}) /\ prog' = prog
    BY <1>3 DEF OnUnlock, UnlockIssue, UnlockRead, UnlockWrite
  <2> QED
    BY <1>0, <2>1, <2>2, PopsAndRearms
<1>4. CASE OnAvailable(t)
  BY <1>0, <1>4, PopsAndRearms DEF OnAvailable, SetAvailable, Emits
<1>5. CASE OnUnavailable(t)
  BY <1>0, <1>5, PopsBy DEF OnUnavailable, SetAvailable
<1>6. CASE OnQuery(t)
  <2>1. t.event.type = "IscQuery" /\ "IscQuery" \in Emits(t.event.type)
    BY <1>6 DEF OnQuery, Emits
  <2>2. CASE QueryReadUnlock /\ HandleAndRearm(t, {})
    <3>1. prog' = prog
      BY <2>2 DEF QueryReadUnlock
    <3> QED
      BY <1>0, <2>1, <2>2, <3>1, PopsAndRearms
  <2>3. CASE QueryRefill /\ HandleAndRearm(t, {})
    BY <1>0, <2>1, <2>3, PopsAndRearms DEF QueryRefill
  <2>4. CASE QueryRetire /\ HandleAndRearm(t, {Now(DopEvent("IscRetireDOp", Head(writeUnlocks)))})
    <3>1. Head(writeUnlocks) \in Ids
      BY <2>4, PoolInIds DEF QueryRetire, HpuTypeOK
    <3>2. TriggerOK(Now(DopEvent("IscRetireDOp", Head(writeUnlocks))))
      BY <1>0, <3>1, DopTrigger DEF Now, DopTypes
    <3>3. Now(DopEvent("IscRetireDOp", Head(writeUnlocks))).event.type = "IscRetireDOp"
      BY DEF Now, After, DopEvent
    <3>4. "IscRetireDOp" \in Emits("IscQuery")
      BY DEF Emits
    <3> QED
      BY <1>0, <2>1, <2>4, <3>2, <3>3, <3>4, PopsAndRearms DEF QueryRetire
  <2>5. ASSUME NEW d \in InPool, QueryIssue(d), HandleAndRearm(t, {Now(DopEvent("IscIssueDOp", d))})
        PROVE  Pops(t)
    <3>1. d \in Ids
      BY <2>5, PoolInIds DEF HpuTypeOK
    <3>2. TriggerOK(Now(DopEvent("IscIssueDOp", d)))
      BY <1>0, <3>1, DopTrigger DEF Now, DopTypes
    <3>3. Now(DopEvent("IscIssueDOp", d)).event.type = "IscIssueDOp"
      BY DEF Now, After, DopEvent
    <3>4. "IscIssueDOp" \in Emits("IscQuery")
      BY DEF Emits
    <3> QED
      BY <1>0, <2>1, <2>5, <3>2, <3>3, <3>4, PopsAndRearms DEF QueryIssue
  <2>6. CASE QueryIdle /\ Handle(t, {})
    BY <1>0, <2>6, PopsBy DEF QueryIdle, iscVars
  <2> QED
    BY <1>6, <2>2, <2>3, <2>4, <2>5, <2>6 DEF OnQuery
<1>7. CASE OnRetireDOp(t)
  <2>1. TriggerOK(After(1, Event("IscProcessOver")))
    BY <1>0, PlainTrigger DEF PlainTypes, NowTypes
  <2>2. After(1, Event("IscProcessOver")).event.type = "IscProcessOver"
    BY DEF After, Event
  <2>3. {"IscQuery", "IscProcessOver"} \subseteq Emits(t.event.type)
    BY <1>7 DEF OnRetireDOp, Emits
  <2> QED
    BY <1>0, <1>7, <2>1, <2>2, <2>3, PopsAndRearms DEF OnRetireDOp, RetireDOp
<1>8. CASE OnIssueDOp(t)
  <2> DEFINE d == t.event.id
             lane == Affinity(prog[d])
  <2>1. /\ t.event.type = "IscIssueDOp" /\ d \in Ids
        /\ Emits(t.event.type) = {"IscUnlockIssue", "IscUnlockRead", "IscUnlockWrite", "PeUnavailable",
              "PeLaunchProcessing", "PePbsLaunchLoadMemory", "PePbsTimeout"}
    <3>1. t.event.type = "IscIssueDOp"
      BY <1>8 DEF OnIssueDOp
    <3>2. d \in Ids
      BY <1>0, <3>1 DEF TriggersOK, TriggerOK, EventOK, PlainTypes, SizeTypes
    <3> QED
      BY <3>1, <3>2 DEF Emits
  <2>2. prog' = prog
    BY <1>8 DEF OnIssueDOp, iscVars
  <2>3. /\ TriggerOK(Now(DopEvent("IscUnlockIssue", d)))
        /\ TriggerOK(Now(DopEvent("IscUnlockRead", d)))
        /\ TriggerOK(Now(DopEvent("IscUnlockWrite", d)))
        /\ TriggerOK(After(PbsTimeout, Event("PePbsTimeout")))
        /\ TriggerOK(Now(Event("PePbsLaunchLoadMemory")))
    BY <1>0, <2>1, PbsAssumption, DopTrigger, PlainTrigger DEF Now, DopTypes, PlainTypes, NowTypes
  <2>4. CASE lane \in Lanes /\ LaneIssue(t, lane, d)
    <3>1. /\ TriggerOK(Now(LaneEvent("PeLaunchProcessing", lane)))
          /\ TriggerOK(Now(LaneEvent("PeUnavailable", lane)))
      BY <1>0, <2>4, LaneTrigger, TrackerTrigger DEF Now, Lanes, TrackedLanes
    <3> HIDE DEF d, lane
    <3>2. PICK new : /\ Handle(t, new)
                     /\ \A u \in new : u \in {Now(DopEvent("IscUnlockIssue", d)),
                            Now(LaneEvent("PeLaunchProcessing", lane)), Now(LaneEvent("PeUnavailable", lane))}
      BY <2>4 DEF LaneIssue
    <3> QED
      BY <1>0, <2>1, <2>2, <2>3, <3>1, <3>2, PopsBy DEF Now, After, DopEvent, LaneEvent
  <2>5. CASE lane = "Ctl" /\ CtlIssue(t, d)
    <3> HIDE DEF d, lane
    <3>2. PICK new : /\ Handle(t, new)
                     /\ \A u \in new : u \in {Now(DopEvent("IscUnlockIssue", d)),
                            Now(DopEvent("IscUnlockRead", d)), Now(DopEvent("IscUnlockWrite", d))}
      BY <2>5 DEF CtlIssue
    <3> QED
      BY <1>0, <2>1, <2>2, <2>3, <3>2, PopsBy DEF Now, After, DopEvent
  <2>6. CASE lane = "Pbs" /\ PbsIssue(t, d)
    <3>1. TriggerOK(Now(LaneEvent("PeUnavailable", "Pbs")))
      BY <1>0, TrackerTrigger DEF Now, TrackedLanes
    <3> HIDE DEF d, lane
    <3>2. PICK new : /\ Handle(t, new)
                     /\ \A u \in new : u \in {Now(DopEvent("IscUnlockIssue", d)),
                            After(PbsTimeout, Event("PePbsTimeout")),
                            Now(Event("PePbsLaunchLoadMemory")), Now(LaneEvent("PeUnavailable", "Pbs"))}
      BY <2>6 DEF PbsIssue, NextLoad
    <3> QED
      BY <1>0, <2>1, <2>2, <2>3, <3>1, <3>2, PopsBy DEF Now, After, DopEvent, LaneEvent, Event
  <2> QED
    BY <1>8, <2>4, <2>5, <2>6 DEF OnIssueDOp
<1>9. CASE OnLane(t)
  <2> DEFINE lane == t.event.lane
  <2>1. lane \in Lanes
    BY <1>0, <1>9 DEF OnLane, TriggersOK, TriggerOK, EventOK, PlainTypes, DopTypes, SizeTypes
  <2>2. prog' = prog
    BY <1>9 DEF OnLane, iscVars
  <2>3. CASE t.event.type = "PeLaunchProcessing" /\ LaneLaunch(t, lane)
    <3> DEFINE d == Head(queue[lane])
    <3>1. d \in Ids
      BY <2>1, <2>3, HeadTail DEF LaneLaunch, LaneLaunchAsserts, HpuTypeOK
    <3>2. ReadLatency[lane] \in Nat \ {0} /\ WriteLatency[lane] \in Nat \ {0}
      BY <2>1, LaneAssumption
    <3>3. /\ TriggerOK(After(ReadLatency[lane], DopEvent("IscUnlockRead", d)))
          /\ TriggerOK(After(WriteLatency[lane], DopEvent("IscUnlockWrite", d)))
          /\ TriggerOK(After(WriteLatency[lane], LaneEvent("PeLandProcessing", lane)))
          /\ TriggerOK(After(0, LaneEvent("PeAvailable", lane)))
      BY <1>0, <2>1, <3>1, <3>2, DopTrigger, LaneTrigger, TrackerTrigger
         DEF DopTypes, NowTypes, Lanes, TrackedLanes
    <3>4. Emits(t.event.type) = {"IscUnlockRead", "IscUnlockWrite", "PeLandProcessing", "PeAvailable"}
      BY <2>3 DEF Emits
    <3>5. PICK new : /\ Handle(t, new)
                     /\ \A u \in new : u \in {After(ReadLatency[lane], DopEvent("IscUnlockRead", d)),
                            After(WriteLatency[lane], DopEvent("IscUnlockWrite", d)),
                            After(WriteLatency[lane], LaneEvent("PeLandProcessing", lane)),
                            After(0, LaneEvent("PeAvailable", lane))}
      BY <2>3 DEF LaneLaunch, Now
    <3> HIDE DEF d, lane
    <3> QED
      BY <1>0, <2>2, <3>3, <3>4, <3>5, PopsBy DEF After, DopEvent, LaneEvent
  <2>4. CASE t.event.type = "PeLandProcessing" /\ LaneLand(t, lane)
    <3>1. TriggerOK(After(0, LaneEvent("PeLaunchProcessing", lane)))
      BY <1>0, <2>1, LaneTrigger
    <3>2. Emits(t.event.type) = {"PeLaunchProcessing"}
      BY <2>4 DEF Emits
    <3>3. PICK new : Handle(t, new) /\ \A u \in new : u = After(0, LaneEvent("PeLaunchProcessing", lane))
      BY <2>4 DEF LaneLand, Now
    <3> HIDE DEF lane
    <3> QED
      BY <1>0, <2>2, <3>1, <3>2, <3>3, PopsBy DEF After, LaneEvent
  <2> QED
    BY <1>9, <2>3, <2>4 DEF OnLane
<1>10. CASE OnPbs(t)
  <2>1. prog' = prog
    BY <1>10 DEF OnPbs, iscVars
  <2>2. /\ bound \in [Areas -> Nat] /\ bound.parking <= bound.working
        /\ bound.working <= bound.waiting
    BY DEF HpuTypeOK, PbsInv, PbsBounds, PbsExpects
  <2>3. /\ TriggerOK(After(0, Event("PePbsLaunchLoadMemory")))
        /\ TriggerOK(After(0, Event("PePbsLaunchUnloadMemory")))
        /\ TriggerOK(After(PbsTimeout, Event("PePbsTimeout")))
        /\ \A n \in Nat : TriggerOK(After(0, BatchEvent("PePbsLaunchProcessing", n)))
        /\ TriggerOK(After(0, LaneEvent("PeAvailable", "Pbs")))
    BY <1>0, PbsAssumption, PlainTrigger, SizeTrigger, TrackerTrigger
       DEF PlainTypes, SizeTypes, NowTypes, TrackedLanes
  <2>4. CASE t.event.type = "PePbsLaunchLoadMemory" /\ LaunchLoad(t)
    <3> DEFINE d == Head(pbsQueue)
    <3>1. d \in Ids
      BY <2>4, HeadTail DEF LaunchLoad, LaunchLoadAsserts, HpuTypeOK
    <3>2. TriggerOK(After(LoadUnloadLatency, DopEvent("PePbsLandLoadMemory", d)))
      BY <1>0, <3>1, PbsAssumption, DopTrigger DEF DopTypes, NowTypes
    <3>3. Emits(t.event.type) = {"PePbsLandLoadMemory", "PeAvailable"}
      BY <2>4 DEF Emits
    <3>4. PICK new : /\ Handle(t, new)
                     /\ \A u \in new : u \in {After(LoadUnloadLatency, DopEvent("PePbsLandLoadMemory", d)),
                                             After(0, LaneEvent("PeAvailable", "Pbs"))}
      BY <2>4 DEF LaunchLoad, Now
    <3> HIDE DEF d
    <3> QED
      BY <1>0, <2>1, <2>3, <3>2, <3>3, <3>4, PopsBy DEF After, DopEvent, LaneEvent
  <2>5. CASE t.event.type = "PePbsLandLoadMemory" /\ LandLoad(t, t.event.id)
    <3> DEFINE d == t.event.id
               h == WhatNow(memory, bound')
    <3>1. d \in Ids
      BY <1>0, <2>5 DEF TriggersOK, TriggerOK, EventOK, PlainTypes, SizeTypes
    <3>2. TriggerOK(After(0, DopEvent("IscUnlockRead", d)))
      BY <1>0, <3>1, DopTrigger DEF DopTypes, NowTypes
    <3>3. /\ bound' \in [Areas -> Nat] /\ bound'.parking <= bound'.working
          /\ bound'.working <= bound'.waiting
      BY <2>2, <2>5 DEF LandLoad, Areas
    <3>4. h.hint = "MustLaunchBatch" => h.size \in Nat
      BY <3>3, WhatNowSize
    <3>5. Emits(t.event.type) = {"IscUnlockRead", "PePbsLaunchLoadMemory", "PePbsLaunchProcessing"}
      BY <2>5 DEF Emits
    <3> DEFINE new == {After(0, DopEvent("IscUnlockRead", d))}
                      \cup NextLoad(pbsQueue, memory, bound')
                      \cup (IF h.hint = "MustLaunchBatch" THEN {LaunchBatch(h)} ELSE {})
    <3>6. Handle(t, new)
      BY <2>5 DEF LandLoad, Now
    <3>8. \A u \in new : \/ u = After(0, DopEvent("IscUnlockRead", d))
                         \/ u = After(0, Event("PePbsLaunchLoadMemory"))
                         \/ h.hint = "MustLaunchBatch" /\ u = LaunchBatch(h)
      BY DEF NextLoad, Now
    <3> HIDE DEF new
    <3> HIDE DEF d, h
    <3>7. h.hint = "MustLaunchBatch" => /\ TriggerOK(LaunchBatch(h))
                                        /\ LaunchBatch(h).event.type = "PePbsLaunchProcessing"
      BY <2>3, <3>4 DEF LaunchBatch, Now, After, BatchEvent
    <3> QED
      BY <1>0, <2>1, <2>3, <3>2, <3>5, <3>6, <3>7, <3>8, PopsBy DEF After, DopEvent, Event
  <2>6. CASE t.event.type = "PePbsTimeout" /\ Timeout(t)
    <3> DEFINE h == WhatNow(memory, bound)
    <3>1. timeoutRunning => h.size \in Nat
      BY <2>2, <2>6, WhatNowSize DEF Timeout, TimeoutAsserts
    <3>2. PICK new : Handle(t, new) /\ \A u \in new : timeoutRunning /\ u = LaunchBatch(h)
      BY <2>6 DEF Timeout
    <3> HIDE DEF h
    <3>3. timeoutRunning => /\ TriggerOK(LaunchBatch(h))
                            /\ LaunchBatch(h).event.type = "PePbsLaunchProcessing"
      BY <2>3, <3>1 DEF LaunchBatch, Now, After, BatchEvent
    <3>4. Emits(t.event.type) = {"PePbsLaunchProcessing"}
      BY <2>6 DEF Emits
    <3> QED
      BY <1>0, <2>1, <3>2, <3>3, <3>4, PopsBy
  <2>7. CASE t.event.type = "PePbsLaunchProcessing" /\ LaunchProcessing(t, t.event.size)
    <3> DEFINE n == t.event.size
    <3>1. n \in Nat
      BY <1>0, <2>7 DEF TriggersOK, TriggerOK, EventOK, PlainTypes, DopTypes
    <3>2. ProcessingLatency(n) \in Nat
      BY <3>1, PbsAssumption DEF ProcessingLatency
    <3>3. TriggerOK(After(ProcessingLatency(n), BatchEvent("PePbsLandProcessing", n)))
      BY <1>0, <3>1, <3>2, SizeTrigger DEF SizeTypes, NowTypes
    <3>4. Emits(t.event.type) = {"PePbsLandProcessing"}
      BY <2>7 DEF Emits
    <3>5. Handle(t, {After(ProcessingLatency(n), BatchEvent("PePbsLandProcessing", n))})
      BY <2>7 DEF LaunchProcessing
    <3> HIDE DEF n
    <3> QED
      BY <1>0, <2>1, <3>3, <3>4, <3>5, PopsBy DEF After, BatchEvent
  <2>8. CASE t.event.type = "PePbsLandProcessing" /\ LandProcessing(t, t.event.size)
    <3> DEFINE h == LandProcessingHint
    <3>1. h.hint = "MustLaunchBatch" => h.size \in Nat
      BY <2>2, WhatNowSize DEF LandProcessingHint, Areas
    <3>2. PICK new : /\ Handle(t, new)
                     /\ \A u \in new : \/ u = After(0, Event("PePbsLaunchUnloadMemory"))
                                       \/ h.hint = "MustLaunchBatch" /\ u = LaunchBatch(h)
                                       \/ u = After(PbsTimeout, Event("PePbsTimeout"))
      BY <2>8 DEF LandProcessing, Now
    <3> HIDE DEF h
    <3>3. h.hint = "MustLaunchBatch" => /\ TriggerOK(LaunchBatch(h))
                                        /\ LaunchBatch(h).event.type = "PePbsLaunchProcessing"
      BY <2>3, <3>1 DEF LaunchBatch, Now, After, BatchEvent
    <3>4. Emits(t.event.type) = {"PePbsLaunchUnloadMemory", "PePbsLaunchProcessing", "PePbsTimeout"}
      BY <2>8 DEF Emits
    <3> QED
      BY <1>0, <2>1, <2>3, <3>2, <3>3, <3>4, PopsBy DEF After, Event
  <2>9. CASE t.event.type = "PePbsLaunchUnloadMemory" /\ LaunchUnload(t)
    <3> DEFINE d == memory[bound.unloading + 1]
               latency == LoadUnloadLatency * NumberOutputs(prog[d])
    <3>1. d \in Ids
      BY <2>2, <2>9 DEF LaunchUnload, LaunchUnloadAsserts, NParking, NUnloading, HpuTypeOK, PbsInv, PbsBounds, PbsExpects, Areas
    <3>2. latency \in Nat
      BY PbsAssumption DEF NumberOutputs
    <3>3. TriggerOK(After(latency, DopEvent("PePbsLandUnloadMemory", d)))
      BY <1>0, <3>1, <3>2, DopTrigger DEF DopTypes, NowTypes
    <3>4. Emits(t.event.type) = {"PePbsLandUnloadMemory"}
      BY <2>9 DEF Emits
    <3>5. Handle(t, {After(latency, DopEvent("PePbsLandUnloadMemory", d))})
      BY <2>9 DEF LaunchUnload
    <3> HIDE DEF d, latency
    <3> QED
      BY <1>0, <2>1, <3>3, <3>4, <3>5, PopsBy DEF After, DopEvent
  <2>10. CASE t.event.type = "PePbsLandUnloadMemory" /\ LandUnload(t)
    <3> DEFINE d == Head(memory)
    <3>1. d \in Ids
      BY <2>2, <2>10, HeadTail DEF LandUnload, LandUnloadAsserts, NUnloading, HpuTypeOK, PbsInv, PbsBounds, PbsExpects, Areas
    <3>2. TriggerOK(After(0, DopEvent("IscUnlockWrite", d)))
      BY <1>0, <3>1, DopTrigger DEF DopTypes, NowTypes
    <3>3. Emits(t.event.type) = {"IscUnlockWrite", "PePbsLaunchUnloadMemory", "PePbsLaunchLoadMemory"}
      BY <2>10 DEF Emits
    <3>4. PICK new : /\ Handle(t, new)
                     /\ \A u \in new : u \in {After(0, DopEvent("IscUnlockWrite", d)),
                                             After(0, Event("PePbsLaunchUnloadMemory")),
                                             After(0, Event("PePbsLaunchLoadMemory"))}
      BY <2>10 DEF LandUnload, Now, NextLoad
    <3> HIDE DEF d
    <3> QED
      BY <1>0, <2>1, <2>3, <3>2, <3>3, <3>4, PopsBy DEF After, DopEvent, Event
  <2> QED
    BY <1>10, <2>4, <2>5, <2>6, <2>7, <2>8, <2>9, <2>10 DEF OnPbs
<1> QED
  BY <1>1, <1>2, <1>3, <1>4, <1>5, <1>6, <1>7, <1>8, <1>9, <1>10 DEF HandleEvent

-----------------------------------------------------------------------------
(* What a handler leaves alone.                                            *)

(* What the handler of an event does not touch.                            *)
LEMMA Untouched ==
  ASSUME NEW t \in Ready, HandleEvent(t)
  PROVE  /\ outcome' = outcome
         /\ t.event.type # "IscProcessOver" => UNCHANGED encountered
         /\ t.event.type # "IscPushDOps" => UNCHANGED pushed
         /\ t.event.type # "IscRetireDOp" => UNCHANGED <<retired, processed>>
         /\ t.event.type # "IscUnlockRead" => UNCHANGED readDone
         /\ t.event.type # "IscUnlockWrite" => UNCHANGED writeDone
         /\ t.event.type # "IscQuery" => UNCHANGED <<issued, refilled>>
         /\ t.event.type \notin {"IscQuery", "IscUnlockIssue"} => UNCHANGED pool
         /\ t.event.type \notin {"IscQuery", "IscUnlockRead"} => UNCHANGED readUnlocks
         /\ t.event.type \notin {"IscQuery", "IscUnlockWrite"} => UNCHANGED writeUnlocks
         /\ t.event.type \notin {"PeAvailable", "PeUnavailable"} => UNCHANGED tracker
<1> USE DEF HandleEvent, othersUnchanged, pesUnchanged, iscVars, schedulerVars, historyVars, laneVars, pbsVars
<1>1. CASE OnProcessOver(t)
  BY <1>1 DEF OnProcessOver
<1>2. CASE OnPushDOps(t) /\ othersUnchanged
  BY <1>2 DEF OnPushDOps, PushDOps
<1>3. CASE OnUnlock(t) /\ othersUnchanged
  BY <1>3 DEF OnUnlock, UnlockIssue, UnlockRead, UnlockWrite
<1>4. CASE (OnAvailable(t) \/ OnUnavailable(t)) /\ othersUnchanged
  BY <1>4 DEF OnAvailable, OnUnavailable, SetAvailable
<1>5. CASE OnQuery(t) /\ othersUnchanged
  BY <1>5 DEF OnQuery, QueryReadUnlock, QueryRefill, QueryRetire, QueryIssue, QueryIdle
<1>6. CASE OnRetireDOp(t) /\ othersUnchanged
  BY <1>6 DEF OnRetireDOp, RetireDOp
<1>7. CASE (OnIssueDOp(t) \/ OnLane(t) \/ OnPbs(t)) /\ othersUnchanged
  BY <1>7 DEF OnIssueDOp, OnLane, OnPbs
<1> QED
  BY <1>1, <1>2, <1>3, <1>4, <1>5, <1>6, <1>7

(* The same for the variables of the processing elements.                  *)
LEMMA UntouchedPes ==
  ASSUME NEW t \in Ready, HandleEvent(t)
  PROVE  /\ t.event.type \notin {"IscIssueDOp", "PeLaunchProcessing"} => UNCHANGED queue
         /\ t.event.type \notin {"PeLaunchProcessing", "PeLandProcessing"} => UNCHANGED current
         /\ t.event.type \notin {"IscIssueDOp", "PePbsLaunchLoadMemory"} => UNCHANGED pbsQueue
         /\ t.event.type \notin {"PePbsLaunchLoadMemory", "PePbsLandUnloadMemory"} => UNCHANGED memory
         /\ t.event.type \notin {"PePbsLandLoadMemory", "PePbsLaunchProcessing", "PePbsLandProcessing",
                                 "PePbsLaunchUnloadMemory", "PePbsLandUnloadMemory"} => UNCHANGED bound
         /\ t.event.type \notin {"IscIssueDOp", "PePbsTimeout", "PePbsLaunchProcessing", "PePbsLandProcessing"}
              => UNCHANGED timeoutRunning
<1> USE DEF HandleEvent, othersUnchanged, pesUnchanged, laneVars, pbsVars
<1>1. CASE OnIssueDOp(t)
  BY <1>1 DEF OnIssueDOp, LaneIssue, CtlIssue, PbsIssue
<1>2. CASE OnLane(t)
  BY <1>2 DEF OnLane, LaneLaunch, LaneLand
<1>3. CASE OnPbs(t)
  BY <1>3 DEF OnPbs, LaunchLoad, LandLoad, Timeout, LaunchProcessing, LandProcessing, LaunchUnload, LandUnload
<1>4. CASE pesUnchanged
  BY <1>4
<1> QED
  BY <1>1, <1>2, <1>3, <1>4 DEF OnProcessOver, OnPushDOps, OnUnlock, OnAvailable, OnUnavailable, OnQuery, OnRetireDOp

(* The handler of each event.                                              *)
LEMMA Handlers ==
  ASSUME NEW t \in Ready, HandleEvent(t)
  PROVE  /\ t.event.type = "IscPushDOps" => OnPushDOps(t)
         /\ t.event.type = "IscUnlockIssue" => UnlockIssue(t.event.id)
         /\ t.event.type = "IscUnlockRead" => UnlockRead(t.event.id)
         /\ t.event.type = "IscUnlockWrite" => UnlockWrite(t.event.id)
         /\ t.event.type = "PeAvailable" => SetAvailable(t.event.lane, TRUE)
         /\ t.event.type = "PeUnavailable" => SetAvailable(t.event.lane, FALSE)
         /\ t.event.type = "IscQuery" => OnQuery(t)
         /\ t.event.type = "IscRetireDOp" => OnRetireDOp(t)
         /\ t.event.type = "IscProcessOver" => encountered'
         /\ t.event.type = "IscIssueDOp" => OnIssueDOp(t)
         /\ t.event.type = "PeLaunchProcessing" => LaneLaunch(t, t.event.lane)
         /\ t.event.type = "PeLandProcessing" => LaneLand(t, t.event.lane)
         /\ t.event.type = "PePbsLaunchLoadMemory" => LaunchLoad(t)
         /\ t.event.type = "PePbsLandLoadMemory" => LandLoad(t, t.event.id)
         /\ t.event.type = "PePbsTimeout" => Timeout(t)
         /\ t.event.type = "PePbsLaunchProcessing" => LaunchProcessing(t, t.event.size)
         /\ t.event.type = "PePbsLandProcessing" => LandProcessing(t, t.event.size)
         /\ t.event.type = "PePbsLaunchUnloadMemory" => LaunchUnload(t)
         /\ t.event.type = "PePbsLandUnloadMemory" => LandUnload(t)
BY DEF HandleEvent, OnProcessOver, OnPushDOps, OnUnlock, OnAvailable, OnUnavailable, OnQuery, OnRetireDOp,
       OnIssueDOp, OnLane, OnPbs

-----------------------------------------------------------------------------
(* Events, and the steps of the scheduler among them.                      *)

(* What the shape of a trigger says of its event.                          *)
LEMMA EventShape ==
  ASSUME TriggersOK, NEW t \in triggers
  PROVE  /\ t.at \in Nat /\ now <= t.at /\ now \in Nat
         /\ t = [at |-> t.at, event |-> t.event]
         /\ t.event.type \in PlainTypes => t.event = Event(t.event.type)
         /\ t.event.type \in DopTypes =>
              t.event.id \in Ids /\ t.event = DopEvent(t.event.type, t.event.id)
         /\ t.event.type \in SizeTypes =>
              t.event.size \in Nat /\ t.event = BatchEvent(t.event.type, t.event.size)
         /\ t.event.type \in {"PeLaunchProcessing", "PeLandProcessing"} =>
              t.event.lane \in Lanes /\ t.event = LaneEvent(t.event.type, t.event.lane)
         /\ t.event.type \in {"PeAvailable", "PeUnavailable"} =>
              t.event.lane \in TrackedLanes /\ t.event = LaneEvent(t.event.type, t.event.lane)
         /\ t.event.type \in NowTypes => t.at = now
BY DEF TriggersOK, TriggerOK, EventOK, PlainTypes, DopTypes, SizeTypes

(* A DOp is told of by the messages of a type.                             *)
LEMMA Told ==
  ASSUME NEW type, NEW d
  PROVE  d \in DopsOf(type) <=> \E t \in triggers : t.event.type = type /\ t.event.id = d
BY DEF DopsOf, Pending

(* A message about a DOp tells of it.                                      *)
LEMMA ToldOf ==
  ASSUME TriggersOK, NEW t \in triggers, t.event.type \in DopTypes
  PROVE  t.event.id \in Ids /\ t.event.id \in DopsOf(t.event.type)
BY EventShape, Told

(* When a query pops, no issue is on its way to its processing element or  *)
(* back.                                                                   *)
LEMMA QueryAcknowledged ==
  ASSUME HpuInv, NEW t \in Ready, t.event.type = "IscQuery"
  PROVE  /\ IssueAcknowledged
         /\ \A u \in triggers : u.event.type \notin IssueTypes
         /\ \A d \in issued \cap InPool : pool[d].state # "Pending"
<1>1. ~ QueryLater
  <2>1. t \in triggers /\ t.at = now /\ now \in Nat
    BY DEF Ready, HpuInv, HpuTypeOK, TriggersOK
  <2> QED
    BY <2>1 DEF QueryLater
<1>2. \A u \in triggers : u.event.type \notin IssueTypes
  BY <1>1 DEF HpuInv, IssueInv
<1>3. \A d \in issued \cap InPool : pool[d].state # "Pending"
  BY <1>2 DEF HpuInv, IssueInv
<1> QED
  BY <1>2, <1>3 DEF IssueAcknowledged

(* Every step is one of the scheduler among legal processing elements, or  *)
(* leaves it alone.                                                        *)
LEMMA IscStep ==
  ASSUME HpuInv, [HpuNext]_vars
  PROVE  [IscNext]_iscVars
<1>1. ASSUME NEW t \in Ready, HandleEvent(t)
      PROVE  [IscNext]_iscVars
  <2> DEFINE d == t.event.id
  <2>0. t \in triggers /\ t.at = now /\ TriggersOK
    BY DEF Ready, HpuInv, HpuTypeOK
  <2>1. CASE OnPushDOps(t)
    <3>1. t.event.type = "IscPushDOps" /\ PushDOps(t.event.size)
      BY <2>1 DEF OnPushDOps
    <3>2. t.event.size = Len(prog) /\ pushed = 0
      BY <2>0, <3>1 DEF HpuInv, RetireInv
    <3>3. Len(prog) \in Nat
      BY PoolInIds DEF HpuInv, HpuTypeOK
    <3>4. CASE Len(prog) = 0
      BY <3>1, <3>2, <3>4 DEF PushDOps, iscVars, schedulerVars
    <3>5. CASE Len(prog) > 0
      <4>1. Len(prog) \in Ids
        BY <3>3, <3>5 DEF Ids
      <4> QED
        BY <3>1, <3>2, <4>1 DEF IscNext
    <3> QED
      BY <3>3, <3>4, <3>5
  <2>2. CASE t.event.type = "IscUnlockIssue"
    <3>1. d \in issued
      BY <2>0, <2>2 DEF HpuInv, IssueInv, IssueTypes
    <3> QED
      BY <1>1, <2>2, <3>1, Handlers DEF IscNext
  <2>3. CASE t.event.type = "IscUnlockRead"
    <3>1. d \in issued \ readDone
      BY <2>0, <2>3, ToldOf DEF HpuInv, PlaceInv, PlaceAt, DopTypes
    <3> QED
      BY <1>1, <2>3, <3>1, Handlers DEF IscNext
  <2>4. CASE t.event.type = "IscUnlockWrite"
    <3>1. d \in issued \ writeDone
      BY <2>0, <2>4, ToldOf DEF HpuInv, PlaceInv, PlaceAt, DopTypes
    <3>2. ~ \E u \in triggers : u.at < t.at
      BY <2>0, EventShape
    <3>3. Affinity(prog[d]) = "Ctl" \/ d \in readDone
      BY <2>0, <2>4, <3>2 DEF HpuInv, ReadInv, ReadFirst
    <3> QED
      BY <1>1, <2>4, <3>1, <3>3, Handlers DEF IscNext, MayAnswerWrite
  <2>5. CASE t.event.type \in {"PeAvailable", "PeUnavailable"}
    <3>1. t.event.lane \in TrackedLanes
      BY <2>0, <2>5, EventShape
    <3>2. SetAvailable(t.event.lane, TRUE) \/ SetAvailable(t.event.lane, FALSE)
      BY <1>1, <2>5, Handlers
    <3> QED
      BY <3>1, <3>2 DEF IscNext
  <2>6. CASE t.event.type = "IscQuery"
    <3>1. Query \/ UNCHANGED iscVars
      <4>1. OnQuery(t)
        BY <1>1, <2>6, Handlers
      <4> QED
        BY <4>1 DEF OnQuery, Query, QueryIdle
    <3> QED
      BY <2>6, <3>1, QueryAcknowledged DEF IscNext
  <2>7. CASE OnRetireDOp(t)
    BY <2>7 DEF OnRetireDOp, IscNext
  <2>8. CASE OnProcessOver(t) \/ OnIssueDOp(t) \/ OnLane(t) \/ OnPbs(t)
    BY <2>8 DEF OnProcessOver, OnIssueDOp, OnLane, OnPbs
  <2> QED
    BY <1>1, <2>1, <2>2, <2>3, <2>4, <2>5, <2>6, <2>7, <2>8
       DEF HandleEvent, OnUnlock, OnAvailable, OnUnavailable, OnQuery
<1>2. CASE EndCycle \/ UNCHANGED vars
  BY <1>2 DEF EndCycle, vars
<1> QED
  BY <1>1, <1>2 DEF HpuNext, PopAndHandle, Stopped

(* The cases of a step.                                                    *)
LEMMA HpuSteps ==
  ASSUME HpuInv, [HpuNext]_vars
  PROVE  \/ /\ outcome = "MayContinue"
            /\ \E t \in Ready : HandleEvent(t) /\ Pops(t)
         \/ EndCycle
         \/ UNCHANGED vars
<1>1. ASSUME NEW t \in Ready, HandleEvent(t) PROVE Pops(t)
  BY <1>1, PopStep DEF HpuInv
<1> QED
  BY <1>1 DEF HpuNext, PopAndHandle, Stopped

(* A handler keeps the triggers well-formed.                               *)
LEMMA PopsTriggers ==
  ASSUME TriggersOK, NEW t \in Ready, Pops(t)
  PROVE  TriggersOK' /\ Ids' = Ids
<1>1. Ids' = Ids
  BY DEF Pops, Ids
<1> QED
  BY <1>1 DEF Pops, TriggersOK, TriggerOK, EventOK

(* Triggers of the types an event does not schedule stay as they are.      *)
Keeps(types) == \A u : u.event.type \in types => (u \in triggers' <=> u \in triggers)

(* An event keeps the triggers of the types it neither has nor schedules.  *)
LEMMA PopsKeeps ==
  ASSUME NEW t \in Ready, Pops(t), NEW types, t.event.type \notin types,
         Emits(t.event.type) \cap types = {}
  PROVE  Keeps(types)
BY DEF Pops, Keeps, Ready

(* A handler schedules no query for its own cycle.                         *)
LEMMA LaterKept ==
  ASSUME NEW t \in Ready, Pops(t), QueryLater
  PROVE  QueryLater'
BY DEF Pops, QueryLater

-----------------------------------------------------------------------------
(* Types.                                                                  *)

(* At the end of a cycle nothing but time changes, and no event is left    *)
(* whose place is the cycle that schedules it.                             *)
LEMMA CycleEnds ==
  ASSUME TriggersOK, EndCycle
  PROVE  /\ UNCHANGED <<triggers, iscVars, laneVars, pbsVars, retired, encountered>>
         /\ Ready = {}
         /\ now' \in Nat /\ now' >= now
         /\ \A u \in triggers : u.at > now /\ u.at >= now' /\ u.event.type \notin NowTypes
         /\ outcome' = "CondEncountered" => encountered /\ now' = now
         /\ outcome' \in {"MayContinue", "CondEncountered", "SimulationOver"}
         /\ TriggersOK' /\ Ids' = Ids
<1>1. /\ UNCHANGED <<triggers, iscVars, laneVars, pbsVars, retired, encountered>>
      /\ Ready = {}
      /\ \/ UNCHANGED now
         \/ \E t \in triggers : now' = t.at /\ \A u \in triggers : t.at <= u.at
      /\ outcome' = "CondEncountered" => encountered /\ now' = now
      /\ outcome' \in {"MayContinue", "CondEncountered", "SimulationOver"}
  BY DEF EndCycle, pesUnchanged, Advance, dispatcherVars
<1>2. \A u \in triggers : u.at > now /\ u.event.type \notin NowTypes /\ u.at \in Nat /\ now \in Nat
  BY <1>1 DEF Ready, TriggersOK, TriggerOK
<1>3. now' \in Nat /\ now' >= now /\ \A u \in triggers : u.at >= now'
  BY <1>1, <1>2 DEF TriggersOK
<1>4. Ids' = Ids
  BY <1>1 DEF iscVars, Ids
<1>5. TriggersOK'
  BY <1>1, <1>2, <1>3, <1>4 DEF TriggersOK, TriggerOK, EventOK
<1> QED
  BY <1>1, <1>2, <1>3, <1>4, <1>5

(* The queues and the lines hold DOps after a handler.                     *)
LEMMA QueueTypes ==
  ASSUME HpuInv, NEW t \in Ready, HandleEvent(t), Pops(t)
  PROVE  /\ queue' \in [Lanes -> Seq(Ids)]
         /\ current' \in [Lanes -> Ids \cup {NoDop}]
         /\ pbsQueue' \in Seq(Ids)
         /\ memory' \in Seq(Ids)
<1>0. /\ queue \in [Lanes -> Seq(Ids)] /\ current \in [Lanes -> Ids \cup {NoDop}]
      /\ pbsQueue \in Seq(Ids) /\ memory \in Seq(Ids)
      /\ t \in triggers /\ TriggersOK
  BY DEF HpuInv, HpuTypeOK, Ready
<1>1. CASE t.event.type = "IscIssueDOp"
  <2> DEFINE d == t.event.id
             lane == Affinity(prog[d])
  <2>1. d \in Ids
    BY <1>0, <1>1, EventShape DEF DopTypes
  <2>2. \/ lane \in Lanes /\ queue' = [queue EXCEPT ![lane] = Append(@, d)]
           /\ UNCHANGED <<current, pbsQueue, memory>>
        \/ UNCHANGED <<queue, current, pbsQueue, memory>>
        \/ pbsQueue' = Append(pbsQueue, d) /\ UNCHANGED <<queue, current, memory>>
    BY <1>1, Handlers DEF OnIssueDOp, LaneIssue, CtlIssue, PbsIssue, laneVars, pbsVars
  <2> HIDE DEF d, lane
  <2>3. lane \in Lanes => Append(queue[lane], d) \in Seq(Ids)
    BY <1>0, <2>1, AppendSeq
  <2>4. Append(pbsQueue, d) \in Seq(Ids)
    BY <1>0, <2>1, AppendSeq
  <2> QED
    BY <1>0, <2>2, <2>3, <2>4
<1>2. CASE t.event.type = "PeLaunchProcessing"
  <2> DEFINE lane == t.event.lane
  <2>1. lane \in Lanes
    BY <1>0, <1>2, EventShape
  <2>2. /\ queue[lane] # <<>>
        /\ current' = [current EXCEPT ![lane] = Head(queue[lane])]
        /\ queue' = [queue EXCEPT ![lane] = Tail(@)]
    BY <1>2, Handlers DEF LaneLaunch, LaneLaunchAsserts
  <2>3. UNCHANGED <<pbsQueue, memory>>
    BY <1>2, UntouchedPes
  <2> HIDE DEF lane
  <2>4. queue[lane] \in Seq(Ids)
    BY <1>0, <2>1
  <2> QED
    BY <1>0, <2>1, <2>2, <2>3, <2>4, HeadTail
<1>3. CASE t.event.type = "PeLandProcessing"
  <2>1. current' = [current EXCEPT ![t.event.lane] = NoDop]
    BY <1>3, Handlers DEF LaneLand
  <2> QED
    BY <1>0, <1>3, <2>1, UntouchedPes
<1>4. CASE t.event.type = "PePbsLaunchLoadMemory"
  <2>1. pbsQueue # <<>> /\ memory' = Append(memory, Head(pbsQueue)) /\ pbsQueue' = Tail(pbsQueue)
    BY <1>4, Handlers DEF LaunchLoad, LaunchLoadAsserts
  <2>2. Head(pbsQueue) \in Ids /\ Tail(pbsQueue) \in Seq(Ids)
    BY <1>0, <2>1, HeadTail
  <2>3. Append(memory, Head(pbsQueue)) \in Seq(Ids)
    BY <1>0, <2>2, AppendSeq
  <2> QED
    BY <1>0, <1>4, <2>1, <2>2, <2>3, UntouchedPes
<1>5. CASE t.event.type = "PePbsLandUnloadMemory"
  <2>1. memory' = Tail(memory) /\ NUnloading > 0
    BY <1>5, Handlers DEF LandUnload, LandUnloadAsserts
  <2>2. memory # <<>>
    BY <2>1 DEF HpuInv, PbsInv, PbsBounds, PbsExpects, NUnloading, HpuTypeOK, Areas
  <2> QED
    BY <1>0, <1>5, <2>1, <2>2, UntouchedPes, HeadTail
<1> QED
  BY <1>0, <1>1, <1>2, <1>3, <1>4, <1>5, UntouchedPes

(* The boundaries of the PBS memory stay numbers after a handler.          *)
LEMMA BoundTypes ==
  ASSUME HpuInv, NEW t \in Ready, HandleEvent(t), Pops(t)
  PROVE  /\ bound' \in [Areas -> Nat]
         /\ timeoutRunning' \in BOOLEAN
<1>0. /\ bound \in [Areas -> Nat] /\ timeoutRunning \in BOOLEAN
      /\ t \in triggers /\ TriggersOK
      /\ bound.unloading <= bound.parking
      /\ bound.parking <= bound.working /\ bound.working <= bound.waiting
  BY DEF HpuInv, HpuTypeOK, Ready, PbsInv, PbsBounds, PbsExpects
<1> USE DEF Areas
<1>1. CASE t.event.type = "IscIssueDOp"
  <2>1. timeoutRunning' \in BOOLEAN
    BY <1>0, <1>1, Handlers DEF OnIssueDOp, LaneIssue, CtlIssue, PbsIssue, laneVars, pbsVars
  <2> QED
    BY <1>0, <1>1, <2>1, UntouchedPes
<1>2. CASE t.event.type = "PePbsTimeout"
  BY <1>0, <1>2, Handlers, UntouchedPes DEF Timeout
<1>3. CASE t.event.type = "PePbsLandLoadMemory"
  <2>1. bound' = [bound EXCEPT !.waiting = @ + 1]
    BY <1>3, Handlers DEF LandLoad
  <2>2. UNCHANGED timeoutRunning
    BY <1>3, UntouchedPes
  <2> QED
    BY <1>0, <2>1, <2>2
<1>4. CASE t.event.type = "PePbsLaunchProcessing"
  <2>1. t.event.size \in Nat
    BY <1>0, <1>4, EventShape DEF SizeTypes
  <2>2. bound' = [bound EXCEPT !.working = @ + t.event.size]
    BY <1>4, Handlers DEF LaunchProcessing
  <2>3. timeoutRunning' = FALSE
    BY <1>4, Handlers DEF LaunchProcessing
  <2>4. bound.working + t.event.size \in Nat
    BY <1>0, <2>1
  <2> QED
    BY <1>0, <2>2, <2>3, <2>4
<1>5. CASE t.event.type = "PePbsLandProcessing"
  <2>1. bound' = [bound EXCEPT !.parking = bound.working]
    BY <1>5, Handlers DEF LandProcessing
  <2>2. timeoutRunning' \in {TRUE, FALSE, timeoutRunning}
    <3> DEFINE h == LandProcessingHint
    <3>1. timeoutRunning' = CASE h.hint = "CanLaunchIncompleteBatch" -> TRUE
                              [] h.hint = "NoWaitings" -> FALSE
                              [] OTHER -> timeoutRunning
      BY <1>5, Handlers DEF LandProcessing
    <3> HIDE DEF h
    <3> QED
      BY <3>1
  <2> QED
    BY <1>0, <2>1, <2>2
<1>6. CASE t.event.type = "PePbsLaunchUnloadMemory"
  <2>1. bound' = [bound EXCEPT !.unloading = @ + 1]
    BY <1>6, Handlers DEF LaunchUnload
  <2>2. UNCHANGED timeoutRunning
    BY <1>6, UntouchedPes
  <2> QED
    BY <1>0, <2>1, <2>2
<1>7. CASE t.event.type = "PePbsLandUnloadMemory"
  <2>1. bound' = [area \in DOMAIN bound |-> bound[area] - 1] /\ bound.unloading > 0
    BY <1>7, Handlers DEF LandUnload, LandUnloadAsserts, NUnloading
  <2>2. \A area \in Areas : bound[area] - 1 \in Nat
    BY <1>0, <2>1
  <2> QED
    BY <1>0, <1>7, <2>1, <2>2, UntouchedPes
<1> QED
  BY <1>0, <1>1, <1>2, <1>3, <1>4, <1>5, <1>6, <1>7, UntouchedPes

(* Every handler keeps the types.                                          *)
LEMMA PopTypes ==
  ASSUME HpuInv, [HpuNext]_vars, NEW t \in Ready, HandleEvent(t), Pops(t)
  PROVE  HpuTypeOK'
<1>1. IscTypeOK'
  BY IscStep, TypeStep DEF HpuInv, HpuTypeOK
<1>2. TriggersOK' /\ Ids' = Ids
  BY PopsTriggers DEF HpuInv, HpuTypeOK
<1>3. retired' \in Seq(Ids)
  <2>1. CASE t.event.type = "IscRetireDOp"
    <3>1. retired' = Append(retired, t.event.id)
      BY <2>1, Handlers DEF OnRetireDOp
    <3>2. t.event.id \in Ids
      BY <2>1, EventShape DEF DopTypes, Ready, HpuInv, HpuTypeOK
    <3> QED
      BY <3>1, <3>2 DEF HpuInv, HpuTypeOK
  <2>2. CASE t.event.type # "IscRetireDOp"
    BY <2>2, Untouched DEF HpuInv, HpuTypeOK
  <2> QED
    BY <2>1, <2>2
<1>4. encountered' \in BOOLEAN
  <2>1. CASE t.event.type = "IscProcessOver"
    <3>1. encountered' = TRUE
      BY <2>1 DEF HandleEvent, OnProcessOver, OnPushDOps, OnUnlock, OnAvailable, OnUnavailable, OnQuery,
                  OnRetireDOp, OnIssueDOp, OnLane, OnPbs
    <3> QED
      BY <3>1
  <2> QED
    BY <2>1, Untouched DEF HpuInv, HpuTypeOK
<1>5. outcome' = outcome
  BY Untouched
<1> QED
  BY <1>1, <1>2, <1>3, <1>4, <1>5, QueueTypes, BoundTypes DEF HpuInv, HpuTypeOK

(* The end of a cycle keeps the types.                                     *)
LEMMA EndTypes ==
  ASSUME HpuInv, [HpuNext]_vars, EndCycle
  PROVE  HpuTypeOK'
<1>1. IscTypeOK'
  BY IscStep, TypeStep DEF HpuInv, HpuTypeOK
<1> QED
  BY <1>1, CycleEnds DEF HpuInv, HpuTypeOK, laneVars, pbsVars

-----------------------------------------------------------------------------
(* Issues are acknowledged before the next query.                          *)

(* The composed system keeps the invariant of the scheduler, because it    *)
(* takes none but its steps.                                               *)
LEMMA IscInvStep ==
  ASSUME HpuInv, [HpuNext]_vars
  PROVE  IscInv'
BY IscStep, HistoryStep, LockStep, IssuedUnlockedStep DEF HpuInv, HpuTypeOK, IscInv

(* A query pops: none is left, and the next one comes later.               *)
LEMMA QueryGone ==
  ASSUME HpuInv, NEW t \in Ready, t.event.type = "IscQuery", Pops(t)
  PROVE  QueryLater'
<1>1. \A u \in triggers : u.event.type = "IscQuery" => u = t
  <2> SUFFICES ASSUME NEW u \in triggers, u.event.type = "IscQuery"
               PROVE  u = t
    OBVIOUS
  <2>1. t \in triggers /\ u.event = t.event /\ t.event.type # "PePbsTimeout"
    BY EventShape DEF Ready, HpuInv, HpuTypeOK, PlainTypes
  <2> QED
    BY <2>1 DEF HpuInv, Once
<1> QED
  BY <1>1 DEF Pops, QueryLater

(* Every handler keeps at most one issue unacknowledged, with no query     *)
(* before its acknowledgement.                                             *)
LEMMA PopIssue ==
  ASSUME HpuInv, NEW t \in Ready, HandleEvent(t), Pops(t)
  PROVE  IssueInv'
<1>0. /\ t \in triggers /\ TriggersOK /\ IscTypeOK /\ IssueInv
      /\ TriggersOK'
  BY PopsTriggers DEF HpuInv, HpuTypeOK, Ready
<1>1. CASE t.event.type = "IscQuery"
  <2>1. /\ \A u \in triggers : u.event.type \notin IssueTypes
        /\ \A d \in issued \cap InPool : pool[d].state # "Pending"
    BY <1>1, QueryAcknowledged
  <2>2. QueryLater'
    BY <1>1, QueryGone
  <2>3. CASE \E d \in InPool : QueryIssue(d) /\ HandleAndRearm(t, {Now(DopEvent("IscIssueDOp", d))})
    <3>1. PICK d \in InPool : QueryIssue(d) /\ HandleAndRearm(t, {Now(DopEvent("IscIssueDOp", d))})
      BY <2>3
    <3>2. /\ pool[d].state = "Pending" /\ issued' = issued \cup {d} /\ pool' = pool /\ InPool' = InPool
      BY <3>1 DEF QueryIssue, Issuable, schedulerVars, InPool
    <3> DEFINE u == Now(DopEvent("IscIssueDOp", d))
    <3>3. /\ u \in triggers'
          /\ \A v \in triggers' : v.event.type \in IssueTypes => v = u
      BY <2>1, <3>1, Rearm, <1>0 DEF HandleAndRearm, Handle, After, Event, IssueTypes
    <3>4. u.event.type = "IscIssueDOp" /\ u.event.id = d
      BY DEF Now, After, DopEvent
    <3> HIDE DEF u
    <3> QED
      BY <2>1, <2>2, <3>2, <3>3, <3>4 DEF IssueInv, IssueTypes
  <2>4. CASE /\ UNCHANGED issued
             /\ \A u \in triggers' : u.event.type \notin IssueTypes
    <3>1. \A d \in issued \cap InPool' : pool'[d].state # "Pending"
      <4>1. CASE QueryReadUnlock
        <5>1. PICK d \in InPool : /\ InPool' = InPool
                                  /\ \A i \in InPool : pool'[i].state =
                                       IF i = d THEN "Loaded" ELSE pool[i].state
          BY <1>0, <4>1, QueryReadUnlockSlots
        <5> QED
          BY <2>1, <5>1
      <4>2. CASE QueryRefill
        <5>1. /\ InPool' = InPool \cup {refilled + 1} /\ refilled + 1 \notin issued
              /\ \A i \in InPool : pool'[i] = pool[i]
          BY <1>0, <4>2, QueryRefillSlots
        <5> QED
          BY <2>1, <5>1
      <4>3. CASE QueryRetire
        <5>1. PICK d \in InPool : /\ InPool' = InPool \ {d}
                                  /\ \A i \in InPool \ {d} : pool'[i].state = pool[i].state
          BY <1>0, <4>3, QueryRetireSlots
        <5> QED
          BY <2>1, <5>1
      <4>4. CASE UNCHANGED pool
        BY <2>1, <4>4 DEF InPool
      <4> QED
        BY <1>1, <4>1, <4>2, <4>3, <4>4, Handlers DEF OnQuery, QueryIdle, QueryIssue, iscVars, schedulerVars
    <3> QED
      BY <2>4, <3>1 DEF IssueInv
  <2>5. ASSUME NEW new, HandleAndRearm(t, new), \A u \in new : u.event.type \notin IssueTypes
        PROVE  \A u \in triggers' : u.event.type \notin IssueTypes
    <3>1. \A u \in triggers' : \/ u \in triggers \/ u \in new
                               \/ u = After(QueryPeriod, Event("IscQuery"))
      BY <1>0, <2>5, Rearm DEF HandleAndRearm, Handle
    <3> QED
      BY <2>1, <2>5, <3>1 DEF After, Event, IssueTypes
  <2>6. OnQuery(t)
    BY <1>1, Handlers
  <2>7. CASE (QueryReadUnlock \/ QueryRefill) /\ HandleAndRearm(t, {})
    <3>1. UNCHANGED issued
      BY <2>7 DEF QueryReadUnlock, QueryRefill, historyVars
    <3>2. \A u \in triggers' : u.event.type \notin IssueTypes
      BY <2>5, <2>7
    <3> QED
      BY <2>4, <3>1, <3>2
  <2>8. CASE QueryRetire /\ HandleAndRearm(t, {Now(DopEvent("IscRetireDOp", Head(writeUnlocks)))})
    <3>1. Now(DopEvent("IscRetireDOp", Head(writeUnlocks))).event.type = "IscRetireDOp"
      BY DEF Now, After, DopEvent
    <3>2. UNCHANGED issued
      BY <2>8 DEF QueryRetire, historyVars
    <3>3. \A u \in triggers' : u.event.type \notin IssueTypes
      BY <2>5, <2>8, <3>1 DEF IssueTypes
    <3> QED
      BY <2>4, <3>2, <3>3
  <2>9. CASE QueryIdle /\ Handle(t, {})
    BY <2>1, <2>4, <2>9 DEF QueryIdle, Handle, iscVars, historyVars
  <2> QED
    BY <2>3, <2>6, <2>7, <2>8, <2>9 DEF OnQuery
<1>2. CASE t.event.type = "IscIssueDOp"
  <2> DEFINE d == t.event.id
             u == Now(DopEvent("IscUnlockIssue", d))
  <2>1. /\ d \in issued \cap InPool /\ pool[d].state = "Pending" /\ QueryLater
        /\ \A v \in triggers : v.event.type \in IssueTypes => v = t
    BY <1>0, <1>2 DEF IssueInv, IssueTypes
  <2>2. UNCHANGED <<issued, pool>> /\ InPool' = InPool
    BY <1>2, Untouched DEF InPool
  <2>3. QueryLater'
    BY <2>1, LaterKept
  <2>4. u \in triggers' /\ t \notin triggers'
    <3>1. t # u
      BY <1>2 DEF Now, After, DopEvent
    <3>2. PICK new : Handle(t, new) /\ u \in new /\ t \notin new
      <4>1. t \notin {Now(LaneEvent("PeLaunchProcessing", Affinity(prog[d])))} \cup
                     {Now(LaneEvent("PeUnavailable", Affinity(prog[d])))}
        BY <1>2 DEF Now, After, LaneEvent
      <4>2. t \notin {Now(DopEvent("IscUnlockRead", d)), Now(DopEvent("IscUnlockWrite", d))}
        BY <1>2 DEF Now, After, DopEvent
      <4>3. t \notin {After(PbsTimeout, Event("PePbsTimeout")), Now(LaneEvent("PeUnavailable", "Pbs")),
                      Now(Event("PePbsLaunchLoadMemory"))}
        BY <1>2 DEF Now, After, Event, LaneEvent
      <4>4. OnIssueDOp(t)
        BY <1>2, Handlers
      <4> QED
        BY <3>1, <4>1, <4>2, <4>3, <4>4 DEF OnIssueDOp, LaneIssue, CtlIssue, PbsIssue, NextLoad
    <3> QED
      BY <3>2 DEF Handle
  <2>5. u.event.type = "IscUnlockIssue" /\ u.event.id = d /\ u.event = DopEvent("IscUnlockIssue", d)
    BY DEF Now, After, DopEvent
  <2>6. \A v \in triggers' : v.event.type \in IssueTypes => v = u
    <3> SUFFICES ASSUME NEW v \in triggers', v.event.type \in IssueTypes
                 PROVE  v = u
      OBVIOUS
    <3>1. v \notin triggers
      BY <2>1, <2>4
    <3>2. v.event.type \in Emits("IscIssueDOp")
      BY <1>2, <3>1 DEF Pops
    <3>3. v.event.type = "IscUnlockIssue"
      BY <3>2 DEF Emits, IssueTypes
    <3>4. PICK new : Handle(t, new) /\ \A w \in new : w.event.type = "IscUnlockIssue" => w = u
      <4>1. OnIssueDOp(t)
        BY <1>2, Handlers
      <4>2. CASE CtlIssue(t, d)
        BY <4>2 DEF CtlIssue, Now, After, DopEvent
      <4>3. CASE LaneIssue(t, Affinity(prog[d]), d)
        BY <4>3 DEF LaneIssue, Now, After, DopEvent, LaneEvent
      <4>4. CASE PbsIssue(t, d)
        BY <4>4 DEF PbsIssue, NextLoad, Now, After, DopEvent, LaneEvent, Event
      <4> QED
        BY <4>1, <4>2, <4>3, <4>4 DEF OnIssueDOp
    <3> QED
      BY <3>1, <3>3, <3>4 DEF Handle
  <2> HIDE DEF d, u
  <2>7. \A e \in issued \cap InPool : pool[e].state = "Pending" => e = d
    BY <1>2, <2>1 DEF IssueInv, HpuInv, d
  <2> QED
    BY <2>1, <2>2, <2>3, <2>4, <2>5, <2>6, <2>7 DEF IssueInv, IssueTypes
<1>3. CASE t.event.type = "IscUnlockIssue"
  <2> DEFINE d == t.event.id
  <2>1. /\ d \in issued \cap InPool
        /\ \A v \in triggers : v.event.type \in IssueTypes => v = t
    BY <1>0, <1>3 DEF IssueInv, IssueTypes
  <2>2. \A e \in issued \cap InPool : pool[e].state = "Pending" => e = d
    BY <1>0, <2>1 DEF IssueInv
  <2>3. /\ InPool' = InPool
        /\ \A i \in InPool : pool'[i].state = IF i = d THEN "Issued" ELSE pool[i].state
    BY <1>0, <1>3, <2>1, Handlers, UnlockIssueSlots
  <2>4. \A u \in triggers' : u.event.type \notin IssueTypes
    BY <1>3, <2>1 DEF Pops, Emits, IssueTypes
  <2>5. UNCHANGED issued
    BY <1>3, Untouched
  <2> QED
    BY <2>2, <2>3, <2>4, <2>5 DEF IssueInv
<1>4. CASE t.event.type \notin IssueTypes \cup {"IscQuery"}
  <2>1. UNCHANGED <<issued, pool>> /\ InPool' = InPool
    BY <1>4, Untouched DEF IssueTypes, InPool
  <2>2. Keeps(IssueTypes)
    <3>1. Emits(t.event.type) \cap IssueTypes = {}
      BY <1>4 DEF Emits, IssueTypes
    <3> QED
      BY <1>4, <3>1, PopsKeeps
  <2>3. QueryLater => QueryLater'
    BY LaterKept
  <2> QED
    BY <1>0, <2>1, <2>2, <2>3 DEF IssueInv, Keeps
<1> QED
  BY <1>1, <1>2, <1>3, <1>4 DEF IssueTypes

(* The end of a cycle leaves no issue unacknowledged.                      *)
LEMMA EndIssue ==
  ASSUME HpuInv, EndCycle
  PROVE  IssueInv'
<1>1. /\ \A u \in triggers : u.event.type \notin IssueTypes
      /\ triggers' = triggers /\ issued' = issued /\ pool' = pool /\ InPool' = InPool
  BY CycleEnds DEF HpuInv, HpuTypeOK, iscVars, historyVars, schedulerVars, IssueTypes, NowTypes, InPool
<1> QED
  BY <1>1 DEF HpuInv, IssueInv

-----------------------------------------------------------------------------
(* An event is pending once.                                               *)

(* A trigger that no other trigger can be taken for.                       *)
Alone(t, new, u) ==
  \/ u.event.type \in NowTypes \cup {"PePbsTimeout"}
  \/ /\ \A v \in triggers \ {t} : v.event # u.event
     /\ \A v \in new : v.event = u.event => v = u

(* A handler whose triggers are alone keeps every event pending once.      *)
LEMMA AloneOnce ==
  ASSUME HpuInv, NEW t \in Ready, Pops(t), NEW new, Handle(t, new),
         \A u \in new : Alone(t, new, u)
  PROVE  Once'
<1>1. TriggersOK'
  BY PopsTriggers DEF HpuInv, HpuTypeOK
<1> SUFFICES ASSUME NEW u \in triggers', NEW v \in triggers',
                    u.event = v.event, u.event.type # "PePbsTimeout"
             PROVE  u = v
  BY DEF Once
<1>2. triggers' = (triggers \ {t}) \cup new
  BY DEF Handle
<1>3. CASE u.event.type \in NowTypes
  BY <1>1, <1>3 DEF TriggersOK, TriggerOK
<1>4. CASE u.event.type \notin NowTypes
  <2>1. CASE u \in triggers /\ v \in triggers
    BY <2>1 DEF HpuInv, Once
  <2>2. CASE u \in new
    <3>1. /\ \A w \in triggers \ {t} : w.event # u.event
          /\ \A w \in new : w.event = u.event => w = u
      BY <1>4, <2>2 DEF Alone
    <3> QED
      BY <1>2, <3>1
  <2>3. CASE v \in new
    <3>1. /\ \A w \in triggers \ {t} : w.event # v.event
          /\ \A w \in new : w.event = v.event => w = v
      BY <1>4, <2>3 DEF Alone
    <3> QED
      BY <1>2, <3>1
  <2> QED
    BY <1>2, <2>1, <2>2, <2>3
<1> QED
  BY <1>3, <1>4

(* The same when it rearms the query.                                      *)
LEMMA RearmOnce ==
  ASSUME HpuInv, NEW t \in Ready, Pops(t), NEW new, HandleAndRearm(t, new),
         \A u \in new : u.event.type # "IscQuery" /\ Alone(t, new, u)
  PROVE  Once'
<1> DEFINE query == QueryAfterPeriod(triggers \ {t})
           all == new \cup query
<1>1. Handle(t, all)
  BY DEF HandleAndRearm
<1>2. t \in triggers /\ TriggersOK
  BY DEF Ready, HpuInv, HpuTypeOK
<1>3. \A u \in query : /\ u = After(QueryPeriod, Event("IscQuery")) /\ u.event.type = "IscQuery"
                       /\ \A v \in triggers \ {t} : v.event.type # "IscQuery"
  BY <1>2, Rearm DEF After, Event
<1> HIDE DEF query
<1>4. \A u \in all : Alone(t, all, u)
  BY <1>3 DEF Alone
<1> HIDE DEF all
<1> QED
  BY <1>1, <1>4, AloneOnce

(* No handler schedules an event that is already pending.                  *)
LEMMA PopOnce ==
  ASSUME HpuInv, NEW t \in Ready, HandleEvent(t), Pops(t)
  PROVE  Once'
<1>0. t \in triggers /\ TriggersOK /\ t.at = now
  BY DEF Ready, HpuInv, HpuTypeOK
<1>1. CASE OnPushDOps(t) \/ OnUnlock(t) \/ OnAvailable(t)
  <2>1. HandleAndRearm(t, {})
    BY <1>1 DEF OnPushDOps, OnUnlock, OnAvailable
  <2> QED
    BY <2>1, RearmOnce
<1>2. CASE OnProcessOver(t) \/ OnUnavailable(t)
  <2>1. Handle(t, {})
    BY <1>2 DEF OnProcessOver, OnUnavailable
  <2> QED
    BY <2>1, AloneOnce
<1>3. CASE OnQuery(t)
  <2>1. CASE HandleAndRearm(t, {})
    BY <2>1, RearmOnce
  <2>2. CASE Handle(t, {})
    BY <2>2, AloneOnce
  <2>3. ASSUME NEW type \in {"IscRetireDOp", "IscIssueDOp"}, NEW d,
               HandleAndRearm(t, {Now(DopEvent(type, d))})
        PROVE  Once'
    <3>1. \A u \in {Now(DopEvent(type, d))} : u.event.type = type
      BY DEF Now, After, DopEvent
    <3>2. \A u \in {Now(DopEvent(type, d))} :
             u.event.type # "IscQuery" /\ Alone(t, {Now(DopEvent(type, d))}, u)
      BY <3>1 DEF Alone, NowTypes
    <3> QED
      BY <2>3, <3>2, RearmOnce
  <2> QED
    BY <1>3, <2>1, <2>2, <2>3 DEF OnQuery
<1>4. CASE OnRetireDOp(t)
  <2> DEFINE over == {After(1, Event("IscProcessOver"))}
  <2>1. processed < pushed /\ pushed \in Nat /\ processed \in Nat /\ pushed \in {0, Len(prog)}
    BY <1>4, PoolInIds DEF OnRetireDOp, RetireDOp, HpuInv, RetireInv, HpuTypeOK, IscTypeOK
  <2>2. \A v \in triggers : v.event # Event("IscProcessOver")
    BY <2>1 DEF HpuInv, RetireInv, Comes
  <2>3. HandleAndRearm(t, over) \/ HandleAndRearm(t, {})
    BY <1>4 DEF OnRetireDOp
  <2>4. \A u \in over : /\ u.event = Event("IscProcessOver") /\ u.event.type # "IscQuery"
                        /\ u = After(1, Event("IscProcessOver"))
    BY DEF After, Event
  <2>5. \A u \in over : Alone(t, over, u)
    BY <2>2, <2>4 DEF Alone
  <2> HIDE DEF over
  <2> QED
    BY <2>3, <2>4, <2>5, RearmOnce
<1>5. CASE OnIssueDOp(t)
  <2> DEFINE d == t.event.id
             lane == Affinity(prog[d])
             R == Now(DopEvent("IscUnlockRead", d))
             W == Now(DopEvent("IscUnlockWrite", d))
  <2>1. t.event.type = "IscIssueDOp"
    BY <1>5 DEF OnIssueDOp
  <2>2. CASE CtlIssue(t, d)
    <3>1. Unread(d) /\ d \notin DopsOf("IscUnlockWrite")
      <4>1. d \in Ids /\ d \in DopsOf("IscIssueDOp")
        BY <1>0, <2>1, ToldOf DEF DopTypes
      <4> QED
        BY <4>1 DEF HpuInv, PlaceInv, PlaceAt
    <3>2. \A v \in triggers : v.event # DopEvent("IscUnlockRead", d) /\ v.event # DopEvent("IscUnlockWrite", d)
      BY <3>1, Told DEF DopEvent, Unread
    <3>3. R.event = DopEvent("IscUnlockRead", d) /\ W.event = DopEvent("IscUnlockWrite", d)
          /\ Now(DopEvent("IscUnlockIssue", d)).event = DopEvent("IscUnlockIssue", d)
      BY DEF Now, After
    <3>4. PICK new : Handle(t, new) /\ new = {Now(DopEvent("IscUnlockIssue", d)), R, W}
      BY <2>2 DEF CtlIssue
    <3> HIDE DEF d, lane, R, W
    <3>5. \A u \in new : Alone(t, new, u)
      BY <3>2, <3>3, <3>4 DEF Alone, DopEvent, NowTypes
    <3> QED
      BY <3>4, <3>5, AloneOnce
  <2>3. CASE LaneIssue(t, lane, d) \/ PbsIssue(t, d)
    <3>1. PICK new : /\ Handle(t, new)
                     /\ \A u \in new : u.event.type \in NowTypes \cup {"PePbsTimeout"}
      <4>1. CASE LaneIssue(t, lane, d)
        BY <4>1 DEF LaneIssue, Now, After, DopEvent, LaneEvent, NowTypes
      <4>2. CASE PbsIssue(t, d)
        BY <4>2 DEF PbsIssue, NextLoad, Now, After, DopEvent, LaneEvent, Event, NowTypes
      <4> QED
        BY <2>3, <4>1, <4>2
    <3> QED
      BY <3>1, AloneOnce DEF Alone
  <2> QED
    BY <1>5, <2>2, <2>3 DEF OnIssueDOp
<1>6. CASE OnLane(t)
  <2> DEFINE lane == t.event.lane
             d == Head(queue[lane])
             R == After(ReadLatency[lane], DopEvent("IscUnlockRead", d))
             W == After(WriteLatency[lane], DopEvent("IscUnlockWrite", d))
             L == After(WriteLatency[lane], LaneEvent("PeLandProcessing", lane))
  <2>1. lane \in Lanes
    BY <1>0, <1>6, EventShape DEF OnLane
  <2>2. CASE LaneLaunch(t, lane)
    <3>1. queue[lane] # <<>> /\ current[lane] = NoDop
      BY <2>2 DEF LaneLaunch, LaneLaunchAsserts
    <3>2. d \in Ids /\ Holds(queue[lane], d)
      BY <2>1, <3>1, HeadTail DEF HpuInv, HpuTypeOK, Holds
    <3>3. Unanswered(d) /\ Unread(d)
      BY <2>1, <3>2 DEF HpuInv, PlaceInv, PlaceAt
    <3>4. \A v \in triggers : /\ v.event # DopEvent("IscUnlockRead", d)
                              /\ v.event # DopEvent("IscUnlockWrite", d)
                              /\ v.event # LaneEvent("PeLandProcessing", lane)
      <4>1. \A v \in triggers : v.event # LaneEvent("PeLandProcessing", lane)
        BY <2>1, <3>1 DEF HpuInv, LaneInv, LaneAt
      <4> QED
        BY <3>3, <4>1, Told DEF DopEvent, Unread, Unanswered
    <3>5. PICK new : /\ Handle(t, new)
                     /\ \A u \in new : u \in {R, W, L} \/ u = Now(LaneEvent("PeAvailable", lane))
      BY <2>2 DEF LaneLaunch
    <3>6. /\ R.event = DopEvent("IscUnlockRead", d) /\ W.event = DopEvent("IscUnlockWrite", d)
          /\ L.event = LaneEvent("PeLandProcessing", lane)
          /\ Now(LaneEvent("PeAvailable", lane)).event = LaneEvent("PeAvailable", lane)
      BY DEF Now, After
    <3> HIDE DEF d, lane, R, W, L
    <3>7. \A u \in new : Alone(t, new, u)
      BY <3>4, <3>5, <3>6 DEF Alone, DopEvent, LaneEvent, NowTypes
    <3> QED
      BY <3>5, <3>7, AloneOnce
  <2>3. CASE LaneLand(t, lane)
    <3>1. PICK new : /\ Handle(t, new)
                     /\ \A u \in new : u.event.type \in NowTypes
      BY <2>3 DEF LaneLand, Now, After, LaneEvent, NowTypes
    <3> QED
      BY <3>1, AloneOnce DEF Alone
  <2> QED
    BY <1>6, <2>2, <2>3 DEF OnLane
<1>7. CASE OnPbs(t)
  <2>0. /\ PbsInv /\ memory \in Seq(Ids) /\ pbsQueue \in Seq(Ids) /\ bound \in [Areas -> Nat] /\ Len(memory) \in Nat
    BY DEF HpuInv, HpuTypeOK
  <2>1. CASE LaunchLoad(t)
    <3> DEFINE d == Head(pbsQueue)
               L == After(LoadUnloadLatency, DopEvent("PePbsLandLoadMemory", d))
    <3>1. \A v \in triggers : v.event.type # "PePbsLandLoadMemory"
      BY <2>0, <2>1 DEF LaunchLoad, LaunchLoadAsserts, MayLoad, PbsInv, PbsBounds, PbsExpects, LandLoadAsserts
    <3>2. PICK new : /\ Handle(t, new)
                     /\ \A u \in new : u = L \/ u = Now(LaneEvent("PeAvailable", "Pbs"))
      BY <2>1 DEF LaunchLoad
    <3>3. /\ L.event.type = "PePbsLandLoadMemory"
          /\ Now(LaneEvent("PeAvailable", "Pbs")).event.type = "PeAvailable"
      BY DEF Now, After, LaneEvent, DopEvent
    <3> HIDE DEF d, L
    <3>4. \A u \in new : Alone(t, new, u)
      BY <3>1, <3>2, <3>3 DEF Alone, NowTypes
    <3> QED
      BY <3>2, <3>4, AloneOnce
  <2>2. CASE t.event.type = "PePbsLandLoadMemory" /\ LandLoad(t, t.event.id)
    <3> DEFINE d == t.event.id
               R == Now(DopEvent("IscUnlockRead", d))
    <3>1. d = memory[Len(memory)] /\ Len(memory) > bound.waiting
      BY <1>0, <2>0, <2>2 DEF PbsInv, PbsBounds, PbsExpects, LandLoadAsserts, NLoading, Areas
    <3>2. Unread(d)
      BY <2>0, <3>1 DEF HpuInv, ReadInv, MemoryRead, Areas
    <3>3. PICK new : /\ Handle(t, new)
                     /\ \A u \in new : u = R \/ u.event.type \in NowTypes
      BY <2>2 DEF LandLoad, NextLoad, LaunchBatch, Now, After, Event, BatchEvent, NowTypes
    <3>4. R.event = DopEvent("IscUnlockRead", d)
      BY DEF Now, After
    <3> HIDE DEF d, R
    <3>5. \A u \in new : Alone(t, new, u)
      BY <3>2, <3>3, <3>4, Told DEF Alone, NowTypes, Unread, DopEvent
    <3> QED
      BY <3>3, <3>5, AloneOnce
  <2>3. CASE Timeout(t)
    <3>1. PICK new : Handle(t, new) /\ \A u \in new : u.event.type \in NowTypes
      BY <2>3 DEF Timeout, LaunchBatch, Now, After, BatchEvent, NowTypes
    <3> QED
      BY <3>1, AloneOnce DEF Alone
  <2>4. CASE LaunchProcessing(t, t.event.size)
    <3> DEFINE n == t.event.size
               L == After(ProcessingLatency(n), BatchEvent("PePbsLandProcessing", n))
    <3>1. \A v \in triggers : v.event.type # "PePbsLandProcessing"
      BY <2>0, <2>4 DEF LaunchProcessing, LaunchProcessingAsserts, PbsInv, PbsBounds, PbsExpects
    <3>2. Handle(t, {L})
      BY <2>4 DEF LaunchProcessing
    <3>3. L.event.type = "PePbsLandProcessing"
      BY DEF After, BatchEvent
    <3> HIDE DEF n, L
    <3>4. \A u \in {L} : Alone(t, {L}, u)
      BY <3>1, <3>3 DEF Alone
    <3> QED
      BY <3>2, <3>4, AloneOnce
  <2>5. CASE LandProcessing(t, t.event.size)
    <3> DEFINE h == LandProcessingHint
    <3>1. PICK new : /\ Handle(t, new)
                     /\ \A u \in new : \/ u = Now(Event("PePbsLaunchUnloadMemory"))
                                       \/ u = LaunchBatch(h)
                                       \/ u = After(PbsTimeout, Event("PePbsTimeout"))
      BY <2>5 DEF LandProcessing
    <3>2. \A u \in new : u.event.type \in NowTypes \cup {"PePbsTimeout"}
      BY <3>1 DEF LaunchBatch, Now, After, Event, BatchEvent, NowTypes
    <3> QED
      BY <3>1, <3>2, AloneOnce DEF Alone
  <2>6. CASE LaunchUnload(t)
    <3> DEFINE d == memory[bound.unloading + 1]
               L == After(LoadUnloadLatency * NumberOutputs(prog[d]), DopEvent("PePbsLandUnloadMemory", d))
    <3>1. \A v \in triggers : v.event.type # "PePbsLandUnloadMemory"
      BY <2>0, <2>6 DEF LaunchUnload, LaunchUnloadAsserts, LandUnloadAsserts, PbsInv, PbsBounds, PbsExpects, Areas, NUnloading
    <3>2. Handle(t, {L})
      BY <2>6 DEF LaunchUnload
    <3>3. L.event.type = "PePbsLandUnloadMemory"
      BY DEF After, DopEvent
    <3> HIDE DEF d, L
    <3>4. \A u \in {L} : Alone(t, {L}, u)
      BY <3>1, <3>3 DEF Alone
    <3> QED
      BY <3>2, <3>4, AloneOnce
  <2>7. CASE LandUnload(t)
    <3> DEFINE d == Head(memory)
               W == Now(DopEvent("IscUnlockWrite", d))
    <3>1. d \in Ids /\ Holds(memory, d)
      <4>1. d = memory[1] /\ 1 \in DOMAIN memory
        BY <2>0, <2>7 DEF LandUnload, LandUnloadAsserts, NUnloading, PbsInv, PbsBounds, PbsExpects, Areas
      <4> QED
        BY <2>0, <4>1 DEF Holds
    <3>2. Unanswered(d)
      BY <3>1 DEF HpuInv, PlaceInv, PlaceAt
    <3>3. PICK new : /\ Handle(t, new)
                     /\ \A u \in new : u = W \/ u.event.type \in NowTypes
      BY <2>7 DEF LandUnload, NextLoad, Now, After, Event, NowTypes
    <3>4. W.event = DopEvent("IscUnlockWrite", d)
      BY DEF Now, After
    <3> HIDE DEF d, W
    <3>5. \A u \in new : Alone(t, new, u)
      BY <3>2, <3>3, <3>4, Told DEF Alone, NowTypes, Unanswered, DopEvent
    <3> QED
      BY <3>3, <3>5, AloneOnce
  <2> QED
    BY <1>7, <2>1, <2>2, <2>3, <2>4, <2>5, <2>6, <2>7 DEF OnPbs
<1> QED
  BY <1>1, <1>2, <1>3, <1>4, <1>5, <1>6, <1>7 DEF HandleEvent

(* The end of a cycle schedules nothing.                                   *)
LEMMA EndOnce ==
  ASSUME HpuInv, EndCycle
  PROVE  Once'
BY CycleEnds DEF HpuInv, HpuTypeOK, Once

-----------------------------------------------------------------------------
(* Lines and places.                                                       *)

(* A DOp joins a line, or leaves it from its head.                         *)
LEMMA HoldsAppend ==
  ASSUME NEW S, NEW s \in Seq(S), NEW e \in S
  PROVE  /\ \A d : Holds(Append(s, e), d) <=> Holds(s, d) \/ d = e
         /\ IsInjective(s) /\ ~ Holds(s, e) => IsInjective(Append(s, e))
<1> DEFINE a == Append(s, e)
<1>1. /\ Len(s) \in Nat /\ DOMAIN s = 1 .. Len(s) /\ DOMAIN a = 1 .. Len(s) + 1
      /\ \A k \in 1 .. Len(s) : a[k] = s[k]
      /\ a[Len(s) + 1] = e
  BY AppendSeq
<1> HIDE DEF a
<1>2. \A k \in DOMAIN a : k \in DOMAIN s \/ k = Len(s) + 1
  BY <1>1
<1>3. \A k \in DOMAIN s : k \in DOMAIN a
  BY <1>1
<1>4. Len(s) + 1 \in DOMAIN a
  BY <1>1
<1>5. \A d : Holds(a, d) <=> Holds(s, d) \/ d = e
  BY <1>1, <1>2, <1>3, <1>4 DEF Holds
<1>6. IsInjective(s) /\ ~ Holds(s, e) => IsInjective(a)
  BY <1>1, <1>2 DEF Holds, IsInjective
<1> QED
  BY <1>5, <1>6 DEF a

(* What leaves a line without repetitions is no longer in it.              *)
LEMMA HoldsTail ==
  ASSUME NEW S, NEW s \in Seq(S), s # <<>>, IsInjective(s)
  PROVE  /\ Holds(s, Head(s)) /\ Head(s) \in S
         /\ \A d : Holds(Tail(s), d) <=> Holds(s, d) /\ d # Head(s)
         /\ IsInjective(Tail(s))
<1> DEFINE r == Tail(s)
<1>1. /\ Len(s) \in Nat \ {0} /\ DOMAIN s = 1 .. Len(s) /\ DOMAIN r = 1 .. Len(s) - 1
      /\ \A k \in DOMAIN r : r[k] = s[k + 1]
      /\ Head(s) = s[1] /\ Head(s) \in S
  BY HeadTail
<1> HIDE DEF r
<1>2. \A k \in DOMAIN r : k + 1 \in DOMAIN s /\ k + 1 # 1 /\ k \in Nat
  BY <1>1
<1>3. \A k \in DOMAIN s : k = 1 \/ (k - 1 \in DOMAIN r /\ k - 1 + 1 = k)
  BY <1>1
<1>4. 1 \in DOMAIN s
  BY <1>1
<1>5. ASSUME NEW d PROVE Holds(r, d) <=> Holds(s, d) /\ d # Head(s)
  <2>1. ASSUME NEW k \in DOMAIN r, r[k] = d PROVE Holds(s, d) /\ d # s[1]
    <3>1. s[k + 1] = d /\ k + 1 \in DOMAIN s /\ k + 1 # 1
      BY <1>1, <1>2, <2>1
    <3> QED
      BY <1>4, <3>1 DEF Holds, IsInjective
  <2>2. ASSUME NEW k \in DOMAIN s, s[k] = d, d # s[1] PROVE Holds(r, d)
    <3>1. k - 1 \in DOMAIN r /\ s[k - 1 + 1] = d
      BY <1>3, <2>2
    <3> QED
      BY <1>1, <3>1 DEF Holds
  <2> QED
    BY <1>1, <2>1, <2>2 DEF Holds
<1>6. IsInjective(r)
  BY <1>1, <1>2 DEF IsInjective
<1> QED
  BY <1>1, <1>4, <1>5, <1>6 DEF r, Holds

(* The DOps that messages of a type are about, after a handler.            *)
LEMMA ToldAfter ==
  ASSUME HpuInv, NEW t \in Ready, NEW new, Handle(t, new), NEW type \in DopTypes
  PROVE  \A d : d \in DopsOf(type)' <=>
                  \/ d \in DopsOf(type) /\ ~ (t.event.type = type /\ t.event.id = d)
                  \/ \E u \in new : u.event.type = type /\ u.event.id = d
<1>0. t \in triggers /\ TriggersOK /\ triggers' = (triggers \ {t}) \cup new
  BY DEF Ready, HpuInv, HpuTypeOK, Handle
<1>1. \A d : d \in DopsOf(type)' <=> \E u \in triggers' : u.event.type = type /\ u.event.id = d
  BY DEF DopsOf, Pending
<1>2. ASSUME t.event.type = type, NEW u \in triggers, u.event.type = type, u.event.id = t.event.id
      PROVE  u = t
  <2>1. u.event = t.event
    BY <1>0, <1>2, EventShape
  <2>2. type # "PePbsTimeout"
    BY DEF DopTypes
  <2> QED
    BY <1>0, <1>2, <2>1, <2>2 DEF HpuInv, Once
<1> QED
  BY <1>0, <1>1, <1>2, Told

(* The same after a handler that rearms the query.                         *)
LEMMA ToldRearm ==
  ASSUME HpuInv, NEW t \in Ready, NEW new, HandleAndRearm(t, new), NEW type \in DopTypes
  PROVE  \A d : d \in DopsOf(type)' <=>
                  \/ d \in DopsOf(type) /\ ~ (t.event.type = type /\ t.event.id = d)
                  \/ \E u \in new : u.event.type = type /\ u.event.id = d
<1> DEFINE query == QueryAfterPeriod(triggers \ {t})
           all == new \cup query
<1>1. Handle(t, all)
  BY DEF HandleAndRearm
<1>2. t \in triggers /\ TriggersOK
  BY DEF Ready, HpuInv, HpuTypeOK
<1>3. \A u \in query : u.event.type # type
  BY <1>2, Rearm DEF After, Event, DopTypes
<1> HIDE DEF query
<1>4. \A u \in all : u.event.type = type => u \in new
  BY <1>3
<1>5. \A u \in new : u \in all
  OBVIOUS
<1> HIDE DEF all
<1> QED
  BY <1>1, <1>4, <1>5, ToldAfter

(* Messages that stay tell of the same DOps.                               *)
LEMMA ToldKept ==
  ASSUME NEW types, Keeps(types), NEW type \in types
  PROVE  DopsOf(type)' = DopsOf(type)
BY DEF Keeps, DopsOf, Pending

(* Where a DOp is, without the names of the places.                        *)
Somewhere(d) ==
  \/ \E lane \in Lanes : Holds(queue[lane], d)
  \/ Holds(pbsQueue, d)
  \/ Holds(memory, d)
  \/ d \in DopsOf("IscIssueDOp")
  \/ d \in DopsOf("IscUnlockWrite")
InjectiveLines ==
  /\ \A lane \in Lanes : IsInjective(queue[lane])
  /\ IsInjective(pbsQueue) /\ IsInjective(memory)

(* The lines by their names.                                               *)
LEMMA LineNames ==
  /\ DOMAIN Lines = Lanes \cup {"PbsQueue", "PbsMemory"}
  /\ \A lane \in Lanes : Lines[lane] = queue[lane]
  /\ Lines["PbsQueue"] = pbsQueue /\ Lines["PbsMemory"] = memory
BY DEF Lines, Lanes

(* To be somewhere is to have a place.                                     *)
LEMMA SomewhereIsAPlace ==
  ASSUME NEW d
  PROVE  PlacesOf(d) # {} <=> Somewhere(d)
<1>1. \A place : place \in PlacesOf(d) <=>
        \/ place \in DOMAIN Lines /\ Holds(Lines[place], d)
        \/ place \in {"IscIssueDOp", "IscUnlockWrite"} /\ d \in DopsOf(place)
  BY DEF PlacesOf
<1>2. Somewhere(d) <=> \E place : \/ place \in DOMAIN Lines /\ Holds(Lines[place], d)
                                  \/ place \in {"IscIssueDOp", "IscUnlockWrite"} /\ d \in DopsOf(place)
  BY LineNames DEF Somewhere
<1> QED
  BY <1>1, <1>2

(* No line holds a DOp twice, without the names of the lines.              *)
LEMMA LinesInjective ==
  InjectiveLines <=> \A place \in DOMAIN Lines : IsInjective(Lines[place])
BY LineNames DEF InjectiveLines

(* What is to be shown of PlaceInv after a step.                           *)
LEMMA PlaceNext ==
  (InjectiveLines /\ \A d \in Ids : PlaceAt(d))' => PlaceInv'
<1>1. (InjectiveLines /\ \A d \in Ids : PlaceAt(d)) => PlaceInv
  BY LinesInjective DEF PlaceInv
<1> QED
  BY <1>1, PTL

(* The same after a step.                                                  *)
LEMMA SomewhereNext ==
  ASSUME NEW d
  PROVE  Somewhere(d)' => PlacesOf(d)' # {}
<1>1. \A e : Somewhere(e) => PlacesOf(e) # {}
  BY SomewhereIsAPlace
<1>2. (\A e : Somewhere(e) => PlacesOf(e) # {})'
  BY <1>1, PTL
<1> QED
  BY <1>2

-----------------------------------------------------------------------------
(* A DOp is in one place.                                                  *)

(* What every case below starts from.                                      *)
LEMMA PlaceBefore ==
  ASSUME HpuInv
  PROVE  /\ InjectiveLines
         /\ \A d \in Ids : PlaceAt(d)
         /\ \A d : PlacesOf(d) # {} => Somewhere(d)
BY LinesInjective, SomewhereIsAPlace DEF HpuInv, PlaceInv

(* A step that moves no DOp.                                               *)
LEMMA PlaceSame ==
  ASSUME HpuInv, UNCHANGED <<prog, queue, pbsQueue, memory, issued, readDone, writeDone>>,
         \A type \in {"IscIssueDOp", "IscUnlockRead", "IscUnlockWrite"} : DopsOf(type)' = DopsOf(type)
  PROVE  PlaceInv'
<1>0. Ids' = Ids
  BY DEF Ids
<1>1. InjectiveLines'
  BY PlaceBefore DEF InjectiveLines
<1>2. ASSUME NEW e \in Ids PROVE PlaceAt(e)'
  BY <1>2, PlaceBefore, SomewhereNext DEF PlaceAt, Somewhere, Fresh, Unanswered, Unread
<1> QED
  BY <1>0, <1>1, <1>2, PlaceNext

(* A query.                                                                *)
LEMMA PlaceQuery ==
  ASSUME HpuInv, NEW t \in Ready, HandleEvent(t), Pops(t), t.event.type = "IscQuery"
  PROVE  PlaceInv'
<1> DEFINE Shown == {"IscIssueDOp", "IscUnlockRead", "IscUnlockWrite"}
<1>0. /\ prog' = prog /\ Ids' = Ids
      /\ UNCHANGED <<queue, pbsQueue, memory, readDone, writeDone>>
  BY Untouched, UntouchedPes DEF Pops, Ids
<1>1. ASSUME NEW d \in InPool, QueryIssue(d), HandleAndRearm(t, {Now(DopEvent("IscIssueDOp", d))})
      PROVE  PlaceInv'
  <2>1. d \in Ids /\ d \notin issued /\ issued' = issued \cup {d} /\ readDone \subseteq issued
        /\ writeDone \subseteq issued
    BY <1>1, PoolInIds, QueryAcknowledged DEF QueryIssue, Issuable, HpuInv, HpuTypeOK, IscTypeOK
  <2> DEFINE u == Now(DopEvent("IscIssueDOp", d))
  <2>2. u.event.type = "IscIssueDOp" /\ u.event.id = d
    BY DEF Now, After, DopEvent
  <2>3. \A type \in Shown : \A e : e \in DopsOf(type)' <=>
          e \in DopsOf(type) \/ (type = "IscIssueDOp" /\ e = d)
    <3> SUFFICES ASSUME NEW type \in Shown, NEW e
                 PROVE  e \in DopsOf(type)' <=> e \in DopsOf(type) \/ (type = "IscIssueDOp" /\ e = d)
      OBVIOUS
    <3>1. type \in DopTypes /\ t.event.type # type
      BY DEF DopTypes
    <3> HIDE DEF u
    <3>2. HandleAndRearm(t, {u})
      BY <1>1 DEF u
    <3> QED
      BY <2>2, <3>1, <3>2, ToldRearm
  <2>4. InjectiveLines'
    BY <1>0, PlaceBefore DEF InjectiveLines
  <2>5. ASSUME NEW e \in Ids PROVE PlaceAt(e)'
    <3>1. PlaceAt(e) /\ (PlacesOf(e) # {} => Somewhere(e))
      BY PlaceBefore
    <3>2. e \in issued' \ writeDone' => Somewhere(e)'
      BY <1>0, <2>1, <2>3, <3>1 DEF PlaceAt, Somewhere
    <3> QED
      BY <1>0, <2>1, <2>3, <3>1, <3>2, SomewhereNext DEF PlaceAt, Fresh, Unanswered, Unread
  <2> QED
    BY <1>0, <2>4, <2>5, PlaceNext
<1>2. ASSUME UNCHANGED issued, NEW new, HandleAndRearm(t, new), \A u \in new : u.event.type \notin Shown
      PROVE  PlaceInv'
  <2>1. \A type \in Shown : DopsOf(type)' = DopsOf(type)
    <3> SUFFICES ASSUME NEW type \in Shown, NEW e
                 PROVE  e \in DopsOf(type)' <=> e \in DopsOf(type)
      BY DEF DopsOf, Pending
    <3>1. type \in DopTypes /\ t.event.type # type
      BY DEF DopTypes
    <3> QED
      BY <1>2, <3>1, ToldRearm
  <2> QED
    BY <1>0, <1>2, <2>1, PlaceSame
<1>3. OnQuery(t)
  BY Handlers
<1>4. CASE (QueryReadUnlock \/ QueryRefill) /\ HandleAndRearm(t, {})
  <2>1. UNCHANGED issued
    BY <1>4 DEF QueryReadUnlock, QueryRefill, historyVars
  <2>2. \A u \in {} : u.event.type \notin Shown
    OBVIOUS
  <2> HIDE DEF Shown
  <2> QED
    BY <1>2, <1>4, <2>1, <2>2
<1>5. CASE QueryRetire /\ HandleAndRearm(t, {Now(DopEvent("IscRetireDOp", Head(writeUnlocks)))})
  <2>1. UNCHANGED issued
    BY <1>5 DEF QueryRetire, historyVars
  <2>2. \A u \in {Now(DopEvent("IscRetireDOp", Head(writeUnlocks)))} : u.event.type \notin Shown
    BY DEF Now, After, DopEvent
  <2> HIDE DEF Shown
  <2> QED
    BY <1>2, <1>5, <2>1, <2>2
<1>6. CASE QueryIdle /\ Handle(t, {})
  <2>1. \A type \in Shown : DopsOf(type)' = DopsOf(type)
    BY <1>6 DEF Handle, DopsOf, Pending
  <2>2. UNCHANGED issued
    BY <1>6 DEF QueryIdle, iscVars, historyVars
  <2> QED
    BY <1>0, <2>1, <2>2, PlaceSame
<1> QED
  BY <1>1, <1>3, <1>4, <1>5, <1>6 DEF OnQuery

(* The message of a lane, or of the PBS element.                           *)
LEMMA PlaceUnlocks ==
  ASSUME HpuInv, NEW t \in Ready, HandleEvent(t), Pops(t),
         t.event.type \in {"IscUnlockRead", "IscUnlockWrite"}
  PROVE  PlaceInv'
<1> DEFINE d == t.event.id
<1>0. /\ prog' = prog /\ Ids' = Ids
      /\ UNCHANGED <<queue, pbsQueue, memory, issued>>
  BY Untouched, UntouchedPes DEF Pops, Ids
<1>1. d \in Ids /\ d \in DopsOf(t.event.type) /\ t \in triggers
  BY ToldOf DEF Ready, HpuInv, HpuTypeOK, DopTypes
<1>2. \A type \in {"IscIssueDOp", "IscUnlockRead", "IscUnlockWrite"} : \A e :
        e \in DopsOf(type)' <=> e \in DopsOf(type) /\ ~ (t.event.type = type /\ e = d)
  <2> SUFFICES ASSUME NEW type \in {"IscIssueDOp", "IscUnlockRead", "IscUnlockWrite"}, NEW e
               PROVE  e \in DopsOf(type)' <=> e \in DopsOf(type) /\ ~ (t.event.type = type /\ e = d)
    OBVIOUS
  <2>1. HandleAndRearm(t, {})
    BY DEF HandleEvent, OnProcessOver, OnPushDOps, OnUnlock, OnAvailable, OnUnavailable, OnQuery, OnRetireDOp,
           OnIssueDOp, OnLane, OnPbs
  <2>2. type \in DopTypes
    BY DEF DopTypes
  <2> QED
    BY <2>1, <2>2, ToldRearm
<1>3. InjectiveLines'
  BY <1>0, PlaceBefore DEF InjectiveLines
<1>4. \/ t.event.type = "IscUnlockRead" /\ readDone' = readDone \cup {d} /\ writeDone' = writeDone
      \/ t.event.type = "IscUnlockWrite" /\ writeDone' = writeDone \cup {d} /\ readDone' = readDone
  BY Handlers DEF UnlockRead, UnlockWrite
<1> HIDE DEF d
<1>5. ASSUME NEW e \in Ids PROVE PlaceAt(e)'
  <2>1. PlaceAt(e) /\ (PlacesOf(e) # {} => Somewhere(e))
    BY PlaceBefore
  <2>2. e \in issued' \ writeDone' => Somewhere(e)'
    BY <1>0, <1>2, <1>4, <2>1 DEF PlaceAt, Somewhere
  <2> QED
    BY <1>0, <1>1, <1>2, <1>4, <2>1, <2>2, SomewhereNext DEF PlaceAt, Fresh, Unanswered, Unread
<1> QED
  BY <1>0, <1>3, <1>5, PlaceNext

Shown == {"IscIssueDOp", "IscUnlockRead", "IscUnlockWrite"}

(* A DOp reaches its processing element.                                   *)
LEMMA PlaceIssued ==
  ASSUME HpuInv, NEW t \in Ready, HandleEvent(t), Pops(t), t.event.type = "IscIssueDOp"
  PROVE  PlaceInv'
<1> DEFINE d == t.event.id
           lane == Affinity(prog[d])
<1>0. /\ prog' = prog /\ Ids' = Ids
      /\ UNCHANGED <<memory, issued, readDone, writeDone>>
  BY Untouched, UntouchedPes DEF Pops, Ids
<1>1. d \in Ids /\ d \in DopsOf("IscIssueDOp") /\ t \in triggers
  BY ToldOf DEF Ready, HpuInv, HpuTypeOK, DopTypes
<1>2. /\ PlaceAt(d) /\ Fresh(d) /\ Unread(d) /\ d \notin DopsOf("IscUnlockWrite")
      /\ \A l \in Lanes : ~ Holds(queue[l], d)
      /\ ~ Holds(pbsQueue, d) /\ ~ Holds(memory, d)
  BY <1>1, PlaceBefore DEF PlaceAt, Unanswered
<1>3. /\ queue \in [Lanes -> Seq(Ids)] /\ pbsQueue \in Seq(Ids)
      /\ InjectiveLines
  BY PlaceBefore DEF HpuInv, HpuTypeOK
<1>4. CASE lane \in Lanes /\ LaneIssue(t, lane, d)
  <2>1. /\ queue' = [queue EXCEPT ![lane] = Append(queue[lane], d)]
        /\ pbsQueue' = pbsQueue
    BY <1>4, Handlers, UntouchedPes DEF LaneIssue, OnIssueDOp, pbsVars, CtlIssue, PbsIssue, Lanes
  <2>2. PICK new : Handle(t, new) /\ \A u \in new : u.event.type \notin Shown
    BY <1>4 DEF LaneIssue, Now, After, DopEvent, LaneEvent, Shown
  <2>3. \A type \in Shown : \A e :
          e \in DopsOf(type)' <=> e \in DopsOf(type) /\ ~ (type = "IscIssueDOp" /\ e = d)
    BY <2>2, ToldAfter DEF Shown, DopTypes
  <2> HIDE DEF d, lane
  <2>4. \A l \in Lanes : \A e : Holds(queue'[l], e) <=> Holds(queue[l], e) \/ (l = lane /\ e = d)
    BY <1>1, <1>3, <1>4, <2>1, HoldsAppend
  <2>5. InjectiveLines'
    <3>1. IsInjective(Append(queue[lane], d))
      BY <1>1, <1>2, <1>3, <1>4, HoldsAppend DEF InjectiveLines
    <3> QED
      BY <1>0, <1>3, <1>4, <2>1, <3>1 DEF InjectiveLines
  <2>6. ASSUME NEW e \in Ids PROVE PlaceAt(e)'
    <3>1. PlaceAt(e) /\ (PlacesOf(e) # {} => Somewhere(e))
      BY PlaceBefore
    <3>2. e \in issued' \ writeDone' => Somewhere(e)'
      BY <1>0, <1>4, <2>1, <2>3, <2>4, <3>1 DEF PlaceAt, Somewhere, Shown
    <3>3. lane = Affinity(prog[d]) /\ lane # "Pbs"
      BY <1>4 DEF d, lane, Lanes
    <3> QED
      BY <1>0, <1>2, <2>1, <2>3, <2>4, <3>1, <3>2, <3>3, SomewhereNext
      DEF PlaceAt, Fresh, Unanswered, Unread, Shown
  <2> QED
    BY <1>0, <2>5, <2>6, PlaceNext
<1>5. CASE lane = "Ctl" /\ CtlIssue(t, d)
  <2>1. queue' = queue /\ pbsQueue' = pbsQueue
    BY <1>5, Handlers DEF CtlIssue, laneVars, OnIssueDOp, pbsVars, PbsIssue, Lanes
  <2>2. PICK new : /\ Handle(t, new)
                   /\ new = {Now(DopEvent("IscUnlockIssue", d)), Now(DopEvent("IscUnlockRead", d)),
                             Now(DopEvent("IscUnlockWrite", d))}
    BY <1>5 DEF CtlIssue
  <2>3. \A type \in Shown : \A e :
          (\E u \in new : u.event.type = type /\ u.event.id = e) <=> type # "IscIssueDOp" /\ e = d
    BY <2>2 DEF Now, After, DopEvent, Shown
  <2>4. \A type \in Shown : \A e : e \in DopsOf(type)' <=>
          IF type = "IscIssueDOp" THEN e \in DopsOf(type) /\ e # d ELSE e \in DopsOf(type) \/ e = d
    <3> SUFFICES ASSUME NEW type \in Shown, NEW e
                 PROVE  e \in DopsOf(type)' <=>
                   IF type = "IscIssueDOp" THEN e \in DopsOf(type) /\ e # d ELSE e \in DopsOf(type) \/ e = d
      OBVIOUS
    <3>1. type \in DopTypes
      BY DEF Shown, DopTypes
    <3>2. e \in DopsOf(type)' <=> \/ e \in DopsOf(type) /\ ~ (t.event.type = type /\ d = e)
                                  \/ \E u \in new : u.event.type = type /\ u.event.id = e
      BY <2>2, <3>1, ToldAfter
    <3> QED
      BY <2>3, <3>2
  <2> HIDE DEF d, lane
  <2>5. InjectiveLines'
    BY <1>0, <1>3, <2>1 DEF InjectiveLines
  <2>6. ASSUME NEW e \in Ids PROVE PlaceAt(e)'
    <3>1. PlaceAt(e) /\ (PlacesOf(e) # {} => Somewhere(e))
      BY PlaceBefore
    <3>2. e \in issued' \ writeDone' => Somewhere(e)'
      BY <1>0, <2>1, <2>4, <3>1 DEF PlaceAt, Somewhere, Shown
    <3> QED
      BY <1>0, <1>2, <2>1, <2>4, <3>1, <3>2, SomewhereNext DEF PlaceAt, Fresh, Unanswered, Unread, Shown
  <2> QED
    BY <1>0, <2>5, <2>6, PlaceNext
<1>6. CASE lane = "Pbs" /\ PbsIssue(t, d)
  <2>1. queue' = queue /\ pbsQueue' = Append(pbsQueue, d)
    BY <1>6, Handlers DEF PbsIssue, laneVars, OnIssueDOp, Lanes
  <2>2. PICK new : Handle(t, new) /\ \A u \in new : u.event.type \notin Shown
    BY <1>6 DEF PbsIssue, NextLoad, Now, After, DopEvent, LaneEvent, Event, Shown
  <2>3. \A type \in Shown : \A e :
          e \in DopsOf(type)' <=> e \in DopsOf(type) /\ ~ (type = "IscIssueDOp" /\ e = d)
    BY <2>2, ToldAfter DEF Shown, DopTypes
  <2> HIDE DEF d, lane
  <2>4. \A e : Holds(pbsQueue', e) <=> Holds(pbsQueue, e) \/ e = d
    BY <1>1, <1>3, <2>1, HoldsAppend
  <2>5. InjectiveLines'
    <3>1. IsInjective(Append(pbsQueue, d))
      BY <1>1, <1>2, <1>3, HoldsAppend DEF InjectiveLines
    <3> QED
      BY <1>0, <1>3, <2>1, <3>1 DEF InjectiveLines
  <2>6. ASSUME NEW e \in Ids PROVE PlaceAt(e)'
    <3>1. PlaceAt(e) /\ (PlacesOf(e) # {} => Somewhere(e))
      BY PlaceBefore
    <3>2. e \in issued' \ writeDone' => Somewhere(e)'
      BY <1>0, <2>1, <2>3, <2>4, <3>1 DEF PlaceAt, Somewhere, Shown
    <3>3. Affinity(prog[d]) = "Pbs"
      BY <1>6 DEF d, lane
    <3> QED
      BY <1>0, <1>2, <2>1, <2>3, <2>4, <3>1, <3>2, <3>3, SomewhereNext
      DEF PlaceAt, Fresh, Unanswered, Unread, Shown
  <2> QED
    BY <1>0, <2>5, <2>6, PlaceNext
<1>7. OnIssueDOp(t)
  BY Handlers
<1> QED
  BY <1>4, <1>5, <1>6, <1>7 DEF OnIssueDOp

(* A lane takes a DOp from its queue.                                      *)
LEMMA PlaceLaunched ==
  ASSUME HpuInv, NEW t \in Ready, HandleEvent(t), Pops(t), t.event.type = "PeLaunchProcessing"
  PROVE  PlaceInv'
<1> DEFINE lane == t.event.lane
           d == Head(queue[lane])
<1>0. /\ prog' = prog /\ Ids' = Ids
      /\ UNCHANGED <<pbsQueue, memory, issued, readDone, writeDone>>
  BY Untouched, UntouchedPes DEF Pops, Ids
<1>1. LaneLaunch(t, lane) /\ lane \in Lanes
  BY Handlers, EventShape DEF Ready, HpuInv, HpuTypeOK
<1>2. queue[lane] # <<>> /\ queue' = [queue EXCEPT ![lane] = Tail(queue[lane])]
  BY <1>1 DEF LaneLaunch, LaneLaunchAsserts
<1>3. queue \in [Lanes -> Seq(Ids)] /\ InjectiveLines
  BY PlaceBefore DEF HpuInv, HpuTypeOK
<1>4. PICK new : /\ Handle(t, new)
                 /\ \A u : u \in new => \/ u = After(ReadLatency[lane], DopEvent("IscUnlockRead", d))
                                        \/ u = After(WriteLatency[lane], DopEvent("IscUnlockWrite", d))
                                        \/ u = After(WriteLatency[lane], LaneEvent("PeLandProcessing", lane))
                                        \/ u = Now(LaneEvent("PeAvailable", lane))
                 /\ After(ReadLatency[lane], DopEvent("IscUnlockRead", d)) \in new
                 /\ After(WriteLatency[lane], DopEvent("IscUnlockWrite", d)) \in new
  BY <1>1 DEF LaneLaunch
<1>5. \A type \in Shown : \A e :
        (\E u \in new : u.event.type = type /\ u.event.id = e) <=> type # "IscIssueDOp" /\ e = d
  BY <1>4 DEF Now, After, DopEvent, LaneEvent, Shown
<1>6. \A type \in Shown : \A e :
        e \in DopsOf(type)' <=> e \in DopsOf(type) \/ (type # "IscIssueDOp" /\ e = d)
  <2> SUFFICES ASSUME NEW type \in Shown, NEW e
               PROVE  e \in DopsOf(type)' <=> e \in DopsOf(type) \/ (type # "IscIssueDOp" /\ e = d)
    OBVIOUS
  <2>1. type \in DopTypes /\ t.event.type # type
    BY DEF Shown, DopTypes
  <2>2. e \in DopsOf(type)' <=> e \in DopsOf(type) \/ \E u \in new : u.event.type = type /\ u.event.id = e
    BY <1>4, <2>1, ToldAfter
  <2> QED
    BY <1>5, <2>2
<1> HIDE DEF lane, d
<1>7. /\ Holds(queue[lane], d) /\ d \in Ids
      /\ \A e : Holds(Tail(queue[lane]), e) <=> Holds(queue[lane], e) /\ e # d
      /\ IsInjective(Tail(queue[lane]))
  BY <1>1, <1>2, <1>3, HoldsTail DEF InjectiveLines, d
<1>8. \A l \in Lanes : \A e : Holds(queue'[l], e) <=> Holds(queue[l], e) /\ ~ (l = lane /\ e = d)
  BY <1>1, <1>2, <1>3, <1>7
<1>9. InjectiveLines'
  BY <1>0, <1>1, <1>2, <1>3, <1>7 DEF InjectiveLines
<1>10. PlaceAt(d) /\ \A l \in Lanes : Holds(queue[l], d) => l = lane
  BY <1>1, <1>7, PlaceBefore DEF PlaceAt
<1>11. ASSUME NEW e \in Ids PROVE PlaceAt(e)'
  <2>1. PlaceAt(e) /\ (PlacesOf(e) # {} => Somewhere(e))
    BY PlaceBefore
  <2>2. e \in issued' \ writeDone' => Somewhere(e)'
    BY <1>0, <1>6, <1>8, <2>1 DEF PlaceAt, Somewhere, Shown
  <2>3. lane # "Pbs"
    BY <1>1 DEF Lanes
  <2> QED
    BY <1>0, <1>1, <1>6, <1>7, <1>8, <1>10, <2>1, <2>2, <2>3, SomewhereNext
    DEF PlaceAt, Fresh, Unanswered, Unread, Shown
<1> QED
  BY <1>0, <1>9, <1>11, PlaceNext

(* The PBS element loads a DOp.                                            *)
LEMMA PlaceLoading ==
  ASSUME HpuInv, NEW t \in Ready, HandleEvent(t), Pops(t), t.event.type = "PePbsLaunchLoadMemory"
  PROVE  PlaceInv'
<1> DEFINE d == Head(pbsQueue)
<1>0. /\ prog' = prog /\ Ids' = Ids
      /\ UNCHANGED <<queue, issued, readDone, writeDone>>
  BY Untouched, UntouchedPes DEF Pops, Ids
<1>1. /\ pbsQueue # <<>> /\ memory' = Append(memory, d) /\ pbsQueue' = Tail(pbsQueue)
  BY Handlers DEF LaunchLoad, LaunchLoadAsserts
<1>2. pbsQueue \in Seq(Ids) /\ memory \in Seq(Ids) /\ InjectiveLines
  BY PlaceBefore DEF HpuInv, HpuTypeOK
<1>3. PICK new : Handle(t, new) /\ \A u \in new : u.event.type \notin Shown
  <2>1. LaunchLoad(t)
    BY Handlers
  <2>2. PICK new : /\ Handle(t, new)
                   /\ \A u \in new : \/ u = After(LoadUnloadLatency, DopEvent("PePbsLandLoadMemory", d))
                                     \/ u = Now(LaneEvent("PeAvailable", "Pbs"))
    BY <2>1 DEF LaunchLoad
  <2> HIDE DEF d
  <2> QED
    BY <2>2 DEF Now, After, DopEvent, LaneEvent, Shown
<1>4. \A type \in Shown : \A e : e \in DopsOf(type)' <=> e \in DopsOf(type)
  BY <1>3, ToldAfter DEF Shown, DopTypes
<1>5. /\ Holds(pbsQueue, d) /\ d \in Ids
      /\ \A e : Holds(Tail(pbsQueue), e) <=> Holds(pbsQueue, e) /\ e # d
      /\ IsInjective(Tail(pbsQueue))
  BY <1>1, <1>2, HoldsTail DEF InjectiveLines
<1> HIDE DEF d
<1>6. PlaceAt(d) /\ ~ Holds(memory, d)
  BY <1>5, PlaceBefore DEF PlaceAt
<1>7. /\ \A e : Holds(memory', e) <=> Holds(memory, e) \/ e = d
      /\ IsInjective(memory')
  BY <1>1, <1>2, <1>5, <1>6, HoldsAppend DEF InjectiveLines
<1>8. InjectiveLines'
  BY <1>0, <1>1, <1>2, <1>5, <1>7 DEF InjectiveLines
<1>9. ASSUME NEW e \in Ids PROVE PlaceAt(e)'
  <2>1. PlaceAt(e) /\ (PlacesOf(e) # {} => Somewhere(e))
    BY PlaceBefore
  <2>2. e \in issued' \ writeDone' => Somewhere(e)'
    BY <1>0, <1>1, <1>4, <1>5, <1>7, <2>1 DEF PlaceAt, Somewhere, Shown
  <2> QED
    BY <1>0, <1>1, <1>4, <1>5, <1>6, <1>7, <2>1, <2>2, SomewhereNext
    DEF PlaceAt, Fresh, Unanswered, Unread, Shown
<1> QED
  BY <1>0, <1>8, <1>9, PlaceNext

(* It has loaded the last DOp of its memory.                               *)
LEMMA LastLoads ==
  ASSUME HpuInv, NEW t \in triggers, t.event.type = "PePbsLandLoadMemory"
  PROVE  /\ Len(memory) \in Nat /\ bound.waiting \in Nat /\ Len(memory) = bound.waiting + 1
         /\ t.event.id = memory[Len(memory)]
         /\ Holds(memory, t.event.id)
         /\ t.event.id \in Ids /\ t.event.id \notin readDone /\ Unread(t.event.id)
<1>1. memory \in Seq(Ids) /\ bound \in [Areas -> Nat] /\ Len(memory) \in Nat
  BY DEF HpuInv, HpuTypeOK
<1>2. t.event.id = memory[Len(memory)] /\ Len(memory) = bound.waiting + 1 /\ bound.waiting \in Nat
  BY <1>1 DEF HpuInv, PbsInv, PbsBounds, PbsExpects, LandLoadAsserts, NLoading, Areas
<1>3. t.event.id \notin readDone /\ Unread(t.event.id)
  BY <1>1, <1>2 DEF HpuInv, ReadInv, MemoryRead
<1>4. Len(memory) \in DOMAIN memory
  BY <1>1, <1>2
<1> QED
  BY <1>1, <1>2, <1>3, <1>4 DEF Holds

(* The operands of a PBS are read once its load has landed.                *)
LEMMA PlaceLoaded ==
  ASSUME HpuInv, NEW t \in Ready, HandleEvent(t), Pops(t), t.event.type = "PePbsLandLoadMemory"
  PROVE  PlaceInv'
<1> DEFINE d == t.event.id
<1>0. /\ prog' = prog /\ Ids' = Ids /\ t \in triggers
      /\ UNCHANGED <<queue, pbsQueue, memory, issued, readDone, writeDone>>
  BY Untouched, UntouchedPes DEF Pops, Ids, Ready
<1>1. d \in Ids /\ Holds(memory, d) /\ d \notin readDone
  BY <1>0, LastLoads
<1>3. PICK new : /\ Handle(t, new)
                 /\ Now(DopEvent("IscUnlockRead", d)) \in new
                 /\ \A u \in new : u = Now(DopEvent("IscUnlockRead", d)) \/ u.event.type \notin Shown
  <2>1. LandLoad(t, d)
    BY Handlers
  <2>2. PICK new : /\ Handle(t, new)
                   /\ Now(DopEvent("IscUnlockRead", d)) \in new
                   /\ \A u \in new : \/ u = Now(DopEvent("IscUnlockRead", d))
                                     \/ u = Now(Event("PePbsLaunchLoadMemory"))
                                     \/ \E n : u = Now(BatchEvent("PePbsLaunchProcessing", n))
    BY <2>1 DEF LandLoad, NextLoad, LaunchBatch
  <2> HIDE DEF d
  <2> QED
    BY <2>2 DEF Now, After, Event, BatchEvent, Shown
<1>4. \A type \in Shown : \A e :
        (\E u \in new : u.event.type = type /\ u.event.id = e) <=> type = "IscUnlockRead" /\ e = d
  BY <1>3 DEF Now, After, DopEvent
<1>5. \A type \in Shown : \A e :
        e \in DopsOf(type)' <=> e \in DopsOf(type) \/ (type = "IscUnlockRead" /\ e = d)
  <2> SUFFICES ASSUME NEW type \in Shown, NEW e
               PROVE  e \in DopsOf(type)' <=> e \in DopsOf(type) \/ (type = "IscUnlockRead" /\ e = d)
    OBVIOUS
  <2>1. type \in DopTypes /\ t.event.type # type
    BY DEF Shown, DopTypes
  <2>2. e \in DopsOf(type)' <=> e \in DopsOf(type) \/ \E u \in new : u.event.type = type /\ u.event.id = e
    BY <1>3, <2>1, ToldAfter
  <2> QED
    BY <1>4, <2>2
<1> HIDE DEF d
<1>6. PlaceAt(d)
  BY <1>1, PlaceBefore
<1>7. InjectiveLines'
  BY <1>0, PlaceBefore DEF InjectiveLines
<1>8. ASSUME NEW e \in Ids PROVE PlaceAt(e)'
  <2>1. PlaceAt(e) /\ (PlacesOf(e) # {} => Somewhere(e))
    BY PlaceBefore
  <2>2. e \in issued' \ writeDone' => Somewhere(e)'
    BY <1>0, <1>5, <2>1 DEF PlaceAt, Somewhere, Shown
  <2>3. /\ \A lane \in Lanes : "Pbs" # lane
        /\ e # d \/ (e \notin DopsOf("IscIssueDOp") /\ e \in issued)
    BY <1>1, <1>6 DEF Lanes, PlaceAt, Unanswered
  <2> QED
    BY <1>0, <1>1, <1>5, <1>6, <2>1, <2>2, <2>3, SomewhereNext
    DEF PlaceAt, Fresh, Unanswered, Unread, Shown
<1> QED
  BY <1>0, <1>7, <1>8, PlaceNext

(* The front of the memory leaves it.                                      *)
LEMMA PlaceUnloaded ==
  ASSUME HpuInv, NEW t \in Ready, HandleEvent(t), Pops(t), t.event.type = "PePbsLandUnloadMemory"
  PROVE  PlaceInv'
<1> DEFINE d == Head(memory)
<1>0. /\ prog' = prog /\ Ids' = Ids
      /\ UNCHANGED <<queue, pbsQueue, issued, readDone, writeDone>>
  BY Untouched, UntouchedPes DEF Pops, Ids
<1>1. memory \in Seq(Ids) /\ InjectiveLines /\ bound \in [Areas -> Nat]
  BY PlaceBefore DEF HpuInv, HpuTypeOK
<1>2. memory # <<>> /\ memory' = Tail(memory)
  <2>1. memory' = Tail(memory) /\ NUnloading > 0
    BY Handlers DEF LandUnload, LandUnloadAsserts
  <2> QED
    BY <1>1, <2>1 DEF HpuInv, PbsInv, PbsBounds, PbsExpects, NUnloading, Areas
<1>3. PICK new : /\ Handle(t, new)
                 /\ Now(DopEvent("IscUnlockWrite", d)) \in new
                 /\ \A u \in new : u = Now(DopEvent("IscUnlockWrite", d)) \/ u.event.type \notin Shown
  <2>1. LandUnload(t)
    BY Handlers
  <2>2. PICK new : /\ Handle(t, new)
                   /\ Now(DopEvent("IscUnlockWrite", d)) \in new
                   /\ \A u \in new : \/ u = Now(DopEvent("IscUnlockWrite", d))
                                     \/ u = Now(Event("PePbsLaunchLoadMemory"))
                                     \/ u = Now(Event("PePbsLaunchUnloadMemory"))
    BY <2>1 DEF LandUnload, NextLoad
  <2> HIDE DEF d
  <2> QED
    BY <2>2 DEF Now, After, Event, Shown
<1>4. \A type \in Shown : \A e :
        (\E u \in new : u.event.type = type /\ u.event.id = e) <=> type = "IscUnlockWrite" /\ e = d
  BY <1>3 DEF Now, After, DopEvent
<1>5. \A type \in Shown : \A e :
        e \in DopsOf(type)' <=> e \in DopsOf(type) \/ (type = "IscUnlockWrite" /\ e = d)
  <2> SUFFICES ASSUME NEW type \in Shown, NEW e
               PROVE  e \in DopsOf(type)' <=> e \in DopsOf(type) \/ (type = "IscUnlockWrite" /\ e = d)
    OBVIOUS
  <2>1. type \in DopTypes /\ t.event.type # type
    BY DEF Shown, DopTypes
  <2>2. e \in DopsOf(type)' <=> e \in DopsOf(type) \/ \E u \in new : u.event.type = type /\ u.event.id = e
    BY <1>3, <2>1, ToldAfter
  <2> QED
    BY <1>4, <2>2
<1> HIDE DEF d
<1>6. /\ Holds(memory, d) /\ d \in Ids
      /\ \A e : Holds(memory', e) <=> Holds(memory, e) /\ e # d
      /\ IsInjective(memory')
  BY <1>1, <1>2, HoldsTail DEF InjectiveLines, d
<1>7. InjectiveLines'
  BY <1>0, <1>6, <1>1 DEF InjectiveLines
<1>8. /\ PlaceAt(d) /\ Affinity(prog[d]) = "Pbs" /\ ~ Holds(pbsQueue, d) /\ Unanswered(d)
      /\ \A lane \in Lanes : ~ Holds(queue[lane], d)
  BY <1>6, PlaceBefore DEF PlaceAt, Lanes
<1>9. ASSUME NEW e \in Ids PROVE PlaceAt(e)'
  <2>1. PlaceAt(e) /\ (PlacesOf(e) # {} => Somewhere(e))
    BY PlaceBefore
  <2>2. e \in issued' \ writeDone' => Somewhere(e)'
    BY <1>0, <1>5, <1>6, <2>1 DEF PlaceAt, Somewhere, Shown
  <2> QED
    BY <1>0, <1>5, <1>6, <1>8, <2>1, <2>2, SomewhereNext
    DEF PlaceAt, Fresh, Unanswered, Unread, Shown
<1> QED
  BY <1>0, <1>7, <1>9, PlaceNext

(* Every handler keeps a DOp in one place.                                 *)
LEMMA PopPlace ==
  ASSUME HpuInv, NEW t \in Ready, HandleEvent(t), Pops(t)
  PROVE  PlaceInv'
<1> DEFINE Moving == {"IscQuery", "IscUnlockRead", "IscUnlockWrite", "IscIssueDOp", "PeLaunchProcessing",
                      "PePbsLaunchLoadMemory", "PePbsLandLoadMemory", "PePbsLandUnloadMemory"}
<1>1. CASE t.event.type \in Moving
  BY <1>1, PlaceQuery, PlaceUnlocks, PlaceIssued, PlaceLaunched, PlaceLoading, PlaceLoaded, PlaceUnloaded
<1>2. CASE t.event.type \notin Moving
  <2>1. Emits(t.event.type) \cap Shown = {}
    BY <1>2 DEF Emits, Shown
  <2>2. Keeps(Shown)
    BY <1>2, <2>1, PopsKeeps DEF Shown
  <2>3. \A type \in Shown : DopsOf(type)' = DopsOf(type)
    BY <2>2, ToldKept
  <2>4. UNCHANGED <<prog, queue, pbsQueue, memory, issued, readDone, writeDone>>
    BY <1>2, Untouched, UntouchedPes DEF Pops
  <2> QED
    BY <2>3, <2>4, PlaceSame DEF Shown
<1> QED
  BY <1>1, <1>2

(* The end of a cycle moves no DOp.                                        *)
LEMMA EndPlace ==
  ASSUME HpuInv, EndCycle
  PROVE  PlaceInv'
<1>1. UNCHANGED <<prog, queue, pbsQueue, memory, issued, readDone, writeDone, triggers>>
  BY CycleEnds DEF HpuInv, HpuTypeOK, iscVars, historyVars, laneVars, pbsVars
<1>2. \A type : DopsOf(type)' = DopsOf(type)
  BY <1>1 DEF DopsOf, Pending
<1> QED
  BY <1>1, <1>2, PlaceSame

-----------------------------------------------------------------------------
(* Operands are read before the result is written.                         *)

(* What has been read stays read, and a pending message that says so is    *)
(* kept until it is handled.                                               *)
LEMMA ReadKept ==
  ASSUME HpuInv, NEW t \in Ready, HandleEvent(t), Pops(t)
  PROVE  /\ readDone \subseteq readDone'
         /\ \A d : ReadsNow(d) => d \in readDone' \/ ReadsNow(d)'
         /\ \A u \in triggers : \A d : u.event = DopEvent("IscUnlockRead", d) =>
              d \in readDone' \/ u \in triggers'
<1>1. t.event.type = "IscUnlockRead" => readDone' = readDone \cup {t.event.id}
  BY Handlers DEF UnlockRead
<1>2. t.event.type # "IscUnlockRead" => readDone' = readDone
  BY Untouched
<1>3. \A u \in triggers : \A d : u.event = DopEvent("IscUnlockRead", d) => d \in readDone' \/ u \in triggers'
  <2> SUFFICES ASSUME NEW u \in triggers, NEW d, u.event = DopEvent("IscUnlockRead", d)
               PROVE  d \in readDone' \/ u \in triggers'
    OBVIOUS
  <2>1. CASE u = t
    BY <1>1, <2>1 DEF DopEvent
  <2> QED
    BY <2>1 DEF Pops
<1>4. ASSUME NEW d, ReadsNow(d) PROVE d \in readDone' \/ ReadsNow(d)'
  <2>1. Now(DopEvent("IscUnlockRead", d)).event = DopEvent("IscUnlockRead", d)
    BY DEF Now, After
  <2>2. now' = now
    BY DEF Pops
  <2> QED
    BY <1>3, <1>4, <2>1, <2>2 DEF ReadsNow, Now, After
<1> QED
  BY <1>1, <1>2, <1>3, <1>4

(* Every handler announces a result after the operands, or a control       *)
(* instruction's with them.                                                *)
LEMMA PopReadFirst ==
  ASSUME HpuInv, NEW t \in Ready, HandleEvent(t), Pops(t)
  PROVE  ReadFirst'
<1>0. t \in triggers /\ TriggersOK /\ now \in Nat /\ now' = now /\ prog' = prog
  BY DEF Ready, HpuInv, HpuTypeOK, TriggersOK, Pops
<1> SUFFICES ASSUME NEW v \in triggers', v.event.type = "IscUnlockWrite"
             PROVE  \/ v.event.id \in readDone'
                    \/ Affinity(prog[v.event.id]) = "Ctl" /\ ReadsNow(v.event.id)'
                    \/ \E u \in triggers' : u.event = DopEvent("IscUnlockRead", v.event.id) /\ u.at < v.at
  BY <1>0 DEF ReadFirst
<1>1. CASE v \in triggers
  BY <1>1, ReadKept DEF HpuInv, ReadInv, ReadFirst
<1>2. CASE v \notin triggers
  <2>1. "IscUnlockWrite" \in Emits(t.event.type)
    BY <1>2 DEF Pops
  <2>2. t.event.type \in {"IscIssueDOp", "PeLaunchProcessing", "PePbsLandUnloadMemory"}
    BY <2>1 DEF Emits
  <2>3. CASE t.event.type = "IscIssueDOp"
    <3> DEFINE d == t.event.id
    <3>1. OnIssueDOp(t)
      BY <2>3, Handlers
    <3>2. CASE Affinity(prog[d]) = "Ctl" /\ CtlIssue(t, d)
      <4>1. v = Now(DopEvent("IscUnlockWrite", d)) /\ Now(DopEvent("IscUnlockRead", d)) \in triggers'
        BY <1>2, <3>2 DEF CtlIssue, Handle, Now, After, DopEvent
      <4>2. v.event.id = d
        BY <4>1 DEF Now, After, DopEvent
      <4> QED
        BY <1>0, <3>2, <4>1, <4>2 DEF ReadsNow, Now, After
    <3>3. CASE LaneIssue(t, Affinity(prog[d]), d)
      BY <1>2, <3>3 DEF LaneIssue, Handle, Now, After, DopEvent, LaneEvent
    <3>4. CASE PbsIssue(t, d)
      BY <1>2, <3>4 DEF PbsIssue, NextLoad, Handle, Now, After, DopEvent, LaneEvent, Event
    <3> QED
      BY <3>1, <3>2, <3>3, <3>4 DEF OnIssueDOp
  <2>4. CASE t.event.type = "PeLaunchProcessing"
    <3> DEFINE lane == t.event.lane
               d == Head(queue[lane])
               R == After(ReadLatency[lane], DopEvent("IscUnlockRead", d))
               W == After(WriteLatency[lane], DopEvent("IscUnlockWrite", d))
    <3>1. LaneLaunch(t, lane) /\ lane \in Lanes
      BY <1>0, <2>4, Handlers, EventShape
    <3>2. v = W /\ R \in triggers'
      BY <1>2, <3>1 DEF LaneLaunch, Handle, Now, After, DopEvent, LaneEvent
    <3>3. R.event = DopEvent("IscUnlockRead", d) /\ R.at = now + ReadLatency[lane]
          /\ W.at = now + WriteLatency[lane] /\ W.event.id = d
      BY DEF After, DopEvent
    <3>4. ReadLatency[lane] \in Nat /\ WriteLatency[lane] \in Nat /\ ReadLatency[lane] < WriteLatency[lane]
      BY <3>1, LaneAssumption
    <3> HIDE DEF R, W, lane
    <3>5. R.at < W.at
      BY <1>0, <3>3, <3>4
    <3> QED
      BY <3>2, <3>3, <3>5
  <2>5. CASE t.event.type = "PePbsLandUnloadMemory"
    <3> DEFINE d == Head(memory)
    <3>1. LandUnload(t)
      BY <2>5, Handlers
    <3>2. v = Now(DopEvent("IscUnlockWrite", d))
      BY <1>2, <3>1 DEF LandUnload, NextLoad, Handle, Now, After, DopEvent, Event
    <3>3. v.event.id = d
      BY <3>2 DEF Now, After, DopEvent
    <3>4. d = memory[1] /\ 1 \in 1 .. Len(memory) /\ 1 <= bound.parking
      BY <3>1 DEF LandUnload, LandUnloadAsserts, NUnloading, HpuInv, HpuTypeOK, PbsInv, PbsBounds, PbsExpects, Areas
    <3> HIDE DEF d
    <3>5. d \in readDone
      BY <3>4 DEF HpuInv, ReadInv, MemoryRead
    <3> QED
      BY <3>3, <3>5, ReadKept
  <2> QED
    BY <2>2, <2>3, <2>4, <2>5
<1> QED
  BY <1>1, <1>2

(* Who announces that operands are read.                                   *)
LEMMA NewRead ==
  ASSUME HpuInv, NEW t \in Ready, HandleEvent(t), Pops(t),
         NEW v \in triggers', v \notin triggers, v.event.type = "IscUnlockRead"
  PROVE  /\ v.event.id \in Ids
         /\ \/ /\ t.event.type = "IscIssueDOp" /\ v.event.id = t.event.id
               /\ Affinity(prog[v.event.id]) = "Ctl" /\ v.at = now
            \/ /\ t.event.type = "PeLaunchProcessing"
               /\ t.event.lane \in Lanes /\ Holds(queue[t.event.lane], v.event.id)
            \/ /\ t.event.type = "PePbsLandLoadMemory" /\ v.event.id = t.event.id
               /\ Holds(memory, v.event.id)
<1>0. t \in triggers /\ TriggersOK /\ now \in Nat
  BY DEF Ready, HpuInv, HpuTypeOK, TriggersOK
<1>1. "IscUnlockRead" \in Emits(t.event.type)
  BY DEF Pops
<1>2. t.event.type \in {"IscIssueDOp", "PeLaunchProcessing", "PePbsLandLoadMemory"}
  BY <1>1 DEF Emits
<1>3. CASE t.event.type = "IscIssueDOp"
  <2> DEFINE d == t.event.id
  <2>1. OnIssueDOp(t) /\ d \in Ids
    BY <1>0, <1>3, Handlers, EventShape DEF DopTypes
  <2>2. CASE Affinity(prog[d]) = "Ctl" /\ CtlIssue(t, d)
    <3>1. v.at = now /\ v.event.id = d
      BY <1>0, <2>2 DEF CtlIssue, Handle, Now, After, DopEvent
    <3> QED
      BY <1>3, <2>1, <2>2, <3>1
  <2>3. CASE LaneIssue(t, Affinity(prog[d]), d)
    BY <2>3 DEF LaneIssue, Handle, Now, After, DopEvent, LaneEvent
  <2>4. CASE PbsIssue(t, d)
    BY <2>4 DEF PbsIssue, NextLoad, Handle, Now, After, DopEvent, LaneEvent, Event
  <2> QED
    BY <2>1, <2>2, <2>3, <2>4 DEF OnIssueDOp
<1>4. CASE t.event.type = "PeLaunchProcessing"
  <2> DEFINE lane == t.event.lane
             d == Head(queue[lane])
  <2>1. LaneLaunch(t, lane) /\ lane \in Lanes
    BY <1>0, <1>4, Handlers, EventShape
  <2>2. v.event.id = d
    BY <2>1 DEF LaneLaunch, Handle, Now, After, DopEvent, LaneEvent
  <2>3. queue[lane] # <<>> /\ queue[lane] \in Seq(Ids)
    BY <2>1 DEF LaneLaunch, LaneLaunchAsserts, HpuInv, HpuTypeOK
  <2>4. Holds(queue[lane], d) /\ d \in Ids
    BY <2>3, HeadTail DEF Holds
  <2> QED
    BY <1>4, <2>1, <2>2, <2>4
<1>5. CASE t.event.type = "PePbsLandLoadMemory"
  <2> DEFINE d == t.event.id
  <2>1. LandLoad(t, d)
    BY <1>5, Handlers
  <2>2. v.event.id = d
    <3> HIDE DEF d
    <3> QED
      BY <2>1 DEF LandLoad, NextLoad, LaunchBatch, Handle, Now, After, DopEvent, Event, BatchEvent
  <2>3. Holds(memory, d) /\ d \in Ids
    BY <1>0, <1>5, LastLoads
  <2> QED
    BY <1>5, <2>2, <2>3
<1> QED
  BY <1>2, <1>3, <1>4, <1>5

(* A control instruction reads its operands in the cycle of its issue.     *)
LEMMA PopCtlAtOnce ==
  ASSUME HpuInv, NEW t \in Ready, HandleEvent(t), Pops(t)
  PROVE  CtlAtOnce'
<1>0. t \in triggers /\ now' = now /\ prog' = prog
  BY DEF Ready, Pops
<1> SUFFICES ASSUME NEW v \in triggers', v.event.type = "IscUnlockRead", Affinity(prog[v.event.id]) = "Ctl"
             PROVE  v.at = now /\ QueryLater'
  BY <1>0 DEF CtlAtOnce
<1>1. CASE v \in triggers
  BY <1>1, LaterKept DEF HpuInv, ReadInv, CtlAtOnce
<1>2. CASE v \notin triggers
  <2>1. v.event.id \in Ids /\ PlaceAt(v.event.id)
    BY <1>2, NewRead, PlaceBefore
  <2>2. t.event.type = "IscIssueDOp" /\ v.at = now
    BY <1>2, <2>1, NewRead DEF PlaceAt, Lanes
  <2>3. QueryLater
    BY <1>0, <2>2 DEF HpuInv, IssueInv, IssueTypes
  <2> QED
    BY <2>2, <2>3, LaterKept
<1> QED
  BY <1>1, <1>2

(* A result is written before its operands are read only in a control      *)
(* instruction.                                                            *)
LEMMA PopWrittenRead ==
  ASSUME HpuInv, NEW t \in Ready, HandleEvent(t), Pops(t)
  PROVE  WrittenRead'
<1>0. t \in triggers /\ TriggersOK /\ t.at = now /\ prog' = prog
  BY DEF Ready, HpuInv, HpuTypeOK, Pops
<1> SUFFICES ASSUME NEW d \in writeDone', d \notin readDone'
             PROVE  Affinity(prog[d]) = "Ctl" /\ ReadsNow(d)'
  BY <1>0 DEF WrittenRead
<1>1. CASE d \in writeDone
  BY <1>1, ReadKept DEF HpuInv, ReadInv, WrittenRead
<1>2. CASE d \notin writeDone
  <2>1. t.event.type = "IscUnlockWrite"
    BY <1>2, Untouched
  <2>2. d = t.event.id
    BY <1>2, <2>1, Handlers DEF UnlockWrite
  <2>3. d \notin readDone
    BY ReadKept
  <2>4. ~ \E u \in triggers : u.at < t.at
    BY <1>0, EventShape
  <2>5. Affinity(prog[d]) = "Ctl" /\ ReadsNow(d)
    BY <1>0, <2>1, <2>2, <2>3, <2>4 DEF HpuInv, ReadInv, ReadFirst
  <2> QED
    BY <2>5, ReadKept
<1> QED
  BY <1>1, <1>2

(* A DOp that the PBS element has yet to load is not read.                 *)
LEMMA UnreadKept ==
  ASSUME HpuInv, NEW t \in Ready, HandleEvent(t), Pops(t), NEW d \in Ids,
         Holds(memory, d) \/ Holds(pbsQueue, d), d \notin readDone, Unread(d),
         t.event.type = "PePbsLandLoadMemory" => t.event.id # d
  PROVE  d \notin readDone' /\ Unread(d)'
<1>0. t \in triggers /\ TriggersOK
  BY DEF Ready, HpuInv, HpuTypeOK
<1>1. /\ Affinity(prog[d]) = "Pbs" /\ Unanswered(d)
      /\ \A lane \in Lanes : ~ Holds(queue[lane], d)
  BY PlaceBefore DEF PlaceAt, Lanes
<1>2. d \notin readDone'
  <2>1. CASE t.event.type = "IscUnlockRead"
    <3>1. t.event.id # d
      BY <1>0, <2>1, ToldOf DEF Unread, DopTypes
    <3> QED
      BY <2>1, <3>1, Handlers DEF UnlockRead
  <2> QED
    BY <2>1, Untouched
<1>3. ASSUME NEW v \in triggers', v.event.type = "IscUnlockRead", v.event.id = d PROVE FALSE
  <2>1. CASE v \in triggers
    BY <1>3, <2>1, Told DEF Unread
  <2>2. CASE v \notin triggers
    BY <1>1, <1>3, <2>2, NewRead
  <2> QED
    BY <2>1, <2>2
<1>4. Unread(d)' <=> \A v \in triggers' : ~ (v.event.type = "IscUnlockRead" /\ v.event.id = d)
  BY DEF Unread, DopsOf, Pending
<1> QED
  BY <1>2, <1>3, <1>4

(* The end of a batch that is due now was known before.                    *)
LEMMA OldLanding ==
  ASSUME HpuInv, NEW t \in Ready, HandleEvent(t), Pops(t),
         NEW v \in Ready', v.event.type = "PePbsLandProcessing"
  PROVE  v \in Ready /\ v # t /\ t.event.type # "PePbsLaunchProcessing"
<1>0. v \in triggers' /\ v.at = now' /\ now' = now /\ now \in Nat
  BY DEF Ready, Pops, HpuInv, HpuTypeOK, TriggersOK
<1>1. v \in triggers /\ v # t
  <2>1. CASE v \in triggers /\ v # t
    BY <2>1
  <2>2. CASE ~ (v \in triggers /\ v # t)
    <3>1. "PePbsLandProcessing" \in Emits(t.event.type)
      BY <1>0, <2>2 DEF Pops
    <3>2. t.event.type = "PePbsLaunchProcessing"
      BY <3>1 DEF Emits
    <3> DEFINE n == t.event.size
               L == After(ProcessingLatency(n), BatchEvent("PePbsLandProcessing", n))
    <3>3. LaunchProcessing(t, n)
      BY <3>2, Handlers
    <3>4. n \in Nat /\ n > 0
      BY <3>2, <3>3, EventShape DEF Ready, HpuInv, HpuTypeOK, SizeTypes, LaunchProcessing,
                                    LaunchProcessingAsserts
    <3>5. v = L
      BY <1>0, <2>2, <3>3 DEF LaunchProcessing, Handle
    <3>6. ProcessingLatency(n) > 0
      BY <3>4, PbsAssumption DEF ProcessingLatency
    <3>7. v.at = now + ProcessingLatency(n)
      BY <3>5 DEF After
    <3>8. ProcessingLatency(n) \in Nat
      BY <3>4, PbsAssumption DEF ProcessingLatency
    <3> QED
      BY <1>0, <3>6, <3>7, <3>8
  <2> QED
    BY <2>1, <2>2
<1>2. t.event.type # "PePbsLaunchProcessing"
  <2> SUFFICES ASSUME t.event.type = "PePbsLaunchProcessing" PROVE FALSE
    OBVIOUS
  <2>1. NWorking = 0
    BY Handlers DEF LaunchProcessing, LaunchProcessingAsserts
  <2> QED
    BY <1>1, <2>1 DEF HpuInv, PbsInv, PbsBounds, PbsExpects
<1> QED
  BY <1>0, <1>1, <1>2 DEF Ready

(* What MemoryRead says of one position.                                   *)
ReadAt(k) ==
  /\ k <= bound.parking => memory[k] \in readDone
  /\ k <= bound.waiting => memory[k] \in readDone \/ ReadsNow(memory[k])
  /\ k > bound.waiting => memory[k] \notin readDone /\ Unread(memory[k])

(* Every handler keeps the read DOps of the PBS memory in front of the     *)
(* loading one.                                                            *)
LEMMA PopMemoryRead ==
  ASSUME HpuInv, NEW t \in Ready, HandleEvent(t), Pops(t)
  PROVE  MemoryRead'
<1>0. /\ memory \in Seq(Ids) /\ Len(memory) \in Nat /\ bound \in [Areas -> Nat]
      /\ bound.unloading <= bound.parking
      /\ bound.parking <= bound.working /\ bound.working <= bound.waiting /\ bound.waiting <= Len(memory)
      /\ t \in triggers /\ pbsQueue \in Seq(Ids)
      /\ DOMAIN memory = 1 .. Len(memory)
  BY DEF HpuInv, HpuTypeOK, PbsInv, PbsBounds, PbsExpects, Ready
<1>a. bound.unloading \in Nat /\ bound.parking \in Nat /\ bound.working \in Nat /\ bound.waiting \in Nat
  BY <1>0 DEF Areas
<1>b. /\ \A k \in 1 .. Len(memory) : ReadAt(k) /\ memory[k] \in Ids /\ Holds(memory, memory[k])
      /\ \A u \in Ready : u.event.type = "PePbsLandProcessing" =>
            \A k \in 1 .. bound.working : memory[k] \in readDone
  BY <1>0 DEF HpuInv, ReadInv, MemoryRead, ReadAt, Holds
<1>c. /\ readDone \subseteq readDone'
      /\ \A d : ReadsNow(d) => d \in readDone' \/ ReadsNow(d)'
  BY ReadKept
<1> SUFFICES /\ \A k \in 1 .. Len(memory') : ReadAt(k)'
             /\ \A v \in Ready' : v.event.type = "PePbsLandProcessing" =>
                  \A k \in 1 .. bound'.working : memory'[k] \in readDone'
  BY DEF MemoryRead, ReadAt
<1>d. ASSUME UNCHANGED <<memory, bound>>
      PROVE  \A v \in Ready' : v.event.type = "PePbsLandProcessing" =>
                  \A k \in 1 .. bound'.working : memory'[k] \in readDone'
  BY <1>b, <1>c, <1>d, OldLanding
<1>1. CASE t.event.type = "PePbsLaunchLoadMemory"
  <2>0. /\ pbsQueue # <<>> /\ memory' = Append(memory, Head(pbsQueue))
        /\ Len(memory) - bound.waiting = 0
    <3>1. LaunchLoad(t)
      BY <1>1, Handlers
    <3> QED
      BY <3>1 DEF LaunchLoad, LaunchLoadAsserts, MayLoad, NLoading
  <2>a. PICK d : d = Head(pbsQueue)
    OBVIOUS
  <2>1. memory' = Append(memory, d) /\ Len(memory) = bound.waiting
    BY <1>0, <1>a, <2>0, <2>a
  <2>2. UNCHANGED <<bound, readDone>>
    BY <1>1, Untouched, UntouchedPes
  <2>3. d \in Ids /\ Holds(pbsQueue, d)
    BY <1>0, <2>0, <2>a, HeadTail DEF Holds
  <2>4. d \notin readDone /\ Unread(d)
    BY <2>3, PlaceBefore DEF PlaceAt, Fresh
  <2>5. d \notin readDone' /\ Unread(d)'
    BY <1>1, <2>3, <2>4, UnreadKept
  <2>6. /\ Len(memory') = Len(memory) + 1 /\ memory'[Len(memory) + 1] = d
        /\ \A k \in 1 .. Len(memory) : memory'[k] = memory[k]
    BY <1>0, <2>1, <2>3, AppendSeq
  <2>7. ASSUME NEW k \in 1 .. Len(memory') PROVE ReadAt(k)'
    <3>1. CASE k \in 1 .. Len(memory)
      BY <1>0, <1>a, <1>b, <1>c, <2>1, <2>2, <2>6, <3>1 DEF ReadAt
    <3>2. CASE k = Len(memory) + 1
      BY <1>0, <1>a, <2>1, <2>2, <2>5, <2>6, <3>2 DEF ReadAt
    <3> QED
      BY <1>0, <2>6, <3>1, <3>2
  <2>8. ASSUME NEW v \in Ready', v.event.type = "PePbsLandProcessing", NEW k \in 1 .. bound'.working
        PROVE  memory'[k] \in readDone'
    <3>1. v \in Ready /\ k \in 1 .. bound.working /\ k \in 1 .. Len(memory)
      BY <1>0, <1>a, <2>2, <2>8, OldLanding
    <3> QED
      BY <1>b, <2>2, <2>6, <2>8, <3>1
  <2> QED
    BY <2>7, <2>8
<1>2. CASE t.event.type = "PePbsLandLoadMemory"
  <2> DEFINE d == t.event.id
  <2>1. UNCHANGED <<memory, readDone>> /\ bound' = [bound EXCEPT !.waiting = @ + 1]
    BY <1>2, Handlers, Untouched, UntouchedPes DEF LandLoad
  <2>2. Len(memory) = bound.waiting + 1 /\ d = memory[Len(memory)]
    BY <1>0, <1>2, LastLoads
  <2>3. ReadsNow(d)'
    <3>1. LandLoad(t, d)
      BY <1>2, Handlers
    <3>2. PICK new : Handle(t, new) /\ Now(DopEvent("IscUnlockRead", d)) \in new
      BY <3>1 DEF LandLoad
    <3> QED
      BY <3>2 DEF Handle, ReadsNow, Now, After
  <2>4. bound'.waiting = bound.waiting + 1 /\ bound'.parking = bound.parking /\ bound'.working = bound.working
    BY <1>0, <2>1 DEF Areas
  <2> HIDE DEF d
  <2>5. ASSUME NEW k \in 1 .. Len(memory') PROVE ReadAt(k)'
    <3>1. CASE k \in 1 .. bound.waiting
      BY <1>0, <1>a, <1>b, <1>c, <2>1, <2>4, <3>1 DEF ReadAt
    <3>2. CASE k = bound.waiting + 1
      BY <1>0, <1>a, <2>1, <2>2, <2>3, <2>4, <3>2 DEF ReadAt
    <3> QED
      BY <1>0, <1>a, <2>1, <2>2, <3>1, <3>2
  <2> QED
    BY <1>b, <2>1, <2>4, <2>5, OldLanding
<1>3. CASE t.event.type = "PePbsLandProcessing"
  <2>1. UNCHANGED <<memory, readDone>> /\ bound' = [bound EXCEPT !.parking = bound.working]
    BY <1>3, Handlers, Untouched, UntouchedPes DEF LandProcessing
  <2>2. bound'.waiting = bound.waiting /\ bound'.parking = bound.working /\ bound'.working = bound.working
    BY <1>0, <2>1 DEF Areas
  <2>3. \A k \in 1 .. bound.working : memory[k] \in readDone
    BY <1>3, <1>b
  <2>4. ASSUME NEW k \in 1 .. Len(memory') PROVE ReadAt(k)'
    <3>1. ReadAt(k) /\ k \in 1 .. Len(memory) /\ memory[k] \in Ids /\ Holds(memory, memory[k])
      BY <1>b, <2>1
    <3>a. PICK m : m = memory[k]
      OBVIOUS
    <3>2. k <= bound.waiting => m \in readDone' \/ ReadsNow(m)'
      BY <1>c, <3>1, <3>a DEF ReadAt
    <3>3. k > bound.waiting => m \notin readDone' /\ Unread(m)'
      BY <1>3, <3>1, <3>a, UnreadKept DEF ReadAt
    <3>4. k <= bound.working => m \in readDone'
      BY <1>a, <1>c, <2>3, <3>1, <3>a
    <3>5. m = memory'[k]
      BY <2>1, <3>a
    <3> QED
      BY <2>2, <3>2, <3>3, <3>4, <3>5 DEF ReadAt
  <2> QED
    BY <2>1, <2>2, <2>3, <2>4
<1>4. CASE t.event.type = "PePbsLandUnloadMemory"
  <2>1. /\ UNCHANGED readDone /\ memory' = Tail(memory) /\ bound.unloading > 0
        /\ bound' = [area \in DOMAIN bound |-> bound[area] - 1]
    BY <1>4, Handlers, Untouched DEF LandUnload, LandUnloadAsserts, NUnloading
  <2>2. /\ bound'.waiting = bound.waiting - 1 /\ bound'.parking = bound.parking - 1
        /\ bound'.working = bound.working - 1
    BY <1>0, <2>1 DEF Areas
  <2>3. memory # <<>>
    BY <1>0, <1>a, <2>1
  <2>4. Len(memory') = Len(memory) - 1 /\ \A k \in 1 .. Len(memory') : memory'[k] = memory[k + 1]
    BY <1>0, <2>1, <2>3, HeadTail
  <2>5. ASSUME NEW k \in 1 .. Len(memory') PROVE ReadAt(k)'
    <3> DEFINE l == k + 1
    <3>1. l \in 1 .. Len(memory) /\ memory'[k] = memory[l]
      BY <1>0, <2>4
    <3>2. ReadAt(l) /\ memory[l] \in Ids /\ Holds(memory, memory[l])
      BY <1>b, <3>1
    <3>3. /\ k <= bound'.parking <=> l <= bound.parking
          /\ k <= bound'.waiting <=> l <= bound.waiting
          /\ k > bound'.waiting <=> l > bound.waiting
      BY <1>0, <1>a, <2>2
    <3> HIDE DEF l
    <3>a. PICK m : m = memory[l]
      OBVIOUS
    <3>4. l > bound.waiting => m \notin readDone' /\ Unread(m)'
      BY <1>4, <3>2, <3>a, UnreadKept DEF ReadAt
    <3>5. l <= bound.waiting => m \in readDone' \/ ReadsNow(m)'
      BY <1>c, <3>2, <3>a DEF ReadAt
    <3>6. l <= bound.parking => m \in readDone'
      BY <1>c, <3>2, <3>a DEF ReadAt
    <3>7. m = memory'[k]
      BY <3>1, <3>a
    <3> QED
      BY <3>3, <3>4, <3>5, <3>6, <3>7 DEF ReadAt
  <2>6. ASSUME NEW v \in Ready', v.event.type = "PePbsLandProcessing", NEW k \in 1 .. bound'.working
        PROVE  memory'[k] \in readDone'
    <3>1. v \in Ready /\ k + 1 \in 1 .. bound.working /\ k \in 1 .. Len(memory')
      BY <1>0, <1>a, <2>2, <2>4, <2>6, OldLanding
    <3>2. memory'[k] = memory[k + 1]
      BY <2>4, <3>1
    <3> QED
      BY <1>b, <2>1, <2>6, <3>1, <3>2
  <2> QED
    BY <2>5, <2>6
<1>5. CASE t.event.type \notin {"PePbsLaunchLoadMemory", "PePbsLandLoadMemory", "PePbsLandProcessing",
                               "PePbsLandUnloadMemory"}
  <2>1. memory' = memory
    BY <1>5, UntouchedPes
  <2>2. bound'.waiting = bound.waiting /\ bound'.parking = bound.parking
        /\ (t.event.type # "PePbsLaunchProcessing" => bound'.working = bound.working)
    <3>1. CASE t.event.type = "PePbsLaunchProcessing"
      <4>1. bound' = [bound EXCEPT !.working = @ + t.event.size]
        BY <3>1, Handlers DEF LaunchProcessing
      <4> QED
        BY <1>0, <3>1, <4>1 DEF Areas
    <3>2. CASE t.event.type = "PePbsLaunchUnloadMemory"
      <4>1. bound' = [bound EXCEPT !.unloading = @ + 1]
        BY <3>2, Handlers DEF LaunchUnload
      <4> QED
        BY <1>0, <3>2, <4>1 DEF Areas
    <3> QED
      BY <1>5, <3>1, <3>2, UntouchedPes
  <2>3. ASSUME NEW k \in 1 .. Len(memory') PROVE ReadAt(k)'
    <3>1. ReadAt(k) /\ k \in 1 .. Len(memory) /\ memory[k] \in Ids /\ Holds(memory, memory[k])
      BY <1>b, <2>1
    <3>a. PICK m : m = memory[k]
      OBVIOUS
    <3>2. k > bound.waiting => m \notin readDone' /\ Unread(m)'
      BY <1>5, <3>1, <3>a, UnreadKept DEF ReadAt
    <3>3. k <= bound.waiting => m \in readDone' \/ ReadsNow(m)'
      BY <1>c, <3>1, <3>a DEF ReadAt
    <3>4. k <= bound.parking => m \in readDone'
      BY <1>c, <3>1, <3>a DEF ReadAt
    <3>5. m = memory'[k]
      BY <2>1, <3>a
    <3> QED
      BY <2>2, <3>2, <3>3, <3>4, <3>5 DEF ReadAt
  <2>4. ASSUME NEW v \in Ready', v.event.type = "PePbsLandProcessing", NEW k \in 1 .. bound'.working
        PROVE  memory'[k] \in readDone'
    <3>1. v \in Ready /\ t.event.type # "PePbsLaunchProcessing"
      BY <2>4, OldLanding
    <3> QED
      BY <1>b, <1>c, <2>1, <2>2, <2>4, <3>1
  <2> QED
    BY <2>3, <2>4
<1> QED
  BY <1>1, <1>2, <1>3, <1>4, <1>5

(* Every handler reads before it writes.                                   *)
LEMMA PopRead ==
  ASSUME HpuInv, NEW t \in Ready, HandleEvent(t), Pops(t)
  PROVE  ReadInv'
BY PopReadFirst, PopCtlAtOnce, PopMemoryRead, PopWrittenRead DEF ReadInv

(* The end of a cycle reads and writes nothing.                            *)
LEMMA EndRead ==
  ASSUME HpuInv, EndCycle
  PROVE  ReadInv'
<1>1. /\ UNCHANGED <<prog, memory, bound, readDone, writeDone, triggers>>
      /\ Ready = {} /\ \A u \in triggers : u.at > now
  BY CycleEnds DEF HpuInv, HpuTypeOK, iscVars, historyVars, pbsVars
<1>2. \A d : ~ ReadsNow(d)
  <2> SUFFICES ASSUME NEW d, ReadsNow(d) PROVE FALSE
    OBVIOUS
  <2>1. Now(DopEvent("IscUnlockRead", d)).at = now
    BY DEF Now, After, HpuInv, HpuTypeOK, TriggersOK
  <2> QED
    BY <1>1, <2>1 DEF ReadsNow, Ready
<1>3. ReadFirst'
  BY <1>1, <1>2 DEF HpuInv, ReadInv, ReadFirst
<1>4. CtlAtOnce'
  BY <1>1 DEF HpuInv, ReadInv, CtlAtOnce, Ready
<1>5. \A d : Unread(d)' <=> Unread(d)
  BY <1>1 DEF Unread, DopsOf, Pending
<1>6. MemoryRead'
  <2>1. \A k \in 1 .. Len(memory) : ReadAt(k)
    BY DEF HpuInv, ReadInv, MemoryRead, ReadAt
  <2>2. Len(memory) \in Nat /\ bound.working \in Nat /\ bound.waiting \in Nat
        /\ bound.working <= bound.waiting /\ bound.waiting <= Len(memory)
    BY DEF HpuInv, HpuTypeOK, PbsInv, PbsBounds, PbsExpects, Areas
  <2>3. \A k \in 1 .. bound.working : memory[k] \in readDone
    BY <1>2, <2>1, <2>2 DEF ReadAt
  <2> QED
    BY <1>1, <1>2, <1>5, <2>1, <2>3 DEF MemoryRead, ReadAt
<1>7. WrittenRead'
  BY <1>1, <1>2 DEF HpuInv, ReadInv, WrittenRead
<1> QED
  BY <1>3, <1>4, <1>6, <1>7 DEF ReadInv

-----------------------------------------------------------------------------
(* The buffers of the scheduler.                                           *)

(* A DOp that has not read or not written is still in the pool.            *)
LEMMA UnfinishedSlot ==
  ASSUME HpuInv, NEW d \in issued, d \notin readDone \cap writeDone
  PROVE  d \in InPool
BY DEF HpuInv, HpuTypeOK, IscTypeOK, IscInv, HistoryInv, Retired

(* The states of a slot.                                                   *)
LEMMA SlotStates ==
  ASSUME IscTypeOK, NEW d \in InPool
  PROVE  pool[d].state \in States
BY DEF IscTypeOK, Slot

(* What BufferInv says of one DOp.                                         *)
BufferAt(d) ==
  /\ Holds(readUnlocks, d) <=> d \in InPool \cap readDone /\ NotLoaded(d)
  /\ Holds(writeUnlocks, d) => d \in InPool \cap writeDone
  /\ d \in InPool => pool[d].state # "Finished"

(* BufferInv, one DOp at a time.                                           *)
LEMMA BufferSeqs ==
  ASSUME HpuInv
  PROVE  /\ readUnlocks \in Seq(Nat) /\ writeUnlocks \in Seq(Nat)
         /\ readDone \subseteq Ids /\ writeDone \subseteq Ids
         /\ \A d : Holds(readUnlocks, d) => d \in readDone
         /\ \A d : Holds(writeUnlocks, d) => d \in writeDone
         /\ IsInjective(readUnlocks) /\ IsInjective(writeUnlocks)
         /\ \A d \in Ids : BufferAt(d)
<1>1. /\ readUnlocks \in Seq(Nat) /\ writeUnlocks \in Seq(Nat)
      /\ readDone \subseteq Ids /\ writeDone \subseteq Ids
  BY PoolInIds DEF HpuInv, HpuTypeOK, IscTypeOK
<1>2. DOMAIN readUnlocks = 1 .. Len(readUnlocks) /\ DOMAIN writeUnlocks = 1 .. Len(writeUnlocks)
  BY <1>1
<1>3. /\ \A d : Holds(readUnlocks, d) => d \in readDone
      /\ \A d : Holds(writeUnlocks, d) => d \in writeDone
  BY <1>2 DEF Holds, HpuInv, IscInv, HistoryInv
<1> QED
  BY <1>1, <1>3 DEF HpuInv, BufferInv, BufferAt

(* A query takes from the buffers what it marks or retires.                *)
LEMMA BufferQuery ==
  ASSUME HpuInv, NEW t \in Ready, OnQuery(t), UNCHANGED <<readDone, writeDone>>, Ids' = Ids
  PROVE  BufferInv'
<1>0. IscTypeOK
  BY DEF HpuInv, HpuTypeOK
<1>1. CASE QueryReadUnlock
  <2>1. PICK d \in InPool :
              /\ d = readUnlocks[1] /\ readUnlocks # <<>>
              /\ InPool' = InPool
              /\ \A i \in InPool : pool'[i].state = IF i = d THEN "Loaded" ELSE pool[i].state
    BY <1>0, <1>1, QueryReadUnlockSlots
  <2>2. readUnlocks' = Tail(readUnlocks) /\ writeUnlocks' = writeUnlocks /\ d = Head(readUnlocks)
    BY <1>1, <2>1, BufferSeqs, HeadTail DEF QueryReadUnlock
  <2>3. /\ \A e : Holds(readUnlocks', e) <=> Holds(readUnlocks, e) /\ e # d
        /\ IsInjective(readUnlocks')
    BY <2>1, <2>2, BufferSeqs, HoldsTail
  <2>4. ASSUME NEW e \in Ids PROVE BufferAt(e)'
    <3>1. BufferAt(e)
      BY BufferSeqs
    <3> QED
      BY <2>1, <2>2, <2>3, <3>1 DEF BufferAt, NotLoaded
  <2>5. IsInjective(writeUnlocks')
    BY <2>2, BufferSeqs
  <2> QED
    BY <2>3, <2>4, <2>5 DEF BufferInv, BufferAt
<1>2. CASE QueryRefill
  <2>1. PICK d : d = refilled + 1
    OBVIOUS
  <2>2. /\ InPool' = InPool \cup {d} /\ d \notin InPool /\ d \notin issued
        /\ \A i \in InPool : pool'[i] = pool[i]
        /\ pool'[d].state = "Pending"
    BY <1>0, <1>2, <2>1, QueryRefillSlots
  <2>3. UNCHANGED <<readUnlocks, writeUnlocks>>
    BY <1>2 DEF QueryRefill
  <2>4. d \notin readDone
    BY <1>0, <2>2 DEF IscTypeOK
  <2>5. ASSUME NEW e \in Ids PROVE BufferAt(e)'
    <3>1. BufferAt(e)
      BY BufferSeqs
    <3> QED
      BY <2>2, <2>3, <2>4, <3>1 DEF BufferAt, NotLoaded
  <2> QED
    BY <2>3, <2>5, BufferSeqs DEF BufferInv, BufferAt
<1>3. CASE QueryRetire
  <2>1. PICK d \in InPool :
              /\ d = writeUnlocks[1] /\ writeUnlocks # <<>>
              /\ pool[d].state = "Loaded" /\ InPool' = InPool \ {d}
              /\ \A i \in InPool \ {d} : pool'[i].state = pool[i].state
    BY <1>0, <1>3, QueryRetireSlots
  <2>2. writeUnlocks' = Tail(writeUnlocks) /\ readUnlocks' = readUnlocks /\ d = Head(writeUnlocks)
    BY <1>3, <2>1, BufferSeqs, HeadTail DEF QueryRetire
  <2>3. /\ \A e : Holds(writeUnlocks', e) <=> Holds(writeUnlocks, e) /\ e # d
        /\ IsInjective(writeUnlocks')
    BY <2>1, <2>2, BufferSeqs, HoldsTail
  <2>4. ASSUME NEW e \in Ids PROVE BufferAt(e)'
    <3>1. BufferAt(e)
      BY BufferSeqs
    <3> QED
      BY <2>1, <2>2, <2>3, <3>1 DEF BufferAt, NotLoaded
  <2>5. IsInjective(readUnlocks')
    BY <2>2, BufferSeqs
  <2> QED
    BY <2>3, <2>4, <2>5 DEF BufferInv, BufferAt
<1>4. CASE UNCHANGED <<pool, readUnlocks, writeUnlocks>>
  BY <1>4 DEF HpuInv, BufferInv, NotLoaded, InPool
<1> QED
  BY <1>1, <1>2, <1>3, <1>4 DEF OnQuery, QueryIssue, QueryIdle, iscVars, schedulerVars

(* Every handler keeps the buffers of the scheduler.                       *)
LEMMA PopBuffer ==
  ASSUME HpuInv, NEW t \in Ready, HandleEvent(t), Pops(t)
  PROVE  BufferInv'
<1> DEFINE d == t.event.id
<1>0. t \in triggers /\ TriggersOK /\ Ids' = Ids /\ IscTypeOK
  BY DEF Ready, HpuInv, HpuTypeOK, Pops, Ids
<1>1. CASE t.event.type = "IscUnlockRead"
  <2>1. /\ readUnlocks' = Append(readUnlocks, d) /\ readDone' = readDone \cup {d}
        /\ UNCHANGED <<pool, writeUnlocks, writeDone>>
    BY <1>1, Handlers DEF UnlockRead
  <2>2. d \in Ids /\ d \in issued \ readDone
    BY <1>0, <1>1, ToldOf, PlaceBefore DEF PlaceAt, DopTypes
  <2> HIDE DEF d
  <2>3. d \in InPool /\ ~ Holds(readUnlocks, d)
    BY <2>2, UnfinishedSlot, BufferSeqs
  <2>4. NotLoaded(d)
    BY <1>0, <2>2, <2>3, SlotStates DEF HpuInv, IscInv, HistoryInv, NotLoaded, States
  <2>5. /\ \A e : Holds(readUnlocks', e) <=> Holds(readUnlocks, e) \/ e = d
        /\ IsInjective(readUnlocks')
    <3>1. d \in Nat
      BY <1>0, <2>3 DEF IscTypeOK
    <3> QED
      BY <2>1, <2>3, <3>1, BufferSeqs, HoldsAppend
  <2>6. ASSUME NEW e \in Ids PROVE BufferAt(e)'
    <3>1. BufferAt(e)
      BY BufferSeqs
    <3> QED
      BY <2>1, <2>3, <2>4, <2>5, <3>1 DEF BufferAt, NotLoaded, InPool
  <2>7. IsInjective(writeUnlocks')
    BY <2>1, BufferSeqs
  <2> QED
    BY <1>0, <2>5, <2>6, <2>7 DEF BufferInv, BufferAt
<1>2. CASE t.event.type = "IscUnlockWrite"
  <2>1. /\ writeUnlocks' = Append(writeUnlocks, d) /\ writeDone' = writeDone \cup {d}
        /\ UNCHANGED <<pool, readUnlocks, readDone>>
    BY <1>2, Handlers DEF UnlockWrite
  <2>2. d \in Ids /\ d \in issued \ writeDone
    BY <1>0, <1>2, ToldOf, PlaceBefore DEF PlaceAt, DopTypes
  <2> HIDE DEF d
  <2>3. d \in InPool /\ ~ Holds(writeUnlocks, d)
    BY <2>2, UnfinishedSlot, BufferSeqs
  <2>5. /\ \A e : Holds(writeUnlocks', e) <=> Holds(writeUnlocks, e) \/ e = d
        /\ IsInjective(writeUnlocks')
    <3>1. d \in Nat
      BY <1>0, <2>3 DEF IscTypeOK
    <3> QED
      BY <2>1, <2>3, <3>1, BufferSeqs, HoldsAppend
  <2>6. ASSUME NEW e \in Ids PROVE BufferAt(e)'
    <3>1. BufferAt(e)
      BY BufferSeqs
    <3> QED
      BY <2>1, <2>3, <2>5, <3>1 DEF BufferAt, NotLoaded, InPool
  <2>7. IsInjective(readUnlocks')
    BY <2>1, BufferSeqs
  <2> QED
    BY <1>0, <2>5, <2>6, <2>7 DEF BufferInv, BufferAt
<1>3. CASE t.event.type = "IscQuery"
  BY <1>0, <1>3, Handlers, Untouched, BufferQuery
<1>4. CASE t.event.type = "IscUnlockIssue"
  <2>1. UnlockIssue(d) /\ UNCHANGED <<readUnlocks, writeUnlocks, readDone, writeDone>>
    BY <1>4, Handlers, Untouched
  <2>2. d \in issued
    BY <1>0, <1>4 DEF HpuInv, IssueInv, IssueTypes
  <2>3. /\ InPool' = InPool /\ pool[d].state = "Pending"
        /\ \A i \in InPool : pool'[i].state = IF i = d THEN "Issued" ELSE pool[i].state
    BY <1>0, <2>1, <2>2, UnlockIssueSlots
  <2> HIDE DEF d
  <2>4. ASSUME NEW e \in Ids PROVE BufferAt(e)'
    <3>1. BufferAt(e)
      BY BufferSeqs
    <3> QED
      BY <2>1, <2>3, <3>1 DEF BufferAt, NotLoaded
  <2> QED
    BY <1>0, <2>1, <2>4, BufferSeqs DEF BufferInv, BufferAt
<1>5. CASE t.event.type \notin {"IscUnlockRead", "IscUnlockWrite", "IscQuery", "IscUnlockIssue"}
  <2>1. UNCHANGED <<pool, readUnlocks, writeUnlocks, readDone, writeDone>>
    BY <1>5, Untouched
  <2> QED
    BY <1>0, <2>1 DEF HpuInv, BufferInv, NotLoaded, InPool
<1> QED
  BY <1>1, <1>2, <1>3, <1>4, <1>5

(* The end of a cycle leaves the buffers alone.                            *)
LEMMA EndBuffer ==
  ASSUME HpuInv, EndCycle
  PROVE  BufferInv'
<1>1. UNCHANGED <<pool, readUnlocks, writeUnlocks, readDone, writeDone>> /\ Ids' = Ids
  BY CycleEnds DEF HpuInv, HpuTypeOK, iscVars, historyVars, schedulerVars
<1> QED
  BY <1>1 DEF HpuInv, BufferInv, NotLoaded, InPool

-----------------------------------------------------------------------------
(* The lanes.                                                              *)

(* A step that does nothing to a lane.                                     *)
LEMMA LaneQuiet ==
  ASSUME HpuInv, NEW t \in Ready, HandleEvent(t), Pops(t), NEW lane \in Lanes,
         queue'[lane] = queue[lane], current'[lane] = current[lane],
         t.event # LaneEvent("PeLaunchProcessing", lane),
         t.event # LaneEvent("PeLandProcessing", lane),
         \A v \in triggers' : v.event \in {LaneEvent("PeLaunchProcessing", lane),
                                           LaneEvent("PeLandProcessing", lane)} => v \in triggers
  PROVE  LaneAt(lane)'
<1>0. LaneAt(lane) /\ now' = now /\ t.at = now /\ t \in triggers
  BY DEF HpuInv, LaneInv, Pops, Ready
<1>1. current[lane] \in issued => current[lane] \in issued'
  <2>1. CASE t.event.type = "IscQuery"
    <3>1. OnQuery(t)
      BY <2>1, Handlers
    <3> QED
      BY <3>1 DEF OnQuery, QueryReadUnlock, QueryRefill, QueryRetire, QueryIssue, QueryIdle, iscVars, historyVars
  <2> QED
    BY <2>1, Untouched
<1>2. Now(LaneEvent("PeLaunchProcessing", lane)) \in triggers =>
        Now(LaneEvent("PeLaunchProcessing", lane))' \in triggers'
  BY <1>0 DEF Pops, Now, After
<1>3. ASSUME NEW u \in triggers, u.event = LaneEvent("PeLandProcessing", lane),
             \/ u.at = now
             \/ [at |-> u.at, event |-> DopEvent("IscUnlockWrite", current[lane])] \in triggers
      PROVE  /\ u \in triggers'
             /\ \/ u.at = now
                \/ [at |-> u.at, event |-> DopEvent("IscUnlockWrite", current[lane])] \in triggers'
  BY <1>0, <1>3 DEF Pops
<1> QED
  BY <1>0, <1>1, <1>2, <1>3 DEF LaneAt

(* A DOp reaches the queue of a lane, which starts if it was idle.         *)
LEMMA LaneIssued ==
  ASSUME HpuInv, NEW t \in Ready, HandleEvent(t), Pops(t), NEW lane \in Lanes,
         t.event.type = "IscIssueDOp", LaneIssue(t, lane, t.event.id)
  PROVE  LaneAt(lane)'
<1> DEFINE d == t.event.id
<1>0. /\ LaneAt(lane) /\ now' = now /\ queue[lane] \in Seq(Ids) /\ queue \in [Lanes -> Seq(Ids)]
      /\ t \in triggers /\ TriggersOK
  BY DEF HpuInv, LaneInv, Pops, HpuTypeOK, Ready
<1>1. d \in Ids
  BY <1>0, EventShape DEF DopTypes
<1>2. PICK new : /\ Handle(t, new)
                 /\ \A u \in new : \/ u = Now(DopEvent("IscUnlockIssue", d))
                                   \/ u = Now(LaneEvent("PeLaunchProcessing", lane)) /\ current[lane] = NoDop
                                   \/ u = Now(LaneEvent("PeUnavailable", lane))
                 /\ current[lane] = NoDop => Now(LaneEvent("PeLaunchProcessing", lane)) \in new
  BY DEF LaneIssue
<1>3. queue' = [queue EXCEPT ![lane] = Append(queue[lane], d)] /\ current' = current
      /\ Len(queue[lane]) # QueueCapacity
  BY DEF LaneIssue, LaneIssueAsserts, LaneFull
<1>4. UNCHANGED issued
  BY Untouched
<1> HIDE DEF d
<1>5. /\ queue'[lane] # <<>> /\ Len(queue'[lane]) <= QueueCapacity
  <2>1. queue'[lane] = Append(queue[lane], d)
    BY <1>0, <1>3
  <2>2. Len(queue'[lane]) = Len(queue[lane]) + 1 /\ Len(queue[lane]) \in Nat /\ queue'[lane] \in Seq(Ids)
    BY <1>0, <1>1, <2>1, AppendSeq
  <2> QED
    BY <1>0, <1>3, <2>2, LaneAssumption DEF LaneAt
<1>6. ASSUME NEW v \in triggers'
      PROVE  /\ v.event = LaneEvent("PeLaunchProcessing", lane) => current[lane] = NoDop
             /\ v.event = LaneEvent("PeLandProcessing", lane) => current[lane] # NoDop
  <2>1. CASE v \in triggers
    BY <1>0, <2>1 DEF LaneAt
  <2>2. CASE v \in new
    BY <1>2, <2>2 DEF Now, After, DopEvent, LaneEvent
  <2> QED
    BY <1>2, <2>1, <2>2 DEF Handle
<1>7. current[lane] = NoDop => Now(LaneEvent("PeLaunchProcessing", lane))' \in triggers'
  BY <1>0, <1>2 DEF Handle, Now, After
<1>8. ASSUME NEW u \in triggers, u.event.type # "IscIssueDOp" PROVE u \in triggers'
  BY <1>8 DEF Pops
<1>9. /\ LaneEvent("PeLandProcessing", lane).type # "IscIssueDOp"
      /\ DopEvent("IscUnlockWrite", current[lane]).type # "IscIssueDOp"
  BY DEF LaneEvent, DopEvent
<1> QED
  BY <1>0, <1>3, <1>4, <1>5, <1>6, <1>7, <1>8, <1>9 DEF LaneAt

(* A lane starts an operation, which will land.                            *)
LEMMA LaneLaunched ==
  ASSUME HpuInv, NEW t \in Ready, HandleEvent(t), Pops(t), NEW lane \in Lanes,
         t.event = LaneEvent("PeLaunchProcessing", lane)
  PROVE  LaneAt(lane)'
<1>0. /\ LaneAt(lane) /\ now' = now /\ queue[lane] \in Seq(Ids) /\ queue \in [Lanes -> Seq(Ids)]
      /\ t \in triggers /\ TriggersOK /\ current \in [Lanes -> Ids \cup {NoDop}]
      /\ t.event.type = "PeLaunchProcessing" /\ t.event.lane = lane
  BY DEF HpuInv, LaneInv, Pops, HpuTypeOK, Ready, LaneEvent
<1>1. LaneLaunch(t, lane)
  BY <1>0, Handlers
<1>2. PICK d : d = Head(queue[lane])
  OBVIOUS
<1>3. /\ queue[lane] # <<>> /\ queue' = [queue EXCEPT ![lane] = Tail(queue[lane])]
      /\ current' = [current EXCEPT ![lane] = d]
  BY <1>1, <1>2 DEF LaneLaunch, LaneLaunchAsserts
<1> DEFINE L == After(WriteLatency[lane], LaneEvent("PeLandProcessing", lane))
           W == After(WriteLatency[lane], DopEvent("IscUnlockWrite", d))
<1>4. PICK new : /\ Handle(t, new) /\ L \in new /\ W \in new
                 /\ \A u \in new : \/ u = L \/ u = W
                                   \/ u = After(ReadLatency[lane], DopEvent("IscUnlockRead", d))
                                   \/ u = Now(LaneEvent("PeAvailable", lane))
  BY <1>1, <1>2 DEF LaneLaunch
<1>5. d \in Ids /\ Holds(queue[lane], d) /\ queue'[lane] = Tail(queue[lane])
      /\ Len(Tail(queue[lane])) = Len(queue[lane]) - 1 /\ Len(queue[lane]) \in Nat
  BY <1>0, <1>2, <1>3, HeadTail DEF Holds
<1>6. d # NoDop /\ d \in issued /\ current'[lane] = d /\ issued' = issued
  BY <1>0, <1>3, <1>5, PlaceBefore, Untouched DEF PlaceAt, Fresh, Ids, NoDop
<1>7. ASSUME NEW v \in triggers', v.event = LaneEvent("PeLaunchProcessing", lane) PROVE FALSE
  <2>1. CASE v \in triggers /\ v # t
    <3>1. v.event = t.event /\ t.event.type # "PePbsTimeout"
      BY <1>0, <1>7
    <3> QED
      BY <1>0, <2>1, <3>1 DEF HpuInv, Once
  <2>2. CASE v \in new
    BY <1>4, <1>7, <2>2 DEF Now, After, DopEvent, LaneEvent
  <2> QED
    BY <1>4, <2>1, <2>2 DEF Handle
<1>8. L \in triggers' /\ L.event = LaneEvent("PeLandProcessing", lane)
      /\ [at |-> L.at, event |-> DopEvent("IscUnlockWrite", d)] \in triggers'
  <2>1. W = [at |-> L.at, event |-> DopEvent("IscUnlockWrite", d)]
    BY DEF After
  <2>2. W \in triggers' /\ L \in triggers'
    BY <1>4 DEF Handle
  <2> QED
    BY <2>1, <2>2 DEF After
<1> HIDE DEF L, W
<1>9. Len(queue'[lane]) <= QueueCapacity
  BY <1>0, <1>5, LaneAssumption DEF LaneAt
<1> QED
  BY <1>6, <1>7, <1>8, <1>9 DEF LaneAt

(* An operation lands, and the lane starts the next one if there is one.   *)
LEMMA LaneLanded ==
  ASSUME HpuInv, NEW t \in Ready, HandleEvent(t), Pops(t), NEW lane \in Lanes,
         t.event = LaneEvent("PeLandProcessing", lane)
  PROVE  LaneAt(lane)'
<1>0. /\ LaneAt(lane) /\ now' = now
      /\ t \in triggers /\ TriggersOK /\ current \in [Lanes -> Ids \cup {NoDop}]
      /\ t.event.type = "PeLandProcessing" /\ t.event.lane = lane
  BY DEF HpuInv, LaneInv, Pops, HpuTypeOK, Ready, LaneEvent
<1>1. LaneLand(t, lane)
  BY <1>0, Handlers
<1>2. current[lane] # NoDop /\ current'[lane] = NoDop /\ queue' = queue
  BY <1>0, <1>1 DEF LaneLand, LaneLandAsserts
<1>3. PICK new : /\ Handle(t, new)
                 /\ \A u \in new : u = Now(LaneEvent("PeLaunchProcessing", lane)) /\ queue[lane] # <<>>
                 /\ queue[lane] # <<>> => Now(LaneEvent("PeLaunchProcessing", lane)) \in new
  BY <1>1 DEF LaneLand
<1>4. ASSUME NEW v \in triggers'
      PROVE  /\ v.event = LaneEvent("PeLaunchProcessing", lane) => queue[lane] # <<>>
             /\ v.event # LaneEvent("PeLandProcessing", lane)
  <2>1. CASE v \in triggers /\ v # t
    <3>1. v.event # t.event
      BY <1>0, <2>1 DEF HpuInv, Once
    <3> QED
      BY <1>0, <2>1, <3>1 DEF LaneAt
  <2>2. CASE v \in new
    BY <1>3, <2>2 DEF Now, After, LaneEvent
  <2> QED
    BY <1>3, <2>1, <2>2 DEF Handle
<1>5. queue[lane] # <<>> => Now(LaneEvent("PeLaunchProcessing", lane))' \in triggers'
  BY <1>0, <1>3 DEF Handle, Now, After
<1> QED
  BY <1>0, <1>2, <1>4, <1>5 DEF LaneAt

(* Every handler keeps the lanes.                                          *)
LEMMA PopLane ==
  ASSUME HpuInv, NEW t \in Ready, HandleEvent(t), Pops(t)
  PROVE  LaneInv'
<1>0. /\ t \in triggers /\ TriggersOK
      /\ queue \in [Lanes -> Seq(Ids)] /\ current \in [Lanes -> Ids \cup {NoDop}]
  BY DEF HpuInv, HpuTypeOK, Ready
<1> SUFFICES ASSUME NEW lane \in Lanes PROVE LaneAt(lane)'
  BY DEF LaneInv
<1> DEFINE Launch == LaneEvent("PeLaunchProcessing", lane)
           Land == LaneEvent("PeLandProcessing", lane)
<1>a. /\ Launch.type = "PeLaunchProcessing" /\ Launch.lane = lane
      /\ Land.type = "PeLandProcessing" /\ Land.lane = lane
      /\ \A other \in Lanes : other # lane =>
           /\ Now(LaneEvent("PeLaunchProcessing", other)).event # Launch
           /\ Now(LaneEvent("PeLaunchProcessing", other)).event.type = "PeLaunchProcessing"
  BY DEF LaneEvent, Now, After
<1>1. CASE t.event = Launch
  BY <1>1, LaneLaunched
<1>2. CASE t.event = Land
  BY <1>2, LaneLanded
<1>3. CASE t.event.type = "IscIssueDOp"
  <2> DEFINE d == t.event.id
             other == Affinity(prog[d])
  <2>1. OnIssueDOp(t)
    BY <1>3, Handlers
  <2>2. CASE other = lane
    BY <1>3, <2>1, <2>2, LaneIssued DEF OnIssueDOp, Lanes
  <2>3. CASE other # lane
    <3>1. PICK new : /\ Handle(t, new)
                     /\ \A u \in new : u.event # Launch /\ u.event # Land
      <4>1. CASE other \in Lanes /\ LaneIssue(t, other, d)
        <5>1. PICK new : /\ Handle(t, new)
                         /\ \A u \in new : \/ u = Now(DopEvent("IscUnlockIssue", d))
                                           \/ u = Now(LaneEvent("PeLaunchProcessing", other))
                                           \/ u = Now(LaneEvent("PeUnavailable", other))
          BY <4>1 DEF LaneIssue
        <5> QED
          BY <2>3, <4>1, <5>1 DEF Now, After, DopEvent, LaneEvent
      <4>2. CASE CtlIssue(t, d)
        BY <4>2 DEF CtlIssue, Now, After, DopEvent, LaneEvent
      <4>3. CASE PbsIssue(t, d)
        BY <4>3 DEF PbsIssue, NextLoad, Now, After, DopEvent, LaneEvent, Event
      <4> QED
        BY <2>1, <4>1, <4>2, <4>3 DEF OnIssueDOp
    <3>2. queue'[lane] = queue[lane] /\ current' = current
      BY <1>0, <1>3, <2>1, <2>3, UntouchedPes DEF OnIssueDOp, LaneIssue, CtlIssue, PbsIssue, laneVars
    <3>3. \A v \in triggers' : v.event \in {Launch, Land} => v \in triggers
      BY <3>1 DEF Handle
    <3>4. t.event # Launch /\ t.event # Land
      BY <1>3, <1>a
    <3> QED
      BY <3>2, <3>3, <3>4, LaneQuiet
  <2> QED
    BY <2>2, <2>3
<1>4. CASE t.event.type \in {"PeLaunchProcessing", "PeLandProcessing"} /\ t.event # Launch /\ t.event # Land
  <2> DEFINE other == t.event.lane
  <2>1. other \in Lanes /\ other # lane
    BY <1>0, <1>4, EventShape
  <2>2. LaneLaunch(t, other) \/ LaneLand(t, other)
    BY <1>4, Handlers
  <2>3. queue'[lane] = queue[lane] /\ current'[lane] = current[lane]
    BY <1>0, <2>1, <2>2 DEF LaneLaunch, LaneLand
  <2>4. \A v \in triggers' : v.event \in {Launch, Land} => v \in triggers
    <3> HIDE DEF other
    <3>1. CASE LaneLaunch(t, other)
      BY <2>1, <3>1 DEF LaneLaunch, Handle, Now, After, DopEvent, LaneEvent
    <3>2. CASE LaneLand(t, other)
      BY <2>1, <3>2 DEF LaneLand, Handle, Now, After, LaneEvent
    <3> QED
      BY <2>2, <3>1, <3>2
  <2> QED
    BY <1>4, <2>3, <2>4, LaneQuiet
<1>5. CASE t.event.type \notin {"IscIssueDOp", "PeLaunchProcessing", "PeLandProcessing"}
  <2>1. UNCHANGED <<queue, current>>
    BY <1>5, UntouchedPes
  <2>2. \A v \in triggers' : v.event \in {Launch, Land} => v \in triggers
    BY <1>5, <1>a DEF Pops, Emits
  <2>3. t.event # Launch /\ t.event # Land
    BY <1>5, <1>a
  <2> QED
    BY <2>1, <2>2, <2>3, LaneQuiet
<1> QED
  BY <1>1, <1>2, <1>3, <1>4, <1>5

(* The end of a cycle leaves no lane idle beside a queue.                  *)
LEMMA EndLane ==
  ASSUME HpuInv, EndCycle
  PROVE  LaneInv'
<1>1. /\ UNCHANGED <<queue, current, issued, triggers>>
      /\ \A u \in triggers : u.at > now /\ u.event.type \notin NowTypes
  BY CycleEnds DEF HpuInv, HpuTypeOK, iscVars, historyVars, laneVars
<1> SUFFICES ASSUME NEW lane \in Lanes PROVE LaneAt(lane)'
  BY DEF LaneInv
<1>2. LaneAt(lane)
  BY DEF HpuInv, LaneInv
<1>3. Now(LaneEvent("PeLaunchProcessing", lane)) \notin triggers
  BY <1>1 DEF Now, After, LaneEvent, NowTypes
<1>4. \A u \in triggers : u.at # now
  BY <1>1 DEF HpuInv, HpuTypeOK, TriggersOK, TriggerOK
<1> QED
  BY <1>1, <1>2, <1>3, <1>4 DEF LaneAt

-----------------------------------------------------------------------------
(* The room of the lanes.                                                  *)

(* A step that leaves a tracked lane and its messages alone.               *)
LEMMA AvailableQuiet ==
  ASSUME HpuInv, NEW t \in Ready, HandleEvent(t), Pops(t), NEW lane \in TrackedLanes,
         Full(lane)' = Full(lane), tracker'[lane] = tracker[lane],
         t.event # LaneEvent("PeAvailable", lane), t.event # LaneEvent("PeUnavailable", lane),
         \A v \in triggers' :
           \/ v.event = LaneEvent("PeAvailable", lane)
           \/ v.event = LaneEvent("PeUnavailable", lane)
           \/ v.event.type = "IscIssueDOp" /\ Affinity(prog[v.event.id]) = lane
           => v \in triggers
  PROVE  AvailableAt(lane)'
<1>1. AvailableAt(lane) /\ prog' = prog
  BY DEF HpuInv, AvailableInv, Pops
<1>2. Comes(LaneEvent("PeAvailable", lane))' <=> Comes(LaneEvent("PeAvailable", lane))
  BY DEF Comes, Pops
<1>3. Comes(LaneEvent("PeUnavailable", lane))' <=> Comes(LaneEvent("PeUnavailable", lane))
  BY DEF Comes, Pops
<1>4. QueryLater => QueryLater'
  BY LaterKept
<1> QED
  BY <1>1, <1>2, <1>3, <1>4 DEF AvailableAt

(* A lane takes a DOp: it had room, and tells when it is full.             *)
LEMMA AvailableIssued ==
  ASSUME HpuInv, NEW t \in Ready, HandleEvent(t), Pops(t), NEW lane \in TrackedLanes,
         t.event.type = "IscIssueDOp", Affinity(prog[t.event.id]) = lane
  PROVE  AvailableAt(lane)'
<1>0. t \in triggers
  BY DEF Ready
<1>1. /\ AvailableAt(lane) /\ ~ Comes(LaneEvent("PeAvailable", lane))
  BY <1>0 DEF HpuInv, AvailableInv, AvailableAt
<1>2. /\ QueryLater /\ QueryLater'
      /\ \A u \in triggers : u.event.type = "IscIssueDOp" => u = t
  BY <1>0, LaterKept DEF HpuInv, IssueInv, IssueTypes
<1>3. \A u \in triggers' : u.event.type # "IscIssueDOp"
  BY <1>2 DEF Pops, Emits
<1>4. ~ Comes(LaneEvent("PeAvailable", lane))'
  <2>1. \A u \in triggers' : u.event.type = "PeAvailable" => u \in triggers
    BY DEF Pops, Emits
  <2> QED
    BY <1>1, <2>1 DEF Comes, LaneEvent
<1>5. Full(lane)' => Comes(LaneEvent("PeUnavailable", lane))'
  <2> DEFINE U == Now(LaneEvent("PeUnavailable", lane))
  <2>1. OnIssueDOp(t)
    BY Handlers
  <2>2. Full(lane)' => \E new : Handle(t, new) /\ U \in new
    <3>1. CASE lane = "Pbs"
      <4>1. PbsIssue(t, t.event.id)
        BY <2>1, <3>1 DEF OnIssueDOp, Lanes
      <4> QED
        BY <3>1, <4>1 DEF PbsIssue, Full, PbsQueueFull
    <3>2. CASE lane # "Pbs"
      <4>1. lane \in Lanes /\ LaneIssue(t, lane, t.event.id)
        BY <2>1, <3>2 DEF OnIssueDOp, Lanes, TrackedLanes
      <4> QED
        BY <3>2, <4>1 DEF LaneIssue, Full, LaneFull
    <3> QED
      BY <3>1, <3>2
  <2>3. U.event = LaneEvent("PeUnavailable", lane)
    BY DEF Now, After
  <2> HIDE DEF U
  <2>4. Full(lane)' => U \in triggers'
    BY <2>2 DEF Handle
  <2> QED
    BY <2>3, <2>4 DEF Comes
<1> QED
  BY <1>2, <1>3, <1>4, <1>5 DEF AvailableAt

(* A lane takes a DOp from its queue: it has room then, and says so if it  *)
(* was full.                                                               *)
LEMMA AvailableTaken ==
  ASSUME HpuInv, NEW t \in Ready, HandleEvent(t), Pops(t), NEW lane \in TrackedLanes,
         ~ Full(lane)', UNCHANGED tracker,
         t.event.type \notin {"PeAvailable", "PeUnavailable"},
         \A v \in triggers' \ triggers : v.event = LaneEvent("PeAvailable", lane) => Full(lane),
         \A v \in triggers' \ triggers : v.event.type \notin {"PeUnavailable", "IscIssueDOp"}
  PROVE  AvailableAt(lane)'
<1> DEFINE A == LaneEvent("PeAvailable", lane)
           U == LaneEvent("PeUnavailable", lane)
<1>1. AvailableAt(lane) /\ prog' = prog
  BY DEF HpuInv, AvailableInv, Pops
<1>2. Comes(U)' => Comes(U)
  BY DEF Comes, LaneEvent
<1>3. Comes(A)' => Comes(A) \/ Full(lane)
  BY DEF Comes
<1>4. QueryLater => QueryLater'
  BY LaterKept
<1> HIDE DEF A, U
<1>5. tracker'[lane] /\ Comes(A)' => QueryLater'
  BY <1>1, <1>3, <1>4 DEF AvailableAt, A, U
<1>6. ASSUME NEW v \in triggers', v.event.type = "IscIssueDOp", Affinity(prog[v.event.id]) = lane
      PROVE  ~ Comes(A)'
  <2>1. v \in triggers
    BY <1>6
  <2> QED
    BY <1>1, <1>3, <1>6, <2>1 DEF AvailableAt, A
<1> QED
  BY <1>1, <1>2, <1>4, <1>5, <1>6 DEF AvailableAt, A, U

(* Every handler keeps the scheduler informed of the full lanes.           *)
LEMMA PopAvailable ==
  ASSUME HpuInv, NEW t \in Ready, HandleEvent(t), Pops(t)
  PROVE  AvailableInv'
<1>0. /\ t \in triggers /\ TriggersOK /\ prog' = prog /\ now' = now
      /\ tracker \in [TrackedLanes -> BOOLEAN]
  BY DEF HpuInv, HpuTypeOK, IscTypeOK, Ready, Pops
<1> SUFFICES ASSUME NEW lane \in TrackedLanes PROVE AvailableAt(lane)'
  BY DEF AvailableInv
<1> DEFINE A == LaneEvent("PeAvailable", lane)
           U == LaneEvent("PeUnavailable", lane)
<1>a. /\ AvailableAt(lane)
      /\ QueryLater => QueryLater'
      /\ A.type = "PeAvailable" /\ A.lane = lane /\ U.type = "PeUnavailable" /\ U.lane = lane
  BY LaterKept DEF HpuInv, AvailableInv, LaneEvent
<1>b. t.event.type \notin {"IscIssueDOp", "PeLaunchProcessing", "PePbsLaunchLoadMemory"} =>
        Full(lane)' = Full(lane)
  BY UntouchedPes DEF Full, PbsQueueFull, LaneFull
<1>c. t.event # A /\ t.event # U => tracker'[lane] = tracker[lane]
  <2>1. CASE t.event.type \in {"PeAvailable", "PeUnavailable"} /\ t.event # A /\ t.event # U
    <3>1. t.event.lane \in TrackedLanes /\ t.event = LaneEvent(t.event.type, t.event.lane)
      BY <1>0, <2>1, EventShape
    <3>2. t.event.lane # lane
      BY <2>1, <3>1
    <3>3. SetAvailable(t.event.lane, TRUE) \/ SetAvailable(t.event.lane, FALSE)
      BY <2>1, Handlers
    <3> QED
      BY <1>0, <3>1, <3>2, <3>3 DEF SetAvailable
  <2>2. CASE t.event.type \notin {"PeAvailable", "PeUnavailable"}
    BY <2>2, Untouched
  <2> QED
    BY <2>1, <2>2
<1>1. CASE t.event = A
  <2>1. tracker' = [tracker EXCEPT ![lane] = TRUE]
    BY <1>1, <1>a, Handlers DEF SetAvailable
  <2>2. \A v \in triggers' : (v \in triggers /\ v # t) \/ v.event.type = "IscQuery"
    BY <1>1, <1>a DEF Pops, Emits
  <2>3. ~ Comes(A)'
    <3>1. \A v \in triggers : v.event = A => v = t
      BY <1>0, <1>1, <1>a DEF HpuInv, Once
    <3> QED
      BY <1>a, <2>2, <3>1 DEF Comes
  <2>4. Comes(A) /\ (Comes(U)' => Comes(U))
    BY <1>0, <1>1, <1>a, <2>2 DEF Comes
  <2>5. \A v \in triggers' : v.event.type = "IscIssueDOp" => v \in triggers
    BY <2>2
  <2> HIDE DEF A, U
  <2> QED
    BY <1>0, <1>1, <1>a, <1>b, <2>3, <2>4, <2>5 DEF AvailableAt, A, U
<1>2. CASE t.event = U
  <2>1. tracker'[lane] = FALSE
    <3>1. tracker' = [tracker EXCEPT ![lane] = FALSE]
      BY <1>2, <1>a, Handlers DEF SetAvailable
    <3> QED
      BY <1>0, <3>1
  <2>2. \A v \in triggers' : v \in triggers /\ v # t
    BY <1>2, <1>a DEF Pops, Emits
  <2>3. ~ Comes(U)'
    <3>1. \A v \in triggers : v.event = U => v = t
      BY <1>0, <1>2, <1>a DEF HpuInv, Once
    <3> QED
      BY <2>2, <3>1 DEF Comes
  <2>4. Comes(A)' => Comes(A)
    BY <2>2 DEF Comes
  <2> HIDE DEF A, U
  <2> QED
    BY <1>0, <1>2, <1>a, <1>b, <2>1, <2>2, <2>3, <2>4 DEF AvailableAt, A, U
<1>3. CASE t.event.type = "IscQuery"
  <2>1. QueryLater' /\ ~ QueryLater
    <3>1. QueryLater'
      BY <1>3, QueryGone
    <3>2. ~ QueryLater
      BY <1>0, <1>3 DEF QueryLater, Ready, TriggersOK
    <3> QED
      BY <3>1, <3>2
  <2>2. /\ UNCHANGED tracker /\ Full(lane)' = Full(lane)
    BY <1>3, <1>b, Untouched
  <2>3. /\ Comes(A)' <=> Comes(A)
        /\ Comes(U)' <=> Comes(U)
    BY <1>3, <1>a DEF Comes, Pops, Emits
  <2>4. ASSUME NEW v \in triggers', v.event.type = "IscIssueDOp", Affinity(prog[v.event.id]) = lane
        PROVE  ~ Full(lane) /\ ~ Comes(A)
    <3>1. CASE v \in triggers
      BY <1>a, <2>4, <3>1 DEF AvailableAt
    <3>2. CASE v \notin triggers
      <4>1. PICK d \in InPool : QueryIssue(d) /\ v \in {Now(DopEvent("IscIssueDOp", d))}
        <5>1. OnQuery(t)
          BY <1>3, Handlers
        <5>2. \A new : HandleAndRearm(t, new) => v \in new
          BY <1>0, <2>4, <3>2, Rearm DEF HandleAndRearm, Handle, After, Event
        <5>3. v \notin {} /\ \A d : v # Now(DopEvent("IscRetireDOp", d))
          BY <2>4 DEF Now, After, DopEvent
        <5>4. ~ Handle(t, {})
          BY <3>2 DEF Handle
        <5> QED
          BY <5>1, <5>2, <5>3, <5>4 DEF OnQuery
      <4>2. v.event.id = d
        BY <4>1 DEF Now, After, DopEvent
      <4>3. tracker[lane]
        BY <2>4, <4>1, <4>2 DEF QueryIssue, Issuable, LaneAvailable
      <4>4. ~ Comes(U) /\ ~ Comes(A)
        BY <1>a, <2>1, <4>3 DEF AvailableAt
      <4> QED
        BY <1>a, <4>3, <4>4 DEF AvailableAt
    <3> QED
      BY <3>1, <3>2
  <2> HIDE DEF A, U
  <2> QED
    BY <1>0, <1>a, <2>1, <2>2, <2>3, <2>4 DEF AvailableAt, A, U
<1>4. CASE t.event.type = "IscIssueDOp"
  <2> DEFINE d == t.event.id
             other == Affinity(prog[d])
  <2>1. CASE other = lane
    BY <1>4, <2>1, AvailableIssued
  <2>2. CASE other # lane
    <3>1. OnIssueDOp(t)
      BY <1>4, Handlers
    <3>2. Full(lane)' = Full(lane)
      <4>1. CASE lane = "Pbs"
        <5>1. pbsQueue' = pbsQueue
          BY <2>2, <3>1, <4>1 DEF OnIssueDOp, pbsVars
        <5> QED
          BY <4>1, <5>1 DEF Full, PbsQueueFull
      <4>2. CASE lane \in Lanes
        <5>1. queue'[lane] = queue[lane]
          BY <2>2, <3>1, <4>2 DEF OnIssueDOp, LaneIssue, CtlIssue, laneVars, HpuInv, HpuTypeOK
        <5> QED
          BY <4>2, <5>1 DEF Full, LaneFull, Lanes
      <4> QED
        BY <4>1, <4>2 DEF TrackedLanes, Lanes
    <3>3. PICK new : /\ Handle(t, new)
                     /\ \A u \in new : u.event # A /\ u.event # U /\ u.event.type # "IscIssueDOp"
      <4>1. CASE other \in Lanes /\ LaneIssue(t, other, d)
        <5>1. PICK new : /\ Handle(t, new)
                         /\ \A u \in new : \/ u = Now(DopEvent("IscUnlockIssue", d))
                                           \/ u = Now(LaneEvent("PeLaunchProcessing", other))
                                           \/ u = Now(LaneEvent("PeUnavailable", other))
          BY <4>1 DEF LaneIssue
        <5> QED
          BY <2>2, <5>1 DEF Now, After, DopEvent, LaneEvent
      <4>2. CASE CtlIssue(t, d)
        BY <4>2 DEF CtlIssue, Now, After, DopEvent, LaneEvent
      <4>3. CASE other = "Pbs" /\ PbsIssue(t, d)
        <5>1. PICK new : /\ Handle(t, new)
                         /\ \A u \in new : \/ u = Now(DopEvent("IscUnlockIssue", d))
                                           \/ u = After(PbsTimeout, Event("PePbsTimeout"))
                                           \/ u = Now(LaneEvent("PeUnavailable", other))
                                           \/ u = Now(Event("PePbsLaunchLoadMemory"))
          BY <4>3 DEF PbsIssue, NextLoad
        <5> QED
          BY <2>2, <5>1 DEF Now, After, DopEvent, LaneEvent, Event
      <4> QED
        BY <3>1, <4>1, <4>2, <4>3 DEF OnIssueDOp
    <3>4. \A v \in triggers' : v.event \in {A, U} \/ v.event.type = "IscIssueDOp" => v \in triggers
      BY <3>3 DEF Handle
    <3>5. t.event # A /\ t.event # U
      BY <1>4, <1>a
    <3> QED
      BY <1>c, <3>2, <3>4, <3>5, AvailableQuiet
  <2> QED
    BY <2>1, <2>2
<1>5. CASE t.event.type = "PeLaunchProcessing"
  <2> DEFINE other == t.event.lane
  <2>1. other \in Lanes /\ LaneLaunch(t, other)
    BY <1>0, <1>5, Handlers, EventShape
  <2>2. PICK new, d : /\ Handle(t, new)
                   /\ \A u \in new : \/ u = After(ReadLatency[other], DopEvent("IscUnlockRead", d))
                                     \/ u = After(WriteLatency[other], DopEvent("IscUnlockWrite", d))
                                     \/ u = After(WriteLatency[other], LaneEvent("PeLandProcessing", other))
                                     \/ u = Now(LaneEvent("PeAvailable", other)) /\ LaneFull(other)
    <3>1. PICK d : d = Head(queue[other])
      OBVIOUS
    <3> QED
      BY <2>1, <3>1 DEF LaneLaunch
  <2>3. \A u \in new : /\ u.event.type \notin {"PeUnavailable", "IscIssueDOp"}
                       /\ u.event = A => other = lane /\ LaneFull(other)
    BY <2>2 DEF Now, After, DopEvent, LaneEvent
  <2>4. queue[other] # <<>> /\ queue' = [queue EXCEPT ![other] = Tail(@)]
    BY <2>1 DEF LaneLaunch, LaneLaunchAsserts
  <2>5. t.event # A /\ t.event # U /\ triggers' = (triggers \ {t}) \cup new
    BY <1>5, <1>a, <2>2 DEF Handle
  <2> HIDE DEF other
  <2>6. CASE other = lane
    <3>1. queue[lane] \in Seq(Ids) /\ queue'[lane] = Tail(queue[lane]) /\ Len(queue[lane]) <= QueueCapacity
      BY <2>1, <2>4, <2>6 DEF HpuInv, HpuTypeOK, LaneInv, LaneAt
    <3>2. Len(queue'[lane]) = Len(queue[lane]) - 1 /\ Len(queue[lane]) \in Nat
      BY <2>4, <2>6, <3>1, HeadTail
    <3>3. ~ Full(lane)' /\ (LaneFull(lane) => Full(lane))
      BY <2>1, <2>6, <3>1, <3>2, LaneAssumption DEF Full, LaneFull, Lanes
    <3>4. UNCHANGED tracker
      BY <1>5, Untouched
    <3>5. \A v \in triggers' \ triggers : v.event = A => Full(lane)
      BY <2>3, <2>5, <2>6, <3>3
    <3>6. \A v \in triggers' \ triggers : v.event.type \notin {"PeUnavailable", "IscIssueDOp"}
      BY <2>3, <2>5
    <3> QED
      BY <1>5, <3>3, <3>4, <3>5, <3>6, AvailableTaken
  <2>7. CASE other # lane
    <3>1. Full(lane)' = Full(lane)
      <4>1. CASE lane = "Pbs"
        <5>1. pbsQueue' = pbsQueue
          BY <1>5, UntouchedPes
        <5> QED
          BY <4>1, <5>1 DEF Full, PbsQueueFull
      <4>2. CASE lane # "Pbs"
        <5>1. lane \in Lanes /\ queue'[lane] = queue[lane]
          BY <2>4, <2>7, <4>2 DEF TrackedLanes, Lanes, HpuInv, HpuTypeOK
        <5> QED
          BY <4>2, <5>1 DEF Full, LaneFull
      <4> QED
        BY <4>1, <4>2
    <3>2. \A v \in triggers' : v.event \in {A, U} \/ v.event.type = "IscIssueDOp" => v \in triggers
      BY <1>a, <2>3, <2>5, <2>7
    <3> QED
      BY <1>c, <2>5, <3>1, <3>2, AvailableQuiet
  <2> QED
    BY <2>6, <2>7
<1>6. CASE t.event.type = "PePbsLaunchLoadMemory"
  <2>1. LaunchLoad(t)
    BY <1>6, Handlers
  <2>a. PICK d : d = Head(pbsQueue)
    OBVIOUS
  <2>2. PICK new : /\ Handle(t, new)
                   /\ \A u \in new : \/ u = After(LoadUnloadLatency, DopEvent("PePbsLandLoadMemory", d))
                                     \/ u = Now(LaneEvent("PeAvailable", "Pbs")) /\ PbsQueueFull
    BY <2>1, <2>a DEF LaunchLoad
  <2>3. \A u \in new : /\ u.event.type \notin {"PeUnavailable", "IscIssueDOp"}
                       /\ u.event = A => "Pbs" = lane /\ PbsQueueFull
    BY <2>2 DEF Now, After, DopEvent, LaneEvent
  <2>4. pbsQueue # <<>> /\ pbsQueue' = Tail(pbsQueue)
    BY <2>1 DEF LaunchLoad, LaunchLoadAsserts
  <2>5. t.event # A /\ t.event # U /\ triggers' = (triggers \ {t}) \cup new
    BY <1>6, <1>a, <2>2 DEF Handle
  <2>6. CASE lane = "Pbs"
    <3>1. pbsQueue \in Seq(Ids) /\ Len(pbsQueue) <= PbsQueueCapacity
      BY DEF HpuInv, HpuTypeOK, PbsInv, PbsBounds, PbsExpects
    <3>2. Len(pbsQueue') = Len(pbsQueue) - 1 /\ Len(pbsQueue) \in Nat
      BY <2>4, <3>1, HeadTail
    <3>3. ~ Full(lane)' /\ (PbsQueueFull => Full(lane))
      BY <2>6, <3>1, <3>2, PbsAssumption DEF Full, PbsQueueFull
    <3>4. UNCHANGED tracker
      BY <1>6, Untouched
    <3>5. \A v \in triggers' \ triggers : v.event = A => Full(lane)
      BY <2>3, <2>5, <2>6, <3>3
    <3>6. \A v \in triggers' \ triggers : v.event.type \notin {"PeUnavailable", "IscIssueDOp"}
      BY <2>3, <2>5
    <3> QED
      BY <1>6, <3>3, <3>4, <3>5, <3>6, AvailableTaken
  <2>7. CASE lane # "Pbs"
    <3>1. Full(lane)' = Full(lane)
      BY <1>6, <2>7, UntouchedPes DEF Full, LaneFull
    <3>2. \A v \in triggers' : v.event \in {A, U} \/ v.event.type = "IscIssueDOp" => v \in triggers
      BY <1>a, <2>3, <2>5, <2>7
    <3> QED
      BY <1>c, <2>5, <3>1, <3>2, AvailableQuiet
  <2> QED
    BY <2>6, <2>7
<1>7. CASE /\ t.event # A /\ t.event # U
           /\ t.event.type \notin {"IscQuery", "IscIssueDOp", "PeLaunchProcessing", "PePbsLaunchLoadMemory"}
  <2>1. \A v \in triggers' : v.event \in {A, U} \/ v.event.type = "IscIssueDOp" => v \in triggers
    BY <1>7, <1>a DEF Pops, Emits
  <2> QED
    BY <1>7, <1>b, <1>c, <2>1, AvailableQuiet
<1> QED
  BY <1>1, <1>2, <1>3, <1>4, <1>5, <1>6, <1>7

(* At the end of a cycle every lane has told of its room.                  *)
LEMMA EndAvailable ==
  ASSUME HpuInv, EndCycle
  PROVE  AvailableInv'
<1>1. /\ UNCHANGED <<queue, pbsQueue, tracker, prog, triggers>>
      /\ \A u \in triggers : u.event.type \notin NowTypes
  BY CycleEnds DEF HpuInv, HpuTypeOK, iscVars, schedulerVars, laneVars, pbsVars
<1> SUFFICES ASSUME NEW lane \in TrackedLanes PROVE AvailableAt(lane)'
  BY DEF AvailableInv
<1>2. AvailableAt(lane)
  BY DEF HpuInv, AvailableInv
<1>3. /\ ~ Comes(LaneEvent("PeAvailable", lane)) /\ ~ Comes(LaneEvent("PeUnavailable", lane))
      /\ ~ Comes(LaneEvent("PeAvailable", lane))' /\ ~ Comes(LaneEvent("PeUnavailable", lane))'
  BY <1>1 DEF Comes, LaneEvent, NowTypes
<1>4. Full(lane)' = Full(lane)
  BY <1>1 DEF Full, PbsQueueFull, LaneFull
<1> QED
  BY <1>1, <1>2, <1>3, <1>4 DEF AvailableAt

-----------------------------------------------------------------------------
(* The PBS element.                                                        *)

(* The numbers behind the boundaries.                                      *)
LEMMA PbsNumbers ==
  ASSUME HpuInv
  PROVE  /\ bound \in [Areas -> Nat] /\ memory \in Seq(Ids) /\ pbsQueue \in Seq(Ids)
         /\ bound.waiting \in Nat /\ bound.working \in Nat
         /\ bound.parking \in Nat /\ bound.unloading \in Nat
         /\ Len(memory) \in Nat /\ Len(pbsQueue) \in Nat
         /\ PbsBounds /\ PbsEnds /\ TimerArmed /\ NoTimerAtWork
         /\ \A t \in triggers : PbsExpects(t)
<1>1. bound \in [Areas -> Nat] /\ memory \in Seq(Ids) /\ pbsQueue \in Seq(Ids)
  BY DEF HpuInv, HpuTypeOK
<1>2. /\ bound.waiting \in Nat /\ bound.working \in Nat
      /\ bound.parking \in Nat /\ bound.unloading \in Nat
  BY <1>1 DEF Areas
<1>3. Len(memory) \in Nat /\ Len(pbsQueue) \in Nat
  BY <1>1
<1> QED
  BY <1>1, <1>2, <1>3 DEF HpuInv, PbsInv

(* What it is for a message of a type to be pending.                       *)
LEMMA PendingIs ==
  ASSUME NEW type
  PROVE  Pending(type) # {} <=> \E u \in triggers : u.event.type = type
BY DEF Pending

(* The PBS element does one thing of a kind at a time.                     *)
LEMMA PbsAlone ==
  ASSUME HpuInv, NEW t \in triggers,
         t.event.type \in {"PePbsLaunchLoadMemory", "PePbsLandLoadMemory",
                           "PePbsLandUnloadMemory", "PePbsLandProcessing"},
         NEW u \in triggers, u.event.type = t.event.type
  PROVE  u = t
<1>1. TriggersOK /\ PbsExpects(t) /\ PbsExpects(u)
  BY PbsNumbers DEF HpuInv, HpuTypeOK
<1>2. u.event = t.event
  BY <1>1, EventShape DEF PbsExpects, DopTypes, PlainTypes, SizeTypes
<1> QED
  BY <1>2 DEF HpuInv, Once

(* The events of the PBS element that its invariant speaks of.             *)
PbsEvents == {"PePbsLaunchLoadMemory", "PePbsLandLoadMemory", "PePbsTimeout",
              "PePbsLandProcessing", "PePbsLandUnloadMemory"}

(* A step that leaves the PBS element and its messages alone.              *)
LEMMA PbsQuiet ==
  ASSUME HpuInv, pbsVars' = pbsVars,
         \A u \in triggers : u.event.type \in PbsEvents => u \in triggers',
         \A u \in triggers' : u.event.type \in PbsEvents => u \in triggers
  PROVE  PbsInv'
<1>1. UNCHANGED <<pbsQueue, memory, bound, timeoutRunning>>
  BY DEF pbsVars
<1>2. PbsBounds'
  BY <1>1, PbsNumbers DEF PbsBounds
<1>3. ASSUME NEW u \in triggers' PROVE PbsExpects(u)'
  <2>1. CASE u \in triggers
    BY <1>1, <2>1, PbsNumbers
       DEF PbsExpects, LaunchLoadAsserts, LandLoadAsserts, LandUnloadAsserts, MayLoad, NLoading, NWorking, NUnloading
  <2>2. CASE u.event.type \notin PbsEvents
    BY <2>2 DEF PbsExpects, PbsEvents
  <2> QED
    BY <2>1, <2>2
<1>4. ASSUME NEW type \in PbsEvents PROVE Pending(type) # {} => Pending(type)' # {}
  BY DEF Pending
<1>5. PbsEnds' /\ TimerArmed'
  BY <1>1, <1>4, PbsNumbers DEF PbsEnds, TimerArmed, NLoading, NWorking, NUnloading, PbsEvents
<1>z. NoTimerAtWork'
  BY <1>1, PbsNumbers DEF NoTimerAtWork, NWorking
<1> QED
  BY <1>2, <1>3, <1>5, <1>z DEF PbsInv

(* A PBS joins the queue; the first timer may start.                       *)
LEMMA PbsIssued ==
  ASSUME HpuInv, NEW t \in Ready, HandleEvent(t), Pops(t),
         t.event.type = "IscIssueDOp", PbsIssue(t, t.event.id)
  PROVE  PbsInv'
<1> DEFINE d == t.event.id
           arms == ~ timeoutRunning /\ NWorking = 0
           X == After(PbsTimeout, Event("PePbsTimeout"))
           L == Now(Event("PePbsLaunchLoadMemory"))
<1>0. t \in triggers /\ TriggersOK
  BY DEF HpuInv, HpuTypeOK, Ready
<1>1. /\ Len(pbsQueue) # PbsQueueCapacity /\ pbsQueue' = Append(pbsQueue, d)
      /\ UNCHANGED <<memory, bound>>
      /\ timeoutRunning' = (timeoutRunning \/ arms)
  BY DEF PbsIssue, PbsIssueAsserts, PbsQueueFull
<1>2. PICK new : /\ Handle(t, new) /\ (arms => X \in new)
                 /\ \A u \in new : \/ u = Now(DopEvent("IscUnlockIssue", d))
                                   \/ u = X
                                   \/ u = Now(LaneEvent("PeUnavailable", "Pbs"))
                                   \/ u = L /\ Len(memory) # PbsMemoryCapacity /\ Len(memory) = bound.waiting
  <2>1. /\ bound' = bound
        /\ timeoutRunning' = (timeoutRunning \/ arms)
        /\ Handle(t,
            {Now(DopEvent("IscUnlockIssue", d))}
            \cup (IF arms THEN {X} ELSE {})
            \cup (IF Len(pbsQueue') = PbsQueueCapacity
                  THEN {Now(LaneEvent("PeUnavailable", "Pbs"))} ELSE {})
            \cup NextLoad(pbsQueue', memory, bound))
    BY DEF PbsIssue
  <2> HIDE DEF arms, X, L, d
  <2>2. \A u \in NextLoad(pbsQueue', memory, bound) :
          u = L /\ Len(memory) # PbsMemoryCapacity /\ Len(memory) = bound.waiting
    BY DEF NextLoad, L
  <2> QED
    BY <2>1, <2>2
<1>3. d \in Ids
  BY <1>0, EventShape DEF DopTypes
<1> HIDE DEF d
<1>4. pbsQueue' # <<>> /\ Len(pbsQueue') <= PbsQueueCapacity
  <2>1. Len(pbsQueue') = Len(pbsQueue) + 1
    BY <1>1, <1>3, PbsNumbers, AppendSeq
  <2>2. Len(pbsQueue') \in Nat \ {0} /\ pbsQueue' \in Seq(Ids)
    BY <1>1, <1>3, <2>1, PbsNumbers, AppendSeq
  <2>3. /\ Len(pbsQueue) \in Nat /\ Len(pbsQueue) <= PbsQueueCapacity
        /\ PbsQueueCapacity \in Nat /\ Len(pbsQueue) # PbsQueueCapacity
    BY <1>1, PbsNumbers, PbsAssumption DEF PbsBounds
  <2>4. Len(pbsQueue) + 1 <= PbsQueueCapacity
    BY <2>3
  <2> QED
    BY <2>1, <2>2, <2>4
<1>5. PbsBounds'
  BY <1>1, <1>4, PbsNumbers DEF PbsBounds
<1>6. /\ X.event.type = "PePbsTimeout" /\ L.event.type = "PePbsLaunchLoadMemory"
      /\ \A u \in new : u.event.type \in {"IscUnlockIssue", "PePbsTimeout", "PeUnavailable", "PePbsLaunchLoadMemory"}
      /\ \A u \in new : u.event.type = "PePbsLaunchLoadMemory" =>
            Len(memory) # PbsMemoryCapacity /\ Len(memory) = bound.waiting
  BY <1>2 DEF Now, After, Event, DopEvent, LaneEvent
<1>7. ASSUME NEW u \in triggers' PROVE PbsExpects(u)'
  <2>1. CASE u \in triggers
    BY <1>1, <1>4, <2>1, PbsNumbers
       DEF PbsExpects, LaunchLoadAsserts, LandLoadAsserts, LandUnloadAsserts, MayLoad, NLoading, NWorking, NUnloading
  <2>2. CASE u \in new
    <3>1. Len(memory) = bound.waiting => NLoading' = 0
      BY <1>1, PbsNumbers DEF NLoading
    <3> QED
      BY <1>1, <1>4, <1>6, <2>2, <3>1 DEF PbsExpects, LaunchLoadAsserts, MayLoad
  <2> QED
    BY <1>2, <2>1, <2>2 DEF Handle
<1>8. ASSUME NEW type, type # "IscIssueDOp" PROVE Pending(type) # {} => Pending(type)' # {}
  BY <1>8 DEF Pending, Pops
<1>9. PbsEnds'
  BY <1>1, <1>8, PbsNumbers DEF PbsEnds, NLoading, NWorking, NUnloading
<1>10. TimerArmed'
  <2>1. CASE timeoutRunning
    BY <2>1, <1>8, PbsNumbers DEF TimerArmed
  <2>2. CASE arms
    BY <1>2, <1>6, <2>2 DEF TimerArmed, Pending, Handle
  <2> QED
    BY <1>1, <2>1, <2>2 DEF TimerArmed
<1>z. NoTimerAtWork'
  <2>1. NWorking' = NWorking /\ (NWorking > 0 => NWorking # 0)
    BY <1>1, PbsNumbers DEF NWorking
  <2> QED
    BY <1>1, <2>1, PbsNumbers DEF NoTimerAtWork
<1> QED
  BY <1>5, <1>7, <1>9, <1>10, <1>z DEF PbsInv

(* A load starts: the queue shortens and the memory grows.                 *)
LEMMA PbsLoading ==
  ASSUME HpuInv, NEW t \in Ready, HandleEvent(t), Pops(t), t.event.type = "PePbsLaunchLoadMemory"
  PROVE  PbsInv'
<1>0. t \in triggers /\ UNCHANGED <<bound, timeoutRunning>>
  BY UntouchedPes DEF Ready
<1>1. PICK d : d = Head(pbsQueue)
  OBVIOUS
<1> DEFINE L == After(LoadUnloadLatency, DopEvent("PePbsLandLoadMemory", d))
<1>a. LaunchLoad(t)
  BY Handlers
<1>2. /\ pbsQueue # <<>> /\ Len(memory) # PbsMemoryCapacity /\ Len(memory) = bound.waiting
      /\ memory' = Append(memory, d) /\ pbsQueue' = Tail(pbsQueue)
  <2>1. /\ pbsQueue # <<>> /\ Len(memory) # PbsMemoryCapacity /\ NLoading = 0
        /\ memory' = Append(memory, d) /\ pbsQueue' = Tail(pbsQueue)
    BY <1>1, <1>a DEF LaunchLoad, LaunchLoadAsserts, MayLoad
  <2>2. Len(memory) = bound.waiting
    BY <2>1, PbsNumbers DEF NLoading
  <2> QED
    BY <2>1, <2>2
<1>3. PICK new : /\ Handle(t, new) /\ L \in new
                 /\ \A u \in new : u = L \/ u = Now(LaneEvent("PeAvailable", "Pbs"))
  BY <1>1, <1>a DEF LaunchLoad
<1>4. d \in Ids /\ Len(pbsQueue') = Len(pbsQueue) - 1
  BY <1>1, <1>2, PbsNumbers, HeadTail
<1>5. /\ Len(memory') = Len(memory) + 1 /\ memory'[Len(memory')] = d
      /\ Len(memory) >= 1 => memory'[1] = memory[1]
  BY <1>2, <1>4, PbsNumbers, AppendSeq
<1>6. PbsBounds'
  BY <1>0, <1>2, <1>4, <1>5, PbsNumbers, PbsAssumption DEF PbsBounds
<1>7. /\ L.event.type = "PePbsLandLoadMemory" /\ L.event.id = d
      /\ \A u \in new : u = L \/ u.event.type = "PeAvailable"
  BY <1>3 DEF Now, After, DopEvent, LaneEvent
<1> HIDE DEF L
<1>8. ASSUME NEW u \in triggers' PROVE PbsExpects(u)'
  <2>1. CASE u \in triggers /\ u # t
    <3>1. u.event.type # "PePbsLaunchLoadMemory"
      BY <1>0, <2>1, PbsAlone
    <3>2. u.event.type # "PePbsLandLoadMemory"
      BY <1>2, <2>1, PbsNumbers DEF PbsExpects, LandLoadAsserts, NLoading
    <3>3. u.event.type = "PePbsLandUnloadMemory" => u.event.id = memory'[1] /\ bound.unloading > 0
      BY <1>5, <2>1, PbsNumbers DEF PbsExpects, LandUnloadAsserts, NUnloading, PbsBounds
    <3> QED
      BY <1>0, <2>1, <3>1, <3>2, <3>3, PbsNumbers DEF PbsExpects, LandUnloadAsserts, NUnloading, NWorking
  <2>2. CASE u = L
    BY <1>0, <1>2, <1>5, <1>7, <2>2, PbsNumbers DEF PbsExpects, LandLoadAsserts, NLoading
  <2>3. CASE u.event.type = "PeAvailable"
    BY <2>3 DEF PbsExpects
  <2> QED
    BY <1>3, <1>7, <2>1, <2>2, <2>3 DEF Handle
<1>9. ASSUME NEW type, type # "PePbsLaunchLoadMemory" PROVE Pending(type) # {} => Pending(type)' # {}
  BY <1>9 DEF Pending, Pops
<1>10. Pending("PePbsLandLoadMemory")' # {}
  BY <1>3, <1>7 DEF Pending, Handle
<1>11. PbsEnds' /\ TimerArmed'
  BY <1>0, <1>9, <1>10, PbsNumbers DEF PbsEnds, TimerArmed, NWorking, NUnloading
<1>z. NoTimerAtWork'
  BY <1>0, PbsNumbers DEF NoTimerAtWork, NWorking
<1> QED
  BY <1>6, <1>8, <1>11, <1>z DEF PbsInv

(* A load lands: one more DOp waits for a batch.                           *)
LEMMA PbsLoaded ==
  ASSUME HpuInv, NEW t \in Ready, HandleEvent(t), Pops(t), t.event.type = "PePbsLandLoadMemory"
  PROVE  PbsInv'
<1>0. t \in triggers /\ UNCHANGED <<pbsQueue, memory, timeoutRunning>>
  BY UntouchedPes DEF Ready
<1>1. bound' = [bound EXCEPT !.waiting = @ + 1]
  BY Handlers DEF LandLoad
<1>2. /\ bound'.waiting = bound.waiting + 1 /\ bound'.working = bound.working
      /\ bound'.parking = bound.parking /\ bound'.unloading = bound.unloading
  BY <1>1, PbsNumbers DEF Areas
<1>3. Len(memory) = bound.waiting + 1
  BY <1>0, LastLoads
<1>4. PbsBounds'
  BY <1>0, <1>2, <1>3, PbsNumbers DEF PbsBounds
<1>5. ASSUME NEW u \in triggers', u \notin triggers \/ u = t
      PROVE  /\ u.event.type \in {"IscUnlockRead", "PePbsLaunchLoadMemory", "PePbsLaunchProcessing"}
             /\ u.event.type = "PePbsLaunchLoadMemory" =>
                  pbsQueue # <<>> /\ Len(memory) # PbsMemoryCapacity
  <2>1. PICK new, hint :
          /\ Handle(t, new)
          /\ \A v \in new : \/ v = Now(DopEvent("IscUnlockRead", t.event.id))
                            \/ v \in NextLoad(pbsQueue, memory, bound')
                            \/ v = LaunchBatch(hint)
    <3>1. PICK hint : hint = WhatNow(memory, bound')
      OBVIOUS
    <3>2. Handle(t,
            {Now(DopEvent("IscUnlockRead", t.event.id))}
            \cup NextLoad(pbsQueue, memory, bound')
            \cup (IF hint.hint = "MustLaunchBatch" THEN {LaunchBatch(hint)} ELSE {}))
      BY <3>1, Handlers DEF LandLoad
    <3> QED
      BY <3>2
  <2>2. \A v \in NextLoad(pbsQueue, memory, bound') :
          /\ v = Now(Event("PePbsLaunchLoadMemory"))
          /\ pbsQueue # <<>> /\ Len(memory) # PbsMemoryCapacity
    BY DEF NextLoad
  <2>3. u \in new
    BY <1>5, <2>1 DEF Handle
  <2> QED
    BY <2>1, <2>2, <2>3 DEF Now, After, DopEvent, LaunchBatch, BatchEvent, Event
<1>6. ASSUME NEW u \in triggers' PROVE PbsExpects(u)'
  <2>1. CASE u \in triggers /\ u # t
    <3>1. u.event.type # "PePbsLandLoadMemory"
      BY <1>0, <2>1, PbsAlone
    <3>2. u.event.type # "PePbsLaunchLoadMemory"
      BY <1>3, <2>1, PbsNumbers DEF PbsExpects, LaunchLoadAsserts, MayLoad, NLoading
    <3> QED
      BY <1>0, <1>2, <2>1, <3>1, <3>2, PbsNumbers DEF PbsExpects, LandUnloadAsserts, NUnloading, NWorking
  <2>2. CASE u \notin triggers \/ u = t
    <3>1. NLoading' = 0
      BY <1>0, <1>2, <1>3, PbsNumbers DEF NLoading
    <3> QED
      BY <1>0, <1>5, <2>2, <3>1 DEF PbsExpects, LaunchLoadAsserts, MayLoad
  <2> QED
    BY <2>1, <2>2
<1>7. ASSUME NEW type, type # "PePbsLandLoadMemory" PROVE Pending(type) # {} => Pending(type)' # {}
  BY <1>7 DEF Pending, Pops
<1>8. ~ (NLoading' > 0) /\ NWorking' = NWorking /\ NUnloading' = NUnloading
  BY <1>0, <1>2, <1>3, PbsNumbers DEF NLoading, NWorking, NUnloading
<1>9. PbsEnds' /\ TimerArmed'
  BY <1>0, <1>7, <1>8, PbsNumbers DEF PbsEnds, TimerArmed
<1>z. NoTimerAtWork'
  BY <1>0, <1>8, PbsNumbers DEF NoTimerAtWork
<1> QED
  BY <1>4, <1>6, <1>9, <1>z DEF PbsInv

(* A timer ends: what waits may be launched, and the timer rests.          *)
LEMMA PbsTimedOut ==
  ASSUME HpuInv, NEW t \in Ready, HandleEvent(t), Pops(t), t.event.type = "PePbsTimeout"
  PROVE  PbsInv'
<1>0. t \in triggers /\ UNCHANGED <<pbsQueue, memory, bound>> /\ timeoutRunning' = FALSE
  BY UntouchedPes, Handlers DEF Ready, Timeout
<1>1. PbsBounds'
  BY <1>0, PbsNumbers DEF PbsBounds
<1>2. ASSUME NEW u \in triggers' PROVE PbsExpects(u)'
  <2>1. CASE u \in triggers
    BY <1>0, <2>1, PbsNumbers
       DEF PbsExpects, LaunchLoadAsserts, LandLoadAsserts, LandUnloadAsserts, MayLoad, NLoading, NWorking, NUnloading
  <2>2. CASE u \notin triggers
    <3>1. u.event.type = "PePbsLaunchProcessing"
      BY <2>2 DEF Pops, Emits
    <3> QED
      BY <3>1 DEF PbsExpects
  <2> QED
    BY <2>1, <2>2
<1>3. ASSUME NEW type, type # "PePbsTimeout" PROVE Pending(type) # {} => Pending(type)' # {}
  BY <1>3 DEF Pending, Pops
<1>4. PbsEnds' /\ TimerArmed'
  BY <1>0, <1>3, PbsNumbers DEF PbsEnds, TimerArmed, NLoading, NWorking, NUnloading
<1>z. NoTimerAtWork'
  BY <1>0 DEF NoTimerAtWork
<1> QED
  BY <1>1, <1>2, <1>4, <1>z DEF PbsInv

(* A batch starts: all its DOps come to work at once.                      *)
LEMMA PbsLaunched ==
  ASSUME HpuInv, NEW t \in Ready, HandleEvent(t), Pops(t), t.event.type = "PePbsLaunchProcessing"
  PROVE  PbsInv'
<1> DEFINE n == t.event.size
           L == After(ProcessingLatency(n), BatchEvent("PePbsLandProcessing", n))
<1>0. /\ t \in triggers /\ TriggersOK /\ UNCHANGED <<pbsQueue, memory>> /\ timeoutRunning' = FALSE
      /\ Handle(t, {L}) /\ NWaiting >= n /\ NWorking = 0 /\ n > 0
      /\ bound' = [bound EXCEPT !.working = @ + n]
  BY UntouchedPes, Handlers DEF Ready, LaunchProcessing, LaunchProcessingAsserts, HpuInv, HpuTypeOK
<1>1. n \in Nat
  BY <1>0, EventShape DEF SizeTypes
<1>2. L.event.type = "PePbsLandProcessing" /\ L.event.size = n
  BY DEF After, BatchEvent
<1> HIDE DEF n, L
<1>3. /\ bound'.waiting = bound.waiting /\ bound'.working = bound.working + n
      /\ bound'.parking = bound.parking /\ bound'.unloading = bound.unloading
  BY <1>0, PbsNumbers DEF Areas
<1>4. PbsBounds'
  BY <1>0, <1>1, <1>3, PbsNumbers DEF PbsBounds, NWaiting, NWorking
<1>5. ASSUME NEW u \in triggers' PROVE PbsExpects(u)'
  <2>1. CASE u \in triggers
    <3>1. u.event.type # "PePbsLandProcessing"
      BY <1>0, <2>1, PbsNumbers DEF PbsExpects
    <3> QED
      BY <1>0, <1>3, <2>1, <3>1, PbsNumbers
         DEF PbsExpects, LaunchLoadAsserts, LandLoadAsserts, LandUnloadAsserts, MayLoad, NLoading, NUnloading
  <2>2. CASE u = L
    BY <1>0, <1>1, <1>2, <1>3, <2>2, PbsNumbers DEF PbsExpects, NWorking
  <2> QED
    BY <1>0, <2>1, <2>2 DEF Handle
<1>6. ASSUME NEW type, type # "PePbsLaunchProcessing" PROVE Pending(type) # {} => Pending(type)' # {}
  BY <1>6 DEF Pending, Pops
<1>7. Pending("PePbsLandProcessing")' # {}
  BY <1>0, <1>2 DEF Pending, Handle
<1>8. PbsEnds' /\ TimerArmed'
  BY <1>0, <1>3, <1>6, <1>7, PbsNumbers DEF PbsEnds, TimerArmed, NLoading, NUnloading
<1>z. NoTimerAtWork'
  BY <1>0 DEF NoTimerAtWork
<1> QED
  BY <1>4, <1>5, <1>8, <1>z DEF PbsInv

(* A batch ends: its DOps are parked, and a new one may start.             *)
LEMMA PbsLanded ==
  ASSUME HpuInv, NEW t \in Ready, HandleEvent(t), Pops(t), t.event.type = "PePbsLandProcessing"
  PROVE  PbsInv'
<1>0. /\ t \in triggers /\ UNCHANGED <<pbsQueue, memory>>
      /\ bound' = [bound EXCEPT !.parking = bound.working]
  BY UntouchedPes, Handlers DEF Ready, LandProcessing
<1>1. /\ bound'.waiting = bound.waiting /\ bound'.working = bound.working
      /\ bound'.parking = bound.working /\ bound'.unloading = bound.unloading
  BY <1>0, PbsNumbers DEF Areas
<1>2. PbsBounds'
  BY <1>0, <1>1, PbsNumbers DEF PbsBounds
<1>3. ASSUME NEW u \in triggers' PROVE PbsExpects(u)'
  <2>1. CASE u \in triggers /\ u # t
    <3>1. u.event.type # "PePbsLandProcessing"
      BY <1>0, <2>1, PbsAlone
    <3> QED
      BY <1>0, <1>1, <2>1, <3>1, PbsNumbers
         DEF PbsExpects, LaunchLoadAsserts, LandLoadAsserts, LandUnloadAsserts, MayLoad, NLoading, NUnloading
  <2>2. CASE u \notin triggers \/ u = t
    <3>1. u.event.type \in {"PePbsLaunchUnloadMemory", "PePbsLaunchProcessing", "PePbsTimeout"}
      BY <2>2 DEF Pops, Emits
    <3> QED
      BY <3>1 DEF PbsExpects
  <2> QED
    BY <2>1, <2>2
<1>4. ASSUME NEW type, type # "PePbsLandProcessing" PROVE Pending(type) # {} => Pending(type)' # {}
  BY <1>4 DEF Pending, Pops
<1>a. ~ (NWorking' > 0) /\ NLoading' = NLoading /\ NUnloading' = NUnloading
  BY <1>0, <1>1, PbsNumbers DEF NLoading, NWorking, NUnloading
<1>5. PbsEnds'
  BY <1>4, <1>a, PbsNumbers DEF PbsEnds
<1>6. TimerArmed'
  <2> DEFINE X == After(PbsTimeout, Event("PePbsTimeout"))
  <2>1. PICK hint : hint = LandProcessingHint
    OBVIOUS
  <2>2. /\ timeoutRunning' = CASE hint.hint = "CanLaunchIncompleteBatch" -> TRUE
                               [] hint.hint = "NoWaitings" -> FALSE
                               [] OTHER -> timeoutRunning
        /\ Handle(t,
            {Now(Event("PePbsLaunchUnloadMemory"))}
            \cup (CASE hint.hint = "MustLaunchBatch" -> {LaunchBatch(hint)}
                    [] hint.hint = "CanLaunchIncompleteBatch" -> {X}
                    [] OTHER -> {}))
    BY <2>1, Handlers DEF LandProcessing
  <2>3. CASE hint.hint = "CanLaunchIncompleteBatch"
    <3>1. X \in triggers'
      BY <2>2, <2>3 DEF Handle
    <3> QED
      BY <3>1 DEF TimerArmed, Pending, After, Event
  <2>4. CASE hint.hint # "CanLaunchIncompleteBatch"
    <3>1. timeoutRunning' => timeoutRunning
      BY <2>2, <2>4
    <3> QED
      BY <1>4, <3>1, PbsNumbers DEF TimerArmed
  <2> QED
    BY <2>3, <2>4
<1>z. NoTimerAtWork'
  BY <1>a DEF NoTimerAtWork
<1> QED
  BY <1>2, <1>3, <1>5, <1>6, <1>z DEF PbsInv

(* An unload starts: the front of the parked DOps leaves.                  *)
LEMMA PbsUnloading ==
  ASSUME HpuInv, NEW t \in Ready, HandleEvent(t), Pops(t), t.event.type = "PePbsLaunchUnloadMemory"
  PROVE  PbsInv'
<1>0. /\ t \in triggers /\ UNCHANGED <<pbsQueue, memory, timeoutRunning>>
      /\ bound' = [bound EXCEPT !.unloading = @ + 1] /\ NParking > 0 /\ NUnloading = 0
  BY UntouchedPes, Handlers DEF Ready, LaunchUnload, LaunchUnloadAsserts
<1>1. /\ bound'.waiting = bound.waiting /\ bound'.working = bound.working
      /\ bound'.parking = bound.parking /\ bound'.unloading = 1 /\ bound.unloading = 0
  BY <1>0, PbsNumbers DEF Areas, NUnloading
<1>2. PbsBounds'
  BY <1>0, <1>1, PbsNumbers DEF PbsBounds, NParking
<1>3. PICK at : Handle(t, {[at |-> at, event |-> DopEvent("PePbsLandUnloadMemory", memory[1])]})
  <2>1. PICK d : d = memory[bound.unloading + 1]
    OBVIOUS
  <2>2. Handle(t, {After(LoadUnloadLatency * NumberOutputs(prog[d]), DopEvent("PePbsLandUnloadMemory", d))})
    BY <2>1, Handlers DEF LaunchUnload
  <2>3. d = memory[1]
    BY <1>1, <2>1
  <2> QED
    BY <2>2, <2>3 DEF After
<1> DEFINE L == [at |-> at, event |-> DopEvent("PePbsLandUnloadMemory", memory[1])]
<1>4. L.event.type = "PePbsLandUnloadMemory" /\ L.event.id = memory[1]
  BY DEF DopEvent
<1> HIDE DEF L
<1>a. L \in triggers' /\ \A u \in triggers' : u \in triggers \/ u = L
  BY <1>3 DEF Handle, L
<1>5. ASSUME NEW u \in triggers' PROVE PbsExpects(u)'
  <2>1. CASE u \in triggers
    <3>1. u.event.type # "PePbsLandUnloadMemory"
      BY <1>1, <2>1, PbsNumbers DEF PbsExpects, LandUnloadAsserts, NUnloading
    <3> QED
      BY <1>0, <1>1, <2>1, <3>1, PbsNumbers
         DEF PbsExpects, LaunchLoadAsserts, LandLoadAsserts, MayLoad, NLoading, NWorking
  <2>2. CASE u = L
    BY <1>0, <1>1, <1>4, <2>2 DEF PbsExpects, LandUnloadAsserts, NUnloading
  <2> QED
    BY <1>a, <2>1, <2>2
<1>6. ASSUME NEW type, type # "PePbsLaunchUnloadMemory" PROVE Pending(type) # {} => Pending(type)' # {}
  BY <1>6 DEF Pending, Pops
<1>7. Pending("PePbsLandUnloadMemory")' # {}
  BY <1>a, <1>4 DEF Pending
<1>8. PbsEnds' /\ TimerArmed'
  BY <1>0, <1>1, <1>6, <1>7, PbsNumbers DEF PbsEnds, TimerArmed, NLoading, NWorking
<1>z. NoTimerAtWork'
  BY <1>0, <1>1, PbsNumbers DEF NoTimerAtWork, NWorking
<1> QED
  BY <1>2, <1>5, <1>8, <1>z DEF PbsInv

(* An unload lands: the memory loses its front, and everything moves up.   *)
LEMMA PbsUnloaded ==
  ASSUME HpuInv, NEW t \in Ready, HandleEvent(t), Pops(t), t.event.type = "PePbsLandUnloadMemory"
  PROVE  PbsInv'
<1>0. /\ t \in triggers /\ UNCHANGED <<pbsQueue, timeoutRunning>> /\ memory' = Tail(memory)
      /\ bound' = [area \in DOMAIN bound |-> bound[area] - 1] /\ bound.unloading > 0
  BY UntouchedPes, Handlers DEF Ready, LandUnload, LandUnloadAsserts, NUnloading
<1>1. /\ bound'.waiting = bound.waiting - 1 /\ bound'.working = bound.working - 1
      /\ bound'.parking = bound.parking - 1 /\ bound'.unloading = 0 /\ bound.unloading = 1
  BY <1>0, PbsNumbers DEF Areas, PbsBounds
<1>2. Len(memory) >= 1
  BY <1>1, PbsNumbers DEF PbsBounds
<1>3. Len(memory') = Len(memory) - 1 /\ \A k \in 1 .. Len(memory') : memory'[k] = memory[k + 1]
  <2>1. memory # <<>>
    BY <1>2, PbsNumbers
  <2> QED
    BY <1>0, <2>1, PbsNumbers, HeadTail
<1>b. pbsQueue' = pbsQueue
  BY <1>0
<1>e. /\ Len(memory') = Len(memory) - 1 /\ Len(memory) \in Nat
      /\ bound.waiting \in Nat /\ bound.working \in Nat /\ bound.parking \in Nat /\ bound.unloading \in Nat
      /\ bound.unloading <= bound.parking
      /\ bound.parking <= bound.working /\ bound.working <= bound.waiting
      /\ bound.waiting <= Len(memory) /\ Len(memory) <= bound.waiting + 1
      /\ Len(memory) <= PbsMemoryCapacity /\ PbsMemoryCapacity \in Nat
  BY <1>3, PbsNumbers, PbsAssumption DEF PbsBounds
<1>c. /\ bound.parking >= 1 /\ bound'.parking >= 0
      /\ bound'.parking <= bound'.working /\ bound'.working <= bound'.waiting
      /\ bound'.waiting <= Len(memory') /\ Len(memory') <= bound'.waiting + 1
      /\ Len(memory') <= PbsMemoryCapacity
  BY <1>1, <1>e
<1>4. PbsBounds'
  BY <1>1, <1>b, <1>c, PbsNumbers DEF PbsBounds
<1>d. NLoading' = NLoading /\ NWorking' = NWorking /\ ~ (NUnloading' > 0)
  <2>1. NLoading' = NLoading
    BY <1>1, <1>e DEF NLoading
  <2>2. NWorking' = NWorking
    BY <1>1, <1>e DEF NWorking
  <2>3. NUnloading' = 0
    BY <1>1 DEF NUnloading
  <2> QED
    BY <2>1, <2>2, <2>3
<1>5. ASSUME NEW u \in triggers', u \notin triggers \/ u = t
      PROVE  /\ u.event.type \in {"IscUnlockWrite", "PePbsLaunchUnloadMemory", "PePbsLaunchLoadMemory"}
             /\ u.event.type = "PePbsLaunchLoadMemory" => LaunchLoadAsserts'
  <2>1. PICK new :
          /\ Handle(t, new)
          /\ \A v \in new : \/ v = Now(DopEvent("IscUnlockWrite", Head(memory)))
                            \/ v = Now(Event("PePbsLaunchUnloadMemory"))
                            \/ v \in NextLoad(pbsQueue, memory', bound')
    BY Handlers DEF LandUnload
  <2>2. \A v \in NextLoad(pbsQueue, memory', bound') :
          /\ v = Now(Event("PePbsLaunchLoadMemory"))
          /\ pbsQueue # <<>> /\ Len(memory') # PbsMemoryCapacity /\ Len(memory') = bound'.waiting
    BY DEF NextLoad
  <2>3. u \in new
    BY <1>5, <2>1 DEF Handle
  <2>4. CASE u \in NextLoad(pbsQueue, memory', bound')
    <3>1. LaunchLoadAsserts'
      BY <1>0, <1>1, <2>2, <2>4, PbsNumbers DEF LaunchLoadAsserts, MayLoad, NLoading
    <3> QED
      BY <2>2, <2>4, <3>1 DEF Now, After, Event
  <2> QED
    BY <2>1, <2>3, <2>4 DEF Now, After, DopEvent, Event
<1>6. ASSUME NEW u \in triggers' PROVE PbsExpects(u)'
  <2>1. CASE u \in triggers /\ u # t
    <3>1. u.event.type # "PePbsLandUnloadMemory"
      BY <1>0, <2>1, PbsAlone
    <3>2. u.event.type = "PePbsLandLoadMemory" => LandLoadAsserts' /\ u.event.id = memory'[Len(memory')]
      <4>1. ASSUME NLoading > 0 PROVE Len(memory) >= 2 /\ memory'[Len(memory')] = memory[Len(memory)]
        BY <1>1, <1>3, <4>1, PbsNumbers DEF NLoading, PbsBounds
      <4> QED
        BY <1>d, <2>1, <4>1, PbsNumbers DEF PbsExpects, LandLoadAsserts
    <3>3. u.event.type = "PePbsLaunchLoadMemory" => LaunchLoadAsserts'
      BY <1>0, <1>1, <1>2, <1>3, <2>1, PbsNumbers, PbsAssumption
         DEF PbsExpects, LaunchLoadAsserts, MayLoad, NLoading, PbsBounds
    <3> QED
      BY <1>d, <2>1, <3>1, <3>2, <3>3, PbsNumbers DEF PbsExpects
  <2>2. CASE u \notin triggers \/ u = t
    BY <1>5, <2>2 DEF PbsExpects
  <2> QED
    BY <2>1, <2>2
<1>7. ASSUME NEW type, type # "PePbsLandUnloadMemory" PROVE Pending(type) # {} => Pending(type)' # {}
  BY <1>7 DEF Pending, Pops
<1>8. PbsEnds' /\ TimerArmed'
  BY <1>0, <1>7, <1>d, PbsNumbers DEF PbsEnds, TimerArmed
<1>z. NoTimerAtWork'
  BY <1>0, <1>d, PbsNumbers DEF NoTimerAtWork
<1> QED
  BY <1>4, <1>6, <1>8, <1>z DEF PbsInv

(* Every handler keeps the PBS element's memory in order.                  *)
LEMMA PopPbs ==
  ASSUME HpuInv, NEW t \in Ready, HandleEvent(t), Pops(t)
  PROVE  PbsInv'
<1>1. CASE t.event.type \in {"PePbsLaunchLoadMemory", "PePbsLandLoadMemory", "PePbsTimeout", "PePbsLaunchProcessing",
                             "PePbsLandProcessing", "PePbsLaunchUnloadMemory", "PePbsLandUnloadMemory"}
  BY <1>1, PbsLoading, PbsLoaded, PbsTimedOut, PbsLaunched, PbsLanded, PbsUnloading, PbsUnloaded
<1>2. CASE t.event.type = "IscIssueDOp"
  <2>1. CASE PbsIssue(t, t.event.id)
    BY <1>2, <2>1, PbsIssued
  <2>2. CASE ~ PbsIssue(t, t.event.id)
    <3> DEFINE lane == Affinity(prog[t.event.id])
    <3>1. pbsVars' = pbsVars /\ (LaneIssue(t, lane, t.event.id) \/ CtlIssue(t, t.event.id))
      BY <1>2, <2>2, Handlers DEF OnIssueDOp
    <3> HIDE DEF lane
    <3>2. \E new : /\ Handle(t, new)
                   /\ \A u \in new : u.event.type \notin PbsEvents
      BY <3>1 DEF LaneIssue, CtlIssue, PbsEvents, Now, After, DopEvent, LaneEvent
    <3>3. \A u \in triggers' : u.event.type \in PbsEvents => u \in triggers
      BY <3>2 DEF Handle
    <3>4. \A u \in triggers : u.event.type \in PbsEvents => u \in triggers'
      BY <1>2 DEF PbsEvents, Pops
    <3> QED
      BY <3>1, <3>3, <3>4, PbsQuiet
  <2> QED
    BY <2>1, <2>2
<1>3. CASE t.event.type \notin {"IscIssueDOp", "PePbsLaunchLoadMemory", "PePbsLandLoadMemory", "PePbsTimeout",
                                "PePbsLaunchProcessing", "PePbsLandProcessing", "PePbsLaunchUnloadMemory",
                                "PePbsLandUnloadMemory"}
  <2>1. pbsVars' = pbsVars
    BY <1>3, UntouchedPes DEF pbsVars
  <2>2. \A u \in triggers' : u.event.type \in PbsEvents => u \in triggers
    BY <1>3 DEF PbsEvents, Pops, Emits
  <2>3. \A u \in triggers : u.event.type \in PbsEvents => u \in triggers'
    BY <1>3 DEF PbsEvents, Pops
  <2> QED
    BY <2>1, <2>2, <2>3, PbsQuiet
<1> QED
  BY <1>1, <1>2, <1>3

(* The end of a cycle leaves the PBS element alone.                        *)
LEMMA EndPbs ==
  ASSUME HpuInv, EndCycle
  PROVE  PbsInv'
<1>1. pbsVars' = pbsVars /\ triggers' = triggers
  BY CycleEnds DEF HpuInv, HpuTypeOK
<1> QED
  BY <1>1, PbsQuiet

-----------------------------------------------------------------------------
(* Retirement.                                                             *)

(* A step that retires nothing.                                            *)
LEMMA RetireQuiet ==
  ASSUME HpuInv, NEW t \in Ready, HandleEvent(t), Pops(t), outcome = "MayContinue",
         UNCHANGED <<pushed, processed, retired, encountered>>, Retired \subseteq Retired',
         \A u \in triggers' :
           u.event.type \in {"IscPushDOps", "IscRetireDOp", "IscProcessOver"} => u \in triggers
  PROVE  RetireInv'
<1>1. RetireInv /\ prog' = prog /\ outcome' = outcome
  BY Untouched DEF HpuInv, Pops
<1>2. Comes(Event("IscProcessOver"))' => Comes(Event("IscProcessOver"))
  BY DEF Comes, Event
<1>3. \A d : Holds(retired', d) <=> Holds(retired, d)
  BY DEF Holds
<1>4. IsInjective(retired') = IsInjective(retired)
  BY DEF IsInjective
<1> QED
  BY <1>1, <1>2, <1>3, <1>4 DEF RetireInv

(* A query retires the head of its buffer, which had not retired.          *)
LEMMA RetireQuery ==
  ASSUME HpuInv, NEW t \in Ready, HandleEvent(t), Pops(t), outcome = "MayContinue",
         t.event.type = "IscQuery"
  PROVE  RetireInv'
<1>0. /\ IscTypeOK /\ t \in triggers /\ TriggersOK
      /\ UNCHANGED <<pushed, processed, retired, encountered>> /\ outcome' = outcome
      /\ prog' = prog /\ now' = now
  BY Untouched DEF HpuInv, HpuTypeOK, Ready, Pops
<1>1. OnQuery(t)
  BY Handlers
<1>2. CASE QueryRetire
  <2>1. PICK d \in InPool : /\ HandleAndRearm(t, {Now(DopEvent("IscRetireDOp", d))})
                            /\ InPool' = InPool \ {d} /\ refilled' = refilled
    <3>1. Head(writeUnlocks) \in InPool /\ ~ MayReadUnlock /\ ~ MayRefill /\ MayRetire
      BY <1>2 DEF QueryRetire
    <3>2. InPool' = InPool \ {Head(writeUnlocks)} /\ refilled' = refilled
      BY <1>2 DEF QueryRetire, InPool
    <3>3. HandleAndRearm(t, {Now(DopEvent("IscRetireDOp", Head(writeUnlocks)))})
      BY <1>1, <3>1 DEF OnQuery, QueryReadUnlock, QueryRefill, QueryIssue, QueryIdle, NothingToDo
    <3> QED
      BY <3>1, <3>2, <3>3
  <2>2. d \in Retired' /\ d \notin Retired /\ Retired \subseteq Retired'
    BY <1>0, <2>1 DEF Retired, IscTypeOK
  <2>3. ~ Holds(retired, d)
    BY <2>2 DEF HpuInv, RetireInv, Holds
  <2>4. ASSUME NEW u \in triggers', u.event.type \in {"IscPushDOps", "IscRetireDOp", "IscProcessOver"}
        PROVE  u \in triggers \/ u = Now(DopEvent("IscRetireDOp", d))
    BY <1>0, <2>1, <2>4, Rearm DEF HandleAndRearm, Handle, After, Event
  <2>5. ASSUME NEW u \in triggers', u.event.type = "IscRetireDOp"
        PROVE  u.event.id \in Retired' /\ ~ Holds(retired', u.event.id)
    <3>1. CASE u \in triggers
      BY <1>0, <2>2, <2>5, <3>1 DEF HpuInv, RetireInv
    <3>2. CASE u = Now(DopEvent("IscRetireDOp", d))
      BY <1>0, <2>2, <2>3, <3>2 DEF Now, After, DopEvent
    <3> QED
      BY <2>4, <2>5, <3>1, <3>2
  <2>6. \A u \in triggers' : u.event.type = "IscPushDOps" => u \in triggers
    BY <2>4 DEF Now, After, DopEvent
  <2>7. Comes(Event("IscProcessOver"))' => Comes(Event("IscProcessOver"))
    BY <2>4 DEF Comes, Event, Now, After, DopEvent
  <2>8. RetireInv
    BY DEF HpuInv
  <2> QED
    BY <1>0, <2>2, <2>5, <2>6, <2>7, <2>8 DEF RetireInv
<1>3. CASE ~ QueryRetire
  <2>1. Retired \subseteq Retired'
    <3>1. CASE QueryRefill
      <4>1. InPool' = InPool \cup {refilled + 1} /\ refilled' = refilled + 1
        BY <3>1 DEF QueryRefill, InPool
      <4> QED
        BY <1>0, <4>1 DEF Retired, IscTypeOK
    <3>2. CASE ~ QueryRefill
      <4>1. InPool' = InPool /\ refilled' = refilled
        BY <1>1, <1>3, <3>2 DEF OnQuery, QueryReadUnlock, QueryIssue, QueryIdle, iscVars, schedulerVars, InPool
      <4> QED
        BY <4>1 DEF Retired
    <3> QED
      BY <3>1, <3>2
  <2>2. \A u \in triggers' :
          u.event.type \in {"IscPushDOps", "IscRetireDOp", "IscProcessOver"} => u \in triggers
    <3> DEFINE Good(new) == /\ HandleAndRearm(t, new) \/ Handle(t, new)
                            /\ \A u \in new : u.event.type = "IscIssueDOp"
    <3>1. \E new : Good(new)
      <4>1. CASE HandleAndRearm(t, {}) \/ Handle(t, {})
        <5>1. Good({})
          BY <4>1
        <5> QED
          BY <5>1
      <4>2. ASSUME NEW d \in InPool, HandleAndRearm(t, {Now(DopEvent("IscIssueDOp", d))})
            PROVE  \E new : Good(new)
        <5>1. Good({Now(DopEvent("IscIssueDOp", d))})
          BY <4>2 DEF Now, After, DopEvent
        <5> QED
          BY <5>1
      <4> QED
        BY <1>1, <1>3, <4>1, <4>2 DEF OnQuery
    <3>2. PICK new : Good(new)
      BY <3>1
    <3> QED
      BY <1>0, <3>2, Rearm DEF HandleAndRearm, Handle, After, Event
  <2> QED
    BY <1>0, <2>1, <2>2, RetireQuiet
<1> QED
  BY <1>2, <1>3

(* A DOp retires, and the process is over with the last one.               *)
LEMMA RetireRetired ==
  ASSUME HpuInv, NEW t \in Ready, HandleEvent(t), Pops(t), outcome = "MayContinue",
         t.event.type = "IscRetireDOp"
  PROVE  RetireInv'
<1> DEFINE d == t.event.id
           over == After(1, Event("IscProcessOver"))
<1>0. /\ IscTypeOK /\ t \in triggers /\ TriggersOK /\ RetireInv /\ Once /\ retired \in Seq(Ids)
      /\ UNCHANGED <<pushed, encountered>> /\ outcome' = outcome
      /\ prog' = prog /\ now' = now
  BY Untouched DEF HpuInv, HpuTypeOK, Ready, Pops
<1>1. /\ OnRetireDOp(t) /\ retired' = Append(retired, d)
      /\ processed < pushed /\ processed' = processed + 1 /\ Retired' = Retired
  BY Handlers DEF OnRetireDOp, RetireDOp, Retired, InPool
<1>2. d \in Ids /\ d \in Retired /\ ~ Holds(retired, d) /\ t.event = DopEvent("IscRetireDOp", d)
  BY <1>0, EventShape DEF DopTypes, RetireInv
<1>3. ASSUME NEW u \in triggers', u \notin triggers \/ u = t, u.event.type # "IscQuery"
      PROVE  u = over /\ processed' = pushed
  <2>1. PICK new : /\ HandleAndRearm(t, new)
                   /\ \A v \in new : v = over /\ processed' = pushed
    BY <1>1 DEF OnRetireDOp
  <2>2. u \in new
    BY <1>0, <1>3, <2>1, Rearm DEF HandleAndRearm, Handle, After, Event
  <2> QED
    BY <2>1, <2>2
<1>4. over.event = Event("IscProcessOver") /\ over.event.type = "IscProcessOver"
  BY DEF After, Event
<1> HIDE DEF d, over
<1>5. /\ processed \in Nat /\ pushed \in Nat /\ pushed = Len(prog)
      /\ ~ encountered /\ ~ Comes(Event("IscProcessOver"))
  <2>1. processed \in Nat /\ pushed \in Nat
    BY <1>0, PoolInIds DEF IscTypeOK
  <2>2. pushed # 0 /\ processed # pushed
    BY <1>1, <2>1
  <2> QED
    BY <1>0, <2>1, <2>2 DEF RetireInv
<1>6. /\ Len(retired') = processed' /\ IsInjective(retired')
      /\ \A e : Holds(retired', e) <=> Holds(retired, e) \/ e = d
  BY <1>0, <1>1, <1>2, HoldsAppend, AppendSeq DEF RetireInv
<1>7. \A k \in DOMAIN retired' : retired'[k] \in Retired'
  <2>1. \A e : Holds(retired', e) => e \in Retired'
    BY <1>0, <1>1, <1>2, <1>6 DEF RetireInv, Holds
  <2> QED
    BY <2>1 DEF Holds
<1>8. ASSUME NEW u \in triggers', u.event.type = "IscRetireDOp"
      PROVE  u.event.id \in Retired' /\ ~ Holds(retired', u.event.id)
  <2>1. u \in triggers /\ u # t
    BY <1>3, <1>4, <1>8
  <2>2. u.event = DopEvent("IscRetireDOp", u.event.id)
    BY <1>0, <1>8, <2>1, EventShape DEF DopTypes
  <2>3. u.event # t.event
    BY <1>0, <1>8, <2>1 DEF Once
  <2>4. u.event.id # d
    BY <1>2, <2>2, <2>3
  <2> QED
    BY <1>0, <1>1, <1>6, <1>8, <2>1, <2>4 DEF RetireInv
<1>9. \A u \in triggers' : u.event.type = "IscPushDOps" => u \in triggers
  BY <1>3, <1>4
<1>10. encountered' \/ Comes(Event("IscProcessOver"))' => processed' = Len(prog)
  <2>1. ASSUME NEW u \in triggers', u.event = Event("IscProcessOver") PROVE processed' = pushed
    <3>1. u \notin triggers /\ u.event.type # "IscQuery"
      BY <1>5, <2>1 DEF Comes, Event
    <3> QED
      BY <1>3, <3>1
  <2> QED
    BY <1>0, <1>5, <2>1 DEF Comes
<1> QED
  BY <1>0, <1>5, <1>6, <1>7, <1>8, <1>9, <1>10 DEF RetireInv

(* The program is pushed once.                                             *)
LEMMA RetirePushed ==
  ASSUME HpuInv, NEW t \in Ready, HandleEvent(t), Pops(t), outcome = "MayContinue",
         t.event.type = "IscPushDOps"
  PROVE  RetireInv'
<1>0. /\ IscTypeOK /\ t \in triggers /\ TriggersOK /\ RetireInv /\ Once
      /\ UNCHANGED <<retired, processed, encountered>> /\ outcome' = outcome
      /\ prog' = prog
  BY Untouched DEF HpuInv, HpuTypeOK, Ready, Pops
<1>1. pushed' = pushed + t.event.size /\ Retired' = Retired
  BY Handlers DEF OnPushDOps, PushDOps, Retired, InPool
<1>2. /\ pushed = 0 /\ t.event.size = Len(prog) /\ Len(prog) \in Nat
      /\ t.event = BatchEvent("IscPushDOps", Len(prog))
  BY <1>0, EventShape, PoolInIds DEF SizeTypes, RetireInv
<1>3. ASSUME NEW u \in triggers', u.event.type # "IscQuery" PROVE u \in triggers /\ u # t
  BY <1>3 DEF Pops, Emits
<1>4. \A u \in triggers' : u.event.type # "IscPushDOps"
  <2> SUFFICES ASSUME NEW u \in triggers', u.event.type = "IscPushDOps" PROVE FALSE
    OBVIOUS
  <2>1. u \in triggers /\ u # t
    BY <1>3
  <2>2. u.event = BatchEvent("IscPushDOps", Len(prog))
    BY <1>0, <2>1, EventShape DEF SizeTypes, RetireInv
  <2> QED
    BY <1>0, <1>2, <2>1, <2>2 DEF Once
<1>5. Comes(Event("IscProcessOver"))' => Comes(Event("IscProcessOver"))
  BY <1>3 DEF Comes, Event
<1>6. \A u \in triggers' : u.event.type = "IscRetireDOp" => u \in triggers
  BY <1>3
<1>7. pushed' = Len(prog)
  BY <1>1, <1>2
<1> QED
  BY <1>0, <1>1, <1>4, <1>5, <1>6, <1>7 DEF RetireInv

(* The end of the process is heard.                                        *)
LEMMA RetireOver ==
  ASSUME HpuInv, NEW t \in Ready, HandleEvent(t), Pops(t), outcome = "MayContinue",
         t.event.type = "IscProcessOver"
  PROVE  RetireInv'
<1>0. /\ t \in triggers /\ TriggersOK /\ RetireInv
      /\ UNCHANGED <<retired, processed, pushed, refilled, pool>> /\ outcome' = outcome
      /\ prog' = prog
  BY Untouched DEF HpuInv, HpuTypeOK, Ready, Pops
<1>1. Comes(Event("IscProcessOver")) /\ Retired' = Retired
  BY <1>0, EventShape DEF Comes, PlainTypes, Retired, InPool
<1>2. \A u \in triggers' : u \in triggers
  BY DEF Pops, Emits
<1> QED
  BY <1>0, <1>1, <1>2 DEF RetireInv

(* Every handler keeps the account of what has retired.                    *)
LEMMA PopRetire ==
  ASSUME HpuInv, NEW t \in Ready, HandleEvent(t), Pops(t), outcome = "MayContinue"
  PROVE  RetireInv'
<1>1. CASE t.event.type \in {"IscQuery", "IscRetireDOp", "IscPushDOps", "IscProcessOver"}
  BY <1>1, RetireQuery, RetireRetired, RetirePushed, RetireOver
<1>2. CASE t.event.type \notin {"IscQuery", "IscRetireDOp", "IscPushDOps", "IscProcessOver"}
  <2>1. InPool' = InPool
    <3>1. CASE t.event.type = "IscUnlockIssue"
      BY <3>1, Handlers DEF UnlockIssue, InPool
    <3>2. CASE t.event.type # "IscUnlockIssue"
      BY <1>2, <3>2, Untouched DEF InPool
    <3> QED
      BY <3>1, <3>2
  <2>2. UNCHANGED <<pushed, processed, retired, encountered>> /\ Retired' = Retired
    BY <1>2, <2>1, Untouched DEF Retired
  <2>3. \A u \in triggers' :
          u.event.type \in {"IscPushDOps", "IscRetireDOp", "IscProcessOver"} => u \in triggers
    BY <1>2 DEF Pops, Emits
  <2> QED
    BY <2>2, <2>3, RetireQuiet
<1> QED
  BY <1>1, <1>2

(* The simulation ends after the last event of a cycle.                    *)
LEMMA EndRetire ==
  ASSUME HpuInv, EndCycle
  PROVE  RetireInv'
<1>1. /\ UNCHANGED <<triggers, iscVars, retired, encountered>>
      /\ Ready = {} /\ (outcome' = "CondEncountered" => encountered /\ now' = now)
  BY CycleEnds DEF HpuInv, HpuTypeOK
<1>2. UNCHANGED <<prog, pushed, processed>> /\ Retired' = Retired
  BY <1>1 DEF iscVars, schedulerVars, Retired, InPool
<1>3. outcome' = "CondEncountered" => encountered' /\ Ready' = {}
  BY <1>1 DEF Ready
<1> QED
  BY <1>1, <1>2, <1>3 DEF HpuInv, RetireInv, Comes

-----------------------------------------------------------------------------
(* The initial states.                                                     *)

(* The invariant holds when the simulation starts: all that is pending is  *)
(* the program to push.                                                    *)
LEMMA HpuInvInit ==
  ASSUME HpuInit
  PROVE  HpuInv
<1> DEFINE push == [at |-> 0, event |-> BatchEvent("IscPushDOps", Len(prog))]
           query == [at |-> 1, event |-> Event("IscQuery")]
<1>0. IscTypeOK /\ IscInv /\ Len(prog) \in Nat
  <2>1. IscTypeOK /\ IscInv
    BY TypeInit, SchedulerInvInit DEF HpuInit, SchedulerInv
  <2> QED
    BY <2>1, PoolInIds
<1>1. /\ now = 0 /\ triggers = {push, query}
      /\ push.event = BatchEvent("IscPushDOps", Len(prog)) /\ push.event.type = "IscPushDOps"
      /\ push.event.size = Len(prog) /\ push.at = 0 /\ push = [at |-> 0, event |-> push.event]
      /\ query.event = Event("IscQuery") /\ query.event.type = "IscQuery"
      /\ query.at = 1 /\ query = [at |-> 1, event |-> query.event]
  BY DEF HpuInit, DispatcherInit, BatchEvent, Event
<1>2. /\ InPool = {} /\ issued = {} /\ readDone = {} /\ writeDone = {} /\ pushed = 0 /\ processed = 0
      /\ readUnlocks = <<>> /\ writeUnlocks = <<>> /\ tracker = [lane \in TrackedLanes |-> TRUE]
  BY DEF HpuInit, IscInit, InPool
<1>3. /\ queue = [lane \in Lanes |-> <<>>] /\ current = [lane \in Lanes |-> NoDop]
      /\ pbsQueue = <<>> /\ memory = <<>> /\ timeoutRunning = FALSE
      /\ bound = [waiting |-> 0, working |-> 0, parking |-> 0, unloading |-> 0]
  BY DEF HpuInit, LanesInit, PbsInit
<1>4. retired = <<>> /\ encountered = FALSE /\ outcome = "MayContinue"
  BY DEF HpuInit
<1>5. TriggersOK
  <2>1. TriggerOK(push)
    BY <1>0, <1>1 DEF TriggerOK, EventOK, SizeTypes, NowTypes
  <2>2. TriggerOK(query)
    BY <1>1 DEF TriggerOK, EventOK, PlainTypes, NowTypes
  <2> QED
    BY <1>1, <2>1, <2>2 DEF TriggersOK
<1> HIDE DEF push, query
<1>6. HpuTypeOK
  <2>1. queue \in [Lanes -> Seq(Ids)] /\ current \in [Lanes -> Ids \cup {NoDop}]
    BY <1>3
  <2>2. bound \in [Areas -> Nat]
    BY <1>3 DEF Areas
  <2> QED
    <3>1. pbsQueue \in Seq(Ids) /\ memory \in Seq(Ids) /\ retired \in Seq(Ids)
      BY <1>3, <1>4
    <3>2. timeoutRunning \in BOOLEAN /\ encountered \in BOOLEAN
      BY <1>3, <1>4
    <3>3. outcome \in {"MayContinue", "CondEncountered", "SimulationOver"}
      BY <1>4
    <3> QED
      BY <1>0, <1>5, <2>1, <2>2, <3>1, <3>2, <3>3 DEF HpuTypeOK
<1>7. Once
  BY <1>1 DEF Once
<1>8. \A type : type \notin {"IscPushDOps", "IscQuery"} => Pending(type) = {} /\ DopsOf(type) = {}
  BY <1>1 DEF Pending, DopsOf
<1>9. IssueInv
  BY <1>1, <1>2 DEF IssueInv, IssueTypes
<1>10. PlaceInv
  <2>1. \A d : ~ Holds(<<>>, d)
    BY DEF Holds
  <2>2. IsInjective(<<>>)
    BY DEF IsInjective
  <2>3. InjectiveLines
    BY <1>3, <2>2 DEF InjectiveLines
  <2>4. \A d \in Ids : PlaceAt(d)
    BY <1>2, <1>3, <1>8, <2>1 DEF PlaceAt
  <2> QED
    BY <2>3, <2>4, LinesInjective DEF PlaceInv
<1>11. ReadInv
  <2>1. ReadFirst /\ CtlAtOnce /\ WrittenRead
    BY <1>1, <1>2 DEF ReadFirst, CtlAtOnce, WrittenRead
  <2>2. MemoryRead
    BY <1>1, <1>3 DEF MemoryRead, Ready
  <2> QED
    BY <2>1, <2>2 DEF ReadInv
<1>12. BufferInv
  <2>1. \A d : ~ Holds(<<>>, d)
    BY DEF Holds
  <2>2. IsInjective(<<>>)
    BY DEF IsInjective
  <2> QED
    BY <1>2, <2>1, <2>2 DEF BufferInv
<1>13. LaneInv
  <2> SUFFICES ASSUME NEW lane \in Lanes PROVE LaneAt(lane)
    BY DEF LaneInv
  <2>1. queue[lane] = <<>> /\ current[lane] = NoDop
    BY <1>3
  <2>2. \A u \in triggers : u.event.type \in {"IscPushDOps", "IscQuery"}
    BY <1>1
  <2>3. /\ LaneEvent("PeLaunchProcessing", lane).type = "PeLaunchProcessing"
        /\ LaneEvent("PeLandProcessing", lane).type = "PeLandProcessing"
    BY DEF LaneEvent
  <2>4. Len(queue[lane]) <= QueueCapacity
    BY <2>1, LaneAssumption
  <2> QED
    BY <2>1, <2>2, <2>3, <2>4 DEF LaneAt
<1>14. AvailableInv
  <2> SUFFICES ASSUME NEW lane \in TrackedLanes PROVE AvailableAt(lane)
    BY DEF AvailableInv
  <2>1. ~ Comes(LaneEvent("PeAvailable", lane)) /\ ~ Comes(LaneEvent("PeUnavailable", lane))
    BY <1>1 DEF Comes, LaneEvent
  <2>2. ~ Full(lane)
    <3>1. Len(<<>>) = 0
      OBVIOUS
    <3>2. lane # "Pbs" => queue[lane] = <<>>
      BY <1>3 DEF TrackedLanes, Lanes
    <3> QED
      BY <1>3, <3>1, <3>2, LaneAssumption, PbsAssumption DEF Full, LaneFull, PbsQueueFull
  <2>3. \A u \in triggers : u.event.type # "IscIssueDOp"
    BY <1>1
  <2> QED
    BY <2>1, <2>2, <2>3 DEF AvailableAt
<1>15. PbsInv
  <2>1. PbsBounds
    BY <1>3, PbsAssumption DEF PbsBounds
  <2>2. \A t \in triggers : PbsExpects(t)
    BY <1>1 DEF PbsExpects
  <2>3. PbsEnds /\ TimerArmed /\ NoTimerAtWork
    BY <1>3 DEF NoTimerAtWork, PbsEnds, TimerArmed, NLoading, NWorking, NUnloading
  <2> QED
    BY <2>1, <2>2, <2>3 DEF PbsInv
<1>16. RetireInv
  <2>1. ~ Comes(Event("IscProcessOver"))
    BY <1>1 DEF Comes, Event
  <2>2. IsInjective(retired) /\ DOMAIN retired = {} /\ Len(retired) = 0
    BY <1>4 DEF IsInjective
  <2>3. \A t \in triggers : /\ t.event.type = "IscPushDOps" => t.event.size = Len(prog)
                            /\ t.event.type # "IscRetireDOp"
    BY <1>1
  <2> QED
    BY <1>2, <1>4, <2>1, <2>2, <2>3 DEF RetireInv
<1> QED
  BY <1>0, <1>6, <1>7, <1>9, <1>10, <1>11, <1>12, <1>13, <1>14, <1>15, <1>16 DEF HpuInv

(* The invariant is only about variables.                                  *)
LEMMA HpuInvSame ==
  ASSUME HpuInv, UNCHANGED vars
  PROVE  HpuInv'
<1>0. /\ UNCHANGED <<now, triggers, queue, current, pbsQueue, memory, bound, timeoutRunning>>
      /\ UNCHANGED <<retired, encountered, outcome>>
      /\ UNCHANGED <<prog, pushed, refilled, pool, tracker, readUnlocks, writeUnlocks, processed>>
      /\ UNCHANGED <<issued, readDone, writeDone>>
  BY DEF vars, iscVars, schedulerVars, historyVars, dispatcherVars, laneVars, pbsVars
<1>1. Ids' = Ids /\ InPool' = InPool /\ Ready' = Ready /\ Retired' = Retired
  BY <1>0 DEF Ids, InPool, Ready, Retired
<1>2. QueryLater' <=> QueryLater
  BY <1>0 DEF QueryLater
<1>3. \A type : DopsOf(type)' = DopsOf(type)
  BY <1>0 DEF DopsOf, Pending
<1>4. HpuTypeOK'
  <2>1. IscTypeOK'
    BY TypeStep DEF HpuInv, HpuTypeOK, vars
  <2>2. TriggersOK'
    BY <1>0, <1>1 DEF HpuInv, HpuTypeOK, TriggersOK, TriggerOK, EventOK
  <2> QED
    BY <1>0, <1>1, <2>1, <2>2 DEF HpuInv, HpuTypeOK
<1>5. Once' /\ IscInv'
  BY <1>0, IscInvStep DEF HpuInv, Once
<1>6. IssueInv'
  BY <1>0, <1>1, <1>2 DEF HpuInv, IssueInv
<1>7. PlaceInv'
  BY <1>0, <1>3, PlaceSame
<1>8. ReadInv'
  <2>1. ReadFirst' /\ CtlAtOnce' /\ WrittenRead'
    BY <1>0, <1>2 DEF HpuInv, ReadInv, ReadFirst, CtlAtOnce, WrittenRead, ReadsNow, Now, After
  <2>2. MemoryRead'
    BY <1>0, <1>1, <1>3 DEF HpuInv, ReadInv, MemoryRead, ReadsNow, Unread, Now, After
  <2> QED
    BY <2>1, <2>2 DEF ReadInv
<1>9. BufferInv'
  BY <1>0, <1>1 DEF HpuInv, BufferInv, NotLoaded, Holds, IsInjective
<1>10. LaneInv'
  BY <1>0 DEF HpuInv, LaneInv, LaneAt, Now, After
<1>11. AvailableInv'
  <2>1. \A lane : Full(lane)' = Full(lane)
    BY <1>0 DEF Full, LaneFull, PbsQueueFull
  <2> QED
    BY <1>0, <1>2, <2>1 DEF HpuInv, AvailableInv, AvailableAt, Comes
<1>12. PbsInv'
  BY <1>0, PbsQuiet DEF pbsVars
<1>13. RetireInv'
  BY <1>0, <1>1 DEF HpuInv, RetireInv, Comes, Holds, IsInjective
<1> QED
  BY <1>4, <1>5, <1>6, <1>7, <1>8, <1>9, <1>10, <1>11, <1>12, <1>13 DEF HpuInv

-----------------------------------------------------------------------------
(* The invariant, and what follows from it.                                *)

(* Every step keeps the invariant: the event that pops keeps each of its   *)
(* parts, and so does the end of a cycle.                                  *)
LEMMA HpuInvStep ==
  ASSUME HpuInv, [HpuNext]_vars
  PROVE  HpuInv'
<1>1. ASSUME NEW t \in Ready, outcome = "MayContinue", HandleEvent(t), Pops(t)
      PROVE  HpuInv'
  <2>1. HpuTypeOK' /\ Once' /\ IscInv' /\ IssueInv'
    BY <1>1, PopTypes, PopOnce, IscInvStep, PopIssue
  <2>2. PlaceInv' /\ ReadInv' /\ BufferInv'
    BY <1>1, PopPlace, PopRead, PopBuffer
  <2>3. LaneInv' /\ AvailableInv' /\ PbsInv' /\ RetireInv'
    BY <1>1, PopLane, PopAvailable, PopPbs, PopRetire
  <2> QED
    BY <2>1, <2>2, <2>3 DEF HpuInv
<1>2. CASE EndCycle
  <2>1. HpuTypeOK' /\ Once' /\ IscInv' /\ IssueInv'
    BY <1>2, EndTypes, EndOnce, IscInvStep, EndIssue
  <2>2. PlaceInv' /\ ReadInv' /\ BufferInv'
    BY <1>2, EndPlace, EndRead, EndBuffer
  <2>3. LaneInv' /\ AvailableInv' /\ PbsInv' /\ RetireInv'
    BY <1>2, EndLane, EndAvailable, EndPbs, EndRetire
  <2> QED
    BY <2>1, <2>2, <2>3 DEF HpuInv
<1>3. CASE UNCHANGED vars
  BY <1>3, HpuInvSame
<1> QED
  BY <1>1, <1>2, <1>3, HpuSteps

(* The inductive invariant of the whole HPU, event queue, scheduler, lanes *)
(* and PBS element together, holds in every simulation, whatever the order *)
(* in which the events of one cycle are handled.                           *)
THEOREM HpuInvariant == HpuSpec => []HpuInv
<1>1. HpuInit => HpuInv
  BY HpuInvInit
<1>2. HpuInv /\ [HpuNext]_vars => HpuInv'
  BY HpuInvStep
<1> QED
  BY <1>1, <1>2, PTL DEF HpuSpec

(* Every variable keeps its type: pending events are well-formed and never *)
(* in the past, and queues and memory hold DOps of the program.            *)
THEOREM HpuTypeCorrect == HpuSpec => []HpuTypeOK
<1>1. HpuInv => HpuTypeOK
  BY DEF HpuInv
<1> QED
  BY <1>1, HpuInvariant, PTL

(* The processing elements answer the scheduler as it expects. Isc lets    *)
(* any processing element answer that has been given a DOp; here the       *)
(* answers are the events of the lanes, of the control element and of the  *)
(* PBS element, and every handler is a step of Isc or leaves the scheduler *)
(* alone: an operand is reported read once, a result written once and not  *)
(* before its operands are read (but in a control instruction), and no     *)
(* query comes between an issue and its acknowledgement.                   *)
THEOREM HpuImplementsIsc == HpuSpec => IscSpec
<1>1. HpuInit => IscInit
  BY DEF HpuInit
<1>2. HpuInv /\ [HpuNext]_vars => [IscNext]_iscVars
  BY IscStep
<1> QED
  BY <1>1, <1>2, HpuInvariant, PTL DEF HpuSpec, IscSpec

(* What was proved of the scheduler alone holds of it among the real       *)
(* processing elements: no DOp is issued before the ones it depends on     *)
(* have read or written (HazardFree), a flush is issued after the PBSes of *)
(* its batch (FlushOrder), every lock names a slot that will release it    *)
(* (NoDanglingLock), and what is issued, read and written follows the data *)
(* flow of the program.                                                    *)
THEOREM HpuHazardFree == HpuSpec => []HazardFree /\ []FlushOrder /\ []NoDanglingLock /\ FollowsDataflow
BY HpuImplementsIsc, IscHazardFree, IscFlushOrder, IscNoDanglingLock, IscImplementsDataflow, PTL

(* A DOp that is in a place is there alone, issued and not written.        *)
LEMMA OnePlace ==
  ASSUME HpuInv, NEW d \in Ids, NEW p \in PlacesOf(d)
  PROVE  d \in issued \ writeDone /\ PlacesOf(d) = {p}
<1>1. PlaceAt(d)
  BY PlaceBefore
<1>2. \A place : place \in PlacesOf(d) <=>
        \/ place \in Lanes /\ Holds(queue[place], d)
        \/ place = "PbsQueue" /\ Holds(pbsQueue, d)
        \/ place = "PbsMemory" /\ Holds(memory, d)
        \/ place = "IscIssueDOp" /\ d \in DopsOf("IscIssueDOp")
        \/ place = "IscUnlockWrite" /\ d \in DopsOf("IscUnlockWrite")
  BY LineNames DEF PlacesOf
<1>3. d \in issued \ writeDone
  BY <1>1, <1>2 DEF PlaceAt, Fresh
<1>4. ASSUME NEW q \in PlacesOf(d) PROVE q = p
  BY <1>1, <1>2 DEF PlaceAt, Lanes, Unanswered
<1> QED
  BY <1>3, <1>4

(* No DOp is lost or duplicated between its issue and its write: it is in  *)
(* exactly one of the issue message, the queue of its lane, the queue or   *)
(* the memory of the PBS element, and the message that its result is       *)
(* written; and there once.                                                *)
THEOREM HpuConservation == HpuSpec => []Conservation
<1>1. HpuInv => Conservation
  <2> SUFFICES ASSUME HpuInv PROVE Conservation
    OBVIOUS
  <2>1. \A place \in DOMAIN Lines : IsInjective(Lines[place])
    BY DEF HpuInv, PlaceInv
  <2>2. ASSUME NEW d \in Ids, d \in issued \ writeDone
        PROVE  \E place \in PlacesOf(d) : PlacesOf(d) = {place}
    <3>1. PICK p : p \in PlacesOf(d)
      BY <2>2, PlaceBefore DEF PlaceAt
    <3> QED
      BY <3>1, OnePlace
  <2>3. ASSUME NEW d \in Ids, d \notin issued \ writeDone
        PROVE  PlacesOf(d) = {}
    BY <2>3, OnePlace
  <2> QED
    BY <2>1, <2>2, <2>3 DEF Conservation
<1> QED
  BY <1>1, HpuInvariant, PTL

(* What the scheduler believes of the lanes and the PBS element of its     *)
(* timer is true: at the end of a cycle, every full lane is marked         *)
(* unavailable, and a timer that is said to run has its PePbsTimeout still *)
(* to come.                                                                *)
THEOREM HpuStatusRight == HpuSpec => []StatusRight
<1>1. HpuInv => StatusRight
  <2> SUFFICES ASSUME HpuInv PROVE StatusRight
    OBVIOUS
  <2>1. ASSUME Ready = {}, NEW lane \in TrackedLanes, Full(lane), tracker[lane]
        PROVE  FALSE
    <3>1. PICK t \in triggers : t.event = LaneEvent("PeUnavailable", lane)
      BY <2>1 DEF HpuInv, AvailableInv, AvailableAt, Comes
    <3>2. t.event.type \in NowTypes
      BY <3>1 DEF LaneEvent, NowTypes
    <3>3. t \in Ready
      BY <3>2, EventShape DEF HpuInv, HpuTypeOK, Ready
    <3> QED
      BY <2>1, <3>3
  <2>2. FullIsUnavailable
    BY <2>1 DEF FullIsUnavailable
  <2>3. TimerArmed
    BY PbsNumbers
  <2> QED
    BY <2>2, <2>3 DEF StatusRight
<1> QED
  BY <1>1, HpuInvariant, PTL

(* A list of n different DOps, when there are n, has them all.             *)
LEMMA AllRetired ==
  ASSUME NEW n \in Nat, NEW s \in Seq(1 .. n), Len(s) = n, IsInjective(s)
  PROVE  {s[k] : k \in 1 .. n} = 1 .. n
<1>1. s \in [1 .. n -> 1 .. n] /\ DOMAIN s = 1 .. n
  OBVIOUS
<1>2. s \in Injection(1 .. n, 1 .. n)
  BY <1>1 DEF Injection, IsInjective
<1>3. IsFiniteSet(1 .. n)
  BY FS_Interval
<1>4. s \in Surjection(1 .. n, 1 .. n)
  BY <1>2, <1>3, FS_Injection
<1> QED
  BY <1>4 DEF Surjection

(* When the simulation says that the program is over, it is: each DOp has  *)
(* retired, exactly once, and no event, queue, pool or memory holds one.   *)
THEOREM HpuCompletionSound == HpuSpec => []CompletionSound
<1>1. HpuInv => CompletionSound
  <2> SUFFICES ASSUME HpuInv, outcome = "CondEncountered" PROVE CompletionSound
    BY DEF CompletionSound
  <2> DEFINE n == Len(prog)
  <2>1. /\ Ready = {} /\ processed = n /\ pushed = n /\ Len(retired) = n
        /\ IsInjective(retired) /\ retired \in Seq(Ids)
        /\ n \in Nat /\ Ids = 1 .. n /\ IscTypeOK
    BY PoolInIds DEF HpuInv, HpuTypeOK, RetireInv, Ids
  <2> HIDE DEF n
  <2>2. {retired[k] : k \in 1 .. n} = Ids /\ DOMAIN retired = 1 .. n
    BY <2>1, AllRetired
  <2>3. \A d \in Ids : d \in Retired
    BY <2>1, <2>2 DEF HpuInv, RetireInv
  <2>4. InPool = {} /\ FrontBuffer = {}
    <3>1. \A d \in Ids : d \in 1 .. refilled /\ d \notin InPool
      BY <2>3 DEF Retired
    <3>2. InPool \subseteq 1 .. refilled /\ refilled \in 0 .. n
      BY <2>1 DEF IscTypeOK
    <3>3. InPool = {}
      BY <2>1, <3>1, <3>2
    <3>4. refilled = n
      <4>1. n > 0 => n \in 1 .. refilled
        BY <2>1, <3>1
      <4> QED
        BY <2>1, <3>2, <4>1
    <3> QED
      BY <2>1, <3>3, <3>4 DEF FrontBuffer
  <2>5. \A d \in Ids : d \in readDone \cap writeDone
    BY <2>3 DEF HpuInv, IscInv, HistoryInv
  <2>6. ASSUME NEW S, NEW s \in Seq(S), \A d : ~ Holds(s, d)
        PROVE  s = <<>>
    <3>1. Len(s) # 0 => Holds(s, s[1])
      BY DEF Holds
    <3> QED
      BY <2>6, <3>1
  <2>7. readUnlocks = <<>> /\ writeUnlocks = <<>>
    <3>1. \A d : ~ Holds(readUnlocks, d) /\ ~ Holds(writeUnlocks, d)
      BY <2>4, BufferSeqs DEF BufferAt
    <3> QED
      BY <2>6, <3>1, BufferSeqs
  <2>8. \A d \in Ids : PlacesOf(d) = {}
    BY <2>5, OnePlace
  <2>9. \A d \in Ids : ~ Somewhere(d)
    BY <2>8, SomewhereIsAPlace
  <2>10. /\ queue \in [Lanes -> Seq(Ids)] /\ pbsQueue \in Seq(Ids) /\ memory \in Seq(Ids)
         /\ current \in [Lanes -> Ids \cup {NoDop}] /\ TriggersOK
    BY DEF HpuInv, HpuTypeOK
  <2>11. \A s \in Seq(Ids) : \A d : Holds(s, d) => d \in Ids
    BY DEF Holds
  <2>12. pbsQueue = <<>> /\ memory = <<>>
    BY <2>6, <2>9, <2>10, <2>11 DEF Somewhere
  <2>13. ASSUME NEW lane \in Lanes PROVE queue[lane] = <<>> /\ current[lane] = NoDop
    <3>1. queue[lane] = <<>>
      <4>1. queue[lane] \in Seq(Ids)
        BY <2>10
      <4> QED
        BY <2>6, <2>9, <2>11, <4>1 DEF Somewhere
    <3>2. ASSUME current[lane] # NoDop PROVE FALSE
      <4>1. PICK t \in triggers :
              \/ t.at = now
              \/ [at |-> t.at, event |-> DopEvent("IscUnlockWrite", current[lane])] \in triggers
        BY <3>2 DEF HpuInv, LaneInv, LaneAt
      <4>2. t.at # now
        BY <2>1 DEF Ready
      <4>3. current[lane] \in Ids /\ current[lane] \in DopsOf("IscUnlockWrite")
        BY <2>10, <3>2, <4>1, <4>2, Told DEF DopEvent
      <4> QED
        BY <2>9, <4>3 DEF Somewhere
    <3> QED
      BY <3>1, <3>2
  <2> QED
    BY <2>1, <2>2, <2>4, <2>7, <2>12, <2>13 DEF CompletionSound, n
<1> QED
  BY <1>1, HpuInvariant, PTL

(* The events whose handlers may panic under some timings of the PBS       *)
(* element: see the README.                                                *)
TimingTypes == {"PePbsTimeout", "PePbsLaunchProcessing", "PePbsLaunchUnloadMemory"}
NoOtherPanic ==
  outcome = "MayContinue" =>
    \A t \in Ready : t.event.type \notin TimingTypes => Asserts(t.event)

(* The assertions and unwraps of 16 of the 19 handlers never fail: the     *)
(* scheduler always finds the slot it is told of in the state it expects,  *)
(* a lane that is issued a DOp has room, a landing finds its operation,    *)
(* and a load or an unload its DOp.                                        *)
THEOREM HpuNoOtherPanic == HpuSpec => []NoOtherPanic
<1>1. HpuInv => NoOtherPanic
  <2> SUFFICES ASSUME HpuInv, NEW t \in Ready, t.event.type \notin TimingTypes
               PROVE  Asserts(t.event)
    BY DEF NoOtherPanic
  <2> DEFINE e == t.event
             d == t.event.id
             lane == Affinity(prog[d])
  <2>0. t \in triggers /\ TriggersOK /\ t.at = now /\ IscTypeOK
    BY DEF HpuInv, HpuTypeOK, Ready
  <2>1. ASSUME e.type = "IscUnlockIssue"
        PROVE  d \in InPool /\ pool[d].state = "Pending"
    BY <2>0, <2>1 DEF HpuInv, IssueInv, IssueTypes
  <2>2. ASSUME e.type = "IscQuery", MayReadUnlock
        PROVE  /\ Head(readUnlocks) \in InPool
               /\ pool[Head(readUnlocks)].state = "Issued"
    <3>1. PICK r : r = Head(readUnlocks)
      OBVIOUS
    <3>2. Holds(readUnlocks, r)
      BY <2>2, <3>1, BufferSeqs, HeadTail, HoldsTail DEF MayReadUnlock
    <3>3. r \in readDone /\ r \in Ids
      BY <3>2, BufferSeqs
    <3>4. r \in InPool /\ NotLoaded(r)
      BY <3>2, <3>3, BufferSeqs DEF BufferAt
    <3>5. r \in issued
      BY <2>0, <3>3 DEF IscTypeOK
    <3>6. pool[r].state # "Pending"
      BY <2>2, <3>4, <3>5, QueryAcknowledged
    <3> QED
      BY <3>1, <3>4, <3>6 DEF NotLoaded
  <2>3. ASSUME e.type = "IscQuery", ~ MayReadUnlock, MayRetire
        PROVE  /\ Head(writeUnlocks) \in InPool
               /\ pool[Head(writeUnlocks)].state = "Loaded"
    <3>1. PICK r : r = Head(writeUnlocks)
      OBVIOUS
    <3>2. Holds(writeUnlocks, r)
      BY <2>3, <3>1, BufferSeqs, HeadTail, HoldsTail DEF MayRetire
    <3>3. r \in writeDone /\ r \in Ids
      BY <3>2, BufferSeqs
    <3>4. r \in InPool /\ pool[r].state # "Finished" /\ pool[r].state \in States
      BY <2>0, <3>2, <3>3, BufferSeqs, SlotStates DEF BufferAt
    <3>5. r \in readDone
      <4>1. ~ ReadsNow(r) \/ Affinity(prog[r]) # "Ctl"
        <5>1. ~ QueryLater
          BY <2>0, <2>3, EventShape DEF QueryLater
        <5>2. CASE ReadsNow(r)
          BY <5>1, <5>2 DEF ReadsNow, HpuInv, ReadInv, CtlAtOnce, Now, After, DopEvent
        <5> QED
          BY <5>2
      <4> QED
        BY <3>3, <4>1 DEF HpuInv, ReadInv, WrittenRead
    <3>6. ~ NotLoaded(r)
      <4>1. \A x : ~ Holds(readUnlocks, x)
        BY <2>3 DEF MayReadUnlock, Holds
      <4> QED
        BY <3>3, <3>4, <3>5, <4>1, BufferSeqs DEF BufferAt
    <3> QED
      BY <3>1, <3>4, <3>6 DEF NotLoaded, States
  <2>4. ASSUME e.type = "IscIssueDOp"
        PROVE  /\ lane \in Lanes => LaneIssueAsserts(lane)
               /\ lane = "Pbs" => PbsIssueAsserts
    <3>1. lane \in TrackedLanes => ~ Full(lane)
      BY <2>0, <2>4 DEF HpuInv, AvailableInv, AvailableAt
    <3> QED
      BY <3>1 DEF Full, TrackedLanes, Lanes, LaneIssueAsserts, PbsIssueAsserts
  <2>5. ASSUME e.type \in {"PeLaunchProcessing", "PeLandProcessing"}
        PROVE  /\ e.type = "PeLaunchProcessing" => LaneLaunchAsserts(e.lane)
               /\ e.type = "PeLandProcessing" => LaneLandAsserts(e.lane)
    BY <2>0, <2>5, EventShape DEF HpuInv, LaneInv, LaneAt, LaneLaunchAsserts, LaneLandAsserts
  <2>6. /\ e.type = "PePbsLaunchLoadMemory" => LaunchLoadAsserts
        /\ e.type = "PePbsLandLoadMemory" => LandLoadAsserts
        /\ e.type = "PePbsLandUnloadMemory" => LandUnloadAsserts
        /\ e.type = "PePbsLandProcessing" => LandProcessingAsserts(e.size)
    BY <2>0, PbsNumbers DEF PbsExpects, LandProcessingAsserts, NoTimerAtWork
  <2>7. e.type \notin TimingTypes
    OBVIOUS
  <2> HIDE DEF e, d, lane
  <2>8. Asserts(e)
    BY <2>1, <2>2, <2>3, <2>4, <2>5, <2>6, <2>7 DEF Asserts, TimingTypes, d, lane, e
  <2> QED
    BY <2>8 DEF e
<1> QED
  BY <1>1, HpuInvariant, PTL

-----------------------------------------------------------------------------
(* What there is to do is coming.                                          *)

(* A message stays pending until it is the one that is handled.            *)
LEMMA ComesKept ==
  ASSUME NEW t \in Ready, Pops(t), NEW e, t.event # e, Comes(e)
  PROVE  Comes(e)'
BY DEF Comes, Pops

(* Something of a type stays pending until it is handled.                  *)
LEMMA PendingKept ==
  ASSUME NEW t \in Ready, Pops(t), NEW type, t.event.type # type, Pending(type) # {}
  PROVE  Pending(type)' # {}
BY DEF Pending, Pops

(* A handler that rearms leaves a query pending.                           *)
LEMMA RearmComes ==
  ASSUME NEW t \in Ready, NEW new, HandleAndRearm(t, new)
  PROVE  Comes(Event("IscQuery"))'
<1>1. triggers' = (triggers \ {t}) \cup (new \cup QueryAfterPeriod(triggers \ {t}))
  BY DEF HandleAndRearm, Handle
<1>2. CASE \E u \in triggers \ {t} : u.event = Event("IscQuery")
  BY <1>1, <1>2 DEF Comes
<1>3. CASE ~ \E u \in triggers \ {t} : u.event = Event("IscQuery")
  <2>1. After(QueryPeriod, Event("IscQuery")) \in triggers'
    BY <1>1, <1>3 DEF QueryAfterPeriod, AfterIfNotThere
  <2>2. After(QueryPeriod, Event("IscQuery")).event = Event("IscQuery")
    BY DEF After
  <2> QED
    BY <2>1, <2>2 DEF Comes
<1> QED
  BY <1>2, <1>3

(* The events whose handlers rearm.                                        *)
LEMMA Rearms ==
  ASSUME NEW t \in Ready, HandleEvent(t),
         t.event.type \in {"IscPushDOps", "IscUnlockIssue", "IscUnlockRead", "IscUnlockWrite", "PeAvailable",
                           "IscRetireDOp"}
  PROVE  \E new : HandleAndRearm(t, new)
BY DEF HandleEvent, OnProcessOver, OnPushDOps, OnUnlock, OnAvailable, OnUnavailable, OnQuery, OnRetireDOp,
       OnIssueDOp, OnLane, OnPbs

(* While there is something to do for the scheduler, a query is coming.    *)
LEMMA PopQueryComes ==
  ASSUME HpuInv, QueryComes, NEW t \in Ready, HandleEvent(t), Pops(t)
  PROVE  QueryComes'
<1>1. CASE t.event.type \in {"IscPushDOps", "IscUnlockIssue", "IscUnlockRead", "IscUnlockWrite", "PeAvailable",
                             "IscRetireDOp"}
  BY <1>1, Rearms, RearmComes DEF QueryComes
<1>2. CASE t.event.type = "IscQuery"
  <2>1. OnQuery(t)
    BY <1>2, Handlers
  <2>2. CASE \E new : HandleAndRearm(t, new)
    BY <2>2, RearmComes DEF QueryComes
  <2>3. CASE QueryIdle
    <3>1. NothingToDo'
      BY <2>3 DEF QueryIdle, NothingToDo, MayReadUnlock, MayRefill, MayRetire, MayIssue, Issuable, Unlocked,
                  LaneAvailable, InPool, iscVars, schedulerVars
    <3> QED
      BY <3>1 DEF QueryComes
  <2> QED
    BY <2>1, <2>2, <2>3 DEF OnQuery
<1>3. CASE t.event.type \notin {"IscPushDOps", "IscUnlockIssue", "IscUnlockRead", "IscUnlockWrite", "PeAvailable",
                                "IscRetireDOp", "IscQuery"}
  <2>1. Comes(Event("IscQuery")) => Comes(Event("IscQuery"))'
    <3>1. t.event # Event("IscQuery")
      BY <1>3 DEF Event
    <3> QED
      BY <3>1, ComesKept
  <2>2. /\ UNCHANGED <<prog, pushed, refilled, pool, readUnlocks, writeUnlocks>>
        /\ \A lane \in TrackedLanes : tracker'[lane] => tracker[lane]
    <3>1. UNCHANGED <<prog, pushed, refilled, pool, readUnlocks, writeUnlocks>>
      BY <1>3, Untouched DEF Pops
    <3>2. CASE t.event.type = "PeUnavailable"
      <4>1. tracker' = [tracker EXCEPT ![t.event.lane] = FALSE]
        BY <3>2, Handlers DEF SetAvailable
      <4>2. tracker \in [TrackedLanes -> BOOLEAN]
        BY DEF HpuInv, HpuTypeOK, IscTypeOK
      <4> QED
        BY <3>1, <4>1, <4>2
    <3>3. CASE t.event.type # "PeUnavailable"
      BY <1>3, <3>1, <3>3, Untouched
    <3> QED
      BY <3>2, <3>3
  <2>3. NothingToDo => NothingToDo'
    BY <2>2 DEF NothingToDo, MayReadUnlock, MayRefill, MayRetire, MayIssue, Issuable, Unlocked,
                LaneAvailable, InPool
  <2> QED
    BY <2>1, <2>3 DEF QueryComes
<1> QED
  BY <1>1, <1>2, <1>3

(* The batch that is complete, if any, is the same for the same waiting    *)
(* PBSes.                                                                  *)
LEMMA SameBatches ==
  ASSUME prog' = prog, NEW mem, NEW b, NEW mem2, NEW b2,
         b.waiting \in Nat, b.working \in Nat, b2.waiting - b2.working = b.waiting - b.working,
         \A n \in 1 .. b.waiting - b.working : mem2[b2.working + n] = mem[b.working + n]
  PROVE  BatchEnds(mem2, b2) = BatchEnds(mem, b)
BY DEF BatchEnds

(* A batch that can start is launched: what was coming is, unless this is  *)
(* the step that launches it, and what is complete now was or is launched. *)
LEMMA PopLaunchComes ==
  ASSUME HpuInv, PbsComes, NEW t \in Ready, HandleEvent(t), Pops(t), NWorking' = 0, BatchEnds(memory, bound)' # {}
  PROVE  Pending("PePbsLaunchProcessing")' # {}
<1>0. prog' = prog /\ t \in triggers
  BY DEF Pops, Ready
<1>1. CASE t.event.type = "PePbsLandLoadMemory"
  <2>1. PICK hint : hint = WhatNow(memory, bound')
    OBVIOUS
  <2>2. /\ memory' = memory
        /\ \E new : Handle(t, new) /\ (hint.hint = "MustLaunchBatch" => LaunchBatch(hint) \in new)
    BY <1>1, <2>1, UntouchedPes, Handlers DEF LandLoad
  <2>3. BatchEnds(memory, bound') # {}
    BY <1>0, <2>2 DEF BatchEnds
  <2>4. bound'.working - bound'.parking = 0 /\ bound'.working \in Nat /\ bound'.parking \in Nat /\ bound'.waiting \in Nat
    <3>1. bound' = [bound EXCEPT !.waiting = @ + 1]
      BY <1>1, Handlers DEF LandLoad
    <3> QED
      BY <3>1, PbsNumbers DEF NWorking, Areas
  <2>5. bound'.waiting > bound'.working /\ bound'.working = bound'.parking
    BY <2>3, <2>4 DEF BatchEnds
  <2>6. hint.hint = "MustLaunchBatch"
    BY <2>1, <2>3, <2>4, <2>5 DEF WhatNow
  <2>7. LaunchBatch(hint).event.type = "PePbsLaunchProcessing"
    BY DEF LaunchBatch, Now, After, BatchEvent
  <2> QED
    BY <2>2, <2>6, <2>7 DEF Handle, Pending
<1>2. CASE t.event.type = "PePbsLandProcessing"
  <2>1. PICK hint : hint = LandProcessingHint
    OBVIOUS
  <2>2. /\ memory' = memory /\ bound' = [bound EXCEPT !.parking = bound.working]
        /\ Handle(t,
            {Now(Event("PePbsLaunchUnloadMemory"))}
            \cup (CASE hint.hint = "MustLaunchBatch" -> {LaunchBatch(hint)}
                    [] hint.hint = "CanLaunchIncompleteBatch" ->
                         {After(PbsTimeout, Event("PePbsTimeout"))}
                    [] OTHER -> {}))
    BY <1>2, <2>1, UntouchedPes, Handlers DEF LandProcessing
  <2>3. BatchEnds(memory, bound') # {}
    BY <1>0, <2>2 DEF BatchEnds
  <2>4. bound'.working = bound'.parking /\ bound'.working \in Nat /\ bound'.parking \in Nat /\ bound'.waiting \in Nat
    BY <2>2, PbsNumbers DEF Areas
  <2>5. bound'.waiting > bound'.working
    BY <2>3, <2>4 DEF BatchEnds
  <2>6. hint.hint = "MustLaunchBatch"
    BY <2>1, <2>2, <2>3, <2>4, <2>5 DEF LandProcessingHint, WhatNow
  <2>7. LaunchBatch(hint).event.type = "PePbsLaunchProcessing"
    BY DEF LaunchBatch, Now, After, BatchEvent
  <2>8. LaunchBatch(hint) \in triggers'
    BY <2>2, <2>6 DEF Handle
  <2> QED
    BY <2>7, <2>8 DEF Pending
<1>3. CASE t.event.type = "PePbsLaunchProcessing"
  <2> DEFINE n == t.event.size
  <2>1. /\ NWorking = 0 /\ n > 0 /\ bound' = [bound EXCEPT !.working = @ + n] /\ n \in Nat
    BY <1>0, <1>3, Handlers, EventShape
       DEF LaunchProcessing, LaunchProcessingAsserts, HpuInv, HpuTypeOK, SizeTypes
  <2> HIDE DEF n
  <2>2. bound'.working = bound.working + n /\ bound'.parking = bound.parking
    BY <2>1, PbsNumbers DEF Areas
  <2>3. NWorking' = NWorking + n
    BY <2>1, <2>2, PbsNumbers DEF NWorking
  <2> QED
    BY <2>1, <2>3
<1>4. CASE t.event.type \notin {"PePbsLandLoadMemory", "PePbsLandProcessing", "PePbsLaunchProcessing"}
  <2>1. bound.waiting \in Nat /\ bound.working \in Nat /\ bound.parking \in Nat /\ bound.unloading \in Nat
        /\ Len(memory) \in Nat /\ bound.waiting <= Len(memory) /\ memory \in Seq(Ids)
        /\ bound.unloading <= bound.parking
        /\ bound.parking <= bound.working /\ bound.working <= bound.waiting
    BY PbsNumbers DEF PbsBounds
  <2>2. /\ bound'.waiting - bound'.working = bound.waiting - bound.working
        /\ bound'.working - bound'.parking = bound.working - bound.parking
        /\ \A n \in 1 .. bound.waiting - bound.working : memory'[bound'.working + n] = memory[bound.working + n]
    <3>1. CASE t.event.type = "PePbsLaunchLoadMemory"
      <4>1. bound' = bound /\ pbsQueue # <<>> /\ memory' = Append(memory, Head(pbsQueue))
        BY <3>1, Handlers, UntouchedPes DEF LaunchLoad, LaunchLoadAsserts
      <4>2. \A n \in 1 .. bound.waiting - bound.working : bound.working + n \in 1 .. Len(memory)
        BY <2>1
      <4>3. \A k \in 1 .. Len(memory) : memory'[k] = memory[k]
        BY <4>1, PbsNumbers, HeadTail, AppendSeq
      <4> QED
        BY <4>1, <4>2, <4>3
    <3>2. CASE t.event.type = "PePbsLaunchUnloadMemory"
      <4>1. memory' = memory /\ bound' = [bound EXCEPT !.unloading = @ + 1]
        BY <3>2, Handlers, UntouchedPes DEF LaunchUnload
      <4>2. bound'.waiting = bound.waiting /\ bound'.working = bound.working /\ bound'.parking = bound.parking
        BY <4>1, PbsNumbers DEF Areas
      <4> QED
        BY <4>1, <4>2
    <3>3. CASE t.event.type = "PePbsLandUnloadMemory"
      <4>1. /\ memory' = Tail(memory) /\ bound' = [area \in DOMAIN bound |-> bound[area] - 1]
            /\ bound.unloading > 0
        BY <3>3, Handlers DEF LandUnload, LandUnloadAsserts, NUnloading
      <4>2. bound'.waiting = bound.waiting - 1 /\ bound'.working = bound.working - 1 /\ bound'.parking = bound.parking - 1
        BY <4>1, PbsNumbers DEF Areas
      <4>3. bound.working >= 1 /\ Len(memory) >= 1
        BY <2>1, <4>1
      <4>4. \A k \in 1 .. Len(memory) - 1 : memory'[k] = memory[k + 1]
        <5>1. memory # <<>>
          BY <2>1, <4>3
        <5>2. Len(memory') = Len(memory) - 1
          BY <2>1, <4>1, <5>1, HeadTail
        <5> QED
          BY <2>1, <4>1, <5>1, <5>2, HeadTail
      <4>5. ASSUME NEW n \in 1 .. bound.waiting - bound.working
            PROVE  memory'[bound'.working + n] = memory[bound.working + n]
        <5>1. /\ bound'.working + n \in 1 .. Len(memory) - 1
              /\ bound'.working + n + 1 = bound.working + n
          BY <2>1, <4>2, <4>3
        <5> QED
          BY <4>4, <5>1
      <4>6. /\ bound'.waiting - bound'.working = bound.waiting - bound.working
            /\ bound'.working - bound'.parking = bound.working - bound.parking
        BY <2>1, <4>2
      <4> QED
        BY ONLY <4>5, <4>6
    <3>4. CASE t.event.type \notin {"PePbsLaunchLoadMemory", "PePbsLaunchUnloadMemory", "PePbsLandUnloadMemory"}
      BY <1>4, <3>4, UntouchedPes
    <3> QED
      BY <3>1, <3>2, <3>3, <3>4
  <2>3. BatchEnds(memory', bound') = BatchEnds(memory, bound)
    BY <1>0, <2>1, <2>2, SameBatches
  <2>4. BatchEnds(memory, bound)' = BatchEnds(memory', bound')
    BY <1>0 DEF BatchEnds
  <2>5. NWorking = 0
    BY <2>1, <2>2 DEF NWorking
  <2>6. Pending("PePbsLaunchProcessing") # {}
    BY <2>3, <2>4, <2>5 DEF PbsComes
  <2> QED
    BY <1>4, <2>6, PendingKept
<1> QED
  BY <1>1, <1>2, <1>3, <1>4

(* A PBS that finds room is loaded.                                        *)
LEMMA PopLoadComes ==
  ASSUME HpuInv, PbsComes, NEW t \in Ready, HandleEvent(t), Pops(t), pbsQueue' # <<>>, MayLoad'
  PROVE  Comes(Event("PePbsLaunchLoadMemory"))'
<1> DEFINE L == Now(Event("PePbsLaunchLoadMemory"))
<1>0. prog' = prog /\ t \in triggers /\ L.event = Event("PePbsLaunchLoadMemory")
  BY DEF Pops, Ready, Now, After
<1>a. Len(memory') # PbsMemoryCapacity /\ Len(memory') = bound'.waiting
  <2>1. Len(memory') \in Nat /\ bound'.waiting \in Nat
    <3>1. CASE t.event.type = "PePbsLandUnloadMemory"
      <4>1. memory' = Tail(memory) /\ bound' = [area \in DOMAIN bound |-> bound[area] - 1] /\ bound.unloading > 0
        BY <3>1, Handlers DEF LandUnload, LandUnloadAsserts, NUnloading
      <4>2. memory # <<>> /\ bound.waiting >= 1
        BY <4>1, PbsNumbers DEF PbsBounds
      <4> QED
        BY <4>1, <4>2, PbsNumbers, HeadTail DEF Areas
    <3>2. CASE t.event.type # "PePbsLandUnloadMemory"
      <4>1. memory' = memory \/ \E d \in Ids : memory' = Append(memory, d)
        <5>1. t.event.type = "PePbsLaunchLoadMemory" => pbsQueue # <<>> /\ memory' = Append(memory, Head(pbsQueue))
          BY Handlers DEF LaunchLoad, LaunchLoadAsserts
        <5> QED
          BY <3>2, <5>1, UntouchedPes, PbsNumbers, HeadTail
      <4>2. Len(memory') \in Nat
        BY <4>1, PbsNumbers, AppendSeq
      <4>3. bound' = bound \/ \E f : bound' = [bound EXCEPT !.waiting = @ + 1] \/ bound' = [bound EXCEPT !.working = f]
                            \/ bound' = [bound EXCEPT !.parking = f] \/ bound' = [bound EXCEPT !.unloading = f]
        BY <3>2, UntouchedPes, Handlers DEF LandLoad, LaunchProcessing, LandProcessing, LaunchUnload
      <4> QED
        BY <4>2, <4>3, PbsNumbers DEF Areas
    <3> QED
      BY <3>1, <3>2
  <2> QED
    BY <2>1 DEF MayLoad, NLoading
<1>b. NextLoad(pbsQueue', memory', bound') = {L}
  BY <1>a DEF NextLoad, L
<1> HIDE DEF L
<1>1. CASE t.event.type = "IscIssueDOp"
  <2>1. CASE PbsIssue(t, t.event.id)
    <3>1. \E new : Handle(t, new) /\ NextLoad(pbsQueue', memory, bound) \subseteq new
      BY <2>1 DEF PbsIssue
    <3>2. memory' = memory /\ bound' = bound
      BY <2>1 DEF PbsIssue
    <3> QED
      BY <1>0, <1>b, <3>1, <3>2 DEF Handle, Comes
  <2>2. CASE ~ PbsIssue(t, t.event.id)
    <3>1. pbsVars' = pbsVars
      BY <1>1, <2>2, Handlers DEF OnIssueDOp
    <3>2. Comes(Event("PePbsLaunchLoadMemory"))
      BY <3>1 DEF pbsVars, PbsComes, MayLoad, NLoading
    <3> QED
      BY <1>1, <3>2, ComesKept DEF Event
  <2> QED
    BY <2>1, <2>2
<1>2. CASE t.event.type = "PePbsLandLoadMemory"
  <2>1. \E new : Handle(t, new) /\ NextLoad(pbsQueue, memory, bound') \subseteq new
    BY <1>2, Handlers DEF LandLoad
  <2>2. memory' = memory /\ pbsQueue' = pbsQueue
    BY <1>2, UntouchedPes
  <2> QED
    BY <1>0, <1>b, <2>1, <2>2 DEF Handle, Comes
<1>3. CASE t.event.type = "PePbsLandUnloadMemory"
  <2>1. \E new : Handle(t, new) /\ NextLoad(pbsQueue, memory', bound') \subseteq new
    BY <1>3, Handlers DEF LandUnload
  <2>2. pbsQueue' = pbsQueue
    BY <1>3, UntouchedPes
  <2> QED
    BY <1>0, <1>b, <2>1, <2>2 DEF Handle, Comes
<1>4. CASE t.event.type = "PePbsLaunchLoadMemory"
  <2>1. /\ pbsQueue # <<>> /\ MayLoad /\ bound' = bound /\ memory' = Append(memory, Head(pbsQueue))
    BY <1>4, Handlers, UntouchedPes DEF LaunchLoad, LaunchLoadAsserts
  <2>2. Len(memory') = Len(memory) + 1 /\ Len(memory) = bound.waiting
    BY <2>1, PbsNumbers, HeadTail, AppendSeq DEF MayLoad, NLoading
  <2> QED
    BY <1>a, <2>1, <2>2, PbsNumbers
<1>5. CASE t.event.type \notin {"IscIssueDOp", "PePbsLandLoadMemory", "PePbsLandUnloadMemory", "PePbsLaunchLoadMemory"}
  <2>1. pbsQueue' = pbsQueue /\ memory' = memory
    BY <1>5, UntouchedPes
  <2>2. bound'.waiting = bound.waiting
    <3>1. bound' = bound \/ \E f : \/ bound' = [bound EXCEPT !.working = f]
                                  \/ bound' = [bound EXCEPT !.parking = f] \/ bound' = [bound EXCEPT !.unloading = f]
      BY <1>5, UntouchedPes, Handlers DEF LaunchProcessing, LandProcessing, LaunchUnload
    <3> QED
      BY <3>1, PbsNumbers DEF Areas
  <2>3. Comes(Event("PePbsLaunchLoadMemory"))
    BY <1>a, <2>1, <2>2, PbsNumbers DEF PbsComes, MayLoad, NLoading
  <2> QED
    BY <1>5, <2>3, ComesKept DEF Event
<1> QED
  BY <1>1, <1>2, <1>3, <1>4, <1>5

(* A result that can leave is unloaded.                                   *)
LEMMA PopUnloadComes ==
  ASSUME HpuInv, PbsComes, NEW t \in Ready, HandleEvent(t), Pops(t), NParking' > 0, NUnloading' = 0
  PROVE  Comes(Event("PePbsLaunchUnloadMemory"))'
<1> DEFINE U == Now(Event("PePbsLaunchUnloadMemory"))
<1>0. t \in triggers /\ U.event = Event("PePbsLaunchUnloadMemory")
  BY DEF Ready, Now, After
<1> HIDE DEF U
<1>1. CASE t.event.type = "PePbsLandProcessing"
  <2>1. \E new : Handle(t, new) /\ U \in new
    BY <1>1, Handlers DEF LandProcessing, U
  <2> QED
    BY <1>0, <2>1 DEF Handle, Comes
<1>2. CASE t.event.type = "PePbsLandUnloadMemory"
  <2>1. /\ bound' = [area \in DOMAIN bound |-> bound[area] - 1]
        /\ \E new : Handle(t, new) /\ (bound'.parking > bound'.unloading => U \in new)
    BY <1>2, Handlers DEF LandUnload, U
  <2>2. bound'.parking > bound'.unloading
    <3>1. bound'.parking \in Int /\ bound'.unloading \in Int
      BY <2>1, PbsNumbers DEF Areas
    <3> QED
      BY <3>1 DEF NParking
  <2> QED
    BY <1>0, <2>1, <2>2 DEF Handle, Comes
<1>3. CASE t.event.type = "PePbsLaunchUnloadMemory"
  <2>1. bound' = [bound EXCEPT !.unloading = @ + 1]
    BY <1>3, Handlers DEF LaunchUnload
  <2> QED
    BY <2>1, PbsNumbers DEF NUnloading, Areas
<1>4. CASE t.event.type \notin {"PePbsLandProcessing", "PePbsLandUnloadMemory", "PePbsLaunchUnloadMemory"}
  <2>1. bound'.parking = bound.parking /\ bound'.unloading = bound.unloading
    <3>1. bound' = bound \/ \E f : bound' = [bound EXCEPT !.working = f] \/ bound' = [bound EXCEPT !.waiting = f]
      BY <1>4, UntouchedPes, Handlers DEF LaunchProcessing, LandLoad
    <3> QED
      BY <3>1, PbsNumbers DEF Areas
  <2>2. Comes(Event("PePbsLaunchUnloadMemory"))
    BY <2>1 DEF PbsComes, NParking, NUnloading
  <2> QED
    BY <1>4, <2>2, ComesKept DEF Event
<1> QED
  BY <1>1, <1>2, <1>3, <1>4

(* What the PBS element can do next is coming after every handler.         *)
LEMMA PopPbsComes ==
  ASSUME HpuInv, PbsComes, NEW t \in Ready, HandleEvent(t), Pops(t)
  PROVE  PbsComes'
BY PopLaunchComes, PopLoadComes, PopUnloadComes DEF PbsComes

(* The program is pushed, or the event that pushes it is coming.           *)
LEMMA PopPushComes ==
  ASSUME HpuInv, RetireComes, NEW t \in Ready, HandleEvent(t), Pops(t), pushed' # Len(prog)'
  PROVE  Pending("IscPushDOps")' # {}
<1>0. t \in triggers /\ TriggersOK /\ RetireInv /\ prog' = prog /\ IscTypeOK
  BY DEF Ready, HpuInv, HpuTypeOK, Pops
<1>1. CASE t.event.type = "IscPushDOps"
  <2>1. pushed' = pushed + t.event.size
    BY <1>1, Handlers DEF OnPushDOps, PushDOps
  <2>2. pushed = 0 /\ t.event.size = Len(prog) /\ Len(prog) \in Nat
    BY <1>0, <1>1, PoolInIds DEF RetireInv
  <2> QED
    BY <1>0, <2>1, <2>2
<1>2. CASE t.event.type # "IscPushDOps"
  <2>1. pushed' = pushed
    BY <1>2, Untouched
  <2> QED
    BY <1>0, <1>2, <2>1, PendingKept DEF RetireComes
<1> QED
  BY <1>1, <1>2

(* A slot whose DOp has written is in the buffer that retires it.          *)
LEMMA PopWrittenHeld ==
  ASSUME HpuInv, RetireComes, NEW t \in Ready, HandleEvent(t), Pops(t), NEW d \in (InPool \cap writeDone)'
  PROVE  Holds(writeUnlocks', d)
<1>0. IscTypeOK /\ (d \in InPool /\ d \in writeDone => Holds(writeUnlocks, d))
  BY DEF HpuInv, HpuTypeOK, RetireComes
<1>1. CASE t.event.type = "IscUnlockWrite"
  <2>1. PICK e : e = t.event.id
    OBVIOUS
  <2>2. writeUnlocks' = Append(writeUnlocks, e) /\ writeDone' = writeDone \cup {e} /\ pool' = pool
    BY <1>1, <2>1, Handlers DEF UnlockWrite
  <2>3. e \in Nat
    BY <1>1, <2>1, EventShape DEF HpuInv, HpuTypeOK, Ready, DopTypes, Ids
  <2>4. \A x : Holds(writeUnlocks', x) <=> Holds(writeUnlocks, x) \/ x = e
    BY <2>2, <2>3, BufferSeqs, HoldsAppend
  <2> QED
    BY <1>0, <2>2, <2>4 DEF InPool
<1>2. CASE t.event.type = "IscQuery"
  <2>0. writeDone' = writeDone /\ OnQuery(t)
    BY <1>2, Untouched, Handlers
  <2>1. CASE QueryRefill
    <3>1. /\ InPool' = InPool \cup {refilled + 1} /\ refilled + 1 \notin issued
          /\ writeUnlocks' = writeUnlocks
      BY <1>0, <2>1, QueryRefillSlots DEF QueryRefill
    <3> QED
      BY <1>0, <2>0, <3>1 DEF IscTypeOK
  <2>2. CASE QueryRetire
    <3>1. writeUnlocks' = Tail(writeUnlocks) /\ writeUnlocks # <<>> /\ InPool' = InPool \ {Head(writeUnlocks)}
      BY <2>2 DEF QueryRetire, MayRetire, InPool
    <3>2. \A x : Holds(writeUnlocks', x) <=> Holds(writeUnlocks, x) /\ x # Head(writeUnlocks)
      BY <3>1, BufferSeqs, HoldsTail
    <3> QED
      BY <1>0, <2>0, <3>1, <3>2
  <2>3. CASE ~ QueryRefill /\ ~ QueryRetire
    <3>1. InPool' = InPool /\ writeUnlocks' = writeUnlocks
      BY <2>0, <2>3 DEF OnQuery, QueryReadUnlock, QueryIssue, QueryIdle, iscVars, schedulerVars, InPool
    <3> QED
      BY <1>0, <2>0, <3>1
  <2> QED
    BY <2>1, <2>2, <2>3
<1>3. CASE t.event.type \notin {"IscUnlockWrite", "IscQuery"}
  <2>1. InPool' = InPool
    <3>1. CASE t.event.type = "IscUnlockIssue"
      BY <3>1, Handlers DEF UnlockIssue, InPool
    <3>2. CASE t.event.type # "IscUnlockIssue"
      BY <1>3, <3>2, Untouched DEF InPool
    <3> QED
      BY <3>1, <3>2
  <2> QED
    BY <1>0, <1>3, <2>1, Untouched
<1> QED
  BY <1>1, <1>2, <1>3

(* What has left the pool has retired or is about to.                      *)
LEMMA PopRetirementComes ==
  ASSUME HpuInv, RetireComes, NEW t \in Ready, HandleEvent(t), Pops(t), NEW d \in Retired'
  PROVE  Holds(retired', d) \/ d \in DopsOf("IscRetireDOp")'
<1>0. /\ t \in triggers /\ IscTypeOK /\ retired \in Seq(Ids) /\ TriggersOK
      /\ (d \in Retired => Holds(retired, d) \/ d \in DopsOf("IscRetireDOp"))
  BY DEF HpuInv, HpuTypeOK, RetireComes, Ready
<1>1. ASSUME t.event # DopEvent("IscRetireDOp", d), d \in DopsOf("IscRetireDOp")
      PROVE  d \in DopsOf("IscRetireDOp")'
  <2>1. PICK u \in triggers : u.event.type = "IscRetireDOp" /\ u.event.id = d
    BY <1>1, Told
  <2>2. u.event = DopEvent("IscRetireDOp", d)
    BY <1>0, <2>1, EventShape DEF DopTypes
  <2>3. u \in triggers'
    BY <1>1, <2>2 DEF Pops
  <2> QED
    BY <2>1, <2>3 DEF DopsOf, Pending
<1>2. CASE t.event.type = "IscRetireDOp"
  <2>1. PICK e : e = t.event.id
    OBVIOUS
  <2>2. e \in Ids /\ t.event = DopEvent("IscRetireDOp", e)
    BY <1>0, <1>2, <2>1, EventShape DEF DopTypes
  <2>3. retired' = Append(retired, e) /\ Retired' = Retired
    BY <1>2, <2>1, Handlers DEF OnRetireDOp, RetireDOp, Retired, InPool
  <2>4. \A x : Holds(retired', x) <=> Holds(retired, x) \/ x = e
    BY <1>0, <2>2, <2>3, HoldsAppend
  <2>5. CASE d = e
    BY <2>4, <2>5
  <2>6. CASE d # e
    <3>1. t.event # DopEvent("IscRetireDOp", d)
      BY <2>2, <2>6 DEF DopEvent
    <3> QED
      BY <1>0, <1>1, <2>3, <2>4, <3>1
  <2> QED
    BY <2>5, <2>6
<1>3. CASE t.event.type # "IscRetireDOp"
  <2>1. retired' = retired /\ t.event # DopEvent("IscRetireDOp", d)
    BY <1>3, Untouched DEF DopEvent
  <2>2. CASE d \in Retired
    BY <1>0, <1>1, <2>1, <2>2
  <2>3. CASE d \notin Retired
    <3>1. t.event.type = "IscQuery" /\ QueryRetire
      <4>1. CASE t.event.type # "IscQuery"
        <5>1. InPool' = InPool
          <6>1. CASE t.event.type = "IscUnlockIssue"
            BY <6>1, Handlers DEF UnlockIssue, InPool
          <6>2. CASE t.event.type # "IscUnlockIssue"
            BY <4>1, <6>2, Untouched DEF InPool
          <6> QED
            BY <6>1, <6>2
        <5> QED
          BY <2>3, <4>1, <5>1, Untouched DEF Retired
      <4>2. CASE t.event.type = "IscQuery" /\ ~ QueryRetire
        <5>0. OnQuery(t)
          BY <4>2, Handlers
        <5>1. CASE QueryRefill
          <6>1. InPool' = InPool \cup {refilled + 1} /\ refilled' = refilled + 1
            BY <5>1 DEF QueryRefill, InPool
          <6> QED
            BY <1>0, <2>3, <6>1 DEF Retired, IscTypeOK
        <5>2. CASE ~ QueryRefill
          <6>1. InPool' = InPool /\ refilled' = refilled
            BY <4>2, <5>0, <5>2 DEF OnQuery, QueryReadUnlock, QueryIssue, QueryIdle, iscVars, schedulerVars, InPool
          <6> QED
            BY <2>3, <6>1 DEF Retired
        <5> QED
          BY <5>1, <5>2
      <4> QED
        BY <4>1, <4>2
    <3>2. OnQuery(t) /\ ~ MayReadUnlock /\ ~ MayRefill /\ MayRetire
      BY <3>1, Handlers DEF QueryRetire
    <3>3. /\ HandleAndRearm(t, {Now(DopEvent("IscRetireDOp", Head(writeUnlocks)))})
          /\ InPool' = InPool \ {Head(writeUnlocks)} /\ refilled' = refilled
      <4>1. HandleAndRearm(t, {Now(DopEvent("IscRetireDOp", Head(writeUnlocks)))})
        BY <3>2 DEF OnQuery, QueryReadUnlock, QueryRefill, QueryIssue, QueryIdle, NothingToDo
      <4>2. InPool' = InPool \ {Head(writeUnlocks)} /\ refilled' = refilled
        BY <3>1 DEF QueryRetire, InPool
      <4> QED
        BY <4>1, <4>2
    <3>4. d = Head(writeUnlocks)
      BY <2>3, <3>3 DEF Retired
    <3>5. Now(DopEvent("IscRetireDOp", d)) \in triggers'
      BY <3>3, <3>4 DEF HandleAndRearm, Handle
    <3>6. /\ Now(DopEvent("IscRetireDOp", d)).event.type = "IscRetireDOp"
          /\ Now(DopEvent("IscRetireDOp", d)).event.id = d
      BY DEF Now, After, DopEvent
    <3> QED
      BY <3>5, <3>6 DEF DopsOf, Pending
  <2> QED
    BY <2>2, <2>3
<1> QED
  BY <1>2, <1>3

(* When all has retired, the end of the process has come or is coming.     *)
LEMMA PopOverComes ==
  ASSUME HpuInv, RetireComes, NEW t \in Ready, HandleEvent(t), Pops(t),
         processed' = Len(prog)', prog # <<>>
  PROVE  encountered' \/ Comes(Event("IscProcessOver"))'
<1>0. prog' = prog /\ IscTypeOK /\ RetireInv
  BY DEF HpuInv, HpuTypeOK, Pops
<1>1. CASE t.event.type = "IscRetireDOp"
  <2>1. /\ processed < pushed
        /\ HandleAndRearm(t, IF processed' = pushed THEN {After(1, Event("IscProcessOver"))} ELSE {})
    BY <1>1, Handlers DEF OnRetireDOp, RetireDOp
  <2>2. pushed = Len(prog)
    <3>1. processed \in Nat /\ pushed \in Nat
      BY <1>0, PoolInIds DEF IscTypeOK
    <3> QED
      BY <1>0, <2>1, <3>1 DEF RetireInv
  <2>3. After(1, Event("IscProcessOver")) \in triggers'
    BY <1>0, <2>1, <2>2 DEF HandleAndRearm, Handle
  <2>4. After(1, Event("IscProcessOver")).event = Event("IscProcessOver")
    BY DEF After
  <2> QED
    BY <2>3, <2>4 DEF Comes
<1>2. CASE t.event.type = "IscProcessOver"
  BY <1>2, Handlers
<1>3. CASE t.event.type \notin {"IscRetireDOp", "IscProcessOver"}
  <2>1. processed' = processed /\ encountered' = encountered
    BY <1>3, Untouched
  <2> QED
    BY <1>0, <1>3, <2>1, ComesKept DEF RetireComes, Event
<1> QED
  BY <1>1, <1>2, <1>3

(* Every handler leaves coming what there is to do.                        *)
LEMMA PopProgress ==
  ASSUME HpuInv, ProgressInv, NEW t \in Ready, HandleEvent(t), Pops(t), outcome = "MayContinue"
  PROVE  ProgressInv'
<1>1. QueryComes' /\ PbsComes'
  BY PopQueryComes, PopPbsComes DEF ProgressInv
<1>2. outcome' = outcome /\ prog' = prog
  BY Untouched DEF Pops
<1>3. RetireComes'
  BY <1>2, PopPushComes, PopWrittenHeld, PopRetirementComes, PopOverComes DEF ProgressInv, RetireComes
<1> QED
  BY <1>1, <1>3 DEF ProgressInv

(* So does the end of a cycle, where only time and the outcome change.     *)
LEMMA SameComes ==
  ASSUME UNCHANGED <<triggers, iscVars, laneVars, pbsVars, retired, encountered>>, ProgressInv,
         outcome' = "SimulationOver" => triggers = {} /\ ~ encountered
  PROVE  ProgressInv'
<1>1. /\ UNCHANGED <<triggers, memory, bound, pbsQueue, retired, encountered>>
      /\ UNCHANGED <<prog, pushed, refilled, pool, tracker, readUnlocks, writeUnlocks, processed>>
      /\ UNCHANGED <<issued, readDone, writeDone>>
  BY DEF iscVars, schedulerVars, historyVars, pbsVars
<1>2. QueryComes'
  BY <1>1 DEF ProgressInv, QueryComes, Comes, NothingToDo, MayReadUnlock, MayRefill, MayRetire, MayIssue, Issuable,
              Unlocked, LaneAvailable, InPool
<1>3. PbsComes'
  <2>1. BatchEnds(memory, bound)' = BatchEnds(memory, bound)
    BY <1>1 DEF BatchEnds
  <2> QED
    BY <1>1, <2>1 DEF ProgressInv, PbsComes, Comes, Pending, MayLoad, NLoading, NWorking, NParking, NUnloading
<1>4. RetireComes'
  <2>1. Retired' = Retired /\ InPool' = InPool
    BY <1>1 DEF Retired, InPool
  <2>2. DopsOf("IscRetireDOp")' = DopsOf("IscRetireDOp") /\ Pending("IscPushDOps")' = Pending("IscPushDOps")
    BY <1>1 DEF DopsOf, Pending
  <2> QED
    BY <1>1, <2>1, <2>2 DEF ProgressInv, RetireComes, Comes, Holds
<1> QED
  BY <1>2, <1>3, <1>4 DEF ProgressInv

(* The invariant of progress is inductive beside HpuInv.                   *)
LEMMA ProgressStep ==
  ASSUME HpuInv, ProgressInv, [HpuNext]_vars
  PROVE  ProgressInv'
<1>1. CASE EndCycle
  <2>1. UNCHANGED <<triggers, iscVars, laneVars, pbsVars, retired, encountered>>
    BY <1>1, CycleEnds DEF HpuInv, HpuTypeOK
  <2>2. outcome' = "SimulationOver" => triggers = {} /\ ~ encountered
    BY <1>1 DEF EndCycle
  <2> QED
    BY <2>1, <2>2, SameComes
<1>2. CASE UNCHANGED vars
  <2>1. UNCHANGED <<triggers, iscVars, laneVars, pbsVars, retired, encountered, outcome>>
    BY <1>2 DEF vars, dispatcherVars
  <2>2. outcome = "SimulationOver" => triggers = {} /\ ~ encountered
    BY DEF ProgressInv, RetireComes
  <2> QED
    BY <2>1, <2>2, SameComes
<1> QED
  BY <1>1, <1>2, HpuSteps, PopProgress

(* It holds when the simulation starts: a query and the program to push    *)
(* are coming.                                                             *)
LEMMA ProgressInit ==
  ASSUME HpuInit
  PROVE  ProgressInv
<1> DEFINE push == [at |-> 0, event |-> BatchEvent("IscPushDOps", Len(prog))]
           query == [at |-> 1, event |-> Event("IscQuery")]
<1>1. /\ triggers = {push, query} /\ query.event = Event("IscQuery") /\ push.event.type = "IscPushDOps"
      /\ IscInit /\ PbsInit /\ outcome = "MayContinue"
  BY DEF HpuInit, DispatcherInit, BatchEvent
<1> HIDE DEF push, query
<1>2. QueryComes
  BY <1>1 DEF QueryComes, Comes
<1>3. PbsComes
  <2>1. BatchEnds(memory, bound) = {}
    BY <1>1 DEF PbsInit, BatchEnds
  <2> QED
    BY <1>1, <2>1 DEF PbsComes, PbsInit, NParking
<1>4. RetireComes
  <2>1. Pending("IscPushDOps") # {}
    BY <1>1 DEF Pending
  <2>2. InPool = {} /\ Retired = {}
    BY <1>1 DEF IscInit, InPool, Retired
  <2>3. processed # Len(prog) \/ prog = <<>>
    <3>1. prog \in Seq(DopInstruction) /\ processed = 0
      BY <1>1, ProgramsAssumption DEF IscInit
    <3> QED
      BY <3>1
  <2> QED
    BY <1>1, <2>1, <2>2, <2>3 DEF RetireComes
<1> QED
  BY <1>2, <1>3, <1>4 DEF ProgressInv

(* A list that has n numbers is no shorter than n.                         *)
LEMMA AllHeld ==
  ASSUME NEW n \in Nat, NEW s \in Seq(1 .. n), \A d \in 1 .. n : Holds(s, d)
  PROVE  n <= Len(s)
<1>1. Len(s) \in Nat /\ DOMAIN s = 1 .. Len(s) /\ s \in [1 .. Len(s) -> 1 .. n]
  OBVIOUS
<1>2. s \in Surjection(1 .. Len(s), 1 .. n)
  BY <1>1 DEF Surjection, Holds
<1>3. \A m \in Nat : IsFiniteSet(1 .. m) /\ Cardinality(1 .. m) = m
  <2>1. ASSUME NEW m \in Nat
        PROVE  IsFiniteSet(1 .. m) /\ Cardinality(1 .. m) = IF 1 > m THEN 0 ELSE m - 1 + 1
    BY FS_Interval
  <2> QED
    BY <2>1
<1> QED
  BY <1>2, <1>3, FS_Surjection

(* When the queue has run empty and none of the reasons of StallExplained  *)
(* holds, the lanes are idle and the PBS element is empty.                 *)
Unexplained == outcome = "SimulationOver" /\ ~ StallExplained
LEMMA StalledPes ==
  ASSUME HpuInv, ProgressInv, Unexplained
  PROVE  /\ triggers = {} /\ ~ encountered
         /\ \A lane \in Lanes : queue[lane] = <<>>
         /\ memory = <<>> /\ pbsQueue = <<>>
         /\ \A lane \in TrackedLanes : tracker[lane]
<1>1. triggers = {} /\ ~ encountered
  BY DEF Unexplained, ProgressInv, RetireComes
<1>2. (\A e : ~ Comes(e)) /\ (\A type : Pending(type) = {})
  BY <1>1 DEF Comes, Pending
<1>3. ASSUME NEW lane \in Lanes PROVE queue[lane] = <<>>
  <2>1. LaneAt(lane)
    BY DEF HpuInv, LaneInv
  <2> QED
    BY <1>1, <2>1 DEF LaneAt
<1>4. memory = <<>> /\ pbsQueue = <<>>
  <2>1. NLoading = 0 /\ NWorking = 0 /\ NUnloading = 0
    <3>1. ~ (NLoading > 0) /\ ~ (NWorking > 0) /\ ~ (NUnloading > 0)
      BY <1>2, PbsNumbers DEF PbsEnds
    <3>2. NLoading \in Nat /\ NWorking \in Nat /\ NUnloading \in Nat
      BY PbsNumbers DEF PbsBounds, NLoading, NWorking, NUnloading
    <3> QED
      BY <3>1, <3>2
  <2>2. NParking = 0
    <3>1. ~ (NParking > 0)
      BY <1>2, <2>1 DEF ProgressInv, PbsComes
    <3>2. NParking \in Nat
      BY PbsNumbers DEF PbsBounds, NParking
    <3> QED
      BY <3>1, <3>2
  <2>3. NWaiting = 0
    <3>1. BatchEnds(memory, bound) = {}
      BY <1>2, <2>1 DEF ProgressInv, PbsComes
    <3>2. ~ timeoutRunning
      BY <1>2, PbsNumbers DEF TimerArmed
    <3>3. ~ (NWaiting > 0)
      BY <3>1, <3>2 DEF Unexplained, StallExplained
    <3>4. NWaiting \in Nat
      BY PbsNumbers DEF PbsBounds, NWaiting
    <3> QED
      BY <3>3, <3>4
  <2>4. Len(memory) = 0
    BY <2>1, <2>2, <2>3, PbsNumbers DEF NLoading, NWaiting, NWorking, NParking, NUnloading
  <2>5. memory = <<>>
    BY <2>4, PbsNumbers
  <2>6. MayLoad
    BY <2>1, <2>4, PbsAssumption DEF MayLoad
  <2> QED
    BY <1>2, <2>5, <2>6 DEF ProgressInv, PbsComes
<1>5. ASSUME NEW lane \in TrackedLanes PROVE tracker[lane]
  <2>1. ~ Full(lane)
    <3>1. CASE lane = "Pbs"
      BY <1>4, <3>1, PbsAssumption DEF Full, PbsQueueFull
    <3>2. CASE lane # "Pbs"
      BY <1>3, <3>2, LaneAssumption DEF Full, LaneFull, TrackedLanes, Lanes
    <3> QED
      BY <3>1, <3>2
  <2> QED
    BY <2>1 DEF Unexplained, StallExplained
<1> QED
  BY <1>1, <1>3, <1>4, <1>5

(* Then every DOp that was issued has left the pool, so that a slot with   *)
(* the lowest number waits for nobody, and there is none.                  *)
LEMMA StalledPool ==
  ASSUME HpuInv, ProgressInv, NoDanglingLock, Unexplained
  PROVE  InPool = {}
<1>0. IscTypeOK /\ TriggersOK
  BY DEF HpuInv, HpuTypeOK
<1>1. /\ triggers = {} /\ \A e : ~ Comes(e)
      /\ \A type : DopsOf(type) = {}
  BY StalledPes DEF Comes, DopsOf, Pending
<1>2. NothingToDo
  BY <1>1 DEF ProgressInv, QueryComes
<1>3. ASSUME NEW d \in issued PROVE d \in writeDone
  <2>1. d \in Ids /\ PlaceAt(d)
    BY <1>0, PoolInIds, PlaceBefore
  <2>2. ~ Somewhere(d)
    BY <1>1, StalledPes DEF Somewhere, Holds
  <2> QED
    BY <2>1, <2>2, SomewhereIsAPlace DEF PlaceAt
<1>4. ASSUME NEW d \in InPool PROVE d \notin issued /\ pool[d].state = "Pending"
  <2>1. writeUnlocks = <<>>
    BY <1>2 DEF NothingToDo, MayRetire
  <2>2. ~ Holds(writeUnlocks, d)
    BY <2>1 DEF Holds
  <2>3. d \notin writeDone
    BY <2>2 DEF ProgressInv, RetireComes
  <2>4. d \notin issued
    BY <1>3, <2>3
  <2> QED
    BY <2>4 DEF HpuInv, IscInv, HistoryInv
<1>5. ASSUME InPool # {} PROVE FALSE
  <2>1. InPool \in SUBSET Nat
    BY <1>0 DEF IscTypeOK
  <2>2. PICK d \in InPool : \A i \in InPool : d <= i
    BY <1>5, <2>1, NatMin
  <2>3. Unlocked(d)
    <3>1. \A i \in InPool : ~ (i < d)
      BY <2>1, <2>2
    <3>2. /\ \A i : i \notin pool[d].readLock
          /\ \A i : i \notin pool[d].writeLock
          /\ \A i : i \notin pool[d].issueLock
      BY <3>1 DEF NoDanglingLock
    <3> QED
      BY <3>2 DEF Unlocked
  <2>4. Issuable(d)
    BY <1>4, <2>3, StalledPes DEF Issuable, LaneAvailable
  <2>5. MayIssue
    BY StalledPes DEF MayIssue, TrackedLanes
  <2> QED
    BY <1>2, <2>4, <2>5 DEF NothingToDo
<1> QED
  BY <1>5

(* Then everything has been refilled and has retired, and the end of the   *)
(* process should have come.                                               *)
LEMMA StallHasAReason ==
  ASSUME HpuInv, ProgressInv, NoDanglingLock
  PROVE  NeverStalls \/ StallExplained
<1> SUFFICES ASSUME Unexplained PROVE FALSE
  BY DEF NeverStalls, Unexplained
<1>0. /\ IscTypeOK /\ Len(prog) \in Nat /\ Ids = 1 .. Len(prog) /\ retired \in Seq(Ids)
      /\ pushed \in 0 .. Len(prog) /\ refilled \in 0 .. pushed /\ processed \in 0 .. pushed
  BY PoolInIds DEF HpuInv, HpuTypeOK, IscTypeOK, Ids
<1>1. /\ ~ encountered /\ \A e : ~ Comes(e)
      /\ \A type : DopsOf(type) = {} /\ Pending(type) = {}
  BY StalledPes DEF Comes, DopsOf, Pending
<1>2. InPool = {}
  BY StalledPool
<1>3. pushed = Len(prog)
  BY <1>1 DEF ProgressInv, RetireComes
<1>4. refilled = pushed
  <2>1. ~ MayRefill
    BY <1>1 DEF ProgressInv, QueryComes, NothingToDo
  <2>2. Cardinality(InPool) = 0
    BY <1>2, FS_EmptySet
  <2> QED
    BY <1>0, <2>1, <2>2, IscDepthAssumption DEF MayRefill
<1>5. \A d \in Ids : Holds(retired, d)
  BY <1>0, <1>1, <1>2, <1>3, <1>4 DEF Retired, ProgressInv, RetireComes
<1>6. Len(prog) <= Len(retired)
  BY <1>0, <1>5, AllHeld
<1>7. processed = Len(prog)
  <2>1. Len(retired) = processed
    BY DEF HpuInv, RetireInv
  <2> QED
    BY <1>0, <1>3, <1>6, <2>1
<1>8. prog # <<>>
  BY DEF Unexplained, StallExplained
<1> QED
  BY <1>1, <1>7, <1>8 DEF ProgressInv, RetireComes

(* The queue never runs empty before the process is over but for one of    *)
(* three reasons: the program is empty; a lane with room is marked         *)
(* unavailable; or PBSes wait for the rest of their batch and no timeout   *)
(* is running.  In particular no event is lost, no DOp is forgotten in a   *)
(* queue, in the memory of the PBS element or in the pool, and no locks    *)
(* wait for each other.                                                    *)
THEOREM HpuStallsExplained == HpuSpec => [](NeverStalls \/ StallExplained)
<1>1. HpuInit => ProgressInv
  BY ProgressInit
<1>2. HpuInv /\ ProgressInv /\ [HpuNext]_vars => ProgressInv'
  BY ProgressStep
<1>3. HpuInv /\ ProgressInv /\ NoDanglingLock => NeverStalls \/ StallExplained
  BY StallHasAReason
<1> QED
  BY <1>1, <1>2, <1>3, HpuInvariant, HpuHazardFree, PTL DEF HpuSpec
=============================================================================
