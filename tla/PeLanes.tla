------------------------------ MODULE PeLanes ------------------------------
(***************************************************************************)
(* The processing elements with a queue and one operation at a time: the   *)
(* ALU (pe_alu.rs) and the memory unit (pe_mem.rs), which run the same     *)
(* code, and the control unit (pe_ctl.rs), which has no state.             *)
(*                                                                         *)
(* Each action is the handler of one event, without the scheduler's part;  *)
(* t is the popped trigger.  The assertions of a handler are its guard,    *)
(* and are named, so that an invariant can say that they hold whenever the *)
(* event comes up.                                                         *)
(***************************************************************************)
EXTENDS Dispatcher, Sequences

CONSTANTS
  QueueCapacity,      \* alu_fifo_capacity and mem_fifo_capacity
  ReadLatency,        \* of each lane: cycles until its operands are read
  WriteLatency        \* of each lane: cycles until its result is written

Lanes == {"Alu", "Mem"}
NoDop == 0            \* Option::None

ASSUME LaneAssumption ==
  /\ QueueCapacity \in Nat \ {0}
  /\ ReadLatency \in [Lanes -> Nat \ {0}]
  /\ WriteLatency \in [Lanes -> Nat \ {0}]
  /\ \A lane \in Lanes : ReadLatency[lane] < WriteLatency[lane]

VARIABLES queue,      \* the Fifo of each lane
          current     \* the operation each lane is working on

laneVars == <<queue, current>>

LanesInit ==
  /\ queue = [lane \in Lanes |-> <<>>]
  /\ current = [lane \in Lanes |-> NoDop]

LaneFull(lane) == Len(queue[lane]) = QueueCapacity

(* IscIssueDOp(d) for this lane.                                           *)
LaneIssueAsserts(lane) == ~ LaneFull(lane)
LaneIssue(t, lane, d) ==
  /\ LaneIssueAsserts(lane)
  /\ queue' = [queue EXCEPT ![lane] = Append(@, d)]
  /\ Handle(t,
       {Now(DopEvent("IscUnlockIssue", d))}
       \cup (IF current[lane] = NoDop
             THEN {Now(LaneEvent("PeLaunchProcessing", lane))} ELSE {})
       \cup (IF Len(queue'[lane]) = QueueCapacity
             THEN {Now(LaneEvent("PeUnavailable", lane))} ELSE {}))
  /\ UNCHANGED current

(* PeAluLaunchProcessing, PeMemLaunchProcessing.                           *)
LaneLaunchAsserts(lane) == queue[lane] # <<>> /\ current[lane] = NoDop
LaneLaunch(t, lane) ==
  /\ LaneLaunchAsserts(lane)
  /\ LET d == Head(queue[lane]) IN
       /\ current' = [current EXCEPT ![lane] = d]
       /\ Handle(t,
            {After(ReadLatency[lane], DopEvent("IscUnlockRead", d)),
             After(WriteLatency[lane], DopEvent("IscUnlockWrite", d)),
             After(WriteLatency[lane], LaneEvent("PeLandProcessing", lane))}
            \cup (IF LaneFull(lane)
                  THEN {Now(LaneEvent("PeAvailable", lane))} ELSE {}))
  /\ queue' = [queue EXCEPT ![lane] = Tail(@)]

(* PeAluLandProcessing, PeMemLandProcessing.                               *)
LaneLandAsserts(lane) == current[lane] # NoDop
LaneLand(t, lane) ==
  /\ LaneLandAsserts(lane)
  /\ current' = [current EXCEPT ![lane] = NoDop]
  /\ Handle(t, IF queue[lane] # <<>>
               THEN {Now(LaneEvent("PeLaunchProcessing", lane))} ELSE {})
  /\ UNCHANGED queue

(* IscIssueDOp(d) for the control unit: done at once.                      *)
CtlIssue(t, d) ==
  /\ Handle(t, {Now(DopEvent("IscUnlockIssue", d)),
                Now(DopEvent("IscUnlockRead", d)),
                Now(DopEvent("IscUnlockWrite", d))})
  /\ UNCHANGED laneVars
=============================================================================
