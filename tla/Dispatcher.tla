----------------------------- MODULE Dispatcher -----------------------------
(***************************************************************************)
(* The event queue of the discrete-event simulator                         *)
(* (zhc_sim/src/simulator).  A trigger is an event and the cycle at which  *)
(* it is due.  The code keeps triggers in a BinaryHeap ordered by cycle    *)
(* alone and discards a trigger equal to one it already holds, so the      *)
(* content of the heap is a set; which of several triggers of one cycle is *)
(* popped first is left to the heap, here to chance.                       *)
(***************************************************************************)
EXTENDS Integers

(* Events (hpu/events.rs), by their payload: none, a DOp or its id, a lane *)
(* of the processing elements, a batch size.  The notifications that no    *)
(* component handles (NotifyIsc, NotifyStartOnTimeout, IscRefillDOp) only  *)
(* feed the trace and are left out.                                        *)
Event(type) == [type |-> type]
DopEvent(type, d) == [type |-> type, id |-> d]
LaneEvent(type, lane) == [type |-> type, lane |-> lane]
BatchEvent(type, n) == [type |-> type, size |-> n]

VARIABLES now,        \* the current cycle
          triggers    \* scheduled events

dispatcherVars == <<now, triggers>>

DispatcherInit(initial) == now = 0 /\ triggers = initial

(* The trigger that dispatch_after(delay, event) schedules now.            *)
After(delay, event) == [at |-> now + delay, event |-> event]
Now(event) == After(0, event)

(* What dispatch_after_if_no_there adds to the pending triggers.  Mutant:  *)
(* it adds nothing when anything is pending.                               *)
AfterIfNothingThere(pending, delay, event) ==
  IF pending # {} THEN {} ELSE {After(delay, event)}
AfterIfNotThere(pending, delay, event) ==
  IF \E t \in pending : t.event = event THEN {} ELSE {After(delay, event)}

(* The triggers pop_now may return.                                        *)
Ready == {t \in triggers : t.at = now}

(* One turn of the loop of step_cond: trigger t is popped and its handlers *)
(* schedule the triggers in new.                                           *)
Handle(t, new) ==
  /\ triggers' = (triggers \ {t}) \cup new
  /\ UNCHANGED now

(* advance: time jumps to the next trigger.                                *)
Advance ==
  /\ triggers # {}
  /\ \E t \in triggers :
       /\ \A u \in triggers : t.at <= u.at
       /\ now' = t.at
  /\ UNCHANGED triggers
=============================================================================
