---------------------------- MODULE BoundedQueue ----------------------------
(***************************************************************************)
(* What the documentation of the fixed-capacity queue of zhc_utils         *)
(* promises: elements are added to the back and removed from the front in  *)
(* the same order, a push into a full queue and a pop from an empty one    *)
(* panic and change nothing, and an index names an element by its distance *)
(* from the front.  Fifo implements it with a ring of slots.               *)
(***************************************************************************)
EXTENDS Integers, Sequences

CONSTANTS Value,     \* the elements
          Capacity,  \* the number of elements the queue may hold
          Nothing,   \* the answer of an operation that returns no element
          Panicked   \* the outcome of an operation that panicked

VARIABLES queue,     \* the elements, the front first
          answer     \* what the last operation returned

Answers(result) == answer' = result /\ UNCHANGED queue

QueueInit == queue = <<>> /\ answer = Nothing

QueuePush(v) ==
  \/ Len(queue) = Capacity /\ Answers(Panicked)
  \/ Len(queue) < Capacity /\ queue' = Append(queue, v) /\ answer' = Nothing

QueuePop ==
  \/ queue = <<>> /\ Answers(Panicked)
  \/ queue # <<>> /\ queue' = Tail(queue) /\ answer' = Head(queue)

QueueGet(i) ==
  \/ i >= Len(queue) /\ Answers(Panicked)
  \/ i < Len(queue) /\ Answers(queue[i + 1])

QueueSet(i, v) ==
  \/ i >= Len(queue) /\ Answers(Panicked)
  \/ i < Len(queue) /\ queue' = [queue EXCEPT ![i + 1] = v] /\ answer' = Nothing

QueueCopy == Answers(Nothing)

QueueNext ==
  \/ \E v \in Value : QueuePush(v)
  \/ QueuePop
  \/ \E i \in 0 .. Capacity : QueueGet(i)
  \/ \E i \in 0 .. Capacity, v \in Value : QueueSet(i, v)
  \/ QueueCopy

QueueSpec == QueueInit /\ [][QueueNext]_<<queue, answer>>
=============================================================================
