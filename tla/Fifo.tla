-------------------------------- MODULE Fifo --------------------------------
(***************************************************************************)
(* The fixed-capacity queue that feeds the processing elements: a ring of  *)
(* slots that are not initialised, a pointer to the front and a length.    *)
(* Reads trust the arithmetic of the ring: nothing else keeps them away    *)
(* from a slot that was never written or whose element was moved out.      *)
(* The last part proves, for every capacity and every set of elements,     *)
(* that the ring implements BoundedQueue.                                  *)
(***************************************************************************)
EXTENDS Integers, SequenceTheorems, TLAPS

CONSTANTS Value, Capacity, Nothing, Panicked,
          Uninit     \* a slot that holds no element

ASSUME CapacityAssumption == Capacity \in Nat
ASSUME UninitAssumption == Uninit \notin Value

VARIABLES container, len, ptr, answer

fifoVars == <<container, len, ptr, answer>>

Slots == 0 .. Capacity - 1

(* The slot of the element at distance i from the front.                   *)
SlotOf(i) == (ptr + i) % Capacity

(* What iter() yields.                                                     *)
Elements == [i \in 1 .. len |-> container[SlotOf(i - 1)]]

Outcome(result) == answer' = result /\ UNCHANGED <<container, len, ptr>>

FifoInit ==
  /\ container = [s \in Slots |-> Uninit]
  /\ len = 0
  /\ ptr = 0
  /\ answer = Nothing

PushBack(v) ==
  \/ len = Capacity /\ Outcome(Panicked)
  \/ /\ len # Capacity
     /\ container' = [container EXCEPT ![SlotOf(len)] = v]
     /\ len' = len + 1
     /\ answer' = Nothing
     /\ UNCHANGED ptr

(* The element is moved out: its slot counts as uninitialised from here.   *)
PopFront ==
  \/ len = 0 /\ Outcome(Panicked)
  \/ /\ len # 0
     /\ answer' = container[ptr]
     /\ container' = [container EXCEPT ![ptr] = Uninit]
     /\ len' = len - 1
     /\ ptr' = (ptr + 1) % Capacity

Index(i) ==
  \/ i >= len /\ Outcome(Panicked)
  \/ i < len /\ Outcome(container[SlotOf(i)])

IndexMut(i, v) ==
  \/ i >= len /\ Outcome(Panicked)
  \/ /\ i < len
     /\ container' = [container EXCEPT ![SlotOf(i)] = v]
     /\ answer' = Nothing
     /\ UNCHANGED <<len, ptr>>

(* Mutant of CloneFifo: the pointer is copied too.                         *)
CloneKeepsPointer ==
  /\ container' = [s \in Slots |-> IF s < len THEN Elements[s + 1] ELSE Uninit]
  /\ answer' = Nothing
  /\ UNCHANGED <<len, ptr>>

(* The clone takes the place of the original: a new ring, filled from its  *)
(* first slot on.                                                          *)
CloneFifo ==
  /\ container' = [s \in Slots |-> IF s < len THEN Elements[s + 1] ELSE Uninit]
  /\ ptr' = 0
  /\ answer' = Nothing
  /\ UNCHANGED len

FifoNext ==
  \/ \E v \in Value : PushBack(v)
  \/ PopFront
  \/ \E i \in 0 .. Capacity : Index(i)
  \/ \E i \in 0 .. Capacity, v \in Value : IndexMut(i, v)
  \/ CloneFifo

FifoSpec == FifoInit /\ [][FifoNext]_fifoVars

-----------------------------------------------------------------------------
(* What is promised: the elements that iter() yields, the front first, are *)
(* the queue.                                                              *)
Queue == INSTANCE BoundedQueue WITH queue <- Elements

(* The ring implements the queue: pushes and pops come out in order across *)
(* every wrap-around, an index names the element at that distance from the *)
(* front, and no operation returns the content of an uninitialised slot.   *)
ImplementsQueue == Queue!QueueSpec

(* The slots that hold an element are exactly the len slots from the       *)
(* pointer on, and every other slot is uninitialised: nothing is read      *)
(* before it was written, moved out twice or lost.                         *)
RingSound ==
  /\ container \in [Slots -> Value \cup {Uninit}]
  /\ len \in 0 .. Capacity
  /\ ptr \in Nat
  /\ Capacity > 0 => ptr \in Slots
  /\ \A s \in Slots : container[s] # Uninit <=> \E i \in 0 .. len - 1 : s = SlotOf(i)

-----------------------------------------------------------------------------
(* Proofs.                                                                 *)

USE CapacityAssumption, UninitAssumption

(* The remainder of a number below the divisor, and below its double.      *)
LEMMA NoWrap ==
  ASSUME NEW c \in Nat \ {0}, NEW n \in 0 .. c - 1
  PROVE  n % c = n
  BY SMT

LEMMA OneWrap ==
  ASSUME NEW c \in Nat \ {0}, NEW n \in c .. 2 * c - 1
  PROVE  n % c = n - c
  BY SMT

(* A distance below the capacity wraps around at most once.                *)
LEMMA Wrap ==
  ASSUME NEW p \in Slots, NEW i \in 0 .. Capacity - 1
  PROVE  /\ (p + i) % Capacity = IF p + i < Capacity THEN p + i ELSE p + i - Capacity
         /\ (p + i) % Capacity \in Slots
<1>1. CASE p + i < Capacity
  <2>1. p + i \in 0 .. Capacity - 1 /\ Capacity \in Nat \ {0}
    BY <1>1 DEF Slots
  <2>2. (p + i) % Capacity = p + i
    BY <2>1, NoWrap
  <2> QED
    BY <1>1, <2>1, <2>2 DEF Slots
<1>2. CASE p + i >= Capacity
  <2>1. p + i \in Capacity .. 2 * Capacity - 1 /\ Capacity \in Nat \ {0}
    BY <1>2 DEF Slots
  <2>2. (p + i) % Capacity = p + i - Capacity
    BY <2>1, OneWrap DEF Slots
  <2> QED
    BY <1>2, <2>1, <2>2 DEF Slots
<1> QED
  BY <1>1, <1>2 DEF Slots

(* Distinct distances name distinct slots.                                 *)
LEMMA SlotsDistinct ==
  ASSUME NEW p \in Slots, NEW i \in 0 .. Capacity - 1, NEW j \in 0 .. Capacity - 1,
         (p + i) % Capacity = (p + j) % Capacity
  PROVE  i = j
<1>1. (p + i) % Capacity = IF p + i < Capacity THEN p + i ELSE p + i - Capacity
  BY Wrap
<1>2. (p + j) % Capacity = IF p + j < Capacity THEN p + j ELSE p + j - Capacity
  BY Wrap
<1> QED
  BY <1>1, <1>2 DEF Slots

(* Moving the pointer on by one moves every distance down by one.          *)
LEMMA NextPointer ==
  ASSUME NEW p \in Slots, NEW i \in Nat, i + 1 < Capacity
  PROVE  /\ (p + 1) % Capacity \in Slots
         /\ (((p + 1) % Capacity) + i) % Capacity = (p + (i + 1)) % Capacity
<1>1. 1 \in 0 .. Capacity - 1 /\ i \in 0 .. Capacity - 1 /\ i + 1 \in 0 .. Capacity - 1
  OBVIOUS
<1>2. (p + 1) % Capacity = IF p + 1 < Capacity THEN p + 1 ELSE p + 1 - Capacity
  BY <1>1, Wrap
<1>3. (p + 1) % Capacity \in Slots
  BY <1>1, Wrap
<1>4. (((p + 1) % Capacity) + i) % Capacity
        = IF ((p + 1) % Capacity) + i < Capacity THEN ((p + 1) % Capacity) + i
          ELSE ((p + 1) % Capacity) + i - Capacity
  BY <1>1, <1>3, Wrap
<1>5. (p + (i + 1)) % Capacity
        = IF p + (i + 1) < Capacity THEN p + (i + 1) ELSE p + (i + 1) - Capacity
  BY <1>1, Wrap
<1> QED
  BY <1>2, <1>3, <1>4, <1>5 DEF Slots

(* The slots of the elements, and what iter() yields.                      *)
LEMMA LiveRing ==
  ASSUME RingSound, NEW i \in 0 .. len - 1
  PROVE  /\ ptr \in Slots
         /\ SlotOf(i) \in Slots
         /\ container[SlotOf(i)] \in Value
<1>1. ptr \in Slots /\ i \in 0 .. Capacity - 1
  BY DEF RingSound
<1>2. SlotOf(i) \in Slots
  BY <1>1, Wrap DEF SlotOf
<1> QED
  BY <1>1, <1>2 DEF RingSound

LEMMA ElementsSeq ==
  ASSUME RingSound
  PROVE  Elements \in Seq(Value) /\ Len(Elements) = len
<1>1. \A k \in 1 .. len : container[SlotOf(k - 1)] \in Value
  <2> SUFFICES ASSUME NEW k \in 1 .. len PROVE container[SlotOf(k - 1)] \in Value
    OBVIOUS
  <2>1. k - 1 \in 0 .. len - 1
    BY DEF RingSound
  <2> QED
    BY <2>1, LiveRing
<1>2. len \in Nat
  BY DEF RingSound
<1> QED
  BY <1>1, <1>2 DEF Elements

(* One step keeps the ring sound.                                          *)
LEMMA RingInit == FifoInit => RingSound
  BY DEF FifoInit, RingSound, Slots

LEMMA PushKeeps ==
  ASSUME RingSound, NEW v \in Value, PushBack(v), len # Capacity
  PROVE  /\ RingSound'
         /\ SlotOf(len) \in Slots
         /\ \A i \in 0 .. len - 1 : SlotOf(len) # SlotOf(i)
<1>1. Capacity > 0 /\ ptr \in Slots /\ len \in 0 .. Capacity - 1
  BY DEF RingSound
<1>2. SlotOf(len) \in Slots
  BY <1>1, Wrap DEF SlotOf
<1>3. ASSUME NEW i \in 0 .. len - 1 PROVE SlotOf(len) # SlotOf(i)
  <2>1. i \in 0 .. Capacity - 1 /\ i # len
    BY <1>1
  <2> QED
    BY <1>1, <2>1, SlotsDistinct DEF SlotOf
<1>4. /\ container' = [container EXCEPT ![SlotOf(len)] = v]
      /\ len' = len + 1 /\ ptr' = ptr
  BY DEF PushBack, Outcome
<1>5. \A i : SlotOf(i)' = SlotOf(i)
  BY <1>4 DEF SlotOf
<1>6. \A s \in Slots :
        container'[s] # Uninit <=> \E i \in 0 .. len' - 1 : s = SlotOf(i)
  <2> SUFFICES ASSUME NEW s \in Slots
               PROVE  container'[s] # Uninit <=> \E i \in 0 .. len' - 1 : s = SlotOf(i)
    OBVIOUS
  <2>1. container'[s] # Uninit <=> s = SlotOf(len) \/ container[s] # Uninit
    BY <1>2, <1>4 DEF RingSound
  <2>2. container[s] # Uninit <=> \E i \in 0 .. len - 1 : s = SlotOf(i)
    BY DEF RingSound
  <2>3. \A i : i \in 0 .. len' - 1 <=> i = len \/ i \in 0 .. len - 1
    BY <1>1, <1>4
  <2> QED
    BY <2>1, <2>2, <2>3
<1>7. RingSound'
  BY <1>1, <1>2, <1>4, <1>5, <1>6 DEF RingSound, Slots
<1> QED
  BY <1>2, <1>3, <1>7

LEMMA PopKeeps ==
  ASSUME RingSound, PopFront, len # 0
  PROVE  /\ RingSound'
         /\ SlotOf(0) = ptr
         /\ \A i \in 0 .. len - 2 : SlotOf(i)' = SlotOf(i + 1) /\ SlotOf(i + 1) # ptr
<1>1. ptr \in Slots /\ len \in 1 .. Capacity /\ 0 \in 0 .. Capacity - 1
  BY DEF RingSound
<1>2. SlotOf(0) = ptr
  <2>1. (ptr + 0) % Capacity = IF ptr + 0 < Capacity THEN ptr + 0 ELSE ptr + 0 - Capacity
    BY <1>1, Wrap
  <2> QED
    BY <1>1, <2>1 DEF SlotOf, Slots
<1>3. /\ container' = [container EXCEPT ![ptr] = Uninit]
      /\ len' = len - 1 /\ ptr' = (ptr + 1) % Capacity
  BY DEF PopFront, Outcome
<1>4. ASSUME NEW i \in 0 .. len - 2
      PROVE  SlotOf(i)' = SlotOf(i + 1) /\ SlotOf(i + 1) # ptr
  <2>1. i \in Nat /\ i + 1 < Capacity /\ i + 1 \in 0 .. Capacity - 1 /\ i + 1 # 0
    BY <1>1
  <2>2. SlotOf(i)' = SlotOf(i + 1)
    BY <1>1, <1>3, <2>1, NextPointer DEF SlotOf
  <2>3. SlotOf(i + 1) # SlotOf(0)
    BY <1>1, <2>1, SlotsDistinct DEF SlotOf
  <2> QED
    BY <1>2, <2>2, <2>3
<1>5. ptr' \in Slots
  <2>1. CASE Capacity = 1
    <3>1. ptr' = 1 % 1
      BY <1>1, <1>3, <2>1 DEF Slots
    <3> QED
      BY <2>1, <3>1 DEF Slots
  <2>2. CASE Capacity # 1
    <3>1. 1 \in 0 .. Capacity - 1
      BY <1>1, <2>2
    <3> QED
      BY <1>1, <1>3, <3>1, Wrap
  <2> QED
    BY <2>1, <2>2
<1>6. ASSUME NEW s \in Slots
      PROVE  container'[s] # Uninit <=> \E i \in 0 .. len' - 1 : s = SlotOf(i)'
  <2>1. container'[s] # Uninit <=> s # ptr /\ container[s] # Uninit
    BY <1>1, <1>3 DEF RingSound
  <2>2. container[s] # Uninit <=> \E i \in 0 .. len - 1 : s = SlotOf(i)
    BY DEF RingSound
  <2>3. ASSUME s # ptr, NEW i \in 0 .. len - 1, s = SlotOf(i)
        PROVE  \E j \in 0 .. len' - 1 : s = SlotOf(j)'
    <3>1. i # 0
      BY <1>2, <2>3
    <3>2. i - 1 \in 0 .. len - 2 /\ i - 1 \in 0 .. len' - 1 /\ (i - 1) + 1 = i
      BY <1>1, <1>3, <3>1
    <3> QED
      BY <1>4, <2>3, <3>2
  <2>4. ASSUME NEW j \in 0 .. len' - 1, s = SlotOf(j)'
        PROVE  s # ptr /\ \E i \in 0 .. len - 1 : s = SlotOf(i)
    <3>1. j \in 0 .. len - 2 /\ j + 1 \in 0 .. len - 1
      BY <1>1, <1>3
    <3> QED
      BY <1>4, <2>4, <3>1
  <2> QED
    BY <2>1, <2>2, <2>3, <2>4
<1>7. RingSound'
  BY <1>1, <1>3, <1>5, <1>6 DEF RingSound, Slots
<1> QED
  BY <1>2, <1>4, <1>7

LEMMA SetKeeps ==
  ASSUME RingSound, NEW i \in 0 .. len - 1, NEW v \in Value, IndexMut(i, v)
  PROVE  RingSound'
<1>1. /\ container' = [container EXCEPT ![SlotOf(i)] = v]
      /\ len' = len /\ ptr' = ptr
  BY DEF IndexMut, RingSound
<1>2. SlotOf(i) \in Slots
  BY LiveRing
<1>3. \A j : SlotOf(j)' = SlotOf(j)
  BY <1>1 DEF SlotOf
<1> QED
  BY <1>1, <1>2, <1>3 DEF RingSound

(* A clone holds the same elements from its first slot on.                 *)
LEMMA CloneKeeps ==
  ASSUME RingSound, CloneFifo
  PROVE  /\ RingSound'
         /\ \A i \in 0 .. len - 1 : SlotOf(i)' = i /\ container'[i] = Elements[i + 1]
<1>1. /\ container' = [s \in Slots |-> IF s < len THEN Elements[s + 1] ELSE Uninit]
      /\ len' = len /\ ptr' = 0 /\ len \in 0 .. Capacity
  BY DEF CloneFifo, RingSound
<1>2. \A k \in 1 .. len : Elements[k] \in Value
  BY ElementsSeq
<1>3. ASSUME NEW i \in 0 .. len - 1 PROVE SlotOf(i)' = i /\ i \in Slots
  <2>1. Capacity \in Nat \ {0} /\ 0 \in Slots /\ i \in 0 .. Capacity - 1
    BY <1>1 DEF Slots
  <2>2. (0 + i) % Capacity = i
    BY <2>1, NoWrap
  <2> QED
    BY <1>1, <2>1, <2>2 DEF SlotOf, Slots
<1>4. ASSUME NEW s \in Slots
      PROVE  container'[s] # Uninit <=> \E i \in 0 .. len' - 1 : s = SlotOf(i)'
  <2>1. CASE s < len
    <3>1. s \in 0 .. len - 1 /\ s + 1 \in 1 .. len
      BY <1>1, <2>1 DEF Slots
    <3> QED
      BY <1>1, <1>2, <1>3, <2>1, <3>1
  <2>2. CASE ~ (s < len)
    BY <1>1, <1>3, <2>2 DEF Slots
  <2> QED
    BY <2>1, <2>2
<1>5. container' \in [Slots -> Value \cup {Uninit}]
  <2>1. ASSUME NEW s \in Slots, s < len PROVE s + 1 \in 1 .. len
    BY <1>1, <2>1 DEF Slots
  <2> QED
    BY <1>1, <1>2, <2>1
<1>6. RingSound'
  BY <1>1, <1>4, <1>5 DEF RingSound, Slots
<1> QED
  BY <1>1, <1>3, <1>6

(* Every step keeps the ring sound.                                        *)
LEMMA StepKeeps ==
  ASSUME RingSound, [FifoNext]_fifoVars
  PROVE  RingSound'
<1>1. ASSUME UNCHANGED <<container, len, ptr>> PROVE RingSound'
  <2>1. \A i : SlotOf(i)' = SlotOf(i)
    BY <1>1 DEF SlotOf
  <2> QED
    BY <1>1, <2>1 DEF RingSound
<1>2. ASSUME NEW v \in Value, PushBack(v) PROVE RingSound'
  BY <1>1, <1>2, PushKeeps DEF PushBack, Outcome
<1>3. CASE PopFront
  BY <1>1, <1>3, PopKeeps DEF PopFront, Outcome
<1>4. ASSUME NEW i \in 0 .. Capacity, Index(i) PROVE RingSound'
  BY <1>1, <1>4 DEF Index, Outcome
<1>5. ASSUME NEW i \in 0 .. Capacity, NEW v \in Value, IndexMut(i, v) PROVE RingSound'
  <2>1. CASE i < len
    <3>1. i \in 0 .. len - 1
      BY <2>1 DEF RingSound
    <3> QED
      BY <1>5, <3>1, SetKeeps
  <2>2. CASE ~ (i < len)
    BY <1>1, <1>5, <2>2 DEF IndexMut, Outcome
  <2> QED
    BY <2>1, <2>2
<1>6. CASE CloneFifo
  BY <1>6, CloneKeeps
<1>7. CASE UNCHANGED fifoVars
  BY <1>1, <1>7 DEF fifoVars
<1> QED
  BY <1>2, <1>3, <1>4, <1>5, <1>6, <1>7 DEF FifoNext

(* In every reachable state exactly the len slots from the pointer on hold *)
(* an element.                                                             *)
THEOREM RingCorrect == FifoSpec => []RingSound
<1> QED
  BY RingInit, StepKeeps, PTL DEF FifoSpec

-----------------------------------------------------------------------------
(* Each operation does to the elements what the queue promises.            *)
LEMMA PushRefines ==
  ASSUME RingSound, NEW v \in Value, PushBack(v)
  PROVE  Queue!QueuePush(v)
<1>0. Elements \in Seq(Value) /\ Len(Elements) = len
  BY ElementsSeq
<1>1. CASE len = Capacity
  <2>1. Outcome(Panicked)
    BY <1>1 DEF PushBack
  <2>2. Elements' = Elements
    BY <2>1 DEF Outcome, Elements, SlotOf
  <2> QED
    BY <1>0, <1>1, <2>1, <2>2 DEF Queue!QueuePush, Queue!Answers, Outcome
<1>2. CASE len # Capacity
  <2>1. RingSound' /\ SlotOf(len) \in Slots /\ \A i \in 0 .. len - 1 : SlotOf(len) # SlotOf(i)
    BY <1>2, PushKeeps
  <2>2. /\ container' = [container EXCEPT ![SlotOf(len)] = v]
        /\ len' = len + 1 /\ ptr' = ptr /\ answer' = Nothing /\ len \in Nat /\ len < Capacity
    BY <1>2 DEF PushBack, Outcome, RingSound
  <2>3. Elements' \in Seq(Value) /\ Len(Elements') = len + 1
    <3>1. (Elements \in Seq(Value) /\ Len(Elements) = len)'
      BY <2>1, ElementsSeq, PTL
    <3> QED
      BY <2>2, <3>1
  <2>4. ASSUME NEW k \in 1 .. len + 1 PROVE Elements'[k] = Append(Elements, v)[k]
    <3>1. Elements'[k] = container'[SlotOf(k - 1)]
      BY <2>2 DEF Elements, SlotOf
    <3>2. CASE k = len + 1
      <4>1. k - 1 = len
        BY <2>2, <3>2
      <4>2. container'[SlotOf(len)] = v
        BY <2>1, <2>2 DEF RingSound
      <4> QED
        BY <1>0, <3>1, <3>2, <4>1, <4>2
    <3>3. CASE k # len + 1
      <4>1. k \in 1 .. len /\ k - 1 \in 0 .. len - 1
        BY <2>2, <3>3
      <4>2. SlotOf(k - 1) \in Slots /\ SlotOf(len) # SlotOf(k - 1)
        BY <2>1, <4>1, LiveRing
      <4>3. container'[SlotOf(k - 1)] = container[SlotOf(k - 1)]
        BY <2>2, <4>2 DEF RingSound
      <4>4. Elements[k] = container[SlotOf(k - 1)]
        BY <4>1 DEF Elements
      <4>5. Append(Elements, v)[k] = Elements[k]
        BY <1>0, <4>1
      <4> QED
        BY <3>1, <4>3, <4>4, <4>5
    <3> QED
      BY <3>2, <3>3
  <2>5. Elements' = Append(Elements, v)
    <3>1. Append(Elements, v) \in Seq(Value) /\ Len(Append(Elements, v)) = len + 1
      BY <1>0
    <3> QED
      BY <2>3, <2>4, <3>1, SeqEqual
  <2> QED
    BY <1>0, <2>2, <2>5 DEF Queue!QueuePush
<1> QED
  BY <1>1, <1>2

LEMMA PopRefines ==
  ASSUME RingSound, PopFront
  PROVE  Queue!QueuePop
<1>0. Elements \in Seq(Value) /\ Len(Elements) = len /\ len \in Nat
  BY ElementsSeq DEF RingSound
<1>1. CASE len = 0
  <2>1. Outcome(Panicked)
    BY <1>1 DEF PopFront
  <2>2. Elements' = Elements
    BY <2>1 DEF Outcome, Elements, SlotOf
  <2>3. Elements = <<>>
    BY <1>0, <1>1
  <2> QED
    BY <2>1, <2>2, <2>3 DEF Queue!QueuePop, Queue!Answers, Outcome
<1>2. CASE len # 0
  <2>1. /\ RingSound' /\ SlotOf(0) = ptr
        /\ \A i \in 0 .. len - 2 : SlotOf(i)' = SlotOf(i + 1) /\ SlotOf(i + 1) # ptr
    BY <1>2, PopKeeps
  <2>2. /\ container' = [container EXCEPT ![ptr] = Uninit]
        /\ len' = len - 1 /\ answer' = container[ptr]
    BY <1>2 DEF PopFront, Outcome
  <2>3. Elements' \in Seq(Value) /\ Len(Elements') = len - 1
    <3>1. (Elements \in Seq(Value) /\ Len(Elements) = len)'
      BY <2>1, ElementsSeq, PTL
    <3> QED
      BY <2>2, <3>1
  <2>4. ASSUME NEW k \in 1 .. len - 1 PROVE Elements'[k] = Tail(Elements)[k]
    <3>1. k - 1 \in 0 .. len - 2 /\ (k - 1) + 1 = k /\ k \in 0 .. len - 1 /\ k + 1 \in 1 .. len
      BY <1>0
    <3>2. Elements'[k] = container'[SlotOf(k - 1)']
      BY <2>2 DEF Elements
    <3>3. SlotOf(k - 1)' = SlotOf(k) /\ SlotOf(k) # ptr /\ SlotOf(k) \in Slots
      BY <2>1, <3>1, LiveRing
    <3>4. container'[SlotOf(k)] = container[SlotOf(k)]
      BY <2>2, <3>3 DEF RingSound
    <3>5. Elements[k + 1] = container[SlotOf(k)]
      BY <3>1 DEF Elements
    <3>6. Tail(Elements)[k] = Elements[k + 1]
      BY <1>0, <1>2, <3>1
    <3> QED
      BY <3>2, <3>3, <3>4, <3>5, <3>6
  <2>5. Elements' = Tail(Elements)
    <3>1. Tail(Elements) \in Seq(Value) /\ Len(Tail(Elements)) = len - 1
      BY <1>0, <1>2
    <3> QED
      BY <2>3, <2>4, <3>1, SeqEqual
  <2>6. answer' = Head(Elements) /\ Elements # <<>>
    <3>1. Head(Elements) = container[SlotOf(0)]
      BY <1>0, <1>2 DEF Elements
    <3> QED
      BY <1>0, <1>2, <2>1, <2>2, <3>1
  <2> QED
    BY <2>5, <2>6 DEF Queue!QueuePop
<1> QED
  BY <1>1, <1>2

LEMMA GetRefines ==
  ASSUME RingSound, NEW i \in 0 .. Capacity, Index(i)
  PROVE  Queue!QueueGet(i)
<1>0. Elements \in Seq(Value) /\ Len(Elements) = len /\ len \in Nat
  BY ElementsSeq DEF RingSound
<1>1. Elements' = Elements
  BY DEF Index, Outcome, Elements, SlotOf
<1>2. i < len => Elements[i + 1] = container[SlotOf(i)]
  <2>1. (i + 1) - 1 = i /\ (i < len => i + 1 \in 1 .. len)
    BY <1>0
  <2> QED
    BY <2>1 DEF Elements
<1> QED
  BY <1>0, <1>1, <1>2 DEF Index, Outcome, Queue!QueueGet, Queue!Answers

LEMMA SetRefines ==
  ASSUME RingSound, NEW i \in 0 .. Capacity, NEW v \in Value, IndexMut(i, v)
  PROVE  Queue!QueueSet(i, v)
<1>0. Elements \in Seq(Value) /\ Len(Elements) = len /\ len \in Nat
  BY ElementsSeq DEF RingSound
<1>1. CASE i >= len
  <2>1. Outcome(Panicked)
    BY <1>0, <1>1 DEF IndexMut
  <2>2. Elements' = Elements
    BY <2>1 DEF Outcome, Elements, SlotOf
  <2> QED
    BY <1>0, <1>1, <2>1, <2>2 DEF Queue!QueueSet, Queue!Answers, Outcome
<1>2. CASE i < len
  <2>1. /\ container' = [container EXCEPT ![SlotOf(i)] = v]
        /\ answer' = Nothing /\ len' = len /\ ptr' = ptr
    BY <1>0, <1>2 DEF IndexMut
  <2>2. i \in 0 .. len - 1 /\ ptr \in Slots /\ SlotOf(i) \in Slots
    BY <1>0, <1>2, LiveRing
  <2>3. ASSUME NEW k \in 1 .. len
        PROVE  Elements'[k] = [Elements EXCEPT ![i + 1] = v][k]
    <3>1. k - 1 \in 0 .. len - 1 /\ SlotOf(k - 1) \in Slots
      BY <1>0, LiveRing
    <3>2. Elements'[k] = container'[SlotOf(k - 1)]
      BY <2>1 DEF Elements, SlotOf
    <3>3. CASE k = i + 1
      <4>1. container'[SlotOf(k - 1)] = v
        BY <2>1, <2>2, <3>3 DEF RingSound
      <4> QED
        BY <1>0, <3>2, <3>3, <4>1
    <3>4. CASE k # i + 1
      <4>1. /\ k - 1 # i /\ k - 1 \in 0 .. Capacity - 1 /\ i \in 0 .. Capacity - 1
        BY <1>2, <2>2, <3>1, <3>4 DEF RingSound
      <4>2. SlotOf(k - 1) # SlotOf(i)
        BY <2>2, <4>1, SlotsDistinct DEF SlotOf
      <4>3. container'[SlotOf(k - 1)] = container[SlotOf(k - 1)]
        BY <2>1, <3>1, <4>2 DEF RingSound
      <4> QED
        BY <1>0, <3>2, <3>4, <4>3 DEF Elements
    <3> QED
      BY <3>3, <3>4
  <2>4. Elements' \in Seq(Value) /\ Len(Elements') = len
    <3>1. RingSound'
      BY <2>2, SetKeeps
    <3>2. (Elements \in Seq(Value) /\ Len(Elements) = len)'
      BY <3>1, ElementsSeq, PTL
    <3> QED
      BY <2>1, <3>2
  <2>5. Elements' = [Elements EXCEPT ![i + 1] = v]
    <3> DEFINE changed == [Elements EXCEPT ![i + 1] = v]
    <3>1. changed \in Seq(Value) /\ Len(changed) = len
      <4>1. i + 1 \in 1 .. Len(Elements)
        BY <1>0, <1>2
      <4> QED
        BY <1>0, <4>1, ExceptSeq
    <3>2. \A k \in 1 .. len : Elements'[k] = changed[k]
      BY <2>3
    <3> HIDE DEF changed
    <3>3. Elements' = changed
      BY <2>4, <3>1, <3>2, SeqEqual
    <3> QED
      BY <3>3 DEF changed
  <2> QED
    BY <1>0, <1>2, <2>1, <2>5 DEF Queue!QueueSet
<1> QED
  BY <1>0, <1>1, <1>2

LEMMA CloneRefines ==
  ASSUME RingSound, CloneFifo
  PROVE  Queue!QueueCopy
<1>0. Elements \in Seq(Value) /\ Len(Elements) = len /\ len \in Nat
  BY ElementsSeq DEF RingSound
<1>1. /\ RingSound' /\ len' = len /\ answer' = Nothing
      /\ \A i \in 0 .. len - 1 : SlotOf(i)' = i /\ container'[i] = Elements[i + 1]
  BY CloneKeeps DEF CloneFifo
<1>2. Elements' \in Seq(Value) /\ Len(Elements') = len
  <2>1. (Elements \in Seq(Value) /\ Len(Elements) = len)'
    BY <1>1, ElementsSeq, PTL
  <2> QED
    BY <1>1, <2>1
<1>3. ASSUME NEW k \in 1 .. len PROVE Elements'[k] = Elements[k]
  <2>1. k - 1 \in 0 .. len - 1 /\ (k - 1) + 1 = k
    BY <1>0
  <2>2. Elements'[k] = container'[SlotOf(k - 1)']
    BY <1>1 DEF Elements
  <2> QED
    BY <1>1, <2>1, <2>2
<1>4. Elements' = Elements
  BY <1>0, <1>2, <1>3, SeqEqual
<1> QED
  BY <1>1, <1>4 DEF Queue!QueueCopy, Queue!Answers

(* The ring implements the queue for every capacity: whatever the pushes,  *)
(* pops, reads, writes and clones, iter() yields the queue and every       *)
(* operation returns what the queue returns.                               *)
THEOREM FifoIsQueue == FifoSpec => ImplementsQueue
<1>1. FifoInit => Queue!QueueInit
  <2> SUFFICES ASSUME FifoInit PROVE Queue!QueueInit
    OBVIOUS
  <2>1. Elements \in Seq(Value) /\ Len(Elements) = 0
    BY RingInit, ElementsSeq DEF FifoInit
  <2>2. Elements = <<>>
    BY <2>1
  <2> QED
    BY <2>2 DEF FifoInit, Queue!QueueInit
<1>2. ASSUME RingSound, [FifoNext]_fifoVars
      PROVE  [Queue!QueueNext]_<<Elements, answer>>
  <2>1. CASE UNCHANGED fifoVars
    BY <2>1 DEF fifoVars, Elements, SlotOf
  <2>2. CASE FifoNext
    BY <1>2, <2>2, PushRefines, PopRefines, GetRefines, SetRefines, CloneRefines
       DEF FifoNext, Queue!QueueNext
  <2> QED
    BY <1>2, <2>1, <2>2
<1> QED
  BY <1>1, <1>2, RingCorrect, PTL DEF FifoSpec, ImplementsQueue, Queue!QueueSpec
=============================================================================
