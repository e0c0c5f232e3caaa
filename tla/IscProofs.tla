----------------------------- MODULE IscProofs -----------------------------
(***************************************************************************)
(* Proofs about the instruction scheduler, for every set of streams and    *)
(* every depth of the pool: its types, its inductive invariant, the        *)
(* absence of hazards, the order of PBS batches, the soundness of its      *)
(* locks, and that it implements Dataflow.                                 *)
(***************************************************************************)
EXTENDS Isc, FiniteSetTheorems, TLAPS

USE ProgramsAssumption, IscDepthAssumption

-----------------------------------------------------------------------------
(* Types.                                                                  *)

(* The pool is finite.                                                     *)
LEMMA PoolFinite ==
  ASSUME IscTypeOK
  PROVE  IsFiniteSet(InPool)
<1>1. refilled \in Nat /\ InPool \subseteq 1 .. refilled
  BY DEF IscTypeOK
<1>2. IsFiniteSet(1 .. refilled)
  BY <1>1, FS_Interval
<1> QED
  BY <1>1, <1>2, FS_Subset

(* The locks of a new slot name slots of the pool.                         *)
LEMMA LocksInPool ==
  ASSUME NEW d
  PROVE  /\ ReadLock(d) \subseteq InPool
         /\ WriteLock(d) \subseteq InPool
         /\ IssueLock(d) \subseteq InPool
BY DEF ReadLock, WriteLock, IssueLock

(* No message changes the type of a variable.                              *)
LEMMA TypeInit ==
  ASSUME IscInit
  PROVE  IscTypeOK
<1>1. prog \in Seq(DopInstruction)
  BY DEF IscInit
<1>2. InPool = {} /\ pool \in [InPool -> Slot]
  BY DEF IscInit, InPool
<1>3. Cardinality(InPool) <= IscDepth
  BY <1>2, FS_EmptySet
<1> QED
  BY <1>1, <1>2, <1>3 DEF IscInit, IscTypeOK, InPool

LEMMA TypeStep ==
  ASSUME IscTypeOK, [IscNext]_iscVars
  PROVE  IscTypeOK'
<1> USE DEF IscTypeOK, InPool, iscVars, schedulerVars, historyVars
<1>0. Len(prog) \in Nat
  <2>1. prog \in Seq(DopInstruction)
    OBVIOUS
  <2> QED
    BY <2>1
<1>1. ASSUME NEW n \in Ids, PushDOps(n) PROVE IscTypeOK'
  BY <1>0, <1>1 DEF PushDOps, Ids
<1>2. ASSUME NEW d \in issued, UnlockIssue(d) PROVE IscTypeOK'
  <2>1. DOMAIN pool' = DOMAIN pool
    BY <1>2 DEF UnlockIssue
  <2>2. pool' \in [DOMAIN pool -> Slot]
    BY <1>2 DEF UnlockIssue, Slot, States
  <2> QED
    BY <1>2, <2>1, <2>2 DEF UnlockIssue
<1>3. ASSUME NEW d \in issued \ readDone, UnlockRead(d) PROVE IscTypeOK'
  BY <1>0, <1>3 DEF UnlockRead
<1>4. ASSUME NEW d \in issued \ writeDone, UnlockWrite(d) PROVE IscTypeOK'
  BY <1>0, <1>4 DEF UnlockWrite
<1>5. ASSUME NEW lane \in TrackedLanes, NEW available \in BOOLEAN,
             SetAvailable(lane, available)
      PROVE  IscTypeOK'
  BY <1>5 DEF SetAvailable
<1>6. CASE RetireDOp
  BY <1>0, <1>6 DEF RetireDOp
<1>7. CASE QueryReadUnlock
  <2>1. DOMAIN pool' = DOMAIN pool
    BY <1>7 DEF QueryReadUnlock
  <2>2. pool' \in [DOMAIN pool -> Slot]
    <3>1. PICK d \in InPool :
            pool' = [i \in InPool |->
                       [pool[i] EXCEPT !.readLock = @ \ {d},
                                       !.state = IF i = d THEN "Loaded" ELSE @]]
      BY <1>7 DEF QueryReadUnlock
    <3> QED
      BY <3>1 DEF Slot, States
  <2>3. readUnlocks' \in Seq(Nat)
    <3>1. readUnlocks # <<>> /\ readUnlocks' = Tail(readUnlocks)
      BY <1>7 DEF QueryReadUnlock, MayReadUnlock
    <3> QED
      BY <3>1
  <2> QED
    BY <1>7, <2>1, <2>2, <2>3 DEF QueryReadUnlock
<1>8. CASE QueryRefill
  <2> DEFINE d == refilled + 1
  <2>1. refilled < pushed /\ refilled' = d /\ Cardinality(InPool) < IscDepth
    BY <1>8 DEF QueryRefill, MayRefill
  <2>2. DOMAIN pool' = InPool \cup {d}
    BY <1>8 DEF QueryRefill
  <2>3. d \in Nat /\ d \notin InPool /\ InPool \subseteq Nat
    BY <1>0
  <2>4. pool' \in [InPool \cup {d} -> Slot]
    <3>1. /\ ReadLock(d) \subseteq Nat /\ WriteLock(d) \subseteq Nat
          /\ IssueLock(d) \subseteq Nat
      BY LocksInPool, <2>3
    <3> QED
      BY <1>8, <3>1 DEF QueryRefill, Slot, States
  <2>5. Cardinality(DOMAIN pool') <= IscDepth
    <3>1. IsFiniteSet(InPool)
      BY PoolFinite
    <3>2. Cardinality(InPool \cup {d}) = Cardinality(InPool) + 1
      BY <3>1, <2>3, FS_AddElement
    <3>3. Cardinality(InPool) \in Nat
      BY <3>1, FS_CardinalityType
    <3> QED
      BY <2>1, <2>2, <3>2, <3>3
  <2> QED
    BY <1>0, <1>8, <2>1, <2>2, <2>4, <2>5 DEF QueryRefill
<1>9. CASE QueryRetire
  <2> DEFINE d == Head(writeUnlocks)
  <2>1. DOMAIN pool' = InPool \ {d}
    BY <1>9 DEF QueryRetire
  <2>2. pool' \in [InPool \ {d} -> Slot]
    <3>1. pool' = [i \in InPool \ {d} |-> [pool[i] EXCEPT !.writeLock = @ \ {d}]]
      BY <1>9 DEF QueryRetire
    <3>2. pool \in [InPool -> Slot]
      OBVIOUS
    <3> HIDE DEF d, InPool, IscTypeOK
    <3> QED
      BY <3>1, <3>2 DEF Slot
  <2>3. writeUnlocks' \in Seq(Nat)
    BY <1>9 DEF QueryRetire, MayRetire
  <2>4. Cardinality(DOMAIN pool') <= IscDepth
    <3>1. IsFiniteSet(InPool)
      BY PoolFinite
    <3>2. Cardinality(InPool \ {d}) <= Cardinality(InPool)
      BY <3>1, FS_Subset, InPool \ {d} \subseteq InPool
    <3>3. Cardinality(InPool) \in Nat /\ Cardinality(InPool \ {d}) \in Nat
      BY <3>1, FS_CardinalityType, FS_Subset, InPool \ {d} \subseteq InPool
    <3> QED
      BY <2>1, <3>2, <3>3
  <2> QED
    BY <1>9, <2>1, <2>2, <2>3, <2>4 DEF QueryRetire
<1>10. ASSUME NEW d \in InPool, QueryIssue(d) PROVE IscTypeOK'
  BY <1>10 DEF QueryIssue
<1>11. CASE UNCHANGED iscVars
  BY <1>11
<1> QED
  BY <1>1, <1>2, <1>3, <1>4, <1>5, <1>6, <1>7, <1>8, <1>9, <1>10, <1>11
  DEF IscNext, Query

(* Every variable of the scheduler keeps its type and its pool never holds *)
(* more than IscDepth slots.                                               *)
THEOREM IscTypeCorrect == IscSpec => []IscTypeOK
<1>1. IscInit => IscTypeOK
  BY TypeInit
<1>2. IscTypeOK /\ [IscNext]_iscVars => IscTypeOK'
  BY TypeStep
<1> QED
  BY <1>1, <1>2, PTL DEF IscSpec

-----------------------------------------------------------------------------
(* What each action does to the slots.                                     *)

(* The stream never changes, nor does what its DOps depend on.             *)
LEMMA StreamStable ==
  ASSUME [IscNext]_iscVars
  PROVE  /\ prog' = prog
         /\ \A i, j : /\ ReadAfterWrite(i, j)' <=> ReadAfterWrite(i, j)
                      /\ WriteAfterRead(i, j)' <=> WriteAfterRead(i, j)
                      /\ WriteAfterWrite(i, j)' <=> WriteAfterWrite(i, j)
                      /\ Barrier(i, j)' <=> Barrier(i, j)
                      /\ FlushPrecedes(i, j)' <=> FlushPrecedes(i, j)
<1>1. prog' = prog
  BY DEF iscVars, IscNext, Query, PushDOps, UnlockIssue, UnlockRead, UnlockWrite,
         SetAvailable, RetireDOp, QueryReadUnlock, QueryRefill, QueryRetire,
         QueryIssue
<1> QED
  BY <1>1 DEF ReadAfterWrite, WriteAfterRead, WriteAfterWrite, Barrier,
              FlushPrecedes

(* UnlockIssue(d) moves d on and releases the issue locks on it.           *)
LEMMA UnlockIssueSlots ==
  ASSUME IscTypeOK, NEW d \in issued, UnlockIssue(d)
  PROVE  /\ InPool' = InPool
         /\ d \in InPool /\ pool[d].state = "Pending"
         /\ \A i \in InPool :
              /\ pool'[i].readLock = pool[i].readLock
              /\ pool'[i].writeLock = pool[i].writeLock
              /\ pool'[i].issueLock = pool[i].issueLock \ {d}
              /\ pool'[i].state = IF i = d THEN "Issued" ELSE pool[i].state
<1>1. pool \in [InPool -> Slot]
  BY DEF IscTypeOK
<1>2. pool' = [i \in InPool |->
                 [pool[i] EXCEPT !.issueLock = @ \ {d},
                                 !.state = IF i = d THEN "Issued" ELSE @]]
  BY DEF UnlockIssue
<1>3. InPool' = InPool
  BY <1>2 DEF InPool
<1>4. d \in InPool /\ pool[d].state = "Pending"
  BY DEF UnlockIssue
<1> HIDE DEF InPool
<1>5. \A i \in InPool :
        /\ pool'[i].readLock = pool[i].readLock
        /\ pool'[i].writeLock = pool[i].writeLock
        /\ pool'[i].issueLock = pool[i].issueLock \ {d}
        /\ pool'[i].state = IF i = d THEN "Issued" ELSE pool[i].state
  BY <1>1, <1>2 DEF Slot
<1> QED
  BY <1>3, <1>4, <1>5

(* A read unlock moves d on and releases the read locks on it.             *)
LEMMA QueryReadUnlockSlots ==
  ASSUME IscTypeOK, QueryReadUnlock
  PROVE  /\ InPool' = InPool
         /\ \E d \in InPool :
              /\ d = readUnlocks[1] /\ readUnlocks # <<>>
              /\ pool[d].state = "Issued"
              /\ \A i \in InPool :
                   /\ pool'[i].readLock = pool[i].readLock \ {d}
                   /\ pool'[i].writeLock = pool[i].writeLock
                   /\ pool'[i].issueLock = pool[i].issueLock
                   /\ pool'[i].state = IF i = d THEN "Loaded" ELSE pool[i].state
<1> DEFINE d == Head(readUnlocks)
<1>1. pool \in [InPool -> Slot] /\ readUnlocks \in Seq(Nat)
  BY DEF IscTypeOK
<1>2. /\ pool' = [i \in InPool |->
                    [pool[i] EXCEPT !.readLock = @ \ {d},
                                    !.state = IF i = d THEN "Loaded" ELSE @]]
      /\ d \in InPool /\ pool[d].state = "Issued" /\ readUnlocks # <<>>
  BY DEF QueryReadUnlock, MayReadUnlock
<1>3. InPool' = InPool
  BY <1>2 DEF InPool
<1>4. d = readUnlocks[1]
  <2>1. readUnlocks # <<>>
    BY <1>2
  <2> QED
    BY <1>1, <2>1
<1> HIDE DEF InPool, d
<1>5. \A i \in InPool :
        /\ pool'[i].readLock = pool[i].readLock \ {d}
        /\ pool'[i].writeLock = pool[i].writeLock
        /\ pool'[i].issueLock = pool[i].issueLock
        /\ pool'[i].state = IF i = d THEN "Loaded" ELSE pool[i].state
  BY <1>1, <1>2 DEF Slot
<1> QED
  BY <1>2, <1>3, <1>4, <1>5

(* A refill adds one pending slot and leaves the others alone.             *)
LEMMA QueryRefillSlots ==
  ASSUME IscTypeOK, QueryRefill, NEW d, d = refilled + 1
  PROVE  /\ InPool' = InPool \cup {d}
         /\ d \notin InPool /\ d \notin issued
         /\ \A i \in InPool : i < d /\ pool'[i] = pool[i]
         /\ pool'[d].state = "Pending"
         /\ pool'[d].readLock = ReadLock(d)
         /\ pool'[d].writeLock = WriteLock(d)
         /\ pool'[d].issueLock = IssueLock(d)
<1>1. /\ InPool \subseteq 1 .. refilled /\ issued \subseteq 1 .. refilled
      /\ refilled \in Nat
  BY DEF IscTypeOK
<1>2. pool' = [i \in InPool \cup {d} |->
                 IF i = d
                 THEN [state |-> "Pending", readLock |-> ReadLock(d),
                       writeLock |-> WriteLock(d), issueLock |-> IssueLock(d)]
                 ELSE pool[i]]
  BY DEF QueryRefill
<1>3. InPool' = InPool \cup {d}
  BY <1>2 DEF InPool
<1>4. d \notin InPool /\ d \notin issued /\ \A i \in InPool : i < d
  BY <1>1
<1> HIDE DEF InPool
<1> QED
  BY <1>2, <1>3, <1>4

(* A retirement takes d out and releases the write locks on it.            *)
LEMMA QueryRetireSlots ==
  ASSUME IscTypeOK, QueryRetire
  PROVE  \E d \in InPool :
           /\ d = writeUnlocks[1] /\ writeUnlocks # <<>>
           /\ pool[d].state = "Loaded"
           /\ InPool' = InPool \ {d}
           /\ \A i \in InPool \ {d} :
                /\ pool'[i].readLock = pool[i].readLock
                /\ pool'[i].writeLock = pool[i].writeLock \ {d}
                /\ pool'[i].issueLock = pool[i].issueLock
                /\ pool'[i].state = pool[i].state
<1> DEFINE d == Head(writeUnlocks)
<1>1. pool \in [InPool -> Slot] /\ writeUnlocks \in Seq(Nat)
  BY DEF IscTypeOK
<1>2. /\ pool' = [i \in InPool \ {d} |-> [pool[i] EXCEPT !.writeLock = @ \ {d}]]
      /\ d \in InPool /\ pool[d].state = "Loaded" /\ writeUnlocks # <<>>
  BY DEF QueryRetire, MayRetire
<1>3. InPool' = InPool \ {d}
  BY <1>2 DEF InPool
<1>4. d = writeUnlocks[1]
  BY <1>1, <1>2
<1> HIDE DEF InPool, d
<1>5. \A i \in InPool \ {d} :
        /\ pool'[i].readLock = pool[i].readLock
        /\ pool'[i].writeLock = pool[i].writeLock \ {d}
        /\ pool'[i].issueLock = pool[i].issueLock
        /\ pool'[i].state = pool[i].state
  BY <1>1, <1>2 DEF Slot
<1> QED
  BY <1>2, <1>3, <1>4, <1>5

-----------------------------------------------------------------------------
(* The inductive invariant.                                                *)

(* A step that touches neither the pool nor the issued DOps.               *)
QuietStep == UNCHANGED <<prog, refilled, pool, issued>>

(* The steps that matter to the locks.                                     *)
LEMMA StepKinds ==
  ASSUME [IscNext]_iscVars
  PROVE  \/ QuietStep
         \/ \E d \in issued : UnlockIssue(d)
         \/ QueryReadUnlock
         \/ QueryRefill
         \/ QueryRetire
         \/ \E d \in InPool : QueryIssue(d)
BY DEF QuietStep, IscNext, Query, PushDOps, UnlockRead, UnlockWrite, SetAvailable,
       RetireDOp, iscVars, schedulerVars, historyVars

(* The messages received so far explain the states of the slots.           *)
LEMMA HistoryStep ==
  ASSUME IscTypeOK, HistoryInv, [IscNext]_iscVars
  PROVE  HistoryInv'
<1> USE DEF HistoryInv, Retired
<1>0. /\ readUnlocks \in Seq(Nat) /\ writeUnlocks \in Seq(Nat)
      /\ readDone \subseteq issued /\ writeDone \subseteq issued
      /\ InPool \subseteq 1 .. refilled /\ refilled \in Nat
  BY DEF IscTypeOK
<1>1. ASSUME NEW n \in Ids, PushDOps(n) PROVE HistoryInv'
  BY <1>1 DEF PushDOps, historyVars, InPool
<1>2. ASSUME NEW d \in issued, UnlockIssue(d) PROVE HistoryInv'
  <2>1. UNCHANGED <<refilled, readUnlocks, writeUnlocks, historyVars>>
    BY <1>2 DEF UnlockIssue
  <2> QED
    BY <1>2, <2>1, UnlockIssueSlots DEF historyVars
<1>3. ASSUME NEW d \in issued \ readDone, UnlockRead(d) PROVE HistoryInv'
  BY <1>0, <1>3 DEF UnlockRead, InPool
<1>4. ASSUME NEW d \in issued \ writeDone, UnlockWrite(d) PROVE HistoryInv'
  BY <1>0, <1>4 DEF UnlockWrite, InPool
<1>5. ASSUME NEW lane \in TrackedLanes, NEW available \in BOOLEAN,
             SetAvailable(lane, available)
      PROVE  HistoryInv'
  BY <1>5 DEF SetAvailable, historyVars, InPool
<1>6. CASE RetireDOp
  BY <1>6 DEF RetireDOp, historyVars, InPool
<1>7. CASE QueryReadUnlock
  <2>1. /\ UNCHANGED <<refilled, writeUnlocks, historyVars>>
        /\ readUnlocks' = Tail(readUnlocks)
    BY <1>7 DEF QueryReadUnlock
  <2>2. PICK d \in InPool :
          /\ d = readUnlocks[1] /\ readUnlocks # <<>>
          /\ pool[d].state = "Issued"
          /\ \A i \in InPool :
               pool'[i].state = IF i = d THEN "Loaded" ELSE pool[i].state
    BY <1>7, QueryReadUnlockSlots
  <2>3. d \in readDone
    <3>1. Len(readUnlocks) \in Nat \ {0}
      BY <1>0, <2>2
    <3> QED
      BY <2>2, <3>1
  <2>4. InPool' = InPool
    BY <1>7, QueryReadUnlockSlots
  <2>5. \A k \in 1 .. Len(readUnlocks') : readUnlocks'[k] \in readDone
    <3>1. \A k \in 1 .. Len(Tail(readUnlocks)) :
            k + 1 \in 1 .. Len(readUnlocks) /\ Tail(readUnlocks)[k] = readUnlocks[k + 1]
      BY <1>0, <2>2
    <3> QED
      BY <2>1, <3>1
  <2> QED
    BY <1>0, <2>1, <2>2, <2>3, <2>4, <2>5 DEF historyVars
<1>8. CASE QueryRefill
  <2> DEFINE d == refilled + 1
  <2>1. /\ UNCHANGED <<readUnlocks, writeUnlocks, historyVars>>
        /\ refilled' = d
    BY <1>8 DEF QueryRefill
  <2>2. /\ InPool' = InPool \cup {d}
        /\ \A i \in InPool : pool'[i] = pool[i]
        /\ pool'[d].state = "Pending"
    BY <1>8, QueryRefillSlots
  <2>3. Retired' \subseteq Retired
    BY <1>0, <2>1, <2>2
  <2> HIDE DEF d, Retired
  <2>4. \A e \in InPool' \ issued' : pool'[e].state = "Pending"
    BY <2>1, <2>2 DEF historyVars
  <2>5. \A e \in InPool' : pool'[e].state \in {"Loaded", "Finished"} => e \in readDone'
    BY <2>1, <2>2 DEF historyVars
  <2> QED
    BY <2>1, <2>3, <2>4, <2>5 DEF historyVars
<1>9. CASE QueryRetire
  <2>1. /\ UNCHANGED <<refilled, readUnlocks, historyVars>>
        /\ writeUnlocks' = Tail(writeUnlocks)
    BY <1>9 DEF QueryRetire
  <2>2. PICK d \in InPool :
          /\ d = writeUnlocks[1] /\ writeUnlocks # <<>>
          /\ pool[d].state = "Loaded"
          /\ InPool' = InPool \ {d}
          /\ \A i \in InPool \ {d} : pool'[i].state = pool[i].state
    BY <1>9, QueryRetireSlots
  <2>3. d \in readDone /\ d \in writeDone
    <3>1. Len(writeUnlocks) \in Nat \ {0}
      BY <1>0, <2>2
    <3> QED
      BY <2>2, <3>1
  <2>4. \A k \in 1 .. Len(writeUnlocks') : writeUnlocks'[k] \in writeDone
    <3>1. \A k \in 1 .. Len(Tail(writeUnlocks)) :
            k + 1 \in 1 .. Len(writeUnlocks) /\ Tail(writeUnlocks)[k] = writeUnlocks[k + 1]
      BY <1>0, <2>2
    <3> QED
      BY <2>1, <3>1
  <2> QED
    BY <2>1, <2>2, <2>3, <2>4 DEF historyVars
<1>10. ASSUME NEW d \in InPool, QueryIssue(d) PROVE HistoryInv'
  <2>1. /\ UNCHANGED <<pool, refilled, readUnlocks, writeUnlocks, readDone, writeDone>>
        /\ issued' = issued \cup {d}
    BY <1>10 DEF QueryIssue, schedulerVars
  <2>2. InPool' = InPool
    BY <2>1 DEF InPool
  <2> QED
    BY <1>0, <2>1, <2>2
<1>11. CASE UNCHANGED iscVars
  BY <1>11 DEF iscVars, schedulerVars, historyVars, InPool
<1> QED
  BY <1>1, <1>2, <1>3, <1>4, <1>5, <1>6, <1>7, <1>8, <1>9, <1>10, <1>11
  DEF IscNext, Query

(* A lock stays as long as the conflict that created it.                   *)
LEMMA LockStep ==
  ASSUME IscTypeOK, LockInv, [IscNext]_iscVars
  PROVE  LockInv'
<1> DEFINE Conflict(i, j) ==
      ReadAfterWrite(i, j) \/ WriteAfterWrite(i, j) \/ Barrier(i, j)
<1> SUFFICES ASSUME NEW i \in InPool', NEW j \in InPool'
             PROVE  /\ Conflict(i, j) => i \in pool'[j].writeLock
                    /\ WriteAfterRead(i, j) /\ NotLoaded(i)'
                         => i \in pool'[j].readLock
                    /\ FlushPrecedes(i, j) /\ pool'[i].state = "Pending"
                         => i \in pool'[j].issueLock
  BY StreamStable DEF LockInv
<1>0. i \in InPool /\ j \in InPool =>
        /\ Conflict(i, j) => i \in pool[j].writeLock
        /\ WriteAfterRead(i, j) /\ NotLoaded(i) => i \in pool[j].readLock
        /\ FlushPrecedes(i, j) /\ pool[i].state = "Pending"
             => i \in pool[j].issueLock
  BY DEF LockInv
<1> HIDE DEF Conflict
<1>1. CASE QuietStep
  BY <1>0, <1>1 DEF QuietStep, NotLoaded, InPool
<1>2. ASSUME NEW d \in issued, UnlockIssue(d)
      PROVE  /\ Conflict(i, j) => i \in pool'[j].writeLock
             /\ WriteAfterRead(i, j) /\ NotLoaded(i)' => i \in pool'[j].readLock
             /\ FlushPrecedes(i, j) /\ pool'[i].state = "Pending"
                  => i \in pool'[j].issueLock
  BY <1>0, <1>2, UnlockIssueSlots DEF NotLoaded
<1>3. CASE QueryReadUnlock
  BY <1>0, <1>3, QueryReadUnlockSlots DEF NotLoaded
<1>4. CASE QueryRefill
  <2> DEFINE d == refilled + 1
  <2>1. /\ InPool' = InPool \cup {d}
        /\ \A e \in InPool : e < d /\ pool'[e] = pool[e]
        /\ pool'[d].readLock = ReadLock(d)
        /\ pool'[d].writeLock = WriteLock(d)
        /\ pool'[d].issueLock = IssueLock(d)
    BY <1>4, QueryRefillSlots
  <2>2. d \in Nat /\ InPool \subseteq Nat
    BY DEF IscTypeOK
  <2> HIDE DEF d
  <2>3. CASE i \in InPool /\ j \in InPool
    BY <1>0, <2>1, <2>3 DEF NotLoaded
  <2>4. CASE i = d
    <3>1. ~ (i < j)
      BY <2>1, <2>2, <2>4
    <3> QED
      BY <3>1 DEF Conflict, ReadAfterWrite, WriteAfterWrite, WriteAfterRead,
                  Barrier, FlushPrecedes
  <2>5. CASE i \in InPool /\ j = d
    <3>1. Conflict(i, d) => i \in WriteLock(d)
      BY <2>5 DEF Conflict, ReadAfterWrite, WriteAfterWrite, Barrier, WriteLock
    <3>2. WriteAfterRead(i, d) /\ NotLoaded(i) => i \in ReadLock(d)
      BY <2>5 DEF WriteAfterRead, ReadLock
    <3>3. FlushPrecedes(i, d) /\ pool[i].state = "Pending" => i \in IssueLock(d)
      BY <2>5 DEF FlushPrecedes, IssueLock
    <3> QED
      BY <2>1, <2>5, <3>1, <3>2, <3>3 DEF NotLoaded
  <2> QED
    BY <2>1, <2>3, <2>4, <2>5
<1>5. CASE QueryRetire
  BY <1>0, <1>5, QueryRetireSlots DEF NotLoaded
<1>6. ASSUME NEW d \in InPool, QueryIssue(d)
      PROVE  /\ Conflict(i, j) => i \in pool'[j].writeLock
             /\ WriteAfterRead(i, j) /\ NotLoaded(i)' => i \in pool'[j].readLock
             /\ FlushPrecedes(i, j) /\ pool'[i].state = "Pending"
                  => i \in pool'[j].issueLock
  BY <1>0, <1>6 DEF QueryIssue, schedulerVars, NotLoaded, InPool
<1> QED
  BY <1>1, <1>2, <1>3, <1>4, <1>5, <1>6, StepKinds

(* An issued DOp that is still in the pool waits for nobody.               *)
LEMMA IssuedUnlockedStep ==
  ASSUME IscTypeOK, IssuedUnlocked, [IscNext]_iscVars
  PROVE  IssuedUnlocked'
<1> USE DEF IssuedUnlocked
<1>1. CASE QuietStep
  BY <1>1 DEF QuietStep, InPool
<1>2. ASSUME NEW d \in issued, UnlockIssue(d) PROVE IssuedUnlocked'
  <2>1. issued' = issued
    BY <1>2 DEF UnlockIssue, historyVars
  <2> QED
    BY <1>2, <2>1, UnlockIssueSlots
<1>3. CASE QueryReadUnlock
  <2>1. issued' = issued
    BY <1>3 DEF QueryReadUnlock, historyVars
  <2> QED
    BY <1>3, <2>1, QueryReadUnlockSlots
<1>4. CASE QueryRefill
  <2>1. issued' = issued
    BY <1>4 DEF QueryRefill, historyVars
  <2> QED
    BY <1>4, <2>1, QueryRefillSlots
<1>5. CASE QueryRetire
  <2>1. issued' = issued
    BY <1>5 DEF QueryRetire, historyVars
  <2> QED
    BY <1>5, <2>1, QueryRetireSlots
<1>6. ASSUME NEW d \in InPool, QueryIssue(d) PROVE IssuedUnlocked'
  BY <1>6 DEF QueryIssue, Issuable, Unlocked, schedulerVars, InPool
<1> QED
  BY <1>1, <1>2, <1>3, <1>4, <1>5, <1>6, StepKinds

(* A lock names a DOp that still has to release it.                        *)
LEMMA DanglingStep ==
  ASSUME IscTypeOK, NoDanglingLock, [IscNext]_iscVars
  PROVE  NoDanglingLock'
<1> DEFINE Held(j) ==
      /\ \A i \in pool[j].readLock : i \in InPool /\ i < j /\ NotLoaded(i)
      /\ \A i \in pool[j].writeLock : i \in InPool /\ i < j
      /\ \A i \in pool[j].issueLock :
           i \in InPool /\ i < j /\ pool[i].state = "Pending"
<1> SUFFICES ASSUME NEW j \in InPool' PROVE Held(j)'
  BY DEF NoDanglingLock
<1>0. j \in InPool => Held(j)
  BY DEF NoDanglingLock
<1>1. CASE QuietStep
  BY <1>0, <1>1 DEF QuietStep, InPool, NotLoaded
<1>2. ASSUME NEW d \in issued, UnlockIssue(d) PROVE Held(j)'
  BY <1>0, <1>2, UnlockIssueSlots DEF NotLoaded
<1>3. CASE QueryReadUnlock
  BY <1>0, <1>3, QueryReadUnlockSlots DEF NotLoaded
<1>4. CASE QueryRefill
  <2> DEFINE d == refilled + 1
  <2>1. /\ InPool' = InPool \cup {d}
        /\ d \notin InPool
        /\ \A e \in InPool : e < d /\ pool'[e] = pool[e]
        /\ pool'[d].readLock = ReadLock(d)
        /\ pool'[d].writeLock = WriteLock(d)
        /\ pool'[d].issueLock = IssueLock(d)
    BY <1>4, QueryRefillSlots
  <2> HIDE DEF d
  <2>2. CASE j \in InPool
    BY <1>0, <2>1, <2>2 DEF NotLoaded
  <2>3. CASE j = d
    <3>1. /\ \A i \in ReadLock(d) : i \in InPool /\ NotLoaded(i)
          /\ \A i \in WriteLock(d) : i \in InPool
          /\ \A i \in IssueLock(d) : i \in InPool /\ pool[i].state = "Pending"
      BY DEF ReadLock, WriteLock, IssueLock
    <3> QED
      BY <2>1, <2>3, <3>1 DEF NotLoaded
  <2> QED
    BY <2>1, <2>2, <2>3
<1>5. CASE QueryRetire
  <2>1. PICK d \in InPool :
          /\ pool[d].state = "Loaded"
          /\ InPool' = InPool \ {d}
          /\ \A i \in InPool \ {d} :
               /\ pool'[i].readLock = pool[i].readLock
               /\ pool'[i].writeLock = pool[i].writeLock \ {d}
               /\ pool'[i].issueLock = pool[i].issueLock
               /\ pool'[i].state = pool[i].state
    BY <1>5, QueryRetireSlots
  <2> QED
    BY <1>0, <2>1 DEF NotLoaded
<1>6. ASSUME NEW d \in InPool, QueryIssue(d) PROVE Held(j)'
  BY <1>0, <1>6 DEF QueryIssue, schedulerVars, InPool, NotLoaded
<1> QED
  BY <1>1, <1>2, <1>3, <1>4, <1>5, <1>6, StepKinds

(* A PBS is issued after the earlier ones of the other flush kind.         *)
LEMMA FlushStep ==
  ASSUME IscTypeOK, HistoryInv, LockInv, FlushOrder, [IscNext]_iscVars
  PROVE  FlushOrder'
<1>0. Ids' = Ids
  BY StreamStable DEF Ids
<1>1. CASE issued' = issued
  BY <1>0, <1>1, StreamStable DEF FlushOrder
<1>2. ASSUME NEW d \in InPool, QueryIssue(d) PROVE FlushOrder'
  <2>1. issued' = issued \cup {d} /\ Unlocked(d)
    BY <1>2 DEF QueryIssue, Issuable
  <2>2. \A i \in Ids : FlushPrecedes(i, d) => i \in issued
    <3> SUFFICES ASSUME NEW i \in Ids, FlushPrecedes(i, d) PROVE i \in issued
      OBVIOUS
    <3>1. i \in 1 .. refilled
      BY DEF IscTypeOK, Ids, FlushPrecedes
    <3>2. CASE i \in InPool
      BY <2>1, <3>2 DEF LockInv, HistoryInv, Unlocked
    <3>3. CASE i \notin InPool
      BY <3>1, <3>3 DEF HistoryInv, Retired, IscTypeOK
    <3> QED
      BY <3>2, <3>3
  <2> QED
    BY <1>0, <2>1, <2>2, StreamStable DEF FlushOrder
<1> QED
  BY <1>1, <1>2 DEF IscNext, Query, PushDOps, UnlockIssue, UnlockRead, UnlockWrite,
    SetAvailable, RetireDOp, QueryReadUnlock, QueryRefill, QueryRetire, iscVars,
    historyVars

(* The conjunction that the steps preserve.                                *)
SchedulerInv == IscTypeOK /\ IscInv /\ NoDanglingLock /\ FlushOrder

LEMMA SchedulerInvInit ==
  ASSUME IscInit
  PROVE  SchedulerInv
<1>1. InPool = {} /\ Retired = {}
  BY DEF IscInit, InPool, Retired
<1>2. readUnlocks = <<>> /\ writeUnlocks = <<>> /\ issued = {}
  BY DEF IscInit
<1>3. HistoryInv
  BY <1>1, <1>2 DEF HistoryInv
<1>4. LockInv /\ IssuedUnlocked /\ NoDanglingLock /\ FlushOrder
  BY <1>1, <1>2 DEF LockInv, IssuedUnlocked, NoDanglingLock, FlushOrder
<1> QED
  BY <1>3, <1>4, TypeInit DEF SchedulerInv, IscInv

LEMMA SchedulerInvStep ==
  ASSUME SchedulerInv, [IscNext]_iscVars
  PROVE  SchedulerInv'
BY TypeStep, HistoryStep, LockStep, IssuedUnlockedStep, DanglingStep, FlushStep
DEF SchedulerInv, IscInv

(* The locks of the scheduler mean what they should: a conflict that is not*)
(* settled is held by a lock, and an issued DOp has none.                  *)
THEOREM IscInvariant == IscSpec => []SchedulerInv
<1>1. IscInit => SchedulerInv
  BY SchedulerInvInit
<1>2. SchedulerInv /\ [IscNext]_iscVars => SchedulerInv'
  BY SchedulerInvStep
<1> QED
  BY <1>1, <1>2, PTL DEF IscSpec

LEMMA InvHazardFree ==
  ASSUME SchedulerInv
  PROVE  HazardFree
BY DEF SchedulerInv, IscInv, LockInv, IssuedUnlocked, HazardFree

(* Every unsettled conflict between two slots is held by a lock, and an    *)
(* issued slot holds none: what the locks of isc.rs are for.               *)
THEOREM IscLockInvariant == IscSpec => []IscInv
<1>1. SchedulerInv => IscInv
  BY DEF SchedulerInv
<1> QED
  BY <1>1, IscInvariant, PTL

(* Whatever the stream and the depth of the pool, and whenever the         *)
(* processing elements answer, no data hazard and no unfinished work before*)
(* a SYNC reaches a processing element.                                    *)
THEOREM IscHazardFree == IscSpec => []HazardFree
<1>1. SchedulerInv => HazardFree
  BY InvHazardFree
<1> QED
  BY <1>1, IscInvariant, PTL

(* PBSes of opposite flush kinds are always issued in stream order.        *)
THEOREM IscFlushOrder == IscSpec => []FlushOrder
<1>1. SchedulerInv => FlushOrder
  BY DEF SchedulerInv
<1> QED
  BY <1>1, IscInvariant, PTL

(* No slot ever waits for a DOp that will not release it.                  *)
THEOREM IscNoDanglingLock == IscSpec => []NoDanglingLock
<1>1. SchedulerInv => NoDanglingLock
  BY DEF SchedulerInv
<1> QED
  BY <1>1, IscInvariant, PTL

-----------------------------------------------------------------------------
(* The scheduler implements Dataflow.                                      *)

(* Dataflow and the scheduler speak of the same dependencies.              *)
LEMMA FlowRelations ==
  ASSUME NEW i, NEW j
  PROVE  /\ Flow!ReadAfterWrite(i, j) <=> ReadAfterWrite(i, j)
         /\ Flow!WriteAfterRead(i, j) <=> WriteAfterRead(i, j)
         /\ Flow!WriteAfterWrite(i, j) <=> WriteAfterWrite(i, j)
         /\ Flow!Barrier(i, j) <=> Barrier(i, j)
         /\ Flow!Ids = Ids
         /\ Flow!Affinity(prog[j]) = Affinity(prog[j])
BY DEF Flow!ReadAfterWrite, ReadAfterWrite, Flow!WriteAfterRead, WriteAfterRead,
       Flow!WriteAfterWrite, WriteAfterWrite, Flow!Barrier, Barrier, Flow!Ids, Ids,
       Flow!HasDestination, HasDestination, Flow!HasSource, HasSource,
       Flow!Same, Same, Flow!Affinity, Affinity, Flow!AluOps, AluOps,
       Flow!MemOps, MemOps, Flow!PbsOps, PbsOps, Flow!PbsFlushOps, PbsFlushOps

(* A DOp that has not sent both of its messages is still in the pool.      *)
LEMMA UnfinishedInPool ==
  ASSUME SchedulerInv, NEW d \in issued, d \notin readDone \cap writeDone
  PROVE  d \in InPool
BY DEF SchedulerInv, IscTypeOK, IscInv, HistoryInv, Retired

(* An earlier DOp that left the pool has read and written.                 *)
LEMMA EarlierFinished ==
  ASSUME SchedulerInv, NEW d \in issued, NEW i \in Ids, i < d, i \notin InPool
  PROVE  i \in readDone /\ i \in writeDone
BY DEF SchedulerInv, IscTypeOK, IscInv, HistoryInv, Retired, Ids

(* The message "operands read" is a Fetch.                                 *)
LEMMA UnlockReadFetches ==
  ASSUME SchedulerInv, NEW d \in issued \ readDone, UnlockRead(d)
  PROVE  Flow!Fetch(d)
<1>1. d \in InPool
  BY UnfinishedInPool
<1>2. ASSUME NEW i \in Ids, ReadAfterWrite(i, d) PROVE i \in writeDone
  <2>1. i \notin InPool
    BY <1>1, <1>2, InvHazardFree DEF HazardFree
  <2>2. i < d
    BY <1>2 DEF ReadAfterWrite
  <2> QED
    BY <2>1, <2>2, EarlierFinished
<1> QED
  BY <1>2, FlowRelations DEF UnlockRead, Flow!Fetch

(* The message "result written" is a Store.                                *)
LEMMA UnlockWriteStores ==
  ASSUME SchedulerInv, NEW d \in issued \ writeDone, MayAnswerWrite(d), UnlockWrite(d)
  PROVE  Flow!Store(d)
<1>1. d \in InPool
  BY UnfinishedInPool
<1>2. ASSUME NEW i \in Ids, WriteAfterWrite(i, d) \/ Barrier(i, d)
      PROVE  i \in writeDone
  <2>1. i \notin InPool
    BY <1>1, <1>2, InvHazardFree DEF HazardFree
  <2>2. i < d
    BY <1>2 DEF WriteAfterWrite, Barrier
  <2> QED
    BY <2>1, <2>2, EarlierFinished
<1>3. ASSUME NEW i \in Ids, WriteAfterRead(i, d) PROVE i \in readDone
  <2>1. CASE i \in InPool
    <3>1. ~ NotLoaded(i)
      BY <1>1, <1>3, <2>1, InvHazardFree DEF HazardFree
    <3>2. pool[i].state \in States
      BY <2>1 DEF SchedulerInv, IscTypeOK, Slot
    <3> QED
      BY <2>1, <3>1, <3>2 DEF NotLoaded, States, SchedulerInv, IscInv, HistoryInv
  <2>2. CASE i \notin InPool
    <3>1. i < d
      BY <1>3 DEF WriteAfterRead
    <3> QED
      BY <2>2, <3>1, EarlierFinished
  <2> QED
    BY <2>1, <2>2
<1> QED
  BY <1>2, <1>3, FlowRelations DEF UnlockWrite, MayAnswerWrite, Flow!Store

(* Every step of the scheduler is a step of Dataflow or changes nothing    *)
(* there.                                                                  *)
LEMMA FlowStep ==
  ASSUME SchedulerInv, [IscNext]_iscVars
  PROVE  [Flow!DataflowNext]_Flow!dataflowVars
<1> USE DEF Flow!dataflowVars
<1>0. issued \subseteq Ids
  BY DEF SchedulerInv, IscTypeOK, Ids
<1>1. ASSUME NEW d \in issued \ readDone, UnlockRead(d)
      PROVE  Flow!DataflowNext
  BY <1>0, <1>1, UnlockReadFetches, FlowRelations DEF Flow!DataflowNext
<1>2. ASSUME NEW d \in issued \ writeDone, MayAnswerWrite(d), UnlockWrite(d)
      PROVE  Flow!DataflowNext
  BY <1>0, <1>2, UnlockWriteStores, FlowRelations DEF Flow!DataflowNext
<1>3. \/ \E d \in issued \ readDone : UnlockRead(d)
      \/ \E d \in issued \ writeDone : MayAnswerWrite(d) /\ UnlockWrite(d)
      \/ UNCHANGED <<prog, readDone, writeDone>>
  BY DEF IscNext, Query, PushDOps, UnlockIssue, SetAvailable, RetireDOp,
         QueryReadUnlock, QueryRefill, QueryRetire, QueryIssue, iscVars, historyVars
<1> QED
  BY <1>1, <1>2, <1>3

(* The out-of-order execution respects the dataflow of the stream: operands*)
(* are read and results written in an order that sequential execution      *)
(* allows, for every stream, pool depth and timing of the elements.        *)
THEOREM IscImplementsDataflow == IscSpec => FollowsDataflow
<1>1. IscInit => Flow!DataflowInit
  BY DEF IscInit, Flow!DataflowInit
<1>2. SchedulerInv /\ [IscNext]_iscVars => [Flow!DataflowNext]_Flow!dataflowVars
  BY FlowStep
<1> QED
  BY <1>1, <1>2, IscInvariant, PTL DEF IscSpec, FollowsDataflow, Flow!DataflowSpec
=============================================================================
