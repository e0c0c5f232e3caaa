-------------------------------- MODULE Isc --------------------------------
(***************************************************************************)
(* The instruction scheduler (zhc_sim/src/hpu/isc.rs), without time.       *)
(*                                                                         *)
(* DOps wait in the front buffer, are refilled one by one into a pool of   *)
(* IscDepth slots, and leave it when they retire.  A slot holds three sets *)
(* of locks, computed from the pool when the slot is filled and only ever  *)
(* reduced after that; the scheduler issues a pending slot whose locks are *)
(* all gone.  The processing elements answer an issue with three messages, *)
(* handled in the actions UnlockIssue, UnlockRead and UnlockWrite: the     *)
(* last two are buffered and take effect in a later query.                 *)
(*                                                                         *)
(* The module keeps three history variables that the code does not have:   *)
(* the DOps issued so far, and those whose read and write messages came.   *)
(* IscSpec puts the scheduler in an environment that may send any message  *)
(* of a legal processing element at any moment; module Hpu replaces that   *)
(* environment by the simulated processing elements and the event queue.   *)
(***************************************************************************)
EXTENDS Program, FiniteSets

CONSTANT IscDepth   \* isc_depth: number of slots of the pool

ASSUME IscDepthAssumption == IscDepth \in Nat \ {0}

VARIABLES
  pushed,           \* dop_target: DOps pushed by IscPushDOps so far
  refilled,         \* DOps moved from the front buffer to the pool so far
  pool,             \* Pool::slots, from the DOp's id to its Slot
  tracker,          \* tracker_alu, tracker_mem, tracker_pbs: available?
  readUnlocks,      \* read_unlock_buffer
  writeUnlocks,     \* write_unlock_buffer
  processed,        \* dop_processed
  issued,           \* history: DOps sent to a processing element
  readDone,         \* history: DOps whose IscUnlockRead came
  writeDone         \* history: DOps whose IscUnlockWrite came

historyVars == <<issued, readDone, writeDone>>
schedulerVars == <<pushed, refilled, pool, tracker, readUnlocks, writeUnlocks,
                   processed>>
iscVars == <<prog, schedulerVars, historyVars>>

TrackedLanes == {"Alu", "Mem", "Pbs"}
States == {"Pending", "Issued", "Loaded", "Finished"}
Slot == [state : States, readLock : SUBSET Nat, writeLock : SUBSET Nat,
         issueLock : SUBSET Nat]

InPool == DOMAIN pool
FrontBuffer == refilled + 1 .. pushed
Retired == 1 .. refilled \ InPool

(* Slot i of the pool has not yet read its operands (state < Loaded).      *)
NotLoaded(i) == pool[i].state \in {"Pending", "Issued"}

IscInit ==
  /\ prog \in Programs
  /\ pushed = 0
  /\ refilled = 0
  /\ pool = [i \in {} |-> {}]
  /\ tracker = [lane \in TrackedLanes |-> TRUE]
  /\ readUnlocks = <<>>
  /\ writeUnlocks = <<>>
  /\ processed = 0
  /\ issued = {}
  /\ readDone = {}
  /\ writeDone = {}

-----------------------------------------------------------------------------
(* The locks a DOp gets when it enters the pool.                           *)

(* init_read_lock: DOps that have yet to read what d will overwrite.       *)
(* Mutants: a slot that has read its operands counts, an issued one does   *)
(* not.                                                                    *)
ReadLockOnLoaded(d) ==
  {i \in InPool : \E t \in prog[d].dst : HasSource(prog[i], t)}
ReadLockOnPending(d) ==
  {i \in InPool : /\ pool[i].state = "Pending"
                  /\ \E t \in prog[d].dst : HasSource(prog[i], t)}
ReadLock(d) ==
  {i \in InPool : NotLoaded(i) /\ \E t \in prog[d].dst : HasSource(prog[i], t)}

(* init_write_lock: DOps that have yet to write an operand of d; for SYNC, *)
(* everything in the pool.                                                 *)
(* Mutants: the destination is forgotten, the sources are forgotten, a SYNC*)
(* waits for itself too.                                                   *)
WriteLockOnSources(d) ==
  {i \in InPool : \/ prog[d].op = "SYNC"
                  \/ \E a \in prog[d].srcs : HasDestination(prog[i], a)}
WriteLockOnDestination(d) ==
  {i \in InPool : \/ prog[d].op = "SYNC"
                  \/ \E a \in prog[d].dst : HasDestination(prog[i], a)}
WriteLockOnSelf(d) ==
  {i \in InPool \cup {d} :
     \/ prog[d].op = "SYNC"
     \/ \E a \in prog[d].dst \cup prog[d].srcs : HasDestination(prog[i], a)}
WriteLock(d) ==
  IF prog[d].op = "SYNC"
  THEN InPool
  ELSE {i \in InPool :
          \E a \in prog[d].dst \cup prog[d].srcs : HasDestination(prog[i], a)}

(* init_issue_lock: for a PBS, the pending PBSes of the other flush kind.  *)
(* Mutant: only a flush waits.                                             *)
IssueLockOfFlush(d) ==
  {i \in InPool : /\ IsPbsFlush(prog[d]) /\ Affinity(prog[i]) = "Pbs"
                  /\ pool[i].state = "Pending" /\ ~ IsPbsFlush(prog[i])}
IssueLock(d) ==
  IF Affinity(prog[d]) = "Pbs"
  THEN {i \in InPool : /\ Affinity(prog[i]) = "Pbs"
                       /\ pool[i].state = "Pending"
                       /\ IsPbsFlush(prog[i]) # IsPbsFlush(prog[d])}
  ELSE {}

Unlocked(i) ==
  pool[i].readLock = {} /\ pool[i].writeLock = {} /\ pool[i].issueLock = {}

LaneAvailable(lane) == lane \in TrackedLanes => tracker[lane]

(* The slots get_issuable looks for.  Mutant: issued ones, too.            *)
IssuableAgain(i) ==
  /\ Unlocked(i)
  /\ LaneAvailable(Affinity(prog[i]))
Issuable(i) ==
  /\ pool[i].state = "Pending"
  /\ Unlocked(i)
  /\ LaneAvailable(Affinity(prog[i]))

(* may_issue: some tracked lane is available.                              *)
MayIssue == \E lane \in TrackedLanes : tracker[lane]

-----------------------------------------------------------------------------
(* Messages the scheduler handles at once or buffers for a query.          *)

(* IscPushDOps with n DOps.                                                *)
PushDOps(n) ==
  /\ pushed + n <= Len(prog)
  /\ pushed' = pushed + n
  /\ UNCHANGED <<prog, refilled, pool, tracker, readUnlocks, writeUnlocks,
                 processed, historyVars>>

(* IscUnlockIssue(d): the PE took d, the PBSes waiting for it may go.      *)
UnlockIssue(d) ==
  /\ d \in InPool
  /\ pool[d].state = "Pending"
  /\ pool' = [i \in InPool |->
                [pool[i] EXCEPT !.issueLock = @ \ {d},
                                !.state = IF i = d THEN "Issued" ELSE @]]
  /\ UNCHANGED <<prog, pushed, refilled, tracker, readUnlocks, writeUnlocks,
                 processed, historyVars>>

(* IscUnlockRead(d): d's operands have been read.                          *)
UnlockRead(d) ==
  /\ readUnlocks' = Append(readUnlocks, d)
  /\ readDone' = readDone \cup {d}
  /\ UNCHANGED <<prog, pushed, refilled, pool, tracker, writeUnlocks,
                 processed, issued, writeDone>>

(* IscUnlockWrite(d): d's result has been written.                         *)
UnlockWrite(d) ==
  /\ writeUnlocks' = Append(writeUnlocks, d)
  /\ writeDone' = writeDone \cup {d}
  /\ UNCHANGED <<prog, pushed, refilled, pool, tracker, readUnlocks,
                 processed, issued, readDone>>

(* PeXAvailable and PeXUnavailable.  Mutant: both mark the lane available. *)
SetAlwaysAvailable(lane, available) ==
  /\ tracker' = [tracker EXCEPT ![lane] = TRUE]
  /\ UNCHANGED <<prog, pushed, refilled, pool, readUnlocks, writeUnlocks,
                 processed, historyVars>>
SetAvailable(lane, available) ==
  /\ tracker' = [tracker EXCEPT ![lane] = available]
  /\ UNCHANGED <<prog, pushed, refilled, pool, readUnlocks, writeUnlocks,
                 processed, historyVars>>

(* IscRetireDOp, the scheduler's part.                                     *)
RetireDOp ==
  /\ processed < pushed
  /\ processed' = processed + 1
  /\ UNCHANGED <<prog, pushed, refilled, pool, tracker, readUnlocks,
                 writeUnlocks, historyVars>>

-----------------------------------------------------------------------------
(* IscQuery: the first of these branches that applies.                     *)

MayReadUnlock == readUnlocks # <<>>

MayRefill == Cardinality(InPool) < IscDepth /\ refilled < pushed

MayRetire == writeUnlocks # <<>>

(* Take a read unlock from its buffer: read_unlock.                        *)
QueryReadUnlock ==
  /\ MayReadUnlock
  /\ LET d == Head(readUnlocks) IN
       /\ d \in InPool
       /\ pool[d].state = "Issued"
       /\ pool' = [i \in InPool |->
                     [pool[i] EXCEPT !.readLock = @ \ {d},
                                     !.state = IF i = d THEN "Loaded" ELSE @]]
  /\ readUnlocks' = Tail(readUnlocks)
  /\ UNCHANGED <<prog, pushed, refilled, tracker, writeUnlocks, processed,
                 historyVars>>

(* Move the front DOp into the pool: refill.                               *)
QueryRefill ==
  /\ ~ MayReadUnlock
  /\ MayRefill
  /\ LET d == refilled + 1 IN
       pool' = [i \in InPool \cup {d} |->
                  IF i = d
                  THEN [state |-> "Pending", readLock |-> ReadLock(d),
                        writeLock |-> WriteLock(d), issueLock |-> IssueLock(d)]
                  ELSE pool[i]]
  /\ refilled' = refilled + 1
  /\ UNCHANGED <<prog, pushed, tracker, readUnlocks, writeUnlocks, processed,
                 historyVars>>

(* Take a write unlock from its buffer: write_unlock, then retire.         *)
QueryRetire ==
  /\ ~ MayReadUnlock
  /\ ~ MayRefill
  /\ MayRetire
  /\ LET d == Head(writeUnlocks) IN
       /\ d \in InPool
       /\ pool[d].state = "Loaded"
       /\ pool' = [i \in InPool \ {d} |->
                     [pool[i] EXCEPT !.writeLock = @ \ {d}]]
  /\ writeUnlocks' = Tail(writeUnlocks)
  /\ UNCHANGED <<prog, pushed, refilled, tracker, readUnlocks, processed,
                 historyVars>>

(* Send the first issuable slot to its lane: get_issuable.  The slot stays *)
(* pending until the lane acknowledges with IscUnlockIssue.                *)
QueryIssue(d) ==
  /\ ~ MayReadUnlock
  /\ ~ MayRefill
  /\ ~ MayRetire
  /\ MayIssue
  /\ d \in InPool
  /\ Issuable(d)
  /\ \A e \in InPool : Issuable(e) => d <= e
  /\ issued' = issued \cup {d}
  /\ UNCHANGED <<prog, schedulerVars, readDone, writeDone>>

Query == \/ QueryReadUnlock
         \/ QueryRefill
         \/ QueryRetire
         \/ \E d \in InPool : QueryIssue(d)

-----------------------------------------------------------------------------
(* The scheduler among legal processing elements: a message is sent only   *)
(* for an issued DOp and once, a DOp other than a control instruction is   *)
(* read before it is written, and an issue is acknowledged before the next *)
(* query (both happen in the cycle of the issue, queries are query_period  *)
(* cycles apart).                                                          *)

IssueAcknowledged == \A d \in issued \cap InPool : pool[d].state # "Pending"

MayAnswerWrite(d) == d \in readDone \/ Affinity(prog[d]) = "Ctl"

IscNext ==
  \/ \E n \in Ids : PushDOps(n)
  \/ \E d \in issued : UnlockIssue(d)
  \/ \E d \in issued \ readDone : UnlockRead(d)
  \/ \E d \in issued \ writeDone : MayAnswerWrite(d) /\ UnlockWrite(d)
  \/ \E lane \in TrackedLanes, available \in BOOLEAN :
       SetAvailable(lane, available)
  \/ RetireDOp
  \/ IssueAcknowledged /\ Query

IscSpec == IscInit /\ [][IscNext]_iscVars

-----------------------------------------------------------------------------
(* Every variable keeps its type; the pool holds refilled DOps and never   *)
(* more than IscDepth of them.                                             *)
IscTypeOK ==
  /\ prog \in Programs
  /\ pushed \in 0 .. Len(prog)
  /\ refilled \in 0 .. pushed
  /\ InPool \subseteq 1 .. refilled
  /\ pool \in [InPool -> Slot]
  /\ Cardinality(InPool) <= IscDepth
  /\ tracker \in [TrackedLanes -> BOOLEAN]
  /\ readUnlocks \in Seq(Nat)
  /\ writeUnlocks \in Seq(Nat)
  /\ processed \in 0 .. pushed
  /\ issued \subseteq 1 .. refilled
  /\ readDone \subseteq issued
  /\ writeDone \subseteq issued

(* No hazard reaches a processing element: while an issued DOp is in the   *)
(* pool, no earlier DOp there still has to write one of its operands, to   *)
(* read its destination or, for a SYNC, to complete.  This is what         *)
(* init_read_lock, init_write_lock and the unlocks in the queries are for. *)
HazardFree ==
  \A j \in issued \cap InPool, i \in InPool :
    /\ ~ ReadAfterWrite(i, j)
    /\ ~ WriteAfterWrite(i, j)
    /\ ~ Barrier(i, j)
    /\ WriteAfterRead(i, j) => ~ NotLoaded(i)

(* PBS i comes before PBS j, and exactly one of them is a flush.           *)
FlushPrecedes(i, j) ==
  /\ i < j
  /\ Affinity(prog[i]) = "Pbs" /\ Affinity(prog[j]) = "Pbs"
  /\ IsPbsFlush(prog[i]) # IsPbsFlush(prog[j])

(* A flush never leaves before the rest of its batch, nor a PBS that is    *)
(* not a flush before an earlier flush (init_issue_lock).  That is all the *)
(* lock orders: PBSes of one kind may overtake each other.                 *)
FlushOrder ==
  \A i, j \in Ids : FlushPrecedes(i, j) /\ j \in issued => i \in issued

(* What the comment of init_issue_lock says of it, "It induces a total     *)
(* order on the pbses", at least as far as batches go: a PBS is issued     *)
(* after the PBSes of the batches before its own.  It is not: a flush that *)
(* is a batch by itself overtakes an earlier flush that is not ready.      *)
BatchesInOrder ==
  \A i, j \in Ids :
    /\ Affinity(prog[i]) = "Pbs" /\ Affinity(prog[j]) = "Pbs"
    /\ \E f \in i .. j - 1 : IsPbsFlush(prog[f])
    /\ j \in issued
    => i \in issued

(* A lock names an earlier DOp that is still in the pool and that still    *)
(* has to take the step that removes the lock: no slot waits for a DOp     *)
(* that has already gone, and no two slots wait for each other.            *)
NoDanglingLock ==
  \A j \in InPool :
    /\ \A i \in pool[j].readLock : i \in InPool /\ i < j /\ NotLoaded(i)
    /\ \A i \in pool[j].writeLock : i \in InPool /\ i < j
    /\ \A i \in pool[j].issueLock :
         i \in InPool /\ i < j /\ pool[i].state = "Pending"

(* The execution the processing elements see is the one the stream means:  *)
(* operands are fetched and results stored in an order that respects every *)
(* dependency.                                                             *)
Flow == INSTANCE Dataflow WITH read <- readDone, written <- writeDone
FollowsDataflow == Flow!DataflowSpec

-----------------------------------------------------------------------------
(* The parts of the inductive invariant behind the properties above.       *)

(* What the messages received so far say of the slots.                     *)
HistoryInv ==
  /\ \A d \in InPool \ issued : pool[d].state = "Pending"
  /\ \A d \in InPool : pool[d].state \in {"Loaded", "Finished"} => d \in readDone
  /\ \A k \in 1 .. Len(readUnlocks) : readUnlocks[k] \in readDone
  /\ \A k \in 1 .. Len(writeUnlocks) : writeUnlocks[k] \in writeDone
  /\ Retired \subseteq readDone \cap writeDone

(* A lock is kept as long as the conflict that created it.                 *)
LockInv ==
  \A i, j \in InPool :
    /\ ReadAfterWrite(i, j) \/ WriteAfterWrite(i, j) \/ Barrier(i, j)
         => i \in pool[j].writeLock
    /\ WriteAfterRead(i, j) /\ NotLoaded(i) => i \in pool[j].readLock
    /\ FlushPrecedes(i, j) /\ pool[i].state = "Pending" => i \in pool[j].issueLock

IssuedUnlocked ==
  \A j \in issued \cap InPool : pool[j].readLock = {} /\ pool[j].writeLock = {}

IscInv == HistoryInv /\ LockInv /\ IssuedUnlocked
=============================================================================
