-------------------------- MODULE SystemTaskProofs --------------------------
(***************************************************************************)
(* Proofs about SystemTask for any number of runners, rows, API requests   *)
(* and faults, any lease length and any clock bound.                       *)
(***************************************************************************)
EXTENDS SystemTask, TLAPS

\* Ids are positive, and the next id is one while the table has room.
LEMMA IdFacts ==
  /\ 0 \notin Ids
  /\ \A t \in Ids : t \in Nat
  /\ \A n \in Nat : n < MaxTasks => n + 1 \in Ids
BY SystemTaskAssumption DEF Ids

\* The empty tables and the idle runners satisfy the invariant.
LEMMA InitInv == ASSUME Init PROVE IInv
<1>1. RowsType /\ LockType
  BY SystemTaskAssumption DEF Init, RowsType, LockType
<1>2. PassType /\ ClaimType
  BY DEF Init, PassType, ClaimType, PassLabels
<1>3. StaleType /\ OtherType
  BY SystemTaskAssumption DEF Init, StaleType, OtherType
<1>4. OneActiveRow
  BY DEF Init, OneActiveRow, Active
<1>5. LocalsInv
  <2> SUFFICES ASSUME NEW r \in Runners PROVE LocalsOK(r)
    BY DEF LocalsInv
  <2>1. claimAt[r] = 0 /\ staleAt[r] = 0 /\ pc[r] = "stale" /\ now = 1
    BY DEF Init
  <2>2. QED  BY <2>1 DEF LocalsOK, ClaimLabels
<1>6. RowsInv /\ LeaseInv
  BY DEF Init, RowsInv, LeaseInv
<1>7. RunInv
  BY DEF Init, RunInv, Won
<1>8. QED  BY <1>1, <1>2, <1>3, <1>4, <1>5, <1>6, <1>7 DEF IInv, TypeOK

-----------------------------------------------------------------------------
(* What the writes to system_tasks preserve.                               *)

\* A task that was started stays started, by the same runner.
RowsKept == \A t \in Ids : status[t] \in Begun => status'[t] \in Begun /\ executor'[t] = executor[t]

RowsGood == RowsType /\ OneActiveRow /\ RowsInv

\* Ending a running task.
LEMMA EndTaskKeeps ==
  ASSUME RowsGood, now \in Nat, NEW t \in Ids, status[t] = "running",
         NEW verdict \in Terminal, EndTask(t, verdict)
  PROVE  RowsGood' /\ RowsKept
<1> USE DEF RowsGood
<1>1. RowsType'  BY DEF RowsType, EndTask
<1>2. OneActiveRow'  BY DEF RowsType, OneActiveRow, Active, EndTask, Terminal
<1>3. RowsInv'  BY DEF RowsType, RowsInv, EndTask
<1>4. RowsKept  BY DEF RowsType, RowsKept, Begun, EndTask
<1>5. QED  BY <1>1, <1>2, <1>3, <1>4

\* Marking a task whose lease expired, or finding it ended already.
LEMMA MarkKeeps ==
  ASSUME RowsGood, now \in Nat, NEW t \in Ids, MarkSystemTaskLeaseExpired(t)
  PROVE  RowsGood' /\ RowsKept
<1>1. CASE UNCHANGED rows
  BY <1>1 DEF rows, RowsGood, RowsType, OneActiveRow, Active, RowsInv, RowsKept
<1>2. CASE status[t] = "running" /\ EndTask(t, "failed")
  BY <1>2, EndTaskKeeps DEF Terminal
<1>3. QED  BY <1>1, <1>2 DEF MarkSystemTaskLeaseExpired

\* Creating a task under the unique index.
LEMMA CreateKeeps ==
  ASSUME RowsGood, now \in Nat, CreateSystemTask
  PROVE  RowsGood' /\ RowsKept
<1> USE DEF RowsGood, CreateSystemTask, CanCreate
<1>1. count \in Nat /\ count + 1 \in Ids /\ count + 1 \in 0..MaxTasks
  BY SystemTaskAssumption, IdFacts DEF RowsType
<1>2. status[count + 1] = "none"
  BY <1>1 DEF RowsInv
<1>3. RowsType'  BY <1>1 DEF RowsType
<1>4. OneActiveRow'  BY <1>1 DEF RowsType, OneActiveRow, Active
<1>5. RowsInv'  BY <1>1, IdFacts DEF RowsType, RowsInv
<1>6. RowsKept  BY <1>1, <1>2 DEF RowsType, RowsKept, Begun, Terminal
<1>7. QED  BY <1>3, <1>4, <1>5, <1>6

\* Nothing written.
LEMMA SameRowsKeep == ASSUME RowsGood, UNCHANGED rows PROVE RowsGood' /\ RowsKept
BY DEF rows, RowsGood, RowsType, OneActiveRow, Active, RowsInv, RowsKept

-----------------------------------------------------------------------------
(* What the writes to system_task_locks preserve.                          *)

LockGood == LockType /\ LeaseInv

\* Deleting an expired lock row breaks no lease.
LEMMA DeleteKeeps ==
  ASSUME LockGood, now \in Nat \ {0}, DeleteLock, UNCHANGED <<now, lease>>, lockedUntil < now
  PROVE  LockGood'
BY DEF LockGood, LockType, LeaseInv, DeleteLock

\* A runner that deletes its own lock row gives its lease up.
LEMMA ReleaseKeeps ==
  ASSUME LockGood, now \in Nat \ {0}, NEW r \in Runners, NEW t \in Ids,
         ReleaseSystemTaskLock(r, t), UNCHANGED now
  PROVE  LockGood'
<1>1. CASE UNCHANGED lock
  BY <1>1 DEF LockGood, LockType, LeaseInv, lock
<1>2. CASE lockId = t /\ lockedBy = r
  <2>1. LockType'
    BY <1>2 DEF LockGood, LockType, ReleaseSystemTaskLock, DeleteLock
  <2>2. ASSUME NEW s \in Runners, NEW u \in Ids PROVE lease'[s][u] < now
    BY <1>2 DEF LockGood, LockType, LeaseInv, ReleaseSystemTaskLock
  <2>3. QED  BY <2>1, <2>2 DEF LockGood, LeaseInv, LockType
<1>3. QED  BY <1>1, <1>2 DEF ReleaseSystemTaskLock

\* The lock is only granted when nobody's lease is running.
LEMMA GrantKeeps ==
  ASSUME LockGood, now \in Nat \ {0}, NEW r \in Runners, claimId[r] \in Ids,
         claimUntil[r] \in Nat, GrantLock(r), UNCHANGED now,
         lockId = 0 \/ lockedUntil < now
  PROVE  LockGood'
<1>1. LockType'
  BY SystemTaskAssumption, IdFacts DEF LockGood, LockType, GrantLock
<1>2. ASSUME NEW s \in Runners, NEW u \in Ids PROVE lease[s][u] < now
  BY IdFacts DEF LockGood, LockType, LeaseInv
<1>3. ASSUME NEW s \in Runners, NEW u \in Ids, s # r \/ u # claimId[r]
      PROVE  lease'[s][u] < now
  BY <1>2, <1>3 DEF LockGood, LockType, GrantLock
<1>4. lease'[r][claimId[r]] = lockedUntil'
  BY DEF LockGood, LockType, GrantLock
<1>5. QED  BY <1>1, <1>3, <1>4 DEF LockGood, LockType, LeaseInv, GrantLock

\* The holder extends its own lease.
LEMMA RenewKeeps ==
  ASSUME LockGood, now \in Nat \ {0}, NEW r \in Runners, NEW t \in Ids, HoldsLock(r, t),
         lockedUntil' = now + TTL, lease' = [lease EXCEPT ![r][t] = now + TTL],
         UNCHANGED <<now, lockId, lockedBy>>
  PROVE  LockGood'
<1>1. LockType'
  BY SystemTaskAssumption DEF LockGood, LockType
<1>2. ASSUME NEW s \in Runners, NEW u \in Ids, s # r \/ u # t PROVE lease'[s][u] < now
  BY <1>2 DEF LockGood, LockType, LeaseInv, HoldsLock
<1>3. lease'[r][t] = lockedUntil'
  BY DEF LockGood, LockType
<1>4. QED  BY <1>1, <1>2, <1>3 DEF LockGood, LockType, LeaseInv, HoldsLock

\* Nothing written.
LEMMA SameLockKeeps == ASSUME LockGood, UNCHANGED <<now, lock>> PROVE LockGood'
BY DEF LockGood, LockType, LeaseInv, lock

-----------------------------------------------------------------------------
(* The invariant, part by part.                                            *)

\* IInv as the parts the steps below establish one by one.
LEMMA Parts ==
  IInv <=> /\ RowsGood /\ LockGood /\ PassType /\ ClaimType /\ StaleType /\ OtherType
           /\ LocalsInv /\ RunInv
BY DEF IInv, TypeOK, RowsGood, LockGood

LEMMA PartsPrime ==
  IInv' <=> /\ RowsGood' /\ LockGood' /\ PassType' /\ ClaimType' /\ StaleType' /\ OtherType'
            /\ LocalsInv' /\ RunInv'
BY DEF IInv, TypeOK, RowsGood, LockGood

\* A step of runner r leaves the locals of the others alone.
LEMMA LocalsKeep ==
  ASSUME LocalsInv, ClaimType, StaleType, OtherType, NEW r \in Runners, UNCHANGED now,
         LocalsOK(r)',
         \A s \in Runners \ {r} :
           /\ pc'[s] = pc[s] /\ claimId'[s] = claimId[s] /\ claimAt'[s] = claimAt[s]
           /\ expired'[s] = expired[s] /\ staleId'[s] = staleId[s] /\ staleAt'[s] = staleAt[s]
  PROVE  LocalsInv'
BY DEF LocalsInv, LocalsOK

\* Rows that keep their runner keep RunInv, if whoever wins a task is named by its row.
LEMMA RunKeeps ==
  ASSUME RunInv, RowsKept,
         \A s \in Runners, t \in Ids :
           Won(s, t)' => Won(s, t) \/ (executor'[t] = s /\ status'[t] \in Begun)
  PROVE  RunInv'
BY DEF RunInv, RowsKept

-----------------------------------------------------------------------------
(* The actions.                                                            *)

\* The query of ExpireStaleSystemTaskLocks preserves the invariant.
LEMMA StaleListInv ==
  ASSUME IInv, NEW r \in Runners, StaleList(r)
  PROVE  IInv'
<1>0. /\ RowsGood /\ LockGood /\ PassType /\ ClaimType /\ StaleType /\ OtherType
      /\ LocalsInv /\ RunInv
  BY Parts
<1>1. RowsGood' /\ RowsKept
  BY <1>0, SameRowsKeep DEF StaleList
<1>2. LockGood'
  BY <1>0, SameLockKeeps DEF StaleList
<1>3. PassType'
  BY <1>0 DEF PassType, StaleList, Goto, NoFault, Fault, PassLabels
<1>4. ClaimType'
  BY <1>0 DEF ClaimType, StaleList, claim
<1>5. StaleType'
  <2>1. /\ lockId \in Ids \cup {0} /\ lockedBy \in Runners \cup {NoRunner}
        /\ now \in Nat
    BY <1>0 DEF LockGood, LockType, OtherType
  <2>2. CASE UNCHANGED stale
    BY <1>0, <2>2 DEF StaleType, stale
  <2>3. CASE /\ staleId' = [staleId EXCEPT ![r] = lockId]
             /\ staleBy' = [staleBy EXCEPT ![r] = lockedBy]
             /\ staleAt' = [staleAt EXCEPT ![r] = now]
    BY <1>0, <2>1, <2>3 DEF StaleType
  <2>4. QED  BY <2>2, <2>3 DEF StaleList
<1>6. OtherType'
  BY <1>0, SystemTaskAssumption DEF OtherType, StaleList, NoFault, Fault
<1>7. LocalsInv'
  <2>1. LocalsOK(r)'
    BY <1>0, IdFacts DEF LocalsInv, LocalsOK, StaleList, Goto, claim, stale, PassType,
       ClaimType, StaleType, OtherType, ClaimLabels, LockGood, LockType
  <2>2. \A s \in Runners \ {r} :
           /\ pc'[s] = pc[s] /\ claimId'[s] = claimId[s] /\ claimAt'[s] = claimAt[s]
           /\ expired'[s] = expired[s] /\ staleId'[s] = staleId[s] /\ staleAt'[s] = staleAt[s]
    BY <1>0 DEF StaleList, Goto, claim, stale, PassType, ClaimType, StaleType
  <2>3. QED  BY <1>0, <2>1, <2>2, LocalsKeep DEF StaleList
<1>8. RunInv'
  <2>1. \A s \in Runners, u \in Ids :
           Won(s, u)' => Won(s, u) \/ (executor'[u] = s /\ status'[u] \in Begun)
    BY <1>0 DEF StaleList, Goto, claim, Won, PassType
  <2>2. QED  BY <1>0, <1>1, <2>1, RunKeeps
<1>9. QED  BY <1>1, <1>2, <1>3, <1>4, <1>5, <1>6, <1>7, <1>8, PartsPrime

\* Its marking of the expired task preserves the invariant.
LEMMA StaleMarkInv ==
  ASSUME IInv, NEW r \in Runners, StaleMark(r)
  PROVE  IInv'
<1>0. /\ RowsGood /\ LockGood /\ PassType /\ ClaimType /\ StaleType /\ OtherType
      /\ LocalsInv /\ RunInv
  BY Parts
<1>1. RowsGood' /\ RowsKept
  BY <1>0, MarkKeeps, SameRowsKeep DEF StaleMark, LocalsInv, LocalsOK, OtherType
<1>2. LockGood'
  BY <1>0, SameLockKeeps DEF StaleMark
<1>3. PassType'
  BY <1>0 DEF PassType, StaleMark, Goto, NoFault, Fault, ResetStale, PassLabels
<1>4. ClaimType'
  BY <1>0 DEF ClaimType, StaleMark, claim
<1>5. StaleType'
  BY <1>0 DEF StaleType, StaleMark, ResetStale, stale
<1>6. OtherType'
  BY <1>0, SystemTaskAssumption DEF OtherType, StaleMark, NoFault, Fault
<1>7. LocalsInv'
  <2>1. LocalsOK(r)'
    BY <1>0, IdFacts DEF LocalsInv, LocalsOK, StaleMark, Goto, ResetStale, claim, stale,
       PassType, ClaimType, StaleType, OtherType, ClaimLabels
  <2>2. \A s \in Runners \ {r} :
           /\ pc'[s] = pc[s] /\ claimId'[s] = claimId[s] /\ claimAt'[s] = claimAt[s]
           /\ expired'[s] = expired[s] /\ staleId'[s] = staleId[s] /\ staleAt'[s] = staleAt[s]
    BY <1>0 DEF StaleMark, Goto, ResetStale, claim, stale, PassType, ClaimType, StaleType
  <2>3. QED  BY <1>0, <2>1, <2>2, LocalsKeep DEF StaleMark
<1>8. RunInv'
  <2>1. \A s \in Runners, u \in Ids :
           Won(s, u)' => Won(s, u) \/ (executor'[u] = s /\ status'[u] \in Begun)
    BY <1>0 DEF StaleMark, Goto, claim, Won, PassType
  <2>2. QED  BY <1>0, <1>1, <2>1, RunKeeps
<1>9. QED  BY <1>1, <1>2, <1>3, <1>4, <1>5, <1>6, <1>7, <1>8, PartsPrime

\* Its delete of the stale lock preserves the invariant.
LEMMA StaleDeleteInv ==
  ASSUME IInv, NEW r \in Runners, StaleDelete(r)
  PROVE  IInv'
<1>0. /\ RowsGood /\ LockGood /\ PassType /\ ClaimType /\ StaleType /\ OtherType
      /\ LocalsInv /\ RunInv
  BY Parts
<1>1. RowsGood' /\ RowsKept
  BY <1>0, SameRowsKeep DEF StaleDelete
<1>2. LockGood'
  BY <1>0, DeleteKeeps, SameLockKeeps DEF StaleDelete, StillStale, LocalsInv, LocalsOK,
     StaleType, OtherType, LockGood, LockType
<1>3. PassType'
  BY <1>0 DEF PassType, StaleDelete, Goto, NoFault, Fault, ResetStale, PassLabels
<1>4. ClaimType'
  BY <1>0 DEF ClaimType, StaleDelete, claim
<1>5. StaleType'
  BY <1>0 DEF StaleType, StaleDelete, ResetStale, stale
<1>6. OtherType'
  BY <1>0, SystemTaskAssumption DEF OtherType, StaleDelete, NoFault, Fault
<1>7. LocalsInv'
  <2>1. LocalsOK(r)'
    BY <1>0, IdFacts DEF LocalsInv, LocalsOK, StaleDelete, Goto, ResetStale, claim, stale,
       PassType, ClaimType, StaleType, OtherType, ClaimLabels
  <2>2. \A s \in Runners \ {r} :
           /\ pc'[s] = pc[s] /\ claimId'[s] = claimId[s] /\ claimAt'[s] = claimAt[s]
           /\ expired'[s] = expired[s] /\ staleId'[s] = staleId[s] /\ staleAt'[s] = staleAt[s]
    BY <1>0 DEF StaleDelete, Goto, ResetStale, claim, stale, PassType, ClaimType,
       StaleType
  <2>3. QED  BY <1>0, <2>1, <2>2, LocalsKeep DEF StaleDelete
<1>8. RunInv'
  <2>1. \A s \in Runners, u \in Ids :
           Won(s, u)' => Won(s, u) \/ (executor'[u] = s /\ status'[u] \in Begun)
    BY <1>0 DEF StaleDelete, Goto, claim, Won, PassType
  <2>2. QED  BY <1>0, <1>1, <2>1, RunKeeps
<1>9. QED  BY <1>1, <1>2, <1>3, <1>4, <1>5, <1>6, <1>7, <1>8, PartsPrime

\* The scheduler's query preserves the invariant.
LEMMA SchedReadInv ==
  ASSUME IInv, NEW r \in Runners, SchedRead(r)
  PROVE  IInv'
<1>0. /\ RowsGood /\ LockGood /\ PassType /\ ClaimType /\ StaleType /\ OtherType
      /\ LocalsInv /\ RunInv
  BY Parts
<1>1. RowsGood' /\ RowsKept
  BY <1>0, SameRowsKeep DEF SchedRead
<1>2. LockGood'
  BY <1>0, SameLockKeeps DEF SchedRead
<1>3. PassType'
  BY <1>0 DEF PassType, SchedRead, Goto, NoFault, Fault, PassLabels
<1>4. ClaimType'
  BY <1>0 DEF ClaimType, SchedRead, claim
<1>5. StaleType'
  BY <1>0 DEF StaleType, SchedRead, stale
<1>6. OtherType'
  BY <1>0, SystemTaskAssumption DEF OtherType, SchedRead, NoFault, Fault
<1>7. LocalsInv'
  <2>1. LocalsOK(r)'
    BY <1>0, IdFacts DEF LocalsInv, LocalsOK, SchedRead, Goto, claim, stale, PassType,
       ClaimType, StaleType, OtherType, ClaimLabels
  <2>2. \A s \in Runners \ {r} :
           /\ pc'[s] = pc[s] /\ claimId'[s] = claimId[s] /\ claimAt'[s] = claimAt[s]
           /\ expired'[s] = expired[s] /\ staleId'[s] = staleId[s] /\ staleAt'[s] = staleAt[s]
    BY <1>0 DEF SchedRead, Goto, claim, stale, PassType, ClaimType, StaleType
  <2>3. QED  BY <1>0, <2>1, <2>2, LocalsKeep DEF SchedRead
<1>8. RunInv'
  <2>1. \A s \in Runners, u \in Ids :
           Won(s, u)' => Won(s, u) \/ (executor'[u] = s /\ status'[u] \in Begun)
    BY <1>0 DEF SchedRead, Goto, claim, Won, PassType
  <2>2. QED  BY <1>0, <1>1, <2>1, RunKeeps
<1>9. QED  BY <1>1, <1>2, <1>3, <1>4, <1>5, <1>6, <1>7, <1>8, PartsPrime

\* The scheduler's insert preserves the invariant.
LEMMA SchedCreateInv ==
  ASSUME IInv, NEW r \in Runners, SchedCreate(r)
  PROVE  IInv'
<1>0. /\ RowsGood /\ LockGood /\ PassType /\ ClaimType /\ StaleType /\ OtherType
      /\ LocalsInv /\ RunInv
  BY Parts
<1>1. RowsGood' /\ RowsKept
  BY <1>0, CreateKeeps, SameRowsKeep DEF SchedCreate, OtherType
<1>2. LockGood'
  BY <1>0, SameLockKeeps DEF SchedCreate
<1>3. PassType'
  BY <1>0 DEF PassType, SchedCreate, Goto, NoFault, Fault, PassLabels
<1>4. ClaimType'
  BY <1>0 DEF ClaimType, SchedCreate, claim
<1>5. StaleType'
  BY <1>0 DEF StaleType, SchedCreate, stale
<1>6. OtherType'
  BY <1>0, SystemTaskAssumption DEF OtherType, SchedCreate, NoFault, Fault
<1>7. LocalsInv'
  <2>1. LocalsOK(r)'
    BY <1>0, IdFacts DEF LocalsInv, LocalsOK, SchedCreate, Goto, claim, stale, PassType,
       ClaimType, StaleType, OtherType, ClaimLabels
  <2>2. \A s \in Runners \ {r} :
           /\ pc'[s] = pc[s] /\ claimId'[s] = claimId[s] /\ claimAt'[s] = claimAt[s]
           /\ expired'[s] = expired[s] /\ staleId'[s] = staleId[s] /\ staleAt'[s] = staleAt[s]
    BY <1>0 DEF SchedCreate, Goto, claim, stale, PassType, ClaimType, StaleType
  <2>3. QED  BY <1>0, <2>1, <2>2, LocalsKeep DEF SchedCreate
<1>8. RunInv'
  <2>1. \A s \in Runners, u \in Ids :
           Won(s, u)' => Won(s, u) \/ (executor'[u] = s /\ status'[u] \in Begun)
    BY <1>0 DEF SchedCreate, Goto, claim, Won, PassType
  <2>2. QED  BY <1>0, <1>1, <2>1, RunKeeps
<1>9. QED  BY <1>1, <1>2, <1>3, <1>4, <1>5, <1>6, <1>7, <1>8, PartsPrime

\* The queries for a pending task preserves the invariant.
LEMMA ClaimReadInv ==
  ASSUME IInv, NEW r \in Runners, ClaimRead(r)
  PROVE  IInv'
<1>0. /\ RowsGood /\ LockGood /\ PassType /\ ClaimType /\ StaleType /\ OtherType
      /\ LocalsInv /\ RunInv
  BY Parts
<1>1. RowsGood' /\ RowsKept
  BY <1>0, SameRowsKeep DEF ClaimRead
<1>2. LockGood'
  BY <1>0, SameLockKeeps DEF ClaimRead
<1>3. PassType'
  BY <1>0 DEF PassType, ClaimRead, Goto, NoFault, Fault, GiveUp, ResetClaim, PassLabels
<1>4. ClaimType'
  <2>1. CASE GiveUp(r)
    BY <1>0, <2>1 DEF ClaimType, GiveUp, ResetClaim
  <2>2. CASE ~GiveUp(r)
    <3>1. PICK t \in Ids :
            /\ claimId' = [claimId EXCEPT ![r] = t]
            /\ claimAt' = [claimAt EXCEPT ![r] = now]
            /\ claimUntil' = [claimUntil EXCEPT ![r] = now + TTL]
            /\ UNCHANGED expired
      BY <2>2 DEF ClaimRead
    <3>2. now \in Nat /\ now + TTL \in Nat
      BY <1>0, SystemTaskAssumption DEF OtherType
    <3>3. QED  BY <1>0, <3>1, <3>2 DEF ClaimType
  <2>3. QED  BY <2>1, <2>2
<1>5. StaleType'
  BY <1>0 DEF StaleType, ClaimRead, stale
<1>6. OtherType'
  BY <1>0, SystemTaskAssumption DEF OtherType, ClaimRead, NoFault, Fault
<1>7. LocalsInv'
  <2>1. LocalsOK(r)'
    BY <1>0, IdFacts DEF LocalsInv, LocalsOK, ClaimRead, Goto, GiveUp, ResetClaim, claim,
       stale, PassType, ClaimType, StaleType, OtherType, ClaimLabels
  <2>2. \A s \in Runners \ {r} :
           /\ pc'[s] = pc[s] /\ claimId'[s] = claimId[s] /\ claimAt'[s] = claimAt[s]
           /\ expired'[s] = expired[s] /\ staleId'[s] = staleId[s] /\ staleAt'[s] = staleAt[s]
    BY <1>0 DEF ClaimRead, Goto, GiveUp, ResetClaim, claim, stale, PassType, ClaimType,
       StaleType
  <2>3. QED  BY <1>0, <2>1, <2>2, LocalsKeep DEF ClaimRead
<1>8. RunInv'
  <2>1. \A s \in Runners, u \in Ids :
           Won(s, u)' => Won(s, u) \/ (executor'[u] = s /\ status'[u] \in Begun)
    BY <1>0 DEF ClaimRead, Goto, GiveUp, ResetClaim, claim, Won, PassType, ClaimType
  <2>2. QED  BY <1>0, <1>1, <2>1, RunKeeps
<1>9. QED  BY <1>1, <1>2, <1>3, <1>4, <1>5, <1>6, <1>7, <1>8, PartsPrime

\* The insert of the lock row preserves the invariant.
LEMMA LockCreateInv ==
  ASSUME IInv, NEW r \in Runners, LockCreate(r)
  PROVE  IInv'
<1>0. /\ RowsGood /\ LockGood /\ PassType /\ ClaimType /\ StaleType /\ OtherType
      /\ LocalsInv /\ RunInv
  BY Parts
<1>1. RowsGood' /\ RowsKept
  BY <1>0, SameRowsKeep DEF LockCreate
<1>2. LockGood'
  BY <1>0, GrantKeeps, SameLockKeeps DEF LockCreate, LocalsInv, LocalsOK, ClaimLabels,
     ClaimType, OtherType
<1>3. PassType'
  BY <1>0 DEF PassType, LockCreate, Goto, NoFault, Fault, PassLabels
<1>4. ClaimType'
  BY <1>0 DEF ClaimType, LockCreate, claim
<1>5. StaleType'
  BY <1>0 DEF StaleType, LockCreate, stale
<1>6. OtherType'
  BY <1>0, SystemTaskAssumption DEF OtherType, LockCreate, NoFault, Fault
<1>7. LocalsInv'
  <2>1. LocalsOK(r)'
    BY <1>0, IdFacts DEF LocalsInv, LocalsOK, LockCreate, Goto, claim, stale, PassType,
       ClaimType, StaleType, OtherType, ClaimLabels
  <2>2. \A s \in Runners \ {r} :
           /\ pc'[s] = pc[s] /\ claimId'[s] = claimId[s] /\ claimAt'[s] = claimAt[s]
           /\ expired'[s] = expired[s] /\ staleId'[s] = staleId[s] /\ staleAt'[s] = staleAt[s]
    BY <1>0 DEF LockCreate, Goto, claim, stale, PassType, ClaimType, StaleType
  <2>3. QED  BY <1>0, <2>1, <2>2, LocalsKeep DEF LockCreate
<1>8. RunInv'
  <2>1. \A s \in Runners, u \in Ids :
           Won(s, u)' => Won(s, u) \/ (executor'[u] = s /\ status'[u] \in Begun)
    BY <1>0 DEF LockCreate, Goto, claim, Won, PassType
  <2>2. QED  BY <1>0, <1>1, <2>1, RunKeeps
<1>9. QED  BY <1>1, <1>2, <1>3, <1>4, <1>5, <1>6, <1>7, <1>8, PartsPrime

\* The query for the existing lock preserves the invariant.
LEMMA LockReadInv ==
  ASSUME IInv, NEW r \in Runners, LockRead(r)
  PROVE  IInv'
<1>0. /\ RowsGood /\ LockGood /\ PassType /\ ClaimType /\ StaleType /\ OtherType
      /\ LocalsInv /\ RunInv
  BY Parts
<1>1. RowsGood' /\ RowsKept
  BY <1>0, SameRowsKeep DEF LockRead
<1>2. LockGood'
  BY <1>0, SameLockKeeps DEF LockRead
<1>3. PassType'
  BY <1>0 DEF PassType, LockRead, Goto, NoFault, Fault, GiveUp, ResetClaim, PassLabels
<1>4. ClaimType'
  <2>1. CASE GiveUp(r)
    BY <1>0, <2>1 DEF ClaimType, GiveUp, ResetClaim
  <2>2. CASE ~GiveUp(r)
    <3>1. /\ expired' = [expired EXCEPT ![r] = lockId]
          /\ UNCHANGED <<claimId, claimAt, claimUntil>>
      BY <2>2 DEF LockRead
    <3>2. lockId \in Ids \cup {0}
      BY <1>0 DEF LockGood, LockType
    <3>3. QED  BY <1>0, <3>1, <3>2 DEF ClaimType
  <2>3. QED  BY <2>1, <2>2
<1>5. StaleType'
  BY <1>0 DEF StaleType, LockRead, stale
<1>6. OtherType'
  BY <1>0, SystemTaskAssumption DEF OtherType, LockRead, NoFault, Fault
<1>7. LocalsInv'
  <2>1. LocalsOK(r)'
    BY <1>0, IdFacts DEF LocalsInv, LocalsOK, LockRead, Goto, GiveUp, ResetClaim, claim,
       stale, PassType, ClaimType, StaleType, OtherType, ClaimLabels, LockGood, LockType
  <2>2. \A s \in Runners \ {r} :
           /\ pc'[s] = pc[s] /\ claimId'[s] = claimId[s] /\ claimAt'[s] = claimAt[s]
           /\ expired'[s] = expired[s] /\ staleId'[s] = staleId[s] /\ staleAt'[s] = staleAt[s]
    BY <1>0 DEF LockRead, Goto, GiveUp, ResetClaim, claim, stale, PassType, ClaimType,
       StaleType
  <2>3. QED  BY <1>0, <2>1, <2>2, LocalsKeep DEF LockRead
<1>8. RunInv'
  <2>1. \A s \in Runners, u \in Ids :
           Won(s, u)' => Won(s, u) \/ (executor'[u] = s /\ status'[u] \in Begun)
    BY <1>0 DEF LockRead, Goto, GiveUp, ResetClaim, claim, Won, PassType, ClaimType
  <2>2. QED  BY <1>0, <1>1, <2>1, RunKeeps
<1>9. QED  BY <1>1, <1>2, <1>3, <1>4, <1>5, <1>6, <1>7, <1>8, PartsPrime

\* The takeover of an expired lock preserves the invariant.
LEMMA LockTakeInv ==
  ASSUME IInv, NEW r \in Runners, LockTake(r)
  PROVE  IInv'
<1>0. /\ RowsGood /\ LockGood /\ PassType /\ ClaimType /\ StaleType /\ OtherType
      /\ LocalsInv /\ RunInv
  BY Parts
<1>1. RowsGood' /\ RowsKept
  BY <1>0, SameRowsKeep DEF LockTake
<1>2. LockGood'
  BY <1>0, GrantKeeps, SameLockKeeps DEF LockTake, Takeable, LocalsInv, LocalsOK, ClaimLabels,
     ClaimType, OtherType, LockGood, LockType
<1>3. PassType'
  BY <1>0 DEF PassType, LockTake, Goto, NoFault, Fault, GiveUp, ResetClaim, Takeable,
     PassLabels
<1>4. ClaimType'
  <2>1. CASE GiveUp(r)
    BY <1>0, <2>1 DEF ClaimType, GiveUp, ResetClaim
  <2>2. CASE UNCHANGED claim
    BY <1>0, <2>2 DEF ClaimType, claim
  <2>3. QED  BY <2>1, <2>2 DEF LockTake
<1>5. StaleType'
  BY <1>0 DEF StaleType, LockTake, stale
<1>6. OtherType'
  BY <1>0, SystemTaskAssumption DEF OtherType, LockTake, NoFault, Fault
<1>7. LocalsInv'
  <2>1. LocalsOK(r)'
    BY <1>0, IdFacts DEF LocalsInv, LocalsOK, LockTake, Goto, GiveUp, ResetClaim,
       Takeable, claim, stale, PassType, ClaimType, StaleType, OtherType, ClaimLabels
  <2>2. \A s \in Runners \ {r} :
           /\ pc'[s] = pc[s] /\ claimId'[s] = claimId[s] /\ claimAt'[s] = claimAt[s]
           /\ expired'[s] = expired[s] /\ staleId'[s] = staleId[s] /\ staleAt'[s] = staleAt[s]
    BY <1>0 DEF LockTake, Goto, GiveUp, ResetClaim, Takeable, claim, stale, PassType,
       ClaimType, StaleType
  <2>3. QED  BY <1>0, <2>1, <2>2, LocalsKeep DEF LockTake
<1>8. RunInv'
  <2>1. \A s \in Runners, u \in Ids :
           Won(s, u)' => Won(s, u) \/ (executor'[u] = s /\ status'[u] \in Begun)
    BY <1>0 DEF LockTake, Goto, GiveUp, ResetClaim, claim, Won, PassType, ClaimType
  <2>2. QED  BY <1>0, <1>1, <2>1, RunKeeps
<1>9. QED  BY <1>1, <1>2, <1>3, <1>4, <1>5, <1>6, <1>7, <1>8, PartsPrime

\* The marking of the task whose lock was taken over preserves the invariant.
LEMMA ClaimMarkInv ==
  ASSUME IInv, NEW r \in Runners, ClaimMark(r)
  PROVE  IInv'
<1>0. /\ RowsGood /\ LockGood /\ PassType /\ ClaimType /\ StaleType /\ OtherType
      /\ LocalsInv /\ RunInv
  BY Parts
<1>1. RowsGood' /\ RowsKept
  BY <1>0, MarkKeeps, SameRowsKeep DEF ClaimMark, LocalsInv, LocalsOK, OtherType
<1>2. LockGood'
  BY <1>0, SameLockKeeps DEF ClaimMark
<1>3. PassType'
  BY <1>0 DEF PassType, ClaimMark, Goto, NoFault, Fault, PassLabels
<1>4. ClaimType'
  BY <1>0 DEF ClaimType, ClaimMark, claim
<1>5. StaleType'
  BY <1>0 DEF StaleType, ClaimMark, stale
<1>6. OtherType'
  BY <1>0, SystemTaskAssumption DEF OtherType, ClaimMark, NoFault, Fault
<1>7. LocalsInv'
  <2>1. LocalsOK(r)'
    BY <1>0, IdFacts DEF LocalsInv, LocalsOK, ClaimMark, Goto, claim, stale, PassType,
       ClaimType, StaleType, OtherType, ClaimLabels
  <2>2. \A s \in Runners \ {r} :
           /\ pc'[s] = pc[s] /\ claimId'[s] = claimId[s] /\ claimAt'[s] = claimAt[s]
           /\ expired'[s] = expired[s] /\ staleId'[s] = staleId[s] /\ staleAt'[s] = staleAt[s]
    BY <1>0 DEF ClaimMark, Goto, claim, stale, PassType, ClaimType, StaleType
  <2>3. QED  BY <1>0, <2>1, <2>2, LocalsKeep DEF ClaimMark
<1>8. RunInv'
  <2>1. \A s \in Runners, u \in Ids :
           Won(s, u)' => Won(s, u) \/ (executor'[u] = s /\ status'[u] \in Begun)
    BY <1>0 DEF ClaimMark, Goto, claim, Won, PassType
  <2>2. QED  BY <1>0, <1>1, <2>1, RunKeeps
<1>9. QED  BY <1>1, <1>2, <1>3, <1>4, <1>5, <1>6, <1>7, <1>8, PartsPrime

\* The update that starts the task preserves the invariant.
LEMMA ClaimSetInv ==
  ASSUME IInv, NEW r \in Runners, ClaimSet(r)
  PROVE  IInv'
<1>0. /\ RowsGood /\ LockGood /\ PassType /\ ClaimType /\ StaleType /\ OtherType
      /\ LocalsInv /\ RunInv
  BY Parts
<1>1. RowsGood' /\ RowsKept
  <2>1. claimId[r] \in Ids /\ claimAt[r] \in Nat
    BY <1>0 DEF ClaimSet, LocalsInv, LocalsOK, ClaimLabels, ClaimType
  <2>2. CASE UNCHANGED rows
    BY <1>0, <2>2, SameRowsKeep
  <2>3. CASE ~UNCHANGED rows
    <3>1. /\ status[claimId[r]] = "pending"
          /\ status' = [status EXCEPT ![claimId[r]] = "running"]
          /\ executor' = [executor EXCEPT ![claimId[r]] = r]
          /\ updated' = [updated EXCEPT ![claimId[r]] = claimAt[r]]
          /\ UNCHANGED <<count, active>>
      BY <2>3 DEF ClaimSet, ClaimSets
    <3>2. RowsType'  BY <1>0, <2>1, <3>1 DEF RowsGood, RowsType
    <3>3. OneActiveRow'
      BY <1>0, <2>1, <3>1 DEF RowsGood, RowsType, OneActiveRow, Active
    <3>4. RowsInv'  BY <1>0, <2>1, <3>1 DEF RowsGood, RowsType, RowsInv
    <3>5. RowsKept
      BY <1>0, <2>1, <3>1 DEF RowsGood, RowsType, RowsKept, Begun, Terminal
    <3>6. QED  BY <3>2, <3>3, <3>4, <3>5 DEF RowsGood
  <2>4. QED  BY <2>2, <2>3
<1>2. LockGood'
  BY <1>0, SameLockKeeps DEF ClaimSet
<1>3. PassType'
  BY <1>0 DEF PassType, ClaimSet, Goto, NoFault, Fault, ClaimSets, PassLabels
<1>4. ClaimType'
  BY <1>0 DEF ClaimType, ClaimSet, claim
<1>5. StaleType'
  BY <1>0 DEF StaleType, ClaimSet, stale
<1>6. OtherType'
  BY <1>0, SystemTaskAssumption DEF OtherType, ClaimSet, NoFault, Fault
<1>7. LocalsInv'
  <2>1. LocalsOK(r)'
    BY <1>0, IdFacts DEF LocalsInv, LocalsOK, ClaimSet, Goto, ClaimSets, claim, stale,
       PassType, ClaimType, StaleType, OtherType, ClaimLabels
  <2>2. \A s \in Runners \ {r} :
           /\ pc'[s] = pc[s] /\ claimId'[s] = claimId[s] /\ claimAt'[s] = claimAt[s]
           /\ expired'[s] = expired[s] /\ staleId'[s] = staleId[s] /\ staleAt'[s] = staleAt[s]
    BY <1>0 DEF ClaimSet, Goto, ClaimSets, claim, stale, PassType, ClaimType, StaleType
  <2>3. QED  BY <1>0, <2>1, <2>2, LocalsKeep DEF ClaimSet
<1>8. RunInv'
  <2>1. \A s \in Runners, u \in Ids :
           Won(s, u)' => Won(s, u) \/ (executor'[u] = s /\ status'[u] \in Begun)
    BY <1>0 DEF ClaimSet, Goto, claim, Won, PassType, ClaimSets, Begun, RowsGood, RowsType
  <2>2. QED  BY <1>0, <1>1, <2>1, RunKeeps
<1>9. QED  BY <1>1, <1>2, <1>3, <1>4, <1>5, <1>6, <1>7, <1>8, PartsPrime

\* The dispatch of the handler preserves the invariant.
LEMMA ClaimLoadInv ==
  ASSUME IInv, NEW r \in Runners, ClaimLoad(r)
  PROVE  IInv'
<1>0. /\ RowsGood /\ LockGood /\ PassType /\ ClaimType /\ StaleType /\ OtherType
      /\ LocalsInv /\ RunInv
  BY Parts
<1>1. RowsGood' /\ RowsKept
  BY <1>0, SameRowsKeep DEF ClaimLoad
<1>2. LockGood'
  BY <1>0, SameLockKeeps DEF ClaimLoad
<1>3. PassType'
  BY <1>0 DEF PassType, ClaimLoad, Goto, NoFault, Fault, GiveUp, ResetClaim, PassLabels
<1>4. ClaimType'
  BY <1>0 DEF ClaimType, ClaimLoad, GiveUp, ResetClaim, claim
<1>5. StaleType'
  BY <1>0 DEF StaleType, ClaimLoad, stale
<1>6. OtherType'
  BY <1>0, SystemTaskAssumption DEF OtherType, ClaimLoad, NoFault, Fault
<1>7. LocalsInv'
  <2>1. LocalsOK(r)'
    BY <1>0, IdFacts DEF LocalsInv, LocalsOK, ClaimLoad, Goto, GiveUp, ResetClaim, claim,
       stale, PassType, ClaimType, StaleType, OtherType, ClaimLabels
  <2>2. \A s \in Runners \ {r} :
           /\ pc'[s] = pc[s] /\ claimId'[s] = claimId[s] /\ claimAt'[s] = claimAt[s]
           /\ expired'[s] = expired[s] /\ staleId'[s] = staleId[s] /\ staleAt'[s] = staleAt[s]
    BY <1>0 DEF ClaimLoad, Goto, GiveUp, ResetClaim, claim, stale, PassType, ClaimType,
       StaleType
  <2>3. QED  BY <1>0, <2>1, <2>2, LocalsKeep DEF ClaimLoad
<1>8. RunInv'
  <2>1. \A s \in Runners, u \in Ids :
           Won(s, u)' => Won(s, u) \/ (executor'[u] = s /\ status'[u] \in Begun)
    BY <1>0 DEF ClaimLoad, Goto, GiveUp, ResetClaim, claim, Won, PassType, ClaimType,
       OtherType, LocalsInv, LocalsOK, ClaimLabels
  <2>2. QED  BY <1>0, <1>1, <2>1, RunKeeps
<1>9. QED  BY <1>1, <1>2, <1>3, <1>4, <1>5, <1>6, <1>7, <1>8, PartsPrime

\* The release after a failed claim preserves the invariant.
LEMMA ClaimReleaseInv ==
  ASSUME IInv, NEW r \in Runners, ClaimRelease(r)
  PROVE  IInv'
<1>0. /\ RowsGood /\ LockGood /\ PassType /\ ClaimType /\ StaleType /\ OtherType
      /\ LocalsInv /\ RunInv
  BY Parts
<1>1. RowsGood' /\ RowsKept
  BY <1>0, SameRowsKeep DEF ClaimRelease
<1>2. LockGood'
  BY <1>0, ReleaseKeeps, SameLockKeeps DEF ClaimRelease, LocalsInv, LocalsOK, ClaimLabels, OtherType
<1>3. PassType'
  BY <1>0 DEF PassType, ClaimRelease, Goto, NoFault, Fault, GiveUp, ResetClaim, PassLabels
<1>4. ClaimType'
  BY <1>0 DEF ClaimType, ClaimRelease, GiveUp, ResetClaim, claim
<1>5. StaleType'
  BY <1>0 DEF StaleType, ClaimRelease, stale
<1>6. OtherType'
  BY <1>0, SystemTaskAssumption DEF OtherType, ClaimRelease, NoFault, Fault
<1>7. LocalsInv'
  <2>1. LocalsOK(r)'
    BY <1>0, IdFacts DEF LocalsInv, LocalsOK, ClaimRelease, Goto, GiveUp, ResetClaim,
       claim, stale, PassType, ClaimType, StaleType, OtherType, ClaimLabels
  <2>2. \A s \in Runners \ {r} :
           /\ pc'[s] = pc[s] /\ claimId'[s] = claimId[s] /\ claimAt'[s] = claimAt[s]
           /\ expired'[s] = expired[s] /\ staleId'[s] = staleId[s] /\ staleAt'[s] = staleAt[s]
    BY <1>0 DEF ClaimRelease, Goto, GiveUp, ResetClaim, claim, stale, PassType, ClaimType,
       StaleType
  <2>3. QED  BY <1>0, <2>1, <2>2, LocalsKeep DEF ClaimRelease
<1>8. RunInv'
  <2>1. \A s \in Runners, u \in Ids :
           Won(s, u)' => Won(s, u) \/ (executor'[u] = s /\ status'[u] \in Begun)
    BY <1>0 DEF ClaimRelease, Goto, GiveUp, ResetClaim, claim, Won, PassType, ClaimType
  <2>2. QED  BY <1>0, <1>1, <2>1, RunKeeps
<1>9. QED  BY <1>1, <1>2, <1>3, <1>4, <1>5, <1>6, <1>7, <1>8, PartsPrime

\* A tick of runWithLeaseHeartbeat preserves the invariant.
LEMMA HeartbeatInv ==
  ASSUME IInv, NEW r \in Runners, NEW t \in Ids, Heartbeat(r, t)
  PROVE  IInv'
<1>0. /\ RowsGood /\ LockGood /\ PassType /\ ClaimType /\ StaleType /\ OtherType
      /\ LocalsInv /\ RunInv
  BY Parts
<1>1. RowsGood' /\ RowsKept
  BY <1>0, SameRowsKeep DEF Heartbeat
<1>2. LockGood'
  BY <1>0, RenewKeeps, SameLockKeeps DEF Heartbeat, OtherType
<1>3. PassType'
  BY <1>0 DEF PassType, Heartbeat
<1>4. ClaimType'
  BY <1>0 DEF ClaimType, Heartbeat, claim
<1>5. StaleType'
  BY <1>0 DEF StaleType, Heartbeat, stale
<1>6. OtherType'
  BY <1>0, SystemTaskAssumption DEF OtherType, Heartbeat, NoFault, Fault, SetHandler
<1>7. LocalsInv'
  BY <1>0 DEF Heartbeat, LocalsInv, LocalsOK, claim, stale
<1>8. RunInv'
  <2>1. \A s \in Runners, u \in Ids :
           Won(s, u)' => Won(s, u) \/ (executor'[u] = s /\ status'[u] \in Begun)
    BY <1>0 DEF Heartbeat, SetHandler, claim, Won, OtherType
  <2>2. QED  BY <1>0, <1>1, <2>1, RunKeeps
<1>9. QED  BY <1>1, <1>2, <1>3, <1>4, <1>5, <1>6, <1>7, <1>8, PartsPrime

\* UpdateSystemTaskState preserves the invariant.
LEMMA ProgressInv ==
  ASSUME IInv, NEW r \in Runners, NEW t \in Ids, Progress(r, t)
  PROVE  IInv'
<1>0. /\ RowsGood /\ LockGood /\ PassType /\ ClaimType /\ StaleType /\ OtherType
      /\ LocalsInv /\ RunInv
  BY Parts
<1>1. RowsGood' /\ RowsKept
  BY <1>0 DEF Progress, OtherType, rows, RowsGood, RowsType, OneActiveRow, Active, RowsInv,
     RowsKept
<1>2. LockGood'
  BY <1>0, SameLockKeeps DEF Progress
<1>3. PassType'
  BY <1>0 DEF PassType, Progress
<1>4. ClaimType'
  BY <1>0 DEF ClaimType, Progress, claim
<1>5. StaleType'
  BY <1>0 DEF StaleType, Progress, stale
<1>6. OtherType'
  BY <1>0, SystemTaskAssumption DEF OtherType, Progress, NoFault, Fault, SetHandler
<1>7. LocalsInv'
  BY <1>0 DEF Progress, LocalsInv, LocalsOK, claim, stale
<1>8. RunInv'
  <2>1. \A s \in Runners, u \in Ids :
           Won(s, u)' => Won(s, u) \/ (executor'[u] = s /\ status'[u] \in Begun)
    BY <1>0 DEF Progress, SetHandler, claim, Won, OtherType
  <2>2. QED  BY <1>0, <1>1, <2>1, RunKeeps
<1>9. QED  BY <1>1, <1>2, <1>3, <1>4, <1>5, <1>6, <1>7, <1>8, PartsPrime

\* The update of FinishSystemTask preserves the invariant.
LEMMA FinishSystemTaskInv ==
  ASSUME IInv, NEW r \in Runners, NEW t \in Ids, NEW verdict \in Terminal, FinishSystemTask(r, t, verdict)
  PROVE  IInv'
<1>0. /\ RowsGood /\ LockGood /\ PassType /\ ClaimType /\ StaleType /\ OtherType
      /\ LocalsInv /\ RunInv
  BY Parts
<1>1. RowsGood' /\ RowsKept
  BY <1>0, EndTaskKeeps, SameRowsKeep DEF FinishSystemTask, OwnsRun, OtherType
<1>2. LockGood'
  BY <1>0, SameLockKeeps DEF FinishSystemTask
<1>3. PassType'
  BY <1>0 DEF PassType, FinishSystemTask
<1>4. ClaimType'
  BY <1>0 DEF ClaimType, FinishSystemTask, claim
<1>5. StaleType'
  BY <1>0 DEF StaleType, FinishSystemTask, stale
<1>6. OtherType'
  BY <1>0, SystemTaskAssumption DEF OtherType, FinishSystemTask, NoFault, Fault,
     SetHandler
<1>7. LocalsInv'
  BY <1>0 DEF FinishSystemTask, LocalsInv, LocalsOK, claim, stale
<1>8. RunInv'
  <2>1. \A s \in Runners, u \in Ids :
           Won(s, u)' => Won(s, u) \/ (executor'[u] = s /\ status'[u] \in Begun)
    BY <1>0 DEF FinishSystemTask, SetHandler, claim, Won, OtherType
  <2>2. QED  BY <1>0, <1>1, <2>1, RunKeeps
<1>9. QED  BY <1>1, <1>2, <1>3, <1>4, <1>5, <1>6, <1>7, <1>8, PartsPrime

\* The release of FinishSystemTask preserves the invariant.
LEMMA FinishReleaseInv ==
  ASSUME IInv, NEW r \in Runners, NEW t \in Ids, FinishRelease(r, t)
  PROVE  IInv'
<1>0. /\ RowsGood /\ LockGood /\ PassType /\ ClaimType /\ StaleType /\ OtherType
      /\ LocalsInv /\ RunInv
  BY Parts
<1>1. RowsGood' /\ RowsKept
  BY <1>0, SameRowsKeep DEF FinishRelease
<1>2. LockGood'
  BY <1>0, ReleaseKeeps, SameLockKeeps DEF FinishRelease, OtherType
<1>3. PassType'
  BY <1>0 DEF PassType, FinishRelease
<1>4. ClaimType'
  BY <1>0 DEF ClaimType, FinishRelease, claim
<1>5. StaleType'
  BY <1>0 DEF StaleType, FinishRelease, stale
<1>6. OtherType'
  BY <1>0, SystemTaskAssumption DEF OtherType, FinishRelease, NoFault, Fault, SetHandler
<1>7. LocalsInv'
  BY <1>0 DEF FinishRelease, LocalsInv, LocalsOK, claim, stale
<1>8. RunInv'
  <2>1. \A s \in Runners, u \in Ids :
           Won(s, u)' => Won(s, u) \/ (executor'[u] = s /\ status'[u] \in Begun)
    BY <1>0 DEF FinishRelease, SetHandler, claim, Won, OtherType
  <2>2. QED  BY <1>0, <1>1, <2>1, RunKeeps
<1>9. QED  BY <1>1, <1>2, <1>3, <1>4, <1>5, <1>6, <1>7, <1>8, PartsPrime

\* A panic of a handler preserves the invariant.
LEMMA HandlerPanicInv ==
  ASSUME IInv, NEW r \in Runners, NEW t \in Ids, HandlerPanic(r, t)
  PROVE  IInv'
<1>0. /\ RowsGood /\ LockGood /\ PassType /\ ClaimType /\ StaleType /\ OtherType
      /\ LocalsInv /\ RunInv
  BY Parts
<1>1. RowsGood' /\ RowsKept
  BY <1>0, SameRowsKeep DEF HandlerPanic
<1>2. LockGood'
  BY <1>0, SameLockKeeps DEF HandlerPanic
<1>3. PassType'
  BY <1>0 DEF PassType, HandlerPanic
<1>4. ClaimType'
  BY <1>0 DEF ClaimType, HandlerPanic, claim
<1>5. StaleType'
  BY <1>0 DEF StaleType, HandlerPanic, stale
<1>6. OtherType'
  BY <1>0 DEF OtherType, HandlerPanic, SetHandler
<1>7. LocalsInv'
  BY <1>0 DEF HandlerPanic, LocalsInv, LocalsOK, claim, stale
<1>8. RunInv'
  <2>1. \A s \in Runners, u \in Ids :
           Won(s, u)' => Won(s, u) \/ (executor'[u] = s /\ status'[u] \in Begun)
    BY <1>0 DEF HandlerPanic, SetHandler, claim, Won, OtherType
  <2>2. QED  BY <1>0, <1>1, <2>1, RunKeeps
<1>9. QED  BY <1>1, <1>2, <1>3, <1>4, <1>5, <1>6, <1>7, <1>8, PartsPrime

\* The query of EnqueueSystemTask preserves the invariant.
LEMMA EnqueueReadInv ==
  ASSUME IInv, NEW c \in Clients, EnqueueRead(c)
  PROVE  IInv'
<1>0. /\ RowsGood /\ LockGood /\ PassType /\ ClaimType /\ StaleType /\ OtherType
      /\ LocalsInv /\ RunInv
  BY Parts
<1>1. RowsGood' /\ RowsKept
  BY <1>0, SameRowsKeep DEF EnqueueRead
<1>2. LockGood'
  BY <1>0, SameLockKeeps DEF EnqueueRead
<1>3. PassType'
  BY <1>0 DEF PassType, EnqueueRead
<1>4. ClaimType'
  BY <1>0 DEF ClaimType, EnqueueRead, claim
<1>5. StaleType'
  BY <1>0 DEF StaleType, EnqueueRead, stale
<1>6. OtherType'
  BY <1>0 DEF OtherType, EnqueueRead
<1>7. LocalsInv'
  BY <1>0 DEF EnqueueRead, LocalsInv, LocalsOK, claim, stale
<1>8. RunInv'
  <2>1. \A s \in Runners, u \in Ids :
           Won(s, u)' => Won(s, u) \/ (executor'[u] = s /\ status'[u] \in Begun)
    BY <1>0 DEF EnqueueRead, claim, Won
  <2>2. QED  BY <1>0, <1>1, <2>1, RunKeeps
<1>9. QED  BY <1>1, <1>2, <1>3, <1>4, <1>5, <1>6, <1>7, <1>8, PartsPrime

\* The insert of EnqueueSystemTask preserves the invariant.
LEMMA EnqueueCreateInv ==
  ASSUME IInv, NEW c \in Clients, EnqueueCreate(c)
  PROVE  IInv'
<1>0. /\ RowsGood /\ LockGood /\ PassType /\ ClaimType /\ StaleType /\ OtherType
      /\ LocalsInv /\ RunInv
  BY Parts
<1>1. RowsGood' /\ RowsKept
  BY <1>0, CreateKeeps, SameRowsKeep DEF EnqueueCreate, OtherType
<1>2. LockGood'
  BY <1>0, SameLockKeeps DEF EnqueueCreate
<1>3. PassType'
  BY <1>0 DEF PassType, EnqueueCreate
<1>4. ClaimType'
  BY <1>0 DEF ClaimType, EnqueueCreate, claim
<1>5. StaleType'
  BY <1>0 DEF StaleType, EnqueueCreate, stale
<1>6. OtherType'
  BY <1>0, SystemTaskAssumption DEF OtherType, EnqueueCreate, NoFault, Fault
<1>7. LocalsInv'
  BY <1>0 DEF EnqueueCreate, LocalsInv, LocalsOK, claim, stale
<1>8. RunInv'
  <2>1. \A s \in Runners, u \in Ids :
           Won(s, u)' => Won(s, u) \/ (executor'[u] = s /\ status'[u] \in Begun)
    BY <1>0 DEF EnqueueCreate, claim, Won
  <2>2. QED  BY <1>0, <1>1, <2>1, RunKeeps
<1>9. QED  BY <1>1, <1>2, <1>3, <1>4, <1>5, <1>6, <1>7, <1>8, PartsPrime

\* The stop of a node preserves the invariant.
LEMMA CrashInv ==
  ASSUME IInv, NEW r \in Runners, Crash(r)
  PROVE  IInv'
<1>0. /\ RowsGood /\ LockGood /\ PassType /\ ClaimType /\ StaleType /\ OtherType
      /\ LocalsInv /\ RunInv
  BY Parts
<1>1. RowsGood' /\ RowsKept
  BY <1>0, SameRowsKeep DEF Crash
<1>2. LockGood'
  BY <1>0, SameLockKeeps DEF Crash
<1>3. PassType'
  BY <1>0 DEF PassType, Crash, Goto, ResetClaim, ResetStale, PassLabels
<1>4. ClaimType'
  BY <1>0 DEF ClaimType, Crash, ResetClaim, claim
<1>5. StaleType'
  BY <1>0 DEF StaleType, Crash, ResetStale, stale
<1>6. OtherType'
  BY <1>0 DEF OtherType, Crash
<1>7. LocalsInv'
  <2>1. LocalsOK(r)'
    BY <1>0, IdFacts DEF LocalsInv, LocalsOK, Crash, Goto, ResetClaim, ResetStale, claim,
       stale, PassType, ClaimType, StaleType, OtherType, ClaimLabels
  <2>2. \A s \in Runners \ {r} :
           /\ pc'[s] = pc[s] /\ claimId'[s] = claimId[s] /\ claimAt'[s] = claimAt[s]
           /\ expired'[s] = expired[s] /\ staleId'[s] = staleId[s] /\ staleAt'[s] = staleAt[s]
    BY <1>0 DEF Crash, Goto, ResetClaim, ResetStale, claim, stale, PassType, ClaimType,
       StaleType
  <2>3. QED  BY <1>0, <2>1, <2>2, LocalsKeep DEF Crash
<1>8. RunInv'
  <2>1. \A s \in Runners, u \in Ids :
           Won(s, u)' => Won(s, u) \/ (executor'[u] = s /\ status'[u] \in Begun)
    BY <1>0 DEF Crash, Goto, ResetClaim, claim, Won, PassType, ClaimType, OtherType
  <2>2. QED  BY <1>0, <1>1, <2>1, RunKeeps
<1>9. QED  BY <1>1, <1>2, <1>3, <1>4, <1>5, <1>6, <1>7, <1>8, PartsPrime

\* The passing of time preserves the invariant.
LEMMA TickInv ==
  ASSUME IInv, Tick
  PROVE  IInv'
<1>0. /\ RowsGood /\ LockGood /\ PassType /\ ClaimType /\ StaleType /\ OtherType
      /\ LocalsInv /\ RunInv
  BY Parts
<1>1. RowsGood' /\ RowsKept
  BY <1>0, SameRowsKeep DEF Tick
<1>2. LockGood'
  BY <1>0 DEF Tick, lock, LockGood, LockType, LeaseInv, OtherType
<1>3. PassType'
  BY <1>0 DEF PassType, Tick
<1>4. ClaimType'
  BY <1>0 DEF ClaimType, Tick, claim
<1>5. StaleType'
  BY <1>0 DEF StaleType, Tick, stale
<1>6. OtherType'
  BY <1>0 DEF OtherType, Tick
<1>7. LocalsInv'
  BY <1>0 DEF Tick, LocalsInv, LocalsOK, ClaimType, StaleType, OtherType, claim, stale
<1>8. RunInv'
  <2>1. \A s \in Runners, u \in Ids :
           Won(s, u)' => Won(s, u) \/ (executor'[u] = s /\ status'[u] \in Begun)
    BY <1>0 DEF Tick, claim, Won
  <2>2. QED  BY <1>0, <1>1, <2>1, RunKeeps
<1>9. QED  BY <1>1, <1>2, <1>3, <1>4, <1>5, <1>6, <1>7, <1>8, PartsPrime

\* Every step of the specification preserves the invariant.
LEMMA NextInv == ASSUME IInv, [Next]_vars PROVE IInv'
<1>1. CASE UNCHANGED vars
  BY <1>1 DEF vars, rows, lock, claim, stale, IInv, TypeOK, RowsType, LockType, PassType,
     ClaimType, StaleType, OtherType, OneActiveRow, Active, LocalsInv, LocalsOK, RowsInv,
     LeaseInv, RunInv, Won
<1>2. ASSUME NEW r \in Runners, Pass(r) PROVE IInv'
  BY <1>2, StaleListInv, StaleMarkInv, StaleDeleteInv, SchedReadInv, SchedCreateInv,
     ClaimReadInv, LockCreateInv, LockReadInv, LockTakeInv, ClaimMarkInv, ClaimSetInv,
     ClaimLoadInv, ClaimReleaseInv DEF Pass
<1>3. ASSUME NEW r \in Runners, NEW t \in Ids, Handle(r, t) PROVE IInv'
  BY <1>3, HeartbeatInv, ProgressInv, FinishSystemTaskInv, FinishReleaseInv, HandlerPanicInv
     DEF Handle
<1>4. ASSUME NEW c \in Clients, EnqueueRead(c) \/ EnqueueCreate(c) PROVE IInv'
  BY <1>4, EnqueueReadInv, EnqueueCreateInv
<1>5. QED  BY <1>1, <1>2, <1>3, <1>4, CrashInv, TickInv DEF Next

\* The invariant holds in every reachable state.
THEOREM Invariance == Spec => []IInv
<1>1. Init => IInv  BY InitInv
<1>2. IInv /\ [Next]_vars => IInv'  BY NextInv
<1>3. QED  BY <1>1, <1>2, PTL DEF Spec

\* Every variable keeps its type: the lock row, when it exists, names a row and a
\* runner, and the locals of a pass are rows.
THEOREM TypeCorrect == Spec => []TypeOK
<1>1. IInv => TypeOK  BY DEF IInv
<1>2. QED  BY <1>1, Invariance, PTL

\* At most one row of a type is active, and exactly the active row carries the key,
\* for any number of nodes and any interleaving of their statements.
THEOREM ActiveRowUnique == Spec => []OneActiveRow
<1>1. IInv => OneActiveRow  BY DEF IInv
<1>2. QED  BY <1>1, Invariance, PTL

\* No task is ever dispatched on two runners.
THEOREM NeverExecutedTwice == Spec => []ExecutedOnce
<1>1. IInv => ExecutedOnce  BY DEF IInv, RunInv, Won, ExecutedOnce
<1>2. QED  BY <1>1, Invariance, PTL

\* Until the locked_until it was granted, a runner's lease is not taken or deleted.
THEOREM LeasesHonoured == Spec => []LeaseHonoured
<1>1. IInv => LeaseHonoured
  BY DEF IInv, TypeOK, LeaseInv, LeaseHonoured, HoldsLock
<1>2. QED  BY <1>1, Invariance, PTL

-----------------------------------------------------------------------------
(* Ended tasks.                                                            *)

\* The step leaves every ended row as it is.
EndedKept ==
  \A t \in Ids : status[t] \in Terminal =>
    /\ status'[t] = status[t] /\ active'[t] = active[t]
    /\ executor'[t] = executor[t] /\ updated'[t] = updated[t]

\* Steps that write no row, among them all those of the lock table.
LEMMA SameRowsEnded == ASSUME UNCHANGED rows PROVE EndedKept
BY DEF rows, EndedKept

\* A running row is not an ended one.
LEMMA EndTaskEnded ==
  ASSUME RowsType, NEW t \in Ids, status[t] = "running", NEW verdict, EndTask(t, verdict)
  PROVE  EndedKept
BY DEF RowsType, EndTask, EndedKept, Terminal

LEMMA MarkEnded ==
  ASSUME RowsType, NEW t \in Ids, MarkSystemTaskLeaseExpired(t)
  PROVE  EndedKept
BY SameRowsEnded, EndTaskEnded DEF MarkSystemTaskLeaseExpired

\* A new row takes an id that no row has.
LEMMA CreateEnded == ASSUME RowsGood, CreateSystemTask PROVE EndedKept
<1>1. count \in Nat /\ count + 1 \in Ids
  BY IdFacts DEF RowsGood, RowsType, CreateSystemTask, CanCreate
<1>2. status[count + 1] = "none"
  BY <1>1 DEF RowsGood, RowsInv
<1>3. QED  BY <1>1, <1>2 DEF RowsGood, RowsType, CreateSystemTask, EndedKept, Terminal

\* No step of any runner, handler or API request touches an ended row.
LEMMA NextEnded == ASSUME IInv, [Next]_vars PROVE EndedKept
<1>0. RowsGood /\ RowsType /\ LocalsInv
  BY Parts DEF RowsGood
<1>1. CASE UNCHANGED vars
  BY <1>1, SameRowsEnded DEF vars
<1>2. ASSUME NEW r \in Runners, Pass(r) PROVE EndedKept
  <2>1. CASE StaleMark(r)
    BY <1>0, <2>1, MarkEnded, SameRowsEnded DEF StaleMark, LocalsInv, LocalsOK
  <2>2. CASE SchedCreate(r)
    BY <1>0, <2>2, CreateEnded, SameRowsEnded DEF SchedCreate
  <2>3. CASE ClaimMark(r)
    BY <1>0, <2>3, MarkEnded, SameRowsEnded DEF ClaimMark, LocalsInv, LocalsOK
  <2>4. CASE ClaimSet(r)
    <3>1. CASE UNCHANGED rows
      BY <3>1, SameRowsEnded
    <3>2. CASE ~UNCHANGED rows
      BY <1>0, <2>4, <3>2 DEF ClaimSet, ClaimSets, RowsType, EndedKept, Terminal
    <3>3. QED  BY <3>1, <3>2
  <2>5. CASE StaleList(r) \/ StaleDelete(r) \/ SchedRead(r) \/ ClaimRead(r)
    BY <2>5, SameRowsEnded DEF StaleList, StaleDelete, SchedRead, ClaimRead
  <2>6. CASE LockCreate(r) \/ LockRead(r) \/ LockTake(r) \/ ClaimLoad(r) \/ ClaimRelease(r)
    BY <2>6, SameRowsEnded DEF LockCreate, LockRead, LockTake, ClaimLoad, ClaimRelease
  <2>7. QED  BY <1>2, <2>1, <2>2, <2>3, <2>4, <2>5, <2>6 DEF Pass
<1>3. ASSUME NEW r \in Runners, NEW t \in Ids, Handle(r, t) PROVE EndedKept
  <2>1. CASE Progress(r, t)
    BY <1>0, <2>1, SameRowsEnded DEF Progress, OwnsRun, RowsType, EndedKept, Terminal
  <2>2. ASSUME NEW verdict \in Terminal, FinishSystemTask(r, t, verdict) PROVE EndedKept
    BY <1>0, <2>2, EndTaskEnded, SameRowsEnded DEF FinishSystemTask, OwnsRun
  <2>3. CASE Heartbeat(r, t) \/ FinishRelease(r, t) \/ HandlerPanic(r, t)
    BY <2>3, SameRowsEnded DEF Heartbeat, FinishRelease, HandlerPanic
  <2>4. QED  BY <1>3, <2>1, <2>2, <2>3 DEF Handle
<1>4. ASSUME NEW c \in Clients, EnqueueRead(c) \/ EnqueueCreate(c) PROVE EndedKept
  BY <1>0, <1>4, CreateEnded, SameRowsEnded DEF EnqueueRead, EnqueueCreate
<1>5. ASSUME NEW r \in Runners, Crash(r) PROVE EndedKept
  BY <1>5, SameRowsEnded DEF Crash
<1>6. CASE Tick
  BY <1>6, SameRowsEnded DEF Tick
<1>7. QED  BY <1>1, <1>2, <1>3, <1>4, <1>5, <1>6 DEF Next

\* What ended stays as it ended, for any number of runners, handlers and retries.
THEOREM EndedForGood == Spec => TerminalStable
<1>1. IInv /\ [Next]_vars => [EndedKept]_vars
  BY NextEnded
<1>2. QED  BY <1>1, Invariance, PTL DEF Spec, TerminalStable, EndedKept
=============================================================================
