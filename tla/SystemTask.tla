----------------------------- MODULE SystemTask -----------------------------
(***************************************************************************)
(* System tasks of one type: model/system_task.go and the runner, the      *)
(* scheduler and the lease heartbeat of service/system_task.go.  Every     *)
(* master node has a runner over the shared tables system_tasks and        *)
(* system_task_locks; rows of different types never meet in a query.       *)
(*                                                                         *)
(* Each action is one SQL statement, so other nodes run between any two    *)
(* statements of a claim, and time passes between a GetTimestamp() and     *)
(* the statement that uses it.  The nodes' clocks are taken to agree.      *)
(***************************************************************************)
EXTENDS Integers

CONSTANTS
  Runners,      \* runner ids; a restarted node draws a new one
  Clients,      \* API requests that enqueue a task
  NoRunner,     \* locked_by of a row nobody claimed
  TTL,          \* systemTaskLockTTL
  Interval,     \* Interval() of the scheduled handler
  MaxTasks,     \* bound on the rows ever created
  MaxTime,      \* bound on the clock
  MaxFaults     \* bound on the database errors of a behaviour

ASSUME SystemTaskAssumption ==
  /\ NoRunner \notin Runners
  /\ TTL \in Nat \ {0} /\ Interval \in Nat
  /\ MaxTasks \in Nat /\ MaxTime \in Nat /\ MaxFaults \in Nat

VARIABLES
  now,          \* common.GetTimestamp()
  \* rows of system_tasks
  count,        \* rows created so far; ids are 1..count
  status, active, executor, updated,        \* active: active_key is set; executor: locked_by
  \* the row of system_task_locks for this type
  lockId, lockedBy, lockedUntil,            \* lockId = 0: there is none
  \* runners
  pc,           \* the statement the runner's pass executes next
  claimId, claimAt, claimUntil, expired,    \* locals of ClaimSystemTask
  staleId, staleBy, staleAt,                \* locals of ExpireStaleSystemTaskLocks
  handler,      \* the goroutine a runner dispatched for a task
  client,       \* the statement an EnqueueSystemTask executes next
  faults,       \* number of failed statements so far
  lease         \* history: the latest locked_until a runner was granted for a task

rows  == <<count, status, active, executor, updated>>
lock  == <<lockId, lockedBy, lockedUntil, lease>>
claim == <<claimId, claimAt, claimUntil, expired>>
stale == <<staleId, staleBy, staleAt>>
vars  == <<now, rows, lock, pc, claim, stale, handler, client, faults>>

Ids == 1..MaxTasks
Terminal == {"succeeded", "failed"}

PassLabels == {"stale", "stale_mark", "stale_delete", "sched", "sched_create",
               "claim", "lock_create", "lock_read", "lock_take", "claim_mark",
               "claim_set", "claim_load", "claim_release", "crashed"}

RowsType ==
  /\ count \in 0..MaxTasks
  /\ status \in [Ids -> {"none", "pending", "running"} \cup Terminal]
  /\ active \in [Ids -> BOOLEAN]
  /\ executor \in [Ids -> Runners \cup {NoRunner}]
  /\ updated \in [Ids -> Nat]

LockType ==
  /\ lockId \in Ids \cup {0}
  /\ lockedBy \in Runners \cup {NoRunner}
  /\ lockId # 0 <=> lockedBy # NoRunner
  /\ lockedUntil \in Nat
  /\ lease \in [Runners -> [Ids -> Nat]]

PassType == pc \in [Runners -> PassLabels]

ClaimType ==
  /\ claimId \in [Runners -> Ids \cup {0}] /\ expired \in [Runners -> Ids \cup {0}]
  /\ claimAt \in [Runners -> Nat] /\ claimUntil \in [Runners -> Nat]

StaleType ==
  /\ staleId \in [Runners -> Ids \cup {0}]
  /\ staleBy \in [Runners -> Runners \cup {NoRunner}]
  /\ staleAt \in [Runners -> Nat]

OtherType ==
  /\ now \in Nat \ {0}
  /\ handler \in [Runners -> [Ids -> {"none", "run", "cancelled", "release", "done"}]]
  /\ client \in [Clients -> {"idle", "create"}]
  /\ faults \in 0..MaxFaults

TypeOK == RowsType /\ LockType /\ PassType /\ ClaimType /\ StaleType /\ OtherType

Init ==
  /\ now = 1 /\ count = 0
  /\ status = [t \in Ids |-> "none"] /\ active = [t \in Ids |-> FALSE]
  /\ executor = [t \in Ids |-> NoRunner] /\ updated = [t \in Ids |-> 0]
  /\ lockId = 0 /\ lockedBy = NoRunner /\ lockedUntil = 0
  /\ pc = [r \in Runners |-> "stale"]
  /\ claimId = [r \in Runners |-> 0] /\ expired = [r \in Runners |-> 0]
  /\ claimAt = [r \in Runners |-> 0] /\ claimUntil = [r \in Runners |-> 0]
  /\ staleId = [r \in Runners |-> 0] /\ staleAt = [r \in Runners |-> 0]
  /\ staleBy = [r \in Runners |-> NoRunner]
  /\ client = [c \in Clients |-> "idle"]
  /\ handler = [r \in Runners |-> [t \in Ids |-> "none"]]
  /\ faults = 0
  /\ lease = [r \in Runners |-> [t \in Ids |-> 0]]

-----------------------------------------------------------------------------
(* Statements.                                                             *)

Goto(r, label) == pc' = [pc EXCEPT ![r] = label]

ResetClaim(r) ==
  /\ claimId' = [claimId EXCEPT ![r] = 0] /\ expired' = [expired EXCEPT ![r] = 0]
  /\ claimAt' = [claimAt EXCEPT ![r] = 0] /\ claimUntil' = [claimUntil EXCEPT ![r] = 0]

ResetStale(r) ==
  /\ staleId' = [staleId EXCEPT ![r] = 0] /\ staleAt' = [staleAt EXCEPT ![r] = 0]
  /\ staleBy' = [staleBy EXCEPT ![r] = NoRunner]

\* ClaimSystemTask returns without a task: this pass is over.
GiveUp(r) ==
  /\ Goto(r, "stale")
  /\ ResetClaim(r)

NoFault == UNCHANGED faults

\* The statement returns an error and changes no row.
Fault == faults < MaxFaults /\ faults' = faults + 1

\* activeSystemTaskStatuses.
Active(t) == status[t] \in {"pending", "running"}

\* The unique index on active_key rejects a second active row; the table is
\* bounded by MaxTasks.
CanCreate == count < MaxTasks /\ \A t \in Ids : ~active[t]

\* CreateSystemTask.
CreateSystemTask ==
  /\ CanCreate
  /\ count' = count + 1
  /\ status' = [status EXCEPT ![count + 1] = "pending"]
  /\ active' = [active EXCEPT ![count + 1] = TRUE]
  /\ updated' = [updated EXCEPT ![count + 1] = now]
  /\ UNCHANGED executor

\* Mutant of EndTask: active_key is not cleared.
EndTaskActive(t, verdict) ==
  /\ status' = [status EXCEPT ![t] = verdict]
  /\ updated' = [updated EXCEPT ![t] = now]
  /\ UNCHANGED <<count, active, executor>>

\* The columns FinishSystemTask and MarkSystemTaskLeaseExpired write.
EndTask(t, verdict) ==
  /\ status' = [status EXCEPT ![t] = verdict]
  /\ active' = [active EXCEPT ![t] = FALSE]
  /\ updated' = [updated EXCEPT ![t] = now]
  /\ UNCHANGED <<count, executor>>

\* Mutant of MarkSystemTaskLeaseExpired: a row that already ended is overwritten.
MarkAlways(t) == EndTask(t, "failed")

MarkSystemTaskLeaseExpired(t) ==
  IF status[t] = "running" THEN EndTask(t, "failed") ELSE UNCHANGED rows

\* The lock row names the task and the runner, and is still valid.
HoldsLock(r, t) == lockId = t /\ lockedBy = r /\ lockedUntil >= now

DeleteLock == lockId' = 0 /\ lockedBy' = NoRunner /\ lockedUntil' = 0

\* ReleaseSystemTaskLock.
ReleaseSystemTaskLock(r, t) ==
  IF lockId = t /\ lockedBy = r
  THEN DeleteLock /\ lease' = [lease EXCEPT ![r][t] = 0]
  ELSE UNCHANGED lock

\* Mutant of GrantLock: the task that held the lock before is written back.
GrantLockToExpired(r) ==
  /\ lockId' = expired[r] /\ lockedBy' = r /\ lockedUntil' = claimUntil[r]
  /\ lease' = [lease EXCEPT ![r][claimId[r]] = claimUntil[r]]

\* The lock row is written for r and its task, with the locked_until computed
\* before ClaimSystemTask was entered.
GrantLock(r) ==
  /\ lockId' = claimId[r] /\ lockedBy' = r /\ lockedUntil' = claimUntil[r]
  /\ lease' = [lease EXCEPT ![r][claimId[r]] = claimUntil[r]]

-----------------------------------------------------------------------------
(* A pass of the runner: stale locks, scheduler, claims.  The two throttles *)
(* may skip the first two parts of a pass.                                 *)

\* ExpireStaleSystemTaskLocks: the query.
StaleList(r) ==
  /\ pc[r] = "stale"
  /\ \/ /\ lockId # 0 /\ lockedUntil < now /\ NoFault
        /\ staleId' = [staleId EXCEPT ![r] = lockId]
        /\ staleBy' = [staleBy EXCEPT ![r] = lockedBy]
        /\ staleAt' = [staleAt EXCEPT ![r] = now]
        /\ Goto(r, "stale_mark")
     \/ /\ NoFault                       \* throttled, or no stale lock
        /\ Goto(r, "sched") /\ UNCHANGED stale
     \/ Fault /\ Goto(r, "sched") /\ UNCHANGED stale
  /\ UNCHANGED <<now, rows, lock, claim, client, handler>>

StaleMark(r) ==
  /\ pc[r] = "stale_mark"
  /\ \/ /\ MarkSystemTaskLeaseExpired(staleId[r]) /\ NoFault
        /\ Goto(r, "stale_delete") /\ UNCHANGED stale
     \/ /\ Fault /\ UNCHANGED rows
        /\ Goto(r, "sched") /\ ResetStale(r)
  /\ UNCHANGED <<now, lock, claim, client, handler>>

\* The WHERE of the delete, which names the lock that was found.
StillStale(r) ==
  lockId = staleId[r] /\ lockedBy = staleBy[r] /\ lockedUntil < staleAt[r]

StaleDelete(r) ==
  /\ pc[r] = "stale_delete"
  /\ \/ StillStale(r) /\ DeleteLock /\ NoFault /\ UNCHANGED lease
     \/ ~StillStale(r) /\ NoFault /\ UNCHANGED lock
     \/ Fault /\ UNCHANGED lock
  /\ Goto(r, "sched") /\ ResetStale(r)
  /\ UNCHANGED <<now, rows, claim, client, handler>>

\* runSystemTaskScheduler: the latest row decides whether a run is due.
Due ==
  count > 0 => status[count] \in Terminal /\ now - updated[count] >= Interval

SchedRead(r) ==
  /\ pc[r] = "sched"
  /\ \/ Due /\ NoFault /\ Goto(r, "sched_create")
     \/ NoFault /\ Goto(r, "claim")      \* throttled, disabled or not due
     \/ Fault /\ Goto(r, "claim")
  /\ UNCHANGED <<now, rows, lock, claim, stale, client, handler>>

\* The insert; when it fails the scheduler only logs.
SchedCreate(r) ==
  /\ pc[r] = "sched_create"
  /\ \/ CreateSystemTask /\ NoFault
     \/ ~CanCreate /\ NoFault /\ UNCHANGED rows
     \/ Fault /\ UNCHANGED rows
  /\ Goto(r, "claim")
  /\ UNCHANGED <<now, lock, claim, stale, client, handler>>

\* FindEarliestPendingSystemTasks, and the query by which ClaimSystemTask repeats
\* its condition; the clock is read in between, for locked_until and for now.
ClaimRead(r) ==
  /\ pc[r] = "claim"
  /\ \/ \E t \in Ids :
          /\ status[t] = "pending"
          /\ \A u \in Ids : status[u] = "pending" => t <= u
          /\ claimId' = [claimId EXCEPT ![r] = t]
          /\ claimAt' = [claimAt EXCEPT ![r] = now]
          /\ claimUntil' = [claimUntil EXCEPT ![r] = now + TTL]
          /\ UNCHANGED expired
          /\ Goto(r, "lock_create") /\ NoFault
     \/ (\A t \in Ids : status[t] # "pending") /\ GiveUp(r) /\ NoFault
     \/ Fault /\ GiveUp(r)
  /\ UNCHANGED <<now, rows, lock, stale, client, handler>>

\* acquireSystemTaskLock: the insert; any error leads to the query.
LockCreate(r) ==
  /\ pc[r] = "lock_create"
  /\ \/ lockId = 0 /\ GrantLock(r) /\ Goto(r, "claim_set") /\ NoFault
     \/ lockId # 0 /\ Goto(r, "lock_read") /\ NoFault /\ UNCHANGED lock
     \/ Fault /\ Goto(r, "lock_read") /\ UNCHANGED lock
  /\ UNCHANGED <<now, rows, claim, stale, client, handler>>

LockRead(r) ==
  /\ pc[r] = "lock_read"
  /\ \/ /\ lockId # 0 /\ lockedUntil < claimAt[r] /\ NoFault
        /\ expired' = [expired EXCEPT ![r] = lockId]
        /\ Goto(r, "lock_take") /\ UNCHANGED <<claimId, claimAt, claimUntil>>
     \/ (lockId = 0 \/ lockedUntil >= claimAt[r]) /\ GiveUp(r) /\ NoFault
     \/ Fault /\ GiveUp(r)
  /\ UNCHANGED <<now, rows, lock, stale, client, handler>>

\* Mutant of Takeable: the update does not repeat the condition on locked_until.
TakeableHeld(r) == lockId # 0

\* The WHERE of the update that takes an expired lock over.
Takeable(r) == lockId # 0 /\ lockedUntil < claimAt[r]

LockTake(r) ==
  /\ pc[r] = "lock_take"
  /\ \/ /\ Takeable(r) /\ GrantLock(r) /\ NoFault
        /\ Goto(r, IF expired[r] # claimId[r] THEN "claim_mark" ELSE "claim_set")
        /\ UNCHANGED claim
     \/ ~Takeable(r) /\ GiveUp(r) /\ NoFault /\ UNCHANGED lock
     \/ Fault /\ GiveUp(r) /\ UNCHANGED lock
  /\ UNCHANGED <<now, rows, stale, client, handler>>

ClaimMark(r) ==
  /\ pc[r] = "claim_mark"
  /\ \/ MarkSystemTaskLeaseExpired(expired[r]) /\ Goto(r, "claim_set") /\ NoFault
     \/ Fault /\ Goto(r, "claim_release") /\ UNCHANGED rows
  /\ UNCHANGED <<now, lock, claim, stale, client, handler>>

\* Mutant of ClaimSets: the update does not repeat the condition on the status.
ClaimSetsAny(r) == status[claimId[r]] # "none"

\* The WHERE of the update that starts the task.
ClaimSets(r) == status[claimId[r]] = "pending"

ClaimSet(r) ==
  /\ pc[r] = "claim_set"
  /\ \/ /\ ClaimSets(r) /\ NoFault
        /\ status' = [status EXCEPT ![claimId[r]] = "running"]
        /\ executor' = [executor EXCEPT ![claimId[r]] = r]
        /\ updated' = [updated EXCEPT ![claimId[r]] = claimAt[r]]
        /\ Goto(r, "claim_load") /\ UNCHANGED <<count, active>>
     \/ ~ClaimSets(r) /\ NoFault /\ Goto(r, "claim_release") /\ UNCHANGED rows
     \/ Fault /\ Goto(r, "claim_release") /\ UNCHANGED rows
  /\ UNCHANGED <<now, lock, claim, stale, client, handler>>

\* The claimed row is read back and its handler dispatched.
ClaimLoad(r) ==
  /\ pc[r] = "claim_load"
  /\ \/ handler' = [handler EXCEPT ![r][claimId[r]] = "run"] /\ NoFault
     \/ Fault /\ UNCHANGED handler
  /\ GiveUp(r)
  /\ UNCHANGED <<now, rows, lock, stale, client>>

ClaimRelease(r) ==
  /\ pc[r] = "claim_release"
  /\ \/ ReleaseSystemTaskLock(r, claimId[r]) /\ NoFault
     \/ Fault /\ UNCHANGED lock
  /\ GiveUp(r)
  /\ UNCHANGED <<now, rows, stale, client, handler>>

-----------------------------------------------------------------------------
(* The handler's goroutine and its heartbeat (runWithLeaseHeartbeat).      *)

SetHandler(r, t, label) == handler' = [handler EXCEPT ![r][t] = label]

\* A tick of the heartbeat: RenewSystemTaskLock, or cancel().  It keeps ticking
\* until the handler has returned.
Heartbeat(r, t) ==
  /\ handler[r][t] \in {"run", "release"}
  /\ \/ /\ HoldsLock(r, t) /\ NoFault
        /\ lockedUntil' = now + TTL
        /\ lease' = [lease EXCEPT ![r][t] = now + TTL]
        /\ UNCHANGED <<lockId, lockedBy, handler>>
     \/ /\ \/ ~HoldsLock(r, t) /\ NoFault
           \/ Fault
        /\ handler[r][t] = "run" /\ SetHandler(r, t, "cancelled")
        /\ UNCHANGED lock
  /\ UNCHANGED <<now, rows, pc, claim, stale, client>>

\* The WHERE of UpdateSystemTaskState and FinishSystemTask.
OwnsRun(r, t) ==
  status[t] = "running" /\ executor[t] = r /\ HoldsLock(r, t)

\* UpdateSystemTaskState.  On an error the log cleanup returns; a progress
\* reporter ignores it.
Progress(r, t) ==
  /\ handler[r][t] \in {"run", "cancelled"}
  /\ \/ /\ OwnsRun(r, t) /\ NoFault
        /\ updated' = [updated EXCEPT ![t] = now]
        /\ UNCHANGED <<count, status, active, executor, handler>>
     \/ /\ (~OwnsRun(r, t) /\ NoFault) \/ Fault
        /\ SetHandler(r, t, "done") \/ UNCHANGED handler
        /\ UNCHANGED rows
  /\ UNCHANGED <<now, lock, pc, claim, stale, client>>

\* FinishSystemTask, up to its release of the lock; ErrSystemTaskLockLost is logged.
FinishSystemTask(r, t, verdict) ==
  /\ handler[r][t] \in {"run", "cancelled"}
  /\ \/ OwnsRun(r, t) /\ NoFault /\ EndTask(t, verdict) /\ SetHandler(r, t, "release")
     \/ ((~OwnsRun(r, t) /\ NoFault) \/ Fault) /\ SetHandler(r, t, "done") /\ UNCHANGED rows
  /\ UNCHANGED <<now, lock, pc, claim, stale, client>>

FinishRelease(r, t) ==
  /\ handler[r][t] = "release"
  /\ \/ ReleaseSystemTaskLock(r, t) /\ NoFault
     \/ Fault /\ UNCHANGED lock
  /\ SetHandler(r, t, "done")
  /\ UNCHANGED <<now, rows, pc, claim, stale, client>>

\* The handler panics: its goroutine's worker recovers, the ticker is stopped.
HandlerPanic(r, t) ==
  /\ handler[r][t] \in {"run", "cancelled"}
  /\ SetHandler(r, t, "done")
  /\ UNCHANGED <<now, rows, lock, pc, claim, stale, client, faults>>

-----------------------------------------------------------------------------
(* API requests, crashes and time.                                         *)

\* EnqueueSystemTask and StartLogCleanupTask: an active row is returned as it is.
EnqueueRead(c) ==
  /\ client[c] = "idle"
  /\ \A t \in Ids : ~Active(t)
  /\ client' = [client EXCEPT ![c] = "create"]
  /\ UNCHANGED <<now, rows, lock, pc, claim, stale, handler, faults>>

EnqueueCreate(c) ==
  /\ client[c] = "create"
  /\ \/ CreateSystemTask /\ NoFault
     \/ ~CanCreate /\ NoFault /\ UNCHANGED rows
     \/ Fault /\ UNCHANGED rows
  /\ client' = [client EXCEPT ![c] = "idle"]
  /\ UNCHANGED <<now, lock, pc, claim, stale, handler>>

\* The node of a runner stops, with all its goroutines.
Crash(r) ==
  /\ pc[r] # "crashed"
  /\ Goto(r, "crashed")
  /\ ResetClaim(r)
  /\ ResetStale(r)
  /\ handler' = [handler EXCEPT ![r] =
       [t \in Ids |-> IF @[t] = "none" THEN "none" ELSE "done"]]
  /\ UNCHANGED <<now, rows, lock, client, faults>>

Tick ==
  /\ now < MaxTime
  /\ now' = now + 1
  /\ UNCHANGED <<rows, lock, pc, claim, stale, client, handler, faults>>

Pass(r) ==
  \/ StaleList(r) \/ StaleMark(r) \/ StaleDelete(r)
  \/ SchedRead(r) \/ SchedCreate(r)
  \/ ClaimRead(r) \/ LockCreate(r) \/ LockRead(r) \/ LockTake(r)
  \/ ClaimMark(r) \/ ClaimSet(r) \/ ClaimLoad(r) \/ ClaimRelease(r)

Handle(r, t) ==
  \/ Heartbeat(r, t) \/ Progress(r, t)
  \/ \E verdict \in Terminal : FinishSystemTask(r, t, verdict)
  \/ FinishRelease(r, t) \/ HandlerPanic(r, t)

Next ==
  \/ \E r \in Runners : Pass(r) \/ Crash(r) \/ \E t \in Ids : Handle(r, t)
  \/ \E c \in Clients : EnqueueRead(c) \/ EnqueueCreate(c)
  \/ Tick

Spec == Init /\ [][Next]_vars

-----------------------------------------------------------------------------
(* Properties.                                                             *)

\* active_key follows the status and no two rows are active, whatever order claims,
\* expiries and finishes happen in: a row that kept its key would block its type,
\* and one that lost it would let a second run start (CreateSystemTask,
\* FinishSystemTask, MarkSystemTaskLeaseExpired).
OneActiveRow ==
  /\ \A t \in Ids : active[t] <=> Active(t)
  /\ \A t, u \in Ids : Active(t) /\ Active(u) => t = u

\* A task is handed to one runner at most, also when its lock was taken over while
\* a slow claim was under way (ClaimSystemTask).
ExecutedOnce ==
  \A t \in Ids, r, s \in Runners :
    handler[r][t] # "none" /\ handler[s][t] # "none" => r = s

\* A lease is honoured: until the locked_until a runner was last granted, the lock
\* row is its own.  So no two runners hold an unexpired lease of a type
\* (acquireSystemTaskLock, RenewSystemTaskLock, ExpireStaleSystemTaskLocks).
LeaseHonoured ==
  \A r \in Runners, t \in Ids : lease[r][t] >= now => HoldsLock(r, t)

\* What ended stays as it ended: no late finish, expiry or claim touches the row.
TerminalStable ==
  [][\A t \in Ids : status[t] \in Terminal =>
       /\ status'[t] = status[t] /\ active'[t] = active[t]
       /\ executor'[t] = executor[t] /\ updated'[t] = updated[t]]_vars

-----------------------------------------------------------------------------
(* The inductive invariant behind these properties.                        *)

ClaimLabels == {"lock_create", "lock_read", "lock_take", "claim_mark", "claim_set",
                "claim_load", "claim_release"}

\* The locals of a pass name rows, and its clock readings are in the past.
LocalsOK(r) ==
  /\ claimAt[r] <= now /\ staleAt[r] <= now
  /\ pc[r] \in ClaimLabels => claimId[r] \in Ids
  /\ pc[r] \in {"lock_take", "claim_mark"} => expired[r] \in Ids
  /\ pc[r] \in {"stale_mark", "stale_delete"} => staleId[r] \in Ids

LocalsInv == \A r \in Runners : LocalsOK(r)

\* Rows beyond the last id do not exist.
RowsInv == \A t \in Ids : t > count => status[t] = "none"

\* An unexpired lease is the lock row itself.
LeaseInv ==
  \A r \in Runners, t \in Ids : lease[r][t] >= now =>
    lockId = t /\ lockedBy = r /\ lockedUntil = lease[r][t]

Begun == {"running"} \cup Terminal

\* The runner has won the task, and dispatched or is about to dispatch it.
Won(r, t) == handler[r][t] # "none" \/ (pc[r] = "claim_load" /\ claimId[r] = t)

\* Whoever won a task is the runner its row names, for good.
RunInv ==
  \A r \in Runners, t \in Ids : Won(r, t) => executor[t] = r /\ status[t] \in Begun

IInv == TypeOK /\ OneActiveRow /\ LocalsInv /\ RowsInv /\ LeaseInv /\ RunInv

-----------------------------------------------------------------------------
(* What comments of the code say, and the code does not do.                *)

\* Runners "mark expired leases failed" (service/system_task.go:19): a running task
\* whose lease has expired still has the lock row by which they find it.
ExpiredLeaseFound ==
  \A t \in Ids, r \in Runners :
    status[t] = "running" /\ executor[t] = r /\ lease[r][t] < now => lockId = t

\* The scheduler "creates a new task row for each enabled scheduled handler whose
\* interval has elapsed since its last run" (service/system_task.go:259).
ScheduledWhenDue ==
  [][\A r \in Runners :
       pc[r] = "sched_create" /\ pc'[r] = "claim" /\ count' = count + 1 => Due]_vars
=============================================================================
