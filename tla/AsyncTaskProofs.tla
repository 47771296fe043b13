-------------------------- MODULE AsyncTaskProofs ---------------------------
(***************************************************************************)
(* Proofs about AsyncTask for any number of tasks, channels and            *)
(* overlapping passes, any quotas and limits and any number of faults.     *)
(***************************************************************************)
EXTENDS AsyncTask, TLAPS

USE DEF atSubmission

\* The empty table and the idle passes satisfy the invariant.
LEMMA InitInv == ASSUME Init PROVE IInv
<1>1. TypeOK
  BY AsyncTaskAssumption DEF Init, TypeOK, Row, NoRow, NoFetch, Owed
<1>2. CopiesUnfinished
  BY DEF Init, CopiesUnfinished
<1>3. FetchesGemini
  BY AsyncTaskAssumption DEF Init, FetchesGemini, NoFetch
<1>4. ASSUME NEW t \in VideoTasks PROVE VideoInv(t)
  <2>1. t \in Tasks /\ Quota[t] \in Nat
    BY AsyncTaskAssumption DEF VideoTasks
  <2>2. charge[t] = 0 /\ token[t] = 0 /\ paid[t] = 0 /\ tokenPaid[t] = 0
    BY <2>1 DEF Init
  <2>3. paid[t] - charge[t] = 0 /\ tokenPaid[t] - token[t] = 0
    BY <2>2
  <2>4. \A p \in Passes : work[p][t] = "none"
    BY <2>1 DEF Init
  <2>5. QED  BY <2>1, <2>2, <2>3, <2>4 DEF VideoInv, Charged, Billing
<1>5. OnlySubmitted
  BY DEF Init, OnlySubmitted, NoRow
<1>6. QED  BY <1>1, <1>2, <1>3, <1>4, <1>5 DEF IInv

-----------------------------------------------------------------------------
(* Types *)

\* A fault is counted within its bound.
LEMMA FaultType == ASSUME faults \in 0..MaxFaults, Fault \/ NoFault PROVE faults' \in 0..MaxFaults
BY AsyncTaskAssumption DEF Fault, NoFault

\* A bulk update keeps the type of the tasks table.
LEMMA BulkType ==
  ASSUME row \in [Tasks -> Row], NEW S, TaskBulkUpdateByID(S)
  PROVE  row' \in [Tasks -> Row]
BY DEF TaskBulkUpdateByID, Row, Terminal

\* The balances stay integers, for a task and an integer amount.
LEMMA AdjustType ==
  ASSUME TypeOK, NEW t \in Tasks, NEW delta \in Int, AdjustQuota(t, delta)
  PROVE  charge' \in [Tasks -> Int] /\ token' \in [Tasks -> Int] /\ faults' \in 0..MaxFaults
<1>1. faults' \in 0..MaxFaults
  BY FaultType DEF AdjustQuota, Statement, TypeOK
<1>2. charge' \in [Tasks -> Int]
  BY DEF AdjustQuota, Statement, TypeOK
<1>3. token' \in [Tasks -> Int]
  BY DEF AdjustQuota, Statement, TypeOK
<1>4. QED  BY <1>1, <1>2, <1>3

\* What a pass reads for its tasks are rows, and it records one job for each.
LEMMA HoldType ==
  ASSUME TypeOK, NEW p \in Passes, NEW S, NEW job \in {"sweep", "todo"}, Hold(p, S, job)
  PROVE  /\ copy' \in [Passes -> [Tasks -> Row]]
         /\ work' \in [Passes -> [Tasks -> Owed \cup {"none", "sweep", "todo", "ready"}]]
BY DEF Hold, TypeOK, NoRow, Row

\* The same for the job of one task, for those of a set, and for dropped ones.
LEMMA DoType ==
  ASSUME TypeOK, NEW p \in Passes, NEW t \in Tasks,
         NEW next \in Owed \cup {"none", "sweep", "todo", "ready"}, Do(p, t, next)
  PROVE  /\ copy' \in [Passes -> [Tasks -> Row]]
         /\ work' \in [Passes -> [Tasks -> Owed \cup {"none", "sweep", "todo", "ready"}]]
BY DEF Do, TypeOK, NoRow, Row

LEMMA DropType ==
  ASSUME TypeOK, NEW p \in Passes, NEW S, Drop(p, S)
  PROVE  /\ copy' \in [Passes -> [Tasks -> Row]]
         /\ work' \in [Passes -> [Tasks -> Owed \cup {"none", "sweep", "todo", "ready"}]]
BY DEF Drop, Set, TypeOK, NoRow, Row

\* The rows that answers, items and timeouts make are rows.
LEMMA NewRows ==
  /\ VideoAnswer \subseteq Row /\ TimedOutRow \in Row
  /\ \A old \in Row, item \in SunoItem : SunoRow(old, item) \in Row
<1>1. VideoAnswer \subseteq Row /\ TimedOutRow \in Row
  <2>1. \A s \in Unfinished \cup Terminal, f \in BOOLEAN : [status |-> s, full |-> f] \in Row
    BY DEF Row
  <2>2. QED  BY <2>1 DEF VideoAnswer, TimedOutRow, Terminal, Unfinished
<1>2. ASSUME NEW old \in Row, NEW item \in SunoItem PROVE SunoRow(old, item) \in Row
  <2>1. SunoStatus(old, item) \in Unfinished \cup Terminal \cup {"none"}
    BY DEF SunoStatus, SunoItem, Row, Unfinished, Terminal
  <2>2. (old.full \/ SunoFailed(old, item) \/ item.status = "SUCCESS") \in BOOLEAN
    OBVIOUS
  <2>3. QED  BY <2>1, <2>2, Zenon DEF SunoRow, Row
<1>3. QED  BY <1>1, <1>2

\* Jobs of an answered task.
LEMMA JobType ==
  ASSUME NEW t, NEW snap, NEW new, NEW won
  PROVE  VideoBilling(t, snap, new, won) \in Owed \cup {"none", "sweep", "todo", "ready"}
BY DEF VideoBilling, VideoJob, Owed

\* A submission takes a number from the funding and one from the token.
LEMMA SubmitTakes ==
  ASSUME NEW t \in Tasks, Submit(t)
  PROVE  \E funding \in Nat, tok \in Nat : Take(t, funding, tok)
<1>1. Quota[t] \in Nat /\ PreConsumed[t] \in Nat
  BY AsyncTaskAssumption
<1>2. \E amounts \in {Settled(t)} \cup Unsettled(t) : Take(t, amounts[1], amounts[2])
  BY DEF Submit
<1>3. \A amounts \in {Settled(t)} \cup Unsettled(t) : amounts[1] \in Nat /\ amounts[2] \in Nat
  BY <1>1 DEF Settled, Unsettled
<1>4. QED  BY <1>2, <1>3

\* Every step keeps the types.
LEMMA TypeStep == ASSUME TypeOK, Next PROVE TypeOK'
<1> USE AsyncTaskAssumption
<1>1. ASSUME NEW t \in Tasks, Submit(t) PROVE TypeOK'
  <2>1. [status |-> "NOT_START", full |-> FALSE] \in Row
    BY DEF Row, Unfinished
  <2> HIDE AsyncTaskAssumption
  <2>2. row' \in [Tasks -> Row]
    <3>1. row' = row \/ row' = [row EXCEPT ![t] = [status |-> "NOT_START", full |-> FALSE]]
      BY <1>1 DEF Submit, Insert
    <3>2. QED  BY <3>1, <2>1 DEF TypeOK
  <2> USE AsyncTaskAssumption
  <2>3. faults' \in 0..MaxFaults
    BY <1>1, FaultType DEF Submit, TypeOK
  <2>4. PICK funding \in Nat, tok \in Nat : Take(t, funding, tok)
    BY <1>1, SubmitTakes
  <2>5. charge' \in [Tasks -> Int] /\ token' \in [Tasks -> Int]
    BY <2>4 DEF Take, TypeOK
  <2>6. paid' \in [Tasks -> Nat] /\ tokenPaid' \in [Tasks -> Nat]
    BY <2>4 DEF Take, TypeOK
  <2>7. submitted' \subseteq Tasks
    BY <1>1 DEF Submit, TypeOK
  <2>8. QED  BY <1>1, <2>2, <2>3, <2>5, <2>6, <2>7 DEF Submit, TypeOK
<1>2. ASSUME NEW t \in Tasks, TimeOut(t) PROVE TypeOK'
  BY <1>2 DEF TimeOut, TypeOK
<1>3. ASSUME NEW t \in Tasks, FetchTask(t) PROVE TypeOK'
  BY <1>3 DEF FetchTask, TypeOK
<1>4. ASSUME NEW c \in Channels, DeleteChannel(c) PROVE TypeOK'
  BY <1>4, FaultType DEF DeleteChannel, TypeOK
<1>5. ASSUME NEW p \in Passes, StartPass(p) PROVE TypeOK'
  BY <1>5, FaultType, HoldType DEF StartPass, TypeOK
<1>6. ASSUME NEW p \in Passes, ReadUnfinished(p) PROVE TypeOK'
  BY <1>6, FaultType, HoldType DEF ReadUnfinished, TypeOK
<1>7. ASSUME NEW p \in Passes, NEW k, FailNullIds(p, k) PROVE TypeOK'
  <2>1. row' \in [Tasks -> Row] /\ faults' \in 0..MaxFaults
    BY <1>7, FaultType, BulkType DEF FailNullIds, Statement, TypeOK
  <2>2. QED  BY <1>7, <2>1, DropType DEF FailNullIds, TypeOK
<1>8. ASSUME NEW p \in Passes, NEW c \in Channels, FailChannel(p, c) PROVE TypeOK'
  <2>1. row' \in [Tasks -> Row] /\ faults' \in 0..MaxFaults
    BY <1>8, FaultType, BulkType DEF FailChannel, Statement, TypeOK
  <2>2. QED  BY <1>8, <2>1, DropType DEF FailChannel, TypeOK
<1>9. ASSUME NEW p \in Passes, NEW c \in Channels, OpenChannel(p, c) PROVE TypeOK'
  BY <1>9 DEF OpenChannel, Set, TypeOK
<1>10. ASSUME NEW p \in Passes, NEW t \in Tasks, SweepTask(p, t) PROVE TypeOK'
  <2>1. row' \in [Tasks -> Row] /\ faults' \in 0..MaxFaults
    BY <1>10, FaultType, NewRows DEF SweepTask, UpdateWithStatus, TypeOK
  <2>2. PICK next \in {"refund", "none"} : Do(p, t, next)
    BY <1>10 DEF SweepTask
  <2>3. QED  BY <1>10, <2>1, <2>2, DoType DEF SweepTask, TypeOK, Owed
<1>11. ASSUME NEW p \in Passes, NEW t \in Tasks, NoAnswer(p, t) PROVE TypeOK'
  BY <1>11, DoType DEF NoAnswer, TypeOK
<1>12. ASSUME NEW p \in Passes, NEW t \in Tasks, UpdateVideoSingleTask(p, t) PROVE TypeOK'
  <2>1. faults' \in 0..MaxFaults
    BY <1>12, FaultType DEF UpdateVideoSingleTask, TypeOK
  <2>2. row' \in [Tasks -> Row]
    <3>1. PICK new \in VideoAnswer : row' = row \/ row' = [row EXCEPT ![t] = new]
      BY <1>12 DEF UpdateVideoSingleTask, UpdateWithStatus
    <3>2. new \in Row  BY NewRows
    <3>3. QED  BY <3>1, <3>2 DEF TypeOK
  <2>3. PICK next \in Owed \cup {"none", "sweep", "todo", "ready"} : Do(p, t, next)
    BY <1>12, JobType DEF UpdateVideoSingleTask
  <2>4. QED  BY <1>12, <2>1, <2>2, <2>3, DoType DEF UpdateVideoSingleTask, TypeOK
<1>13. ASSUME NEW p \in Passes, NEW t \in Tasks, UpdateSunoTask(p, t) PROVE TypeOK'
  <2>1. PICK item \in SunoItem :
          /\ copy' = [copy EXCEPT ![p][t] = SunoRow(copy[p][t], item)]
          /\ IF SunoFailed(copy[p][t], item) THEN RefundTaskQuota(t)
                                             ELSE UNCHANGED <<charge, token, faults>>
    BY <1>13 DEF UpdateSunoTask
  <2>2. copy' \in [Passes -> [Tasks -> Row]]
    BY <2>1, NewRows DEF TypeOK
  <2>3. charge' \in [Tasks -> Int] /\ token' \in [Tasks -> Int] /\ faults' \in 0..MaxFaults
    <3>1. -Quota[t] \in Int  OBVIOUS
    <3>2. QED  BY <2>1, <3>1, AdjustType DEF RefundTaskQuota, TypeOK
  <2>4. work' \in [Passes -> [Tasks -> Owed \cup {"none", "sweep", "todo", "ready"}]]
    BY <1>13 DEF UpdateSunoTask, TypeOK, Owed
  <2>5. QED  BY <1>13, <2>2, <2>3, <2>4 DEF UpdateSunoTask, TypeOK
<1>14. ASSUME NEW p \in Passes, NEW t \in Tasks, SaveSunoTask(p, t) PROVE TypeOK'
  <2>1. row' \in [Tasks -> Row] /\ faults' \in 0..MaxFaults
    BY <1>14, FaultType DEF SaveSunoTask, Statement, Update, TypeOK
  <2>2. QED  BY <1>14, <2>1, DoType DEF SaveSunoTask, TypeOK
<1>15. ASSUME NEW p \in Passes, NEW t \in Tasks, Refund(p, t) PROVE TypeOK'
  <2>1. -Quota[t] \in Int  OBVIOUS
  <2>2. QED  BY <1>15, <2>1, AdjustType, DoType DEF Refund, RefundTaskQuota, TypeOK
<1>16. ASSUME NEW p \in Passes, NEW t \in Tasks, Settle(p, t) PROVE TypeOK'
  <2>1. \A actual \in Actuals : actual - Quota[t] \in Int  OBVIOUS
  <2>2. charge' \in [Tasks -> Int] /\ token' \in [Tasks -> Int] /\ faults' \in 0..MaxFaults
    BY <1>16, <2>1, AdjustType DEF Settle, SettleTaskBillingOnComplete, NoFault, TypeOK
  <2>3. QED  BY <1>16, <2>2, DoType DEF Settle, TypeOK
<1>17. ASSUME NEW p \in Passes, EndPass(p) PROVE TypeOK'
  BY <1>17 DEF EndPass, TypeOK
<1>18. ASSUME NEW p \in Passes, Cancel(p) PROVE TypeOK'
  BY <1>18, DropType DEF Cancel, TypeOK
<1>19. ASSUME NEW p \in Passes, Crash(p) PROVE TypeOK'
  BY <1>19, FaultType DEF Crash, TypeOK, NoRow, Row
<1>20. CASE FinishFetch
  <2>1. row' \in [Tasks -> Row] /\ faults' \in 0..MaxFaults
    BY <1>20, NewRows, FaultType DEF FinishFetch, Statement, UpdateWithStatus, TypeOK
  <2>2. QED  BY <1>20, <2>1 DEF FinishFetch, TypeOK, NoFetch, NoRow, Row
<1>21. QED
  BY <1>1, <1>2, <1>3, <1>4, <1>5, <1>6, <1>7, <1>8, <1>9, <1>10, <1>11, <1>12,
     <1>13, <1>14, <1>15, <1>16, <1>17, <1>18, <1>19, <1>20
  DEF Next, PassStep
-----------------------------------------------------------------------------
(* Copies *)

\* The queries return unfinished rows only.
LEMMA QueriesUnfinished ==
  /\ \A S \in GetTimedOutUnfinishedTasks : \A t \in S : row[t].status \in Unfinished
  /\ \A t \in GetAllUnFinishSyncTasks : row[t].status \in Unfinished
BY DEF GetTimedOutUnfinishedTasks, Oldest, GetAllUnFinishSyncTasks, FirstById, UnfinishedRow

\* A pass that reads unfinished rows holds unfinished copies.
LEMMA HoldCopies ==
  ASSUME TypeOK, CopiesUnfinished, NEW p \in Passes, NEW S, NEW job, Hold(p, S, job),
         \A t \in S : row[t].status \in Unfinished
  PROVE  CopiesUnfinished'
BY DEF CopiesUnfinished, Hold, TypeOK

\* Every step keeps copies unfinished until they are answered.
LEMMA CopiesStep == ASSUME TypeOK, CopiesUnfinished, Next PROVE CopiesUnfinished'
<1>1. CASE UNCHANGED <<copy, work>>
  BY <1>1 DEF CopiesUnfinished
<1>2. ASSUME NEW p \in Passes, StartPass(p) PROVE CopiesUnfinished'
  <2>1. CASE Hold(p, {}, "sweep")
    BY <2>1, HoldCopies
  <2>2. CASE \E S \in GetTimedOutUnfinishedTasks : Hold(p, S, "sweep")
    BY <2>2, HoldCopies, QueriesUnfinished
  <2>3. QED  BY <1>2, <2>1, <2>2 DEF StartPass
<1>3. ASSUME NEW p \in Passes, ReadUnfinished(p) PROVE CopiesUnfinished'
  <2>1. CASE Hold(p, {}, "todo")
    BY <2>1, HoldCopies
  <2>2. CASE Hold(p, GetAllUnFinishSyncTasks, "todo")
    BY <2>2, HoldCopies, QueriesUnfinished
  <2>3. QED  BY <1>3, <2>1, <2>2 DEF ReadUnfinished
<1>4. ASSUME NEW p \in Passes, NEW S, Drop(p, S) PROVE CopiesUnfinished'
  BY <1>4 DEF Drop, Set, TypeOK, CopiesUnfinished
<1>5. ASSUME NEW p \in Passes, NEW c \in Channels, OpenChannel(p, c) PROVE CopiesUnfinished'
  <2>1. \A q \in Passes, t \in Tasks :
          work'[q][t] = work[q][t] \/ (work[q][t] = "todo" /\ work'[q][t] = "ready")
    BY <1>5 DEF OpenChannel, Set, ChannelTodo, Todo, TypeOK
  <2>2. copy' = copy
    BY <1>5 DEF OpenChannel
  <2>3. QED  BY <2>1, <2>2 DEF CopiesUnfinished
<1>6. ASSUME NEW p \in Passes, NEW t \in Tasks, NEW next \in Owed \cup {"none"}, Do(p, t, next)
      PROVE CopiesUnfinished'
  BY <1>6 DEF Do, TypeOK, CopiesUnfinished, Owed
<1>7. ASSUME NEW p \in Passes, NEW t \in Tasks, UpdateVideoSingleTask(p, t)
      PROVE CopiesUnfinished'
  <2>1. \A old, new, won : VideoBilling(t, old, new, won) \in Owed \cup {"none"}
    BY DEF VideoBilling, VideoJob, Owed
  <2>2. QED  BY <1>6, <1>7, <2>1 DEF UpdateVideoSingleTask
<1>8. ASSUME NEW p \in Passes, NEW t \in Tasks, UpdateSunoTask(p, t) PROVE CopiesUnfinished'
  BY <1>8 DEF UpdateSunoTask, TypeOK, CopiesUnfinished
<1>9. ASSUME NEW p \in Passes, Crash(p) PROVE CopiesUnfinished'
  BY <1>9 DEF Crash, TypeOK, CopiesUnfinished
<1>10. ASSUME NEW p \in Passes, NEW t \in Tasks, SweepTask(p, t) PROVE CopiesUnfinished'
  BY <1>6, <1>10 DEF SweepTask, Owed
<1>11. QED
  BY <1>1, <1>2, <1>3, <1>4, <1>5, <1>6, <1>7, <1>8, <1>9, <1>10
  DEF Next, PassStep, Submit, TimeOut, FetchTask, DeleteChannel, FailNullIds, FailChannel,
      NoAnswer, SaveSunoTask, Refund, Settle, EndPass, Cancel, FinishFetch
-----------------------------------------------------------------------------
(* Only submitted tasks *)

\* A step that gives rows and work to submitted tasks only.
LEMMA KeepSubmitted ==
  ASSUME OnlySubmitted, submitted \subseteq submitted',
         \A t \in Tasks : row'[t].status = row[t].status \/ t \in submitted',
         \A p \in Passes, t \in Tasks :
           work'[p][t] \in {work[p][t], "none"} \/ t \in submitted'
  PROVE  OnlySubmitted'
BY DEF OnlySubmitted

\* Tasks a pass works on were submitted, so their rows may be written.
LEMMA SubmittedStep ==
  ASSUME TypeOK, OnlySubmitted, FetchesGemini, Next
  PROVE  OnlySubmitted'
<1> DEFINE Rows == \A t \in Tasks : row'[t].status = row[t].status \/ t \in submitted'
           Works == \A p \in Passes, t \in Tasks :
                      work'[p][t] \in {work[p][t], "none"} \/ t \in submitted'
<1>1. ASSUME NEW t \in Tasks, Submit(t) PROVE OnlySubmitted'
  BY <1>1, KeepSubmitted DEF Submit, Insert, TypeOK
<1>2. CASE UNCHANGED <<row, work, submitted>>
  BY <1>2, KeepSubmitted
<1>3. ASSUME NEW p \in Passes, NEW S, NEW job, Hold(p, S, job), S \subseteq submitted
      PROVE  Works \/ submitted' # submitted
  BY <1>3 DEF Hold, TypeOK
<1>4. ASSUME NEW p \in Passes, StartPass(p) PROVE OnlySubmitted'
  <2>1. \A S \in GetTimedOutUnfinishedTasks : S \subseteq submitted
    BY QueriesUnfinished DEF OnlySubmitted, GetTimedOutUnfinishedTasks, Oldest, TypeOK, Unfinished
  <2>2. PICK S : Hold(p, S, "sweep") /\ S \subseteq submitted
    BY <1>4, <2>1 DEF StartPass
  <2>3. UNCHANGED <<row, submitted>>
    BY <1>4 DEF StartPass
  <2>4. QED  BY <1>3, <2>2, <2>3, KeepSubmitted
<1>5. ASSUME NEW p \in Passes, ReadUnfinished(p) PROVE OnlySubmitted'
  <2>1. GetAllUnFinishSyncTasks \subseteq submitted
    BY QueriesUnfinished DEF OnlySubmitted, GetAllUnFinishSyncTasks, FirstById, Unfinished
  <2>2. PICK S : Hold(p, S, "todo") /\ S \subseteq submitted
    BY <1>5, <2>1 DEF ReadUnfinished
  <2>3. UNCHANGED <<row, submitted>>
    BY <1>5 DEF ReadUnfinished
  <2>4. QED  BY <1>3, <2>2, <2>3, KeepSubmitted
<1>6. ASSUME NEW p \in Passes, NEW S, S \subseteq Todo(p), Drop(p, S), UNCHANGED submitted,
             TaskBulkUpdateByID(S) \/ UNCHANGED row
      PROVE  OnlySubmitted'
  <2>1. S \subseteq submitted
    BY <1>6 DEF Todo, OnlySubmitted
  <2>2. Rows
    BY <1>6, <2>1 DEF TaskBulkUpdateByID
  <2>3. Works
    BY <1>6 DEF Drop, Set, TypeOK
  <2>4. QED  BY <1>6, <2>2, <2>3, KeepSubmitted
<1>7. ASSUME NEW p \in Passes, NEW S, Drop(p, S), UNCHANGED <<row, submitted>> PROVE OnlySubmitted'
  <2>1. Works
    BY <1>7 DEF Drop, Set, TypeOK
  <2>2. QED  BY <1>7, <2>1, KeepSubmitted
<1>8. ASSUME NEW p \in Passes, NEW t \in Tasks, NEW next, work[p][t] # "none", Do(p, t, next),
             UNCHANGED submitted, \A u \in Tasks \ {t} : row'[u] = row[u]
      PROVE  OnlySubmitted'
  <2>1. t \in submitted
    BY <1>8 DEF OnlySubmitted
  <2>2. Works
    BY <1>8, <2>1 DEF Do, TypeOK
  <2>3. QED  BY <1>8, <2>1, <2>2, KeepSubmitted
<1>9. ASSUME NEW p \in Passes, NEW c \in Channels, OpenChannel(p, c) PROVE OnlySubmitted'
  <2>1. ChannelTodo(p, c) \subseteq submitted
    BY DEF ChannelTodo, Todo, OnlySubmitted
  <2>2. Works
    BY <1>9, <2>1 DEF OpenChannel, Set, TypeOK
  <2>3. QED  BY <1>9, <2>2, KeepSubmitted DEF OpenChannel
<1>10. ASSUME NEW p \in Passes, NEW t \in Tasks, UpdateSunoTask(p, t) PROVE OnlySubmitted'
  <2>1. t \in submitted
    BY <1>10 DEF UpdateSunoTask, Turn, OnlySubmitted
  <2>2. Works
    BY <1>10, <2>1 DEF UpdateSunoTask, TypeOK
  <2>3. QED  BY <1>10, <2>2, KeepSubmitted DEF UpdateSunoTask
<1>11. ASSUME NEW p \in Passes, Crash(p) PROVE OnlySubmitted'
  BY <1>11, KeepSubmitted DEF Crash, TypeOK
<1>12. CASE FinishFetch
  <2>1. userCopy.task \in submitted
    BY <1>12 DEF FinishFetch, FetchesGemini
  <2>2. Rows
    BY <1>12, <2>1 DEF FinishFetch, Statement, UpdateWithStatus, TypeOK
  <2>3. QED  BY <1>12, <2>2, KeepSubmitted DEF FinishFetch
<1>13. ASSUME NEW p \in Passes, NEW t \in Tasks, SweepTask(p, t) PROVE OnlySubmitted'
  <2>1. PICK next : Do(p, t, next)
    BY <1>13 DEF SweepTask
  <2>2. \A u \in Tasks \ {t} : row'[u] = row[u]
    BY <1>13 DEF SweepTask, UpdateWithStatus, TypeOK
  <2>3. QED  BY <1>8, <1>13, <2>1, <2>2 DEF SweepTask
<1>14. ASSUME NEW p \in Passes, NEW t \in Tasks, UpdateVideoSingleTask(p, t) PROVE OnlySubmitted'
  <2>1. PICK next : Do(p, t, next)
    BY <1>14 DEF UpdateVideoSingleTask
  <2>2. \A u \in Tasks \ {t} : row'[u] = row[u]
    BY <1>14 DEF UpdateVideoSingleTask, UpdateWithStatus, TypeOK
  <2>3. QED  BY <1>8, <1>14, <2>1, <2>2 DEF UpdateVideoSingleTask, Turn
<1>15. ASSUME NEW p \in Passes, NEW t \in Tasks, SaveSunoTask(p, t) PROVE OnlySubmitted'
  <2>1. \A u \in Tasks \ {t} : row'[u] = row[u]
    BY <1>15 DEF SaveSunoTask, Statement, Update, TypeOK
  <2>2. QED  BY <1>8, <1>15, <2>1 DEF SaveSunoTask
<1>16. ASSUME NEW p \in Passes, NEW t \in Tasks, NoAnswer(p, t) \/ Refund(p, t) \/ Settle(p, t)
       PROVE OnlySubmitted'
  BY <1>8, <1>16 DEF NoAnswer, Turn, Refund, Settle
<1>17. ASSUME NEW p \in Passes, NEW k, FailNullIds(p, k) PROVE OnlySubmitted'
  BY <1>6, <1>17 DEF FailNullIds, Statement, NullTodo
<1>18. ASSUME NEW p \in Passes, NEW c \in Channels, FailChannel(p, c) PROVE OnlySubmitted'
  BY <1>6, <1>18 DEF FailChannel, Statement, ChannelTodo
<1>19. ASSUME NEW p \in Passes, Cancel(p) PROVE OnlySubmitted'
  <2>1. Drop(p, Waiting(p)) /\ UNCHANGED <<row, submitted>>
    BY <1>19 DEF Cancel
  <2>2. QED  BY <1>7, <2>1
<1>20. QED
  BY <1>1, <1>2, <1>4, <1>5, <1>9, <1>10, <1>11, <1>12, <1>13, <1>14, <1>15, <1>16, <1>17,
     <1>18, <1>19
  DEF Next, PassStep, TimeOut, FetchTask, DeleteChannel, EndPass

\* The poller neither submits nor fetches for a user.
LEMMA PassFrame ==
  ASSUME NEW p \in Passes, StartPass(p) \/ PassStep(p) \/ Cancel(p) \/ Crash(p)
  PROVE  UNCHANGED <<userCopy, submitted>>
<1>1. CASE StartPass(p) \/ ReadUnfinished(p) \/ EndPass(p) \/ Cancel(p) \/ Crash(p)
  BY <1>1 DEF StartPass, ReadUnfinished, EndPass, Cancel, Crash
<1>2. ASSUME NEW k, FailNullIds(p, k) PROVE UNCHANGED <<userCopy, submitted>>
  BY <1>2 DEF FailNullIds
<1>3. ASSUME NEW c \in Channels, FailChannel(p, c) \/ OpenChannel(p, c)
      PROVE  UNCHANGED <<userCopy, submitted>>
  BY <1>3 DEF FailChannel, OpenChannel
<1>4. ASSUME NEW t \in Tasks,
             \/ SweepTask(p, t) \/ NoAnswer(p, t) \/ UpdateVideoSingleTask(p, t)
             \/ UpdateSunoTask(p, t) \/ SaveSunoTask(p, t) \/ Refund(p, t) \/ Settle(p, t)
      PROVE  UNCHANGED <<userCopy, submitted>>
  BY <1>4 DEF SweepTask, NoAnswer, UpdateVideoSingleTask, UpdateSunoTask, SaveSunoTask,
              Refund, Settle
<1>5. QED  BY <1>1, <1>2, <1>3, <1>4 DEF PassStep

\* A fetch reads a submitted Gemini task, and tasks stay submitted.
LEMMA FetchStep == ASSUME TypeOK, OnlySubmitted, FetchesGemini, Next PROVE FetchesGemini'
<1>1. ASSUME submitted \subseteq submitted', UNCHANGED userCopy PROVE FetchesGemini'
  BY <1>1 DEF FetchesGemini, NoFetch, NoRow
<1>2. ASSUME NEW t \in Tasks, Submit(t) \/ TimeOut(t) PROVE FetchesGemini'
  BY <1>1, <1>2 DEF Submit, TimeOut
<1>3. ASSUME NEW t \in Tasks, FetchTask(t) PROVE FetchesGemini'
  BY <1>3 DEF FetchTask, FetchesGemini, OnlySubmitted
<1>4. ASSUME NEW c \in Channels, DeleteChannel(c) PROVE FetchesGemini'
  BY <1>1, <1>4 DEF DeleteChannel
<1>5. CASE FinishFetch
  BY <1>5 DEF FinishFetch, FetchesGemini, NoFetch, NoRow
<1>6. ASSUME NEW p \in Passes, StartPass(p) \/ PassStep(p) \/ Cancel(p) \/ Crash(p)
      PROVE  FetchesGemini'
  BY <1>1, <1>6, PassFrame
<1>7. QED  BY <1>2, <1>3, <1>4, <1>5, <1>6 DEF Next

-----------------------------------------------------------------------------
(* The billing of video tasks *)

\* A step that leaves the billing of t alone, its status included, keeps its
\* invariant, even if a pass drops t or takes it up.
LEMMA Untouched ==
  ASSUME NEW t \in Tasks, VideoInv(t),
         row'[t].status = row[t].status, charge'[t] = charge[t], token'[t] = token[t],
         paid'[t] = paid[t], tokenPaid'[t] = tokenPaid[t],
         \A p \in Passes : work'[p][t] = work[p][t] \/ work'[p][t] \notin Owed
  PROVE  VideoInv(t)'
BY DEF VideoInv, Billing, Charged, Owed

\* The same when the status becomes FAILURE: the charge was complete before, or
\* the status was terminal already.
LEMMA BulkFailed ==
  ASSUME NEW t \in Tasks, VideoInv(t),
         row'[t].status = "FAILURE", charge'[t] = charge[t], token'[t] = token[t],
         paid'[t] = paid[t], tokenPaid'[t] = tokenPaid[t],
         \A p \in Passes : work'[p][t] = work[p][t] \/ work'[p][t] \notin Owed
  PROVE  VideoInv(t)'
BY DEF VideoInv, Billing, Charged, Owed, Terminal

\* An update won from an unfinished status: nobody owed anything for t, so the
\* winner may owe its billing.
LEMMA Taken ==
  ASSUME TypeOK, NEW t \in Tasks, VideoInv(t), NEW p \in Passes,
         row[t].status \in Unfinished,
         charge'[t] = charge[t], token'[t] = token[t],
         paid'[t] = paid[t], tokenPaid'[t] = tokenPaid[t],
         \A q \in Passes \ {p} : work'[q][t] = work[q][t],
         work'[p][t] \in Billing \cup {"none"},
         work'[p][t] \in Billing => row'[t].status \in Terminal,
         work'[p][t] = "refund" => row'[t].status = "FAILURE"
  PROVE  VideoInv(t)'
<1>1. Charged(t) /\ row[t].status \notin Terminal
  BY DEF VideoInv, Unfinished, Terminal
<1>2. \A q \in Passes : work[q][t] \notin Billing
  BY <1>1 DEF VideoInv
<1>3. paid[t] - charge[t] = 0 /\ tokenPaid[t] - token[t] = 0 /\ Quota[t] \in Nat
  BY <1>1, AsyncTaskAssumption DEF Charged, TypeOK
<1>4. QED  BY <1>1, <1>2, <1>3 DEF VideoInv, Billing, Charged, Unfinished, Terminal

\* The pass that owes the billing of t does it: it was the only one, and nothing
\* was paid back before, so its quota is paid back once at most and only by a
\* refund.
LEMMA Billed ==
  ASSUME TypeOK, NEW t \in Tasks, VideoInv(t), NEW p \in Passes,
         work[p][t] \in Billing, NEW amount \in Nat, amount = 0 => Quota[t] = 0 \/ work[p][t] = "refund",
         AdjustQuota(t, amount - Quota[t]) \/ UNCHANGED <<charge, token>>,
         row'[t].status = row[t].status, paid'[t] = paid[t], tokenPaid'[t] = tokenPaid[t],
         \A q \in Passes \ {p} : work'[q][t] = work[q][t], work'[p][t] = "none"
  PROVE  VideoInv(t)'
<1>1. Charged(t) /\ row[t].status \in Terminal /\ Quota[t] \in Nat
  BY AsyncTaskAssumption DEF VideoInv
<1>2. \A q \in Passes : work'[q][t] \notin Billing
  BY DEF VideoInv, Billing
<1>3. /\ charge[t] \in Int /\ token[t] \in Int /\ paid[t] \in Nat /\ tokenPaid[t] \in Nat
      /\ charge'[t] \in {charge[t], charge[t] + (amount - Quota[t])}
      /\ token'[t] \in {token[t], token[t] + (amount - Quota[t])}
  BY <1>1 DEF AdjustQuota, Statement, TypeOK
<1>4. amount = 0 /\ Quota[t] # 0 => row[t].status = "FAILURE"
  BY DEF VideoInv
<1>5. paid[t] - charge'[t] \in {0, Quota[t] - amount}
  BY <1>1, <1>3 DEF Charged
<1>6. tokenPaid[t] - token'[t] \in {0, Quota[t] - amount}
  BY <1>1, <1>3 DEF Charged
<1>7. /\ paid'[t] - charge'[t] <= Quota[t] /\ tokenPaid'[t] - token'[t] <= Quota[t]
      /\ paid'[t] - charge'[t] = Quota[t] /\ Quota[t] # 0 => row'[t].status = "FAILURE"
  <2>1. 0 <= Quota[t] /\ Quota[t] - amount <= Quota[t]
    BY <1>1
  <2>2. Quota[t] - amount = Quota[t] => amount = 0
    BY <1>1
  <2>3. QED  BY <1>4, <1>5, <1>6, <2>1, <2>2
<1>8. \A q \in Passes : work'[q][t] # "save"
  BY DEF VideoInv
<1>9. QED  BY <1>1, <1>2, <1>7, <1>8 DEF VideoInv, Billing, Terminal

\* A compare-and-set from an unfinished copy to the row new, and the job that
\* follows it, as sweepTimedOutTasks and updateVideoSingleTask write them.
LEMMA CasStep ==
  ASSUME TypeOK, CopiesUnfinished, OnlySubmitted, NEW t \in VideoTasks, VideoInv(t),
         NEW p \in Passes, NEW u \in Tasks, NEW new \in Row, NEW next \in Billing \cup {"none"},
         work[p][u] \in {"sweep", "ready"}, new.status # "none",
         Do(p, u, next), UNCHANGED <<charge, token, atSubmission>>,
         \/ UpdateWithStatus(u, copy[p][u].status, new)
         \/ UNCHANGED row /\ next = "none",
         next # "none" => Won(u, copy[p][u].status) /\ new.status \in Terminal,
         next = "refund" => new.status = "FAILURE"
  PROVE  VideoInv(t)'
<1> t \in Tasks  BY DEF VideoTasks
<1>1. copy[p][u].status \in Unfinished /\ u \in submitted
  BY DEF CopiesUnfinished, OnlySubmitted
<1>2. \A q \in Passes, v \in Tasks : q # p \/ v # u => work'[q][v] = work[q][v]
  BY DEF Do, TypeOK
<1>3. work'[p][u] = next
  BY DEF Do, TypeOK
<1>4. CASE u # t
  <2>1. row'[t] = row[t]
    BY <1>4 DEF UpdateWithStatus, TypeOK
  <2>2. \A q \in Passes : work'[q][t] = work[q][t]
    BY <1>2, <1>4
  <2>3. QED  BY <2>1, <2>2, Untouched
<1>5. CASE u = t /\ Won(u, copy[p][u].status) /\ row'[u] = new
  <2>1. row[t].status \in Unfinished /\ row'[t].status # "none"
    BY <1>1, <1>5 DEF Won
  <2>2. \A q \in Passes \ {p} : work'[q][t] = work[q][t]
    BY <1>2, <1>5
  <2>3. work'[p][t] = next
    BY <1>3, <1>5
  <2>4. QED  BY <1>1, <1>5, <2>1, <2>2, <2>3, Taken DEF Billing
<1>6. CASE u = t /\ row' = row /\ next = "none"
  <2>1. \A q \in Passes : work'[q][t] = work[q][t] \/ work'[q][t] \notin Owed
    BY <1>2, <1>3, <1>6 DEF Owed
  <2>2. QED  BY <1>6, <2>1, Untouched
<1>7. QED
  BY <1>4, <1>5, <1>6 DEF UpdateWithStatus, TypeOK

\* A bulk update of tasks that were submitted, and the work on them dropped.
LEMMA BulkStep ==
  ASSUME TypeOK, OnlySubmitted, NEW t \in VideoTasks, VideoInv(t), NEW p \in Passes,
         NEW S, S \subseteq Todo(p), Drop(p, S), UNCHANGED <<charge, token, atSubmission>>,
         TaskBulkUpdateByID(S) \/ UNCHANGED row
  PROVE  VideoInv(t)'
<1> t \in Tasks  BY DEF VideoTasks
<1>1. \A q \in Passes : work'[q][t] = work[q][t] \/ work'[q][t] \notin Owed
  BY DEF Drop, Set, TypeOK, Owed
<1>2. CASE row'[t].status = row[t].status
  BY <1>1, <1>2, Untouched
<1>3. CASE row'[t].status = "FAILURE"
  BY <1>1, <1>3, BulkFailed
<1>4. QED  BY <1>2, <1>3 DEF TaskBulkUpdateByID

\* Every step keeps the billing of a video task exact.
LEMMA VideoStep ==
  ASSUME IInv, Next, NEW t \in VideoTasks
  PROVE  VideoInv(t)'
<1> t \in Tasks /\ TaskKind(t) = "video"  BY DEF VideoTasks
<1> TypeOK /\ CopiesUnfinished /\ OnlySubmitted /\ FetchesGemini /\ VideoInv(t)  BY DEF IInv
<1>1. ASSUME NEW u \in Tasks, Submit(u) PROVE VideoInv(t)'
  <2>1. CASE u = t
    <3>1. PICK funding \in Nat, tok \in Nat : Take(t, funding, tok)
      BY <1>1, <2>1, SubmitTakes
    <3>2. /\ charge'[t] = funding /\ paid'[t] = funding
          /\ token'[t] = tok /\ tokenPaid'[t] = tok /\ Quota[t] \in Nat
      BY <3>1, AsyncTaskAssumption DEF Take, TypeOK
    <3>3. \A p \in Passes : work'[p][t] = "none"
      BY <1>1, <2>1 DEF Submit, OnlySubmitted
    <3>4. paid'[t] - charge'[t] = 0 /\ tokenPaid'[t] - token'[t] = 0
      BY <3>2
    <3>5. QED  BY <3>2, <3>3, <3>4 DEF VideoInv, Charged, Billing
  <2>2. CASE u # t
    <3>1. PICK funding \in Nat, tok \in Nat : Take(u, funding, tok)
      BY <1>1, SubmitTakes
    <3>2. /\ charge'[t] = charge[t] /\ paid'[t] = paid[t]
          /\ token'[t] = token[t] /\ tokenPaid'[t] = tokenPaid[t]
      BY <2>2, <3>1 DEF Take, TypeOK
    <3>3. QED  BY <1>1, <2>2, <3>2, Untouched DEF Submit, Insert, TypeOK
  <2>3. QED  BY <2>1, <2>2
<1>2. CASE UNCHANGED <<row, work, charge, token, atSubmission>>
  BY <1>2, Untouched
<1>3. ASSUME NEW p \in Passes, NEW S, NEW job \in {"sweep", "todo"}, Hold(p, S, job),
             UNCHANGED <<row, charge, token, atSubmission>>
      PROVE  VideoInv(t)'
  <2>1. \A q \in Passes : work'[q][t] = work[q][t] \/ work'[q][t] \notin Owed
    BY <1>3 DEF Hold, TypeOK, Owed
  <2>2. QED  BY <1>3, <2>1, Untouched
<1>4. ASSUME NEW p \in Passes, StartPass(p) \/ ReadUnfinished(p) PROVE VideoInv(t)'
  BY <1>3, <1>4 DEF StartPass, ReadUnfinished
<1>5. ASSUME NEW p \in Passes, NEW k, FailNullIds(p, k) PROVE VideoInv(t)'
  BY <1>5, BulkStep DEF FailNullIds, Statement, NullTodo
<1>6. ASSUME NEW p \in Passes, NEW c \in Channels, FailChannel(p, c) PROVE VideoInv(t)'
  BY <1>6, BulkStep DEF FailChannel, Statement, ChannelTodo
<1>7. ASSUME NEW p \in Passes, NEW c \in Channels, OpenChannel(p, c) PROVE VideoInv(t)'
  <2>1. \A q \in Passes : work'[q][t] = work[q][t] \/ work'[q][t] \notin Owed
    BY <1>7 DEF OpenChannel, Set, TypeOK, Owed
  <2>2. QED  BY <1>7, <2>1, Untouched DEF OpenChannel
<1>8. ASSUME NEW p \in Passes, NEW u \in Tasks, SweepTask(p, u) PROVE VideoInv(t)'
  <2>1. TimedOutRow \in Row /\ TimedOutRow.status = "FAILURE"
    BY NewRows DEF TimedOutRow
  <2>2. CASE UpdateWithStatus(u, copy[p][u].status, TimedOutRow)
             /\ Won(u, copy[p][u].status) /\ Do(p, u, "refund")
    BY <1>8, <2>1, <2>2, CasStep DEF SweepTask, Billing, Terminal
  <2>3. CASE (UpdateWithStatus(u, copy[p][u].status, TimedOutRow) \/ UNCHANGED row)
             /\ Do(p, u, "none")
    BY <1>8, <2>1, <2>3, CasStep DEF SweepTask, Billing, Terminal
  <2>4. QED  BY <1>8, <2>2, <2>3 DEF SweepTask
<1>9. ASSUME NEW p \in Passes, NEW u \in Tasks, UpdateVideoSingleTask(p, u) PROVE VideoInv(t)'
  <2>1. PICK new \in VideoAnswer :
          \/ /\ UpdateWithStatus(u, copy[p][u].status, new)
             /\ Do(p, u, VideoBilling(u, copy[p][u], new, Won(u, copy[p][u].status)))
          \/ /\ UNCHANGED row
             /\ Do(p, u, VideoBilling(u, copy[p][u], new, FALSE))
    BY <1>9 DEF UpdateVideoSingleTask
  <2>2. new \in Row /\ new.status # "none"
    BY NewRows DEF VideoAnswer, Terminal
  <2>3. copy[p][u].status \notin Terminal /\ work[p][u] = "ready"
    BY <1>9 DEF UpdateVideoSingleTask, Turn, CopiesUnfinished, Unfinished, Terminal
  <2>4. VideoBilling(u, copy[p][u], new, FALSE) = "none"
    BY <2>3 DEF VideoBilling, VideoJob, Terminal
  <2>5. ASSUME NEW won
        PROVE  /\ VideoBilling(u, copy[p][u], new, won) \in Billing \cup {"none"}
               /\ VideoBilling(u, copy[p][u], new, won) # "none" =>
                    won /\ new.status \in Terminal
               /\ VideoBilling(u, copy[p][u], new, won) = "refund" => new.status = "FAILURE"
    BY <2>3 DEF VideoBilling, VideoJob, Billing, Terminal
  <2>6. QED  BY <1>9, <2>1, <2>2, <2>3, <2>4, <2>5, CasStep DEF UpdateVideoSingleTask
<1>10. ASSUME NEW p \in Passes, NEW u \in Tasks, NoAnswer(p, u) PROVE VideoInv(t)'
  <2>1. \A q \in Passes : work'[q][t] = work[q][t] \/ work'[q][t] \notin Owed
    BY <1>10 DEF NoAnswer, Do, TypeOK, Owed
  <2>2. QED  BY <1>10, <2>1, Untouched DEF NoAnswer
<1>11. ASSUME NEW p \in Passes, NEW u \in Tasks, UpdateSunoTask(p, u) PROVE VideoInv(t)'
  <2>1. u # t
    BY <1>11 DEF UpdateSunoTask
  <2>2. charge'[t] = charge[t] /\ token'[t] = token[t]
    BY <1>11, <2>1 DEF UpdateSunoTask, RefundTaskQuota, AdjustQuota, Statement, TypeOK
  <2>3. \A q \in Passes : work'[q][t] = work[q][t]
    BY <1>11, <2>1 DEF UpdateSunoTask, TypeOK
  <2>4. QED  BY <1>11, <2>2, <2>3, Untouched DEF UpdateSunoTask
<1>12. ASSUME NEW p \in Passes, NEW u \in Tasks, SaveSunoTask(p, u) PROVE VideoInv(t)'
  <2>1. u # t
    BY <1>12 DEF SaveSunoTask, VideoInv
  <2>2. row'[t] = row[t]
    BY <1>12, <2>1 DEF SaveSunoTask, Statement, Update, TypeOK
  <2>3. \A q \in Passes : work'[q][t] = work[q][t]
    BY <1>12, <2>1 DEF SaveSunoTask, Do, TypeOK
  <2>4. QED  BY <1>12, <2>2, <2>3, Untouched DEF SaveSunoTask
<1>13. ASSUME NEW p \in Passes, NEW u \in Tasks, Refund(p, u) PROVE VideoInv(t)'
  <2>1. \A q \in Passes : q # p \/ u # t => work'[q][t] = work[q][t]
    BY <1>13 DEF Refund, Do, TypeOK
  <2>2. CASE u = t
    <3>1. work'[p][t] = "none"
      BY <1>13, <2>2 DEF Refund, Do, TypeOK
    <3>2. 0 - Quota[t] = -Quota[t]
      BY AsyncTaskAssumption
    <3>3. AdjustQuota(t, 0 - Quota[t])
      BY <1>13, <2>2, <3>2 DEF Refund, RefundTaskQuota
    <3>4. QED  BY <1>13, <2>1, <2>2, <3>1, <3>3, Billed DEF Refund, Billing
  <2>3. CASE u # t
    <3>1. charge'[t] = charge[t] /\ token'[t] = token[t]
      BY <1>13, <2>3 DEF Refund, RefundTaskQuota, AdjustQuota, Statement, TypeOK
    <3>2. QED  BY <1>13, <2>1, <2>3, <3>1, Untouched DEF Refund
  <2>4. QED  BY <2>2, <2>3
<1>14. ASSUME NEW p \in Passes, NEW u \in Tasks, Settle(p, u) PROVE VideoInv(t)'
  <2>1. \A q \in Passes : q # p \/ u # t => work'[q][t] = work[q][t]
    BY <1>14 DEF Settle, Do, TypeOK
  <2>2. CASE u = t
    <3>1. work'[p][t] = "none"
      BY <1>14, <2>2 DEF Settle, Do, TypeOK
    <3>2. PICK amount \in Nat \ {0} :
            AdjustQuota(t, amount - Quota[t]) \/ UNCHANGED <<charge, token>>
      BY <1>14, <2>2, AsyncTaskAssumption DEF Settle, SettleTaskBillingOnComplete
    <3>3. QED  BY <1>14, <2>1, <2>2, <3>1, <3>2, Billed DEF Settle, Billing
  <2>3. CASE u # t
    <3>1. charge'[t] = charge[t] /\ token'[t] = token[t]
      BY <1>14, <2>3
      DEF Settle, SettleTaskBillingOnComplete, AdjustQuota, Statement, TypeOK
    <3>2. QED  BY <1>14, <2>1, <2>3, <3>1, Untouched DEF Settle
  <2>4. QED  BY <2>2, <2>3
<1>15. ASSUME NEW p \in Passes, Cancel(p) PROVE VideoInv(t)'
  <2>1. \A q \in Passes : work'[q][t] = work[q][t] \/ work'[q][t] \notin Owed
    BY <1>15 DEF Cancel, Drop, Set, TypeOK, Owed
  <2>2. QED  BY <1>15, <2>1, Untouched DEF Cancel
<1>16. ASSUME NEW p \in Passes, Crash(p) PROVE VideoInv(t)'
  <2>1. \A q \in Passes : work'[q][t] = work[q][t] \/ work'[q][t] \notin Owed
    BY <1>16 DEF Crash, TypeOK, Owed
  <2>2. QED  BY <1>16, <2>1, Untouched DEF Crash
<1>17. CASE FinishFetch
  <2>1. userCopy.task # t
    BY <1>17 DEF FinishFetch, FetchesGemini
  <2>2. row'[t] = row[t]
    BY <1>17, <2>1 DEF FinishFetch, Statement, UpdateWithStatus, TypeOK
  <2>3. QED  BY <1>17, <2>2, Untouched DEF FinishFetch
<1>18. QED
  BY <1>1, <1>2, <1>4, <1>5, <1>6, <1>7, <1>8, <1>9, <1>10, <1>11, <1>12, <1>13, <1>14,
     <1>15, <1>16, <1>17
  DEF Next, PassStep, TimeOut, FetchTask, DeleteChannel, EndPass

-----------------------------------------------------------------------------
(* Theorems *)

\* The invariant is inductive.
LEMMA InvStep == ASSUME IInv, [Next]_vars PROVE IInv'
<1>1. CASE Next
  <2>1. TypeOK /\ CopiesUnfinished /\ OnlySubmitted /\ FetchesGemini
    BY DEF IInv
  <2>2. TypeOK' /\ CopiesUnfinished' /\ OnlySubmitted' /\ FetchesGemini'
    BY <1>1, <2>1, TypeStep, CopiesStep, SubmittedStep, FetchStep
  <2>3. \A t \in VideoTasks : VideoInv(t)'
    BY <1>1, VideoStep
  <2>4. VideoTasks' = VideoTasks
    BY DEF VideoTasks, TaskKind
  <2>5. QED  BY <2>2, <2>3, <2>4 DEF IInv
<1>2. CASE UNCHANGED vars
  <2>1. TypeOK' /\ CopiesUnfinished' /\ OnlySubmitted' /\ FetchesGemini'
    BY <1>2 DEF IInv, vars, TypeOK, CopiesUnfinished, OnlySubmitted, FetchesGemini, NoFetch, NoRow
  <2>2. ASSUME NEW t \in VideoTasks PROVE VideoInv(t)'
    BY <1>2, Untouched DEF IInv, vars, VideoTasks
  <2>3. VideoTasks' = VideoTasks
    BY DEF VideoTasks, TaskKind
  <2>4. QED  BY <2>1, <2>2, <2>3 DEF IInv
<1>3. QED  BY <1>1, <1>2

\* Every reachable state satisfies the invariant.
LEMMA InvHolds == Spec => []IInv
<1>1. Init => IInv  BY InitInv
<1>2. IInv /\ [Next]_vars => IInv'  BY InvStep
<1>3. QED  BY <1>1, <1>2, PTL DEF Spec

\* Every variable keeps its type, for every instance of the poller.
THEOREM TypeCorrect == Spec => []TypeOK
<1>1. IInv => TypeOK  BY DEF IInv
<1>2. QED  BY <1>1, InvHolds, PTL

\* However many passes overlap and whatever faults occur, the submission's own
\* included, no video task is paid back its quota twice.
THEOREM VideoRefundedAtMostOnce == Spec => []VideoRefundedOnce
<1>1. IInv => VideoRefundedOnce  BY DEF IInv, VideoRefundedOnce, VideoInv
<1>2. QED  BY <1>1, InvHolds, PTL

\* A video task that was paid back is recorded as failed.
THEOREM VideoRefundOnlyOnFailure == Spec => []VideoRefundMeansFailure
<1>1. IInv => VideoRefundMeansFailure
  BY DEF IInv, VideoRefundMeansFailure, VideoInv
<1>2. QED  BY <1>1, InvHolds, PTL

\* What a step may do to the row of a video task with a terminal status.
LEMMA FinalStep ==
  ASSUME IInv, Next, NEW t \in VideoTasks, row[t].status \in Terminal
  PROVE  row'[t].status = row[t].status \/ (row'[t].status = "FAILURE" /\ GivenUp(t))
<1> DEFINE Final == row'[t].status = row[t].status \/ (row'[t].status = "FAILURE" /\ GivenUp(t))
<1> t \in Tasks /\ TaskKind(t) = "video"  BY DEF VideoTasks
<1> TypeOK /\ CopiesUnfinished /\ OnlySubmitted /\ FetchesGemini /\ VideoInv(t)  BY DEF IInv
<1>1. ASSUME NEW u \in Tasks, Submit(u) PROVE Final
  <2>1. u # t
    BY <1>1 DEF Submit, OnlySubmitted, Terminal
  <2>2. QED  BY <1>1, <2>1 DEF Submit, Insert, TypeOK
<1>2. ASSUME NEW p \in Passes, NEW S, S \subseteq Todo(p), Drop(p, S),
             TaskBulkUpdateByID(S) \/ UNCHANGED row,
             t \in S => ChannelOf[t] \in gone \/ t \in NullIds \/ faults' > faults
      PROVE  Final
  <2>1. CASE t \in S
    <3>1. work[p][t] = "todo"
      BY <1>2, <2>1 DEF Todo
    <3>2. work'[p][t] = "none"
      BY <1>2, <2>1 DEF Drop, Set, TypeOK
    <3>3. row' = row \/ row'[t].status = "FAILURE"
      BY <1>2, <2>1 DEF TaskBulkUpdateByID
    <3>4. QED  BY <1>2, <2>1, <3>1, <3>2, <3>3 DEF GivenUp
  <2>2. CASE t \notin S
    BY <1>2, <2>2 DEF TaskBulkUpdateByID
  <2>3. QED  BY <2>1, <2>2
<1>3. ASSUME NEW p \in Passes, NEW k, FailNullIds(p, k) PROVE Final
  BY <1>2, <1>3 DEF FailNullIds, NullTodo, Statement
<1>4. ASSUME NEW p \in Passes, NEW c \in Channels, FailChannel(p, c) PROVE Final
  <2>1. c \in gone \/ faults' > faults
    BY <1>4 DEF FailChannel, Fault, TypeOK
  <2>2. \A u \in ChannelTodo(p, c) : u \in Todo(p) /\ ChannelOf[u] = c
    BY DEF ChannelTodo
  <2>3. QED  BY <1>2, <1>4, <2>1, <2>2 DEF FailChannel, Statement
<1>5. ASSUME NEW p \in Passes, NEW u \in Tasks, NEW new, work[p][u] \in {"sweep", "ready"},
             UpdateWithStatus(u, copy[p][u].status, new) \/ UNCHANGED row
      PROVE  Final
  <2>1. copy[p][u].status \notin Terminal
    BY <1>5 DEF CopiesUnfinished, Unfinished, Terminal
  <2>2. QED  BY <1>5, <2>1 DEF UpdateWithStatus, Won, TypeOK
<1>6. ASSUME NEW p \in Passes, NEW u \in Tasks, SweepTask(p, u) \/ UpdateVideoSingleTask(p, u)
      PROVE  Final
  <2>1. CASE SweepTask(p, u)
    BY <1>5, <2>1 DEF SweepTask
  <2>2. CASE UpdateVideoSingleTask(p, u)
    <3>1. PICK new : UpdateWithStatus(u, copy[p][u].status, new) \/ UNCHANGED row
      BY <2>2 DEF UpdateVideoSingleTask
    <3>2. work[p][u] = "ready"
      BY <2>2 DEF UpdateVideoSingleTask, Turn
    <3>3. QED  BY <1>5, <3>1, <3>2
  <2>3. QED  BY <1>6, <2>1, <2>2
<1>7. ASSUME NEW p \in Passes, NEW u \in Tasks, SaveSunoTask(p, u) PROVE Final
  <2>1. u # t
    BY <1>7 DEF SaveSunoTask, VideoInv
  <2>2. QED  BY <1>7, <2>1 DEF SaveSunoTask, Statement, Update, TypeOK
<1>8. CASE FinishFetch
  <2>1. userCopy.task # t
    BY <1>8 DEF FinishFetch, FetchesGemini
  <2>2. QED  BY <1>8, <2>1 DEF FinishFetch, Statement, UpdateWithStatus, TypeOK
<1>9. ASSUME NEW u \in Tasks, TimeOut(u) \/ FetchTask(u) PROVE Final
  BY <1>9 DEF TimeOut, FetchTask
<1>10. ASSUME NEW c \in Channels, DeleteChannel(c) PROVE Final
  BY <1>10 DEF DeleteChannel
<1>11. ASSUME NEW p \in Passes,
              \/ StartPass(p) \/ ReadUnfinished(p) \/ EndPass(p) \/ Cancel(p) \/ Crash(p)
              \/ \E c \in Channels : OpenChannel(p, c)
       PROVE  Final
  BY <1>11 DEF StartPass, ReadUnfinished, EndPass, Cancel, Crash, OpenChannel
<1>12. ASSUME NEW p \in Passes, NEW u \in Tasks,
              NoAnswer(p, u) \/ UpdateSunoTask(p, u) \/ Refund(p, u) \/ Settle(p, u)
       PROVE  Final
  BY <1>12 DEF NoAnswer, UpdateSunoTask, Refund, Settle
<1>13. QED
  BY <1>1, <1>3, <1>4, <1>6, <1>7, <1>8, <1>9, <1>10, <1>11, <1>12 DEF Next, PassStep

\* A recorded outcome of a video task is final, except that a pass that could
\* not look up its channel, or found no upstream id, may record a failure over it.
THEOREM VideoOutcomeFinal == Spec => VideoTerminalFinal
<1>1. IInv /\ [Next]_vars =>
        [\A t \in VideoTasks :
           row[t].status \in Terminal =>
             row'[t].status = row[t].status \/ (row'[t].status = "FAILURE" /\ GivenUp(t))]_vars
  BY FinalStep
<1>2. QED  BY <1>1, InvHolds, PTL DEF Spec, VideoTerminalFinal
=============================================================================
