----------------------------- MODULE AsyncTask ------------------------------
(***************************************************************************)
(* Asynchronous Suno and video tasks after their submission: the rows of   *)
(* model/task.go, the polling pass and the timeout sweep of                *)
(* service/task_polling.go, the refunds and settlements of                 *)
(* service/task_billing.go and the realtime fetch of relay/relay_task.go.  *)
(*                                                                         *)
(* Passes are runs of the async_task_poll system task.  A pass whose lease *)
(* expired may still be at work when the next one starts (SystemTask), so  *)
(* passes overlap.  Every action is at most one statement on the tasks     *)
(* table or one balance adjustment: other passes, user requests and        *)
(* crashes happen between a read, the update and the billing that follows. *)
(* An upstream answer is any of the outcomes the code tells apart.  What   *)
(* never changes in a row (channel, quota, submit time, upstream id) is a  *)
(* constant: RecalculateTaskQuota assigns task.Quota after the row was     *)
(* saved, and nothing saves it again; the submit time Suno reports is      *)
(* taken to be the one the row has.                                        *)
(***************************************************************************)
EXTENDS Integers, FiniteSets

CONSTANTS
  Tasks,         \* primary keys of the rows, a set of numbers
  Passes,        \* polling passes that may overlap
  Channels,
  Kind,          \* Kind[c]: "suno", "gemini" (fetched by users too) or "video"
  ChannelOf,     \* channel_id of a task
  Quota,         \* the quota of the row: what the submission is settled for
  PreConsumed,   \* what was taken for the task before it was submitted
  SubmitTime,    \* submit_time, in Unix seconds
  NullIds,       \* tasks without an upstream id
  PerCall,       \* tasks whose BillingContext says PerCallBilling
  Actuals,       \* positive amounts a settlement may compute
  SweepLimit,    \* 100 in sweepTimedOutTasks
  QueryLimit,    \* constant.TaskQueryLimit
  Workloads,     \* bound: the tasks submitted are among one of these sets
  MaxOverpaid,   \* bound: a Suno task paid back its quota and more than this is not polled again
  MaxFetches,    \* bound on the realtime fetches
  MaxFaults      \* bound on database errors, deleted channels and crashes

ASSUME AsyncTaskAssumption ==
  /\ Tasks \subseteq Nat /\ IsFiniteSet(Tasks)
  /\ Kind \in [Channels -> {"suno", "gemini", "video"}]
  /\ ChannelOf \in [Tasks -> Channels]
  /\ Quota \in [Tasks -> Nat] /\ PreConsumed \in [Tasks -> Nat] /\ SubmitTime \in [Tasks -> Nat]
  /\ NullIds \subseteq Tasks /\ PerCall \subseteq Tasks
  /\ Actuals \subseteq Nat \ {0}
  /\ SweepLimit \in Nat \ {0} /\ QueryLimit \in Nat \ {0}
  /\ Workloads \subseteq SUBSET Tasks /\ MaxOverpaid \in Nat /\ MaxFetches \in Nat /\ MaxFaults \in Nat

VARIABLES
  row,           \* the tasks table: status, and whether progress is "100%"
  pc,            \* what a pass is doing: "idle", "sweep" or "poll"
  copy,          \* the rows a pass holds in memory
  work,          \* what a pass still has to do for a task
  userCopy,      \* the row a realtime fetch holds, and its task
  charge,        \* what the wallet or the subscription paid for a task
  token,         \* what the token paid for it
  paid, tokenPaid,           \* history: charge and token when it was submitted
  due,           \* tasks whose submit_time is before the timeout's cutoff
  gone,          \* channels CacheGetChannel no longer finds
  submitted,     \* tasks whose request was answered with success
  fetched, faults            \* counters of the bounds

atSubmission == <<submitted, paid, tokenPaid>>

vars == <<row, pc, copy, work, userCopy, charge, token, due, gone,
          atSubmission, fetched, faults>>

Unfinished == {"NOT_START", "IN_PROGRESS"}   \* SUBMITTED, QUEUED: as IN_PROGRESS
Terminal == {"SUCCESS", "FAILURE"}

\* "none": the task was not submitted, or its row could not be inserted.
Row == [status : Unfinished \cup Terminal \cup {"none"}, full : BOOLEAN]

NoRow == [status |-> "none", full |-> FALSE]

TaskKind(t) == Kind[ChannelOf[t]]

\* Billing and saving that a pass owes a task it has already answered for.
Owed == {"refund", "settle", "save"}

NotOwed(p, t) == work[p][t] \notin Owed

TypeOK ==
  /\ row \in [Tasks -> Row]
  /\ pc \in [Passes -> {"idle", "sweep", "poll"}]
  /\ copy \in [Passes -> [Tasks -> Row]]
  /\ work \in [Passes -> [Tasks -> Owed \cup {"none", "sweep", "todo", "ready"}]]
  /\ userCopy \in [task : Tasks \cup {-1}, row : Row]
  /\ charge \in [Tasks -> Int] /\ token \in [Tasks -> Int]
  /\ paid \in [Tasks -> Nat] /\ tokenPaid \in [Tasks -> Nat]
  /\ due \subseteq Tasks /\ gone \subseteq Channels
  /\ submitted \subseteq Tasks /\ fetched \in 0..MaxFetches /\ faults \in 0..MaxFaults

NoFetch == [task |-> -1, row |-> NoRow]

Init ==
  /\ row = [t \in Tasks |-> NoRow]
  /\ pc = [p \in Passes |-> "idle"]
  /\ copy = [p \in Passes |-> [t \in Tasks |-> NoRow]]
  /\ work = [p \in Passes |-> [t \in Tasks |-> "none"]]
  /\ userCopy = NoFetch
  /\ charge = [t \in Tasks |-> 0] /\ token = [t \in Tasks |-> 0]
  /\ paid = [t \in Tasks |-> 0] /\ tokenPaid = [t \in Tasks |-> 0]
  /\ due = {} /\ gone = {}
  /\ submitted = {} /\ fetched = 0 /\ faults = 0

-----------------------------------------------------------------------------
(* Faults and the environment *)

Fault == faults < MaxFaults /\ faults' = faults + 1

NoFault == UNCHANGED faults

\* One statement: it happens, or the database reports an error.
Statement(effect, none) == \/ effect /\ NoFault
                           \/ none /\ Fault

\* Time passes the cutoff of a submitted task.
TimeOut(t) ==
  /\ row[t].status # "none" /\ t \notin due
  /\ due' = due \cup {t}
  /\ UNCHANGED <<row, pc, copy, work, userCopy, charge, token, gone,
                 atSubmission, fetched, faults>>

\* An administrator deletes the channel.
DeleteChannel(c) ==
  /\ c \notin gone /\ Fault
  /\ gone' = gone \cup {c}
  /\ UNCHANGED <<row, pc, copy, work, userCopy, charge, token, due,
                 atSubmission, fetched>>

\* The node of a pass crashes: what it still owed is forgotten.
Crash(p) ==
  /\ pc[p] # "idle" /\ Fault
  /\ pc' = [pc EXCEPT ![p] = "idle"]
  /\ copy' = [copy EXCEPT ![p] = [t \in Tasks |-> NoRow]]
  /\ work' = [work EXCEPT ![p] = [t \in Tasks |-> "none"]]
  /\ UNCHANGED <<row, userCopy, charge, token, due, gone, atSubmission, fetched>>

-----------------------------------------------------------------------------
(* model/task.go *)

UnfinishedRow(r) == ~r.full /\ r.status \in Unfinished

\* LIMIT n with the rows in the order of their ids.
FirstById(S, n) == {t \in S : Cardinality({u \in S : u < t}) < n}

\* LIMIT n ORDER BY submit_time: rows of the same second in any order.
Oldest(S, n) ==
  {T \in SUBSET S :
     /\ Cardinality(T) = (IF Cardinality(S) < n THEN Cardinality(S) ELSE n)
     /\ \A t \in T, u \in S \ T : SubmitTime[t] <= SubmitTime[u]}

\* The queries return nothing when the database reports an error.
GetTimedOutUnfinishedTasks ==
  Oldest({t \in due : UnfinishedRow(row[t])}, SweepLimit)

GetAllUnFinishSyncTasks ==
  FirstById({t \in Tasks : UnfinishedRow(row[t])}, QueryLimit)

\* UPDATE tasks SET * WHERE id = t AND status = from.
Won(t, from) == row[t].status = from

\* Mutant of UpdateWithStatus: WHERE id = t only.
UpdateById(t, from, new) == row' = [row EXCEPT ![t] = new]

UpdateWithStatus(t, from, new) ==
  row' = IF Won(t, from) THEN [row EXCEPT ![t] = new] ELSE row

\* Task.Update: DB.Save, whatever the row holds now.
Update(t, new) == row' = [row EXCEPT ![t] = new]

\* The status and progress written by TaskBulkUpdateByID: no compare-and-set.
TaskBulkUpdateByID(S) ==
  row' = [t \in Tasks |-> IF t \in S THEN [status |-> "FAILURE", full |-> TRUE]
                                     ELSE row[t]]

-----------------------------------------------------------------------------
(* service/task_billing.go *)

\* taskAdjustFunding and then taskAdjustTokenQuota.  A funding error returns
\* early; a token error, or a token that is gone, is only logged.
AdjustQuota(t, delta) ==
  \/ /\ charge' = [charge EXCEPT ![t] = @ + delta]
     /\ Statement(token' = [token EXCEPT ![t] = @ + delta], UNCHANGED token)
  \/ delta # 0 /\ Fault /\ UNCHANGED <<charge, token>>

RefundTaskQuota(t) == AdjustQuota(t, -Quota[t])

\* settleTaskBillingOnComplete: nothing for a task billed per call, or when
\* neither the adaptor nor a token count gives an amount.
SettleTaskBillingOnComplete(t) ==
  \/ UNCHANGED <<charge, token>> /\ NoFault
  \/ t \notin PerCall /\ \E actual \in Actuals : AdjustQuota(t, actual - Quota[t])

\* What the wallet or the subscription, and the token, have paid after
\* SettleBilling(Quota[t]): its error, of the funding or of the token that
\* comes after it, is only logged, and what was pre-consumed stays taken.
Settled(t) == <<Quota[t], Quota[t]>>

Unsettled(t) == {<<PreConsumed[t], PreConsumed[t]>>, <<Quota[t], PreConsumed[t]>>}

Insert(t) == row' = [row EXCEPT ![t] = [status |-> "NOT_START", full |-> FALSE]]

Take(t, funding, tok) ==
  /\ charge' = [charge EXCEPT ![t] = funding] /\ paid' = [paid EXCEPT ![t] = funding]
  /\ token' = [token EXCEPT ![t] = tok] /\ tokenPaid' = [tokenPaid EXCEPT ![t] = tok]

\* The end of RelayTask: the request is settled and the row, whose quota is
\* Quota[t] whether that worked or not, is inserted; an insert error is only
\* logged too.  The errors of one submission count as one fault.
Submit(t) ==
  /\ t \notin submitted /\ \E W \in Workloads : submitted \cup {t} \subseteq W
  /\ submitted' = submitted \cup {t}
  /\ \/ Take(t, Settled(t)[1], Settled(t)[2]) /\ Insert(t) /\ NoFault
     \/ /\ \E amounts \in {Settled(t)} \cup Unsettled(t) : Take(t, amounts[1], amounts[2])
        /\ Insert(t) \/ UNCHANGED row
        /\ Fault
  /\ UNCHANGED <<pc, copy, work, userCopy, due, gone, fetched>>

-----------------------------------------------------------------------------
(* sweepTimedOutTasks *)

Hold(p, S, job) ==
  /\ copy' = [copy EXCEPT ![p] = [t \in Tasks |-> IF t \in S THEN row[t] ELSE NoRow]]
  /\ work' = [work EXCEPT ![p] = [t \in Tasks |-> IF t \in S THEN job ELSE "none"]]

\* RunTaskPollingOnce starts with the sweep: read the timed out tasks.
StartPass(p) ==
  /\ pc[p] = "idle"
  /\ pc' = [pc EXCEPT ![p] = "sweep"]
  /\ \/ \E S \in GetTimedOutUnfinishedTasks : Hold(p, S, "sweep") /\ NoFault
     \/ Fault /\ Hold(p, {}, "sweep")
  /\ UNCHANGED <<row, userCopy, charge, token, due, gone, atSubmission, fetched>>

legacyTaskCutoff == 1740182400

IsLegacy(t) == SubmitTime[t] > 0 /\ SubmitTime[t] < legacyTaskCutoff

\* What is left to do for a task; only a Suno task that is to be saved needs
\* its copy any longer.
Do(p, t, next) == /\ work' = [work EXCEPT ![p][t] = next]
                  /\ copy' = [copy EXCEPT ![p][t] = NoRow]

TimedOutRow == [status |-> "FAILURE", full |-> TRUE]

\* The task a pass is billing is finished before it takes the next one.
SweepTurn(p) == pc[p] = "sweep" /\ \A t \in Tasks : NotOwed(p, t)

\* A swept task becomes FAILURE by compare-and-set; the refund follows only if
\* the update was won, and never for a legacy task.
SweepTask(p, t) ==
  /\ SweepTurn(p) /\ work[p][t] = "sweep"
  /\ \/ /\ UpdateWithStatus(t, copy[p][t].status, TimedOutRow) /\ NoFault
        /\ Do(p, t, IF Won(t, copy[p][t].status) /\ ~IsLegacy(t) /\ Quota[t] # 0
                    THEN "refund" ELSE "none")
     \/ Fault /\ UNCHANGED row /\ Do(p, t, "none")
  /\ UNCHANGED <<pc, userCopy, charge, token, due, gone, atSubmission, fetched>>

-----------------------------------------------------------------------------
(* RunTaskPollingOnce after the sweep *)

\* Read the unfinished tasks; the ones without an upstream id fail in bulk,
\* without a refund, before their platform's tasks are polled.
ReadUnfinished(p) ==
  /\ pc[p] = "sweep" /\ \A t \in Tasks : work[p][t] = "none"
  /\ pc' = [pc EXCEPT ![p] = "poll"]
  /\ \/ Hold(p, GetAllUnFinishSyncTasks, "todo") /\ NoFault
     \/ Hold(p, {}, "todo") /\ Fault
  /\ UNCHANGED <<row, userCopy, charge, token, due, gone, atSubmission, fetched>>

Todo(p) == {t \in Tasks : work[p][t] = "todo"}

Set(p, S, next) ==
  work' = [work EXCEPT ![p] = [t \in Tasks |-> IF t \in S THEN next ELSE @[t]]]

Drop(p, S) ==
  /\ Set(p, S, "none")
  /\ copy' = [copy EXCEPT ![p] = [t \in Tasks |-> IF t \in S THEN NoRow ELSE @[t]]]

\* Platforms run one after the other, and so do the channels of Suno; the
\* channels of a video platform run in parallel.
Begin(p, S, k) ==
  /\ pc[p] = "poll" /\ S # {}
  /\ \A u \in Tasks : work[p][u] \in {"todo", "none"} \/ (TaskKind(u) = k /\ k # "suno")

NullTodo(p, k) == {t \in Todo(p) \cap NullIds : TaskKind(t) = k}

FailNullIds(p, k) ==
  /\ Begin(p, NullTodo(p, k), k)
  /\ Statement(TaskBulkUpdateByID(NullTodo(p, k)), UNCHANGED row)
  /\ Drop(p, NullTodo(p, k))
  /\ UNCHANGED <<pc, userCopy, charge, token, due, gone, atSubmission, fetched>>

ChannelTodo(p, c) == {t \in Todo(p) : ChannelOf[t] = c}

\* updateSunoTasks, updateVideoTasks: the channel is looked up once; when it
\* is gone, or CacheGetChannel returns any other error (without the memory
\* cache it reads the database), its tasks fail in bulk, without a refund.
FailChannel(p, c) ==
  /\ Begin(p, ChannelTodo(p, c), Kind[c]) /\ NullTodo(p, Kind[c]) = {}
  /\ \/ /\ c \in gone
        /\ Statement(TaskBulkUpdateByID(ChannelTodo(p, c)), UNCHANGED row)
     \/ /\ c \notin gone /\ Fault
        /\ TaskBulkUpdateByID(ChannelTodo(p, c)) \/ UNCHANGED row
  /\ Drop(p, ChannelTodo(p, c))
  /\ UNCHANGED <<pc, userCopy, charge, token, due, gone, atSubmission, fetched>>

OpenChannel(p, c) ==
  /\ Begin(p, ChannelTodo(p, c), Kind[c]) /\ NullTodo(p, Kind[c]) = {}
  /\ c \notin gone
  /\ Set(p, ChannelTodo(p, c), "ready")
  /\ UNCHANGED <<row, pc, copy, userCopy, charge, token, due, gone, atSubmission,
                 fetched, faults>>

\* The tasks of a channel are handled one after the other.
Turn(p, t) ==
  /\ work[p][t] = "ready"
  /\ \A u \in Tasks : ChannelOf[u] = ChannelOf[t] => NotOwed(p, u)

\* The request fails, or its answer leaves the task for the next pass: a
\* transport error, a body that does not parse, a 429, an unknown status.
NoAnswer(p, t) ==
  /\ Turn(p, t)
  /\ Do(p, t, "none")
  /\ UNCHANGED <<row, pc, userCopy, charge, token, due, gone, atSubmission,
                 fetched, faults>>

Waiting(p) == {t \in Tasks : work[p][t] \in {"todo", "ready"}}

\* ctx is cancelled: the tasks whose turn has not come are left.
Cancel(p) ==
  /\ pc[p] = "poll" /\ Waiting(p) # {}
  /\ Drop(p, Waiting(p))
  /\ UNCHANGED <<row, pc, userCopy, charge, token, due, gone, atSubmission,
                 fetched, faults>>

\* The pass returns.
EndPass(p) ==
  /\ pc[p] = "poll" /\ \A t \in Tasks : work[p][t] = "none"
  /\ pc' = [pc EXCEPT ![p] = "idle"]
  /\ UNCHANGED <<row, copy, work, userCopy, charge, token, due, gone, atSubmission,
                 fetched, faults>>

-----------------------------------------------------------------------------
(* updateVideoSingleTask *)

\* Mutant of VideoAnswer: the status is taken as the provider names it.
AnyStatusTaken == [status : {"UNKNOWN", "IN_PROGRESS"} \cup Terminal, full : BOOLEAN]

\* The task as the answer leaves it in memory.  A finished task is complete;
\* otherwise an answer may bring a progress of its own, "100%" included.
VideoAnswer == {[status |-> "IN_PROGRESS", full |-> f] : f \in BOOLEAN}
               \cup {[status |-> s, full |-> TRUE] : s \in Terminal}

VideoJob(t, new) ==
  IF new.status = "SUCCESS" THEN "settle"
  ELSE IF new.status = "FAILURE" /\ Quota[t] # 0 THEN "refund" ELSE "none"

\* Mutant of VideoBilling: the billing does not look at the update.
VideoBillingAlways(t, snap, new, won) == VideoJob(t, new)

\* Mutant of VideoBilling: a failure is refunded whoever won the update.
RefundIfFailed(t, snap, new, won) ==
  IF ~won /\ ~(new.status = "FAILURE" /\ row[t].status = "FAILURE")
    THEN "none" ELSE VideoJob(t, new)

\* The billing that remains to be done after the update: none when a change of
\* status to a terminal one was lost or failed.
VideoBilling(t, snap, new, won) ==
  IF new.status \in Terminal /\ snap.status # new.status /\ ~won
    THEN "none" ELSE VideoJob(t, new)

UpdateVideoSingleTask(p, t) ==
  /\ Turn(p, t) /\ TaskKind(t) # "suno"
  /\ \E new \in VideoAnswer :
       \/ /\ UpdateWithStatus(t, copy[p][t].status, new) /\ NoFault
          /\ Do(p, t, VideoBilling(t, copy[p][t], new, Won(t, copy[p][t].status)))
       \/ /\ Fault /\ UNCHANGED row
          /\ Do(p, t, VideoBilling(t, copy[p][t], new, FALSE))
  /\ UNCHANGED <<pc, userCopy, charge, token, due, gone, atSubmission, fetched>>

\* The refund of a failed or timed out task.
Refund(p, t) ==
  /\ work[p][t] = "refund"
  /\ RefundTaskQuota(t) /\ Do(p, t, "none")
  /\ UNCHANGED <<row, pc, userCopy, due, gone, atSubmission, fetched>>

\* The settlement of a task that succeeded.
Settle(p, t) ==
  /\ work[p][t] = "settle"
  /\ SettleTaskBillingOnComplete(t) /\ Do(p, t, "none")
  /\ UNCHANGED <<row, pc, userCopy, due, gone, atSubmission, fetched>>

-----------------------------------------------------------------------------
(* updateSunoTasks *)

\* An item of the answer: a status ("" when it has none), and a fail reason.
SunoItem == [status : {"", "IN_PROGRESS"} \cup Terminal, reason : BOOLEAN]

SunoStatus(old, item) == IF item.status # "" THEN item.status ELSE old.status

SunoFailed(old, item) == item.reason \/ SunoStatus(old, item) = "FAILURE"

SunoRow(old, item) ==
  [status |-> SunoStatus(old, item),
   full |-> old.full \/ SunoFailed(old, item) \/ item.status = "SUCCESS"]

\* A failed task is refunded first; its row is saved afterwards.
UpdateSunoTask(p, t) ==
  /\ Turn(p, t) /\ TaskKind(t) = "suno" /\ paid[t] - charge[t] <= Quota[t] + MaxOverpaid
  /\ \E item \in SunoItem :
       /\ copy' = [copy EXCEPT ![p][t] = SunoRow(copy[p][t], item)]
       /\ IF SunoFailed(copy[p][t], item) THEN RefundTaskQuota(t)
                                          ELSE UNCHANGED <<charge, token, faults>>
  /\ work' = [work EXCEPT ![p][t] = "save"]
  /\ UNCHANGED <<row, pc, userCopy, due, gone, atSubmission, fetched>>

\* task.Update: without compare-and-set; an error is only logged.
SaveSunoTask(p, t) ==
  /\ work[p][t] = "save"
  /\ Statement(Update(t, copy[p][t]), UNCHANGED row)
  /\ Do(p, t, "none")
  /\ UNCHANGED <<pc, userCopy, charge, token, due, gone, atSubmission, fetched>>

-----------------------------------------------------------------------------
(* tryRealtimeFetch: a user asks for a Gemini or Vertex task *)

FetchTask(t) ==
  /\ userCopy = NoFetch /\ fetched < MaxFetches
  /\ row[t].status # "none" /\ TaskKind(t) = "gemini" /\ ChannelOf[t] \notin gone
  /\ fetched' = fetched + 1
  /\ userCopy' = [task |-> t, row |-> row[t]]
  /\ UNCHANGED <<row, pc, copy, work, charge, token, due, gone, atSubmission, faults>>

\* The answer is written by compare-and-set, whatever the status was, and
\* nothing is billed.  An error ends the fetch; its result is ignored.
FinishFetch ==
  /\ userCopy # NoFetch
  /\ userCopy' = NoFetch
  /\ \/ \E new \in VideoAnswer :
          Statement(UpdateWithStatus(userCopy.task, userCopy.row.status, new), UNCHANGED row)
     \/ UNCHANGED <<row, faults>>
  /\ UNCHANGED <<pc, copy, work, charge, token, due, gone, atSubmission, fetched>>

-----------------------------------------------------------------------------
PassStep(p) ==
  \/ ReadUnfinished(p)
  \/ \E k \in {"suno", "gemini", "video"} : FailNullIds(p, k)
  \/ \E c \in Channels : FailChannel(p, c) \/ OpenChannel(p, c)
  \/ \E t \in Tasks : \/ SweepTask(p, t)
                      \/ NoAnswer(p, t)
                      \/ UpdateVideoSingleTask(p, t)
                      \/ UpdateSunoTask(p, t)
                      \/ SaveSunoTask(p, t)
                      \/ Refund(p, t)
                      \/ Settle(p, t)
  \/ EndPass(p)

Next ==
  \/ \E t \in Tasks : Submit(t) \/ TimeOut(t) \/ FetchTask(t)
  \/ \E c \in Channels : DeleteChannel(c)
  \/ \E p \in Passes : StartPass(p) \/ PassStep(p) \/ Cancel(p) \/ Crash(p)
  \/ FinishFetch

Spec == Init /\ [][Next]_vars

-----------------------------------------------------------------------------
(* Properties *)

VideoTasks == {t \in Tasks : TaskKind(t) = "video"}

\* A video task is paid back its row's quota at most once, by the funding and
\* by the token, however passes, sweeps, crashes and database errors
\* interleave: the refund and the settlement of updateVideoSingleTask and of
\* sweepTimedOutTasks follow a compare-and-set that only one of them wins.
\* When SettleBilling worked at the submission that is what was charged;
\* when its error was only logged it may be more.
VideoRefundedOnce ==
  \A t \in VideoTasks : /\ paid[t] - charge[t] <= Quota[t]
                        /\ tokenPaid[t] - token[t] <= Quota[t]

\* A video task that was paid back its quota is a task its user sees as failed:
\* a sweep or a stale pass never refunds a task whose success was recorded.
VideoRefundMeansFailure ==
  \A t \in VideoTasks \cap submitted :
    paid[t] - charge[t] = Quota[t] /\ Quota[t] # 0 => row[t].status = "FAILURE"

\* A pass gives t up without having asked for it: the lookup of its channel
\* failed, or it has no upstream id.
GivenUp(t) == /\ \E p \in Passes : work[p][t] = "todo" /\ work'[p][t] = "none"
              /\ ChannelOf[t] \in gone \/ t \in NullIds \/ faults' > faults

\* A terminal status of a video task is final; only the bulk update of a pass
\* that cannot look up the channel, because it is gone or the lookup failed, or
\* finds no upstream id, may turn it to FAILURE.
VideoTerminalFinal ==
  [][\A t \in VideoTasks :
       row[t].status \in Terminal =>
         row'[t].status = row[t].status \/ (row'[t].status = "FAILURE" /\ GivenUp(t))]_vars

-----------------------------------------------------------------------------
(* The inductive invariant behind the properties of video tasks *)

\* What a pass is about to sweep or to ask for was unfinished when it was read.
CopiesUnfinished ==
  \A p \in Passes, t \in Tasks :
    work[p][t] \in {"sweep", "todo", "ready"} => copy[p][t].status \in Unfinished

\* Only submitted tasks have a row, and only they are worked on.
OnlySubmitted ==
  /\ \A t \in Tasks : row[t].status # "none" => t \in submitted
  /\ \A p \in Passes, t \in Tasks : work[p][t] # "none" => t \in submitted

Billing == {"refund", "settle"}

Charged(t) == charge[t] = paid[t] /\ token[t] = tokenPaid[t]

\* Until a video task is terminal it is charged what its submission took; one
\* pass at most owes its refund or settlement, and then nothing was paid back.
VideoInv(t) ==
  /\ row[t].status \notin Terminal => Charged(t)
  /\ \A p \in Passes : work[p][t] # "save"
  /\ \A p \in Passes : work[p][t] \in Billing =>
       row[t].status \in Terminal /\ Charged(t)
  /\ \A p \in Passes : work[p][t] = "refund" => row[t].status = "FAILURE"
  /\ \A p, q \in Passes : work[p][t] \in Billing /\ work[q][t] \in Billing => p = q
  /\ paid[t] - charge[t] <= Quota[t] /\ tokenPaid[t] - token[t] <= Quota[t]
  /\ paid[t] - charge[t] = Quota[t] /\ Quota[t] # 0 => row[t].status = "FAILURE"

\* A realtime fetch is of a submitted Gemini or Vertex task.
FetchesGemini ==
  userCopy # NoFetch => /\ userCopy.task \in submitted
                        /\ TaskKind(userCopy.task) = "gemini"

IInv == /\ TypeOK /\ CopiesUnfinished /\ OnlySubmitted /\ FetchesGemini
        /\ \A t \in VideoTasks : VideoInv(t)

=============================================================================
