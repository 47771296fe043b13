# Formal model of AronaApi

AronaApi is an LLM gateway written in Go (a fork of new-api), with a web console in TypeScript.
Users hold a wallet, API tokens and subscriptions. A request is authenticated, priced,
pre-charged, relayed to a provider channel and settled by actual usage. Several nodes may share
one database. The project models the parts where money, exclusivity or a user's text moves in
several steps that other actors can interrupt.

| Module | Models | Proofs | Run |
|---|---|---|---|
| `BillingSession` | `service/billing_session.go`, `funding_source.go`, `billing.go`, and what `controller/relay.go`, `service/quota.go`, `violation_fee.go` and `model/subscription.go` do to a session | `BillingSessionProofs` | `billing_session`, `refund_idempotent`, `fee_after_refund` |
| `SystemTask` | `model/system_task.go`, `service/system_task.go`, `controller/system_task_handlers.go` | `SystemTaskProofs` | `system_task`, `expired_lease`, `scheduled_when_due` |
| `AsyncTask` | `service/task_polling.go`, `task_billing.go`, `model/task.go`, the realtime fetch of `relay/relay_task.go` | `AsyncTaskProofs` | `async_task` |
| `QuotaLedger`, abstract `QuotaAccount` | the quota columns of `model/user.go` and `token.go`, `model/utils.go`, `user_cache.go`, `token_cache.go`, `common/redis.go` | `QuotaLedgerProofs` | `quota_ledger` |
| `ChannelRetry` | `service/channel_select.go`, `model/channel_cache.go`, `model/channel.go`, `middleware/distributor.go`, the retry loop of `controller/relay.go` | `ChannelRetryProofs` | `channel_retry` |
| `TopUp` | `controller/topup*.go`, `model/topup.go` | `TopUpProofs` | `topup` |
| `OrderLock` | `LockOrder` and `UnlockOrder` of `controller/topup.go` | `TopUpProofs` | proved only |
| `Redemption` | `model/redemption.go`, `controller/redemption.go` | `TopUpProofs` | proved only |
| `RateWindow`, abstract `SlidingWindow` | `common/rate-limit.go` | `TopUpProofs` | proved only |
| `Playground` | `web/default/src/features/playground` | `PlaygroundProofs` | `playground` |
| `PricingEditor` | `tiered-pricing-editor.tsx` and the pricing sheet of `web/default` | `PricingEditorProofs` | `pricing` |

The `MC*` modules only give constants their values for TLC and define symmetries. Run `tlc
-config billing_session.cfg MCBillingSession`, and so on for each `.cfg`; `tlapm
BillingSessionProofs.tla`, and so on, checks the proofs. `PROJECT.json` maps every definition
to the lines it models.

## Inventory

**Billing session** (`service/billing_session.go`, modelled). One `BillingSession` per request:
amounts pre-consumed from the funding source and from the token, an extra reserve, and the
flags trusted, fundingSettled, settled and refunded. Operations: `NewBillingSession` (choice of
wallet or subscription by preference, with fallbacks), `Reserve`, `Settle`, `Refund` (a
goroutine of its own). It calls the quota columns of `users` and `tokens` and the subscription
transactions. Hard: every step is a separate call that may fail; other requests of the user run
in between; the refund runs beside the violation fee. Correct when a finished request has paid
what it owes, once, from both its source and its token.

**Request handlers** (`controller/relay.go`, partly). `Relay`, `Playground`, `RelayTask`: they
create the session, settle it on success, and refund and perhaps fine on failure. `RelayTask`
retries a failed pre-consumption. The upstream retry loop is in `ChannelRetry`.

**Subscription storage** (`model/subscription.go`, partly, in `BillingSession`). Rows with
`amount_used`, `amount_total`, reset and end times; pre-consume records by request id. Correct
when use stays within the total and a refund happens once. Hard: a transaction reads the row and
saves a whole one later, with no lock that its database driver would honour.

**System tasks** (modelled). Rows of `system_tasks` with a unique `active_key`, one lock row
per type in `system_task_locks` with a lease. Master nodes run a loop: expire stale locks,
schedule due tasks, claim pending ones; a claimed task runs in a goroutine with a lease
heartbeat; API requests enqueue tasks. Hard: several nodes, crashes, stalls past the lease,
late finishes. Correct when a type has one active row, a task one executor, and an unexpired
lease excludes everyone else.

**Asynchronous tasks** (modelled). A row per Suno or video task. Polling passes, a timeout
sweep and user fetches move it to its end and refund or recalculate its quota. A pass is a run
of a system task; since a lease can expire under a running handler, passes overlap. Hard:
several movers, compare-and-set on one path and plain saves on another, a crash between the
transition and the refund. Correct when a task is paid back at most once, and only if it
failed.

**Quota storage** (partly). The same quota lives in the database, in the batch deltas of each
node and in Redis. Hard: deltas written later, asynchronous cache refills crossing increments,
crashes. Correct when the database plus pending deltas accounts for every call, once, and the
cache converges.

**Channel selection, retry and disabling** (partly). Auto groups, priorities, a retry counter
that is reset at a group switch, a memory cache that is rebuilt from tables read without a
lock, status updates from failing requests, administrators and the channel test. Correct when
attempts are bounded, every group gets its chance, a request is settled with the ratio of a
group it tried, and the cache converges to the tables.

**Top-ups and redemption codes** (partly). Orders go from pending to success once, whatever
number of webhooks, manual completions and expiries race; a lock per order and process, row
locks in some handlers. A code is granted once, by a conditional update, while administrators
edit and delete its row.

**Rate limits** (partly). A queue of the latest admissions per key, and a goroutine that
deletes unused keys.

**Web playground** (modelled). The conversation, the request behind its last message, chunks
that wait for a flush timer, a debounced copy in `localStorage`. Every handler writes to
whatever message is last at the time. Correct when a reply shows its own answer, whole, no
message waits for ever, and the stored copy follows.

**Tiered pricing editor** (modelled). A billing expression as a form and as text, kept in
agreement by React effects. Correct when what was written is what is saved and charged.

Components call each other as follows: a request opens a `BillingSession`, selects channels by
`ChannelRetry`, and changes quotas through `QuotaLedger`; an asynchronous request leaves a row
to `AsyncTask`, whose passes are `SystemTask` runs; `TopUp` holds an `OrderLock` while it
credits. The interfaces are narrow: a module assumes of its neighbour the property its
neighbour is checked or proved to have (`TopUp`: the lock excludes; `BillingSession`: a quota
change is one atomic addition; `AsyncTask`: passes may overlap, which `expired_lease` shows to
be possible).

## BillingSession

State. `wallet`, `token`, `subUsed`, `subActive` and `record` are the rows; one user, one token
and one subscription row shared by all `Requests`. The session's fields keep their Go names and
become functions on requests; `consumed` is `WalletFunding.consumed` or
`SubscriptionFunding.preConsumed`. `pc` is the call the handler makes next, `bg` the call the
refund goroutine makes next. `paid`, `tokPaid` and `failed` are history: what was really
debited on behalf of a request, and whether one of its calls failed. `seen` and `bgSeen` are the
`amount_used` that an open transaction of the handler or of the refund goroutine has read.

Actions. Each is one database call with the code around it.

| Code | Actions |
|---|---|
| `NewBillingSession`, `preConsume` | `Start`, `HasSub`, `WalletCheck`, `TokenCheck`, `TokenTake`, `WalletTake`, `SubRead`, `SubTake`, `TokenRollback`, `OverflowCheck` |
| `RelayTask` after a failed pre-consumption | `RetryTask` |
| `Reserve` | `ReserveWallet`, `ReserveRead`, `ReserveSub`, `ReserveTokenCheck`, `ReserveTokenTake`, `ReserveRollback` |
| `SettleBilling`, `Settle` | `Succeed`, `SettleFunding`, `SettleToken`; `LegacyFunding`, `LegacyToken` without a session |
| deferred function of `Relay` and `RelayTask` | `Fail`, `FeeFunding`, `FeeToken` |
| goroutine of `Refund` | `RefundWallet`, `RefundRead`, `RefundSubscription`, `RefundExtra`, `RefundToken` |
| subscription maintenance | `ResetSub`, `ExpireSub` |

A call may fail (`Fault`): it changes no row and the error path is taken. The exception is the
subscription refund, whose inner transaction may have committed when the outer one fails.

Abstractions and assumptions.
- A request is one of the `Profiles` (its kind, the billing preference, the estimate) and its
  usage is one of the `Usages`: prices are arbitrary amounts here.
- Quota columns are changed by the direct database path. The batch updater and Redis are a
  different component.
- A subscription transaction is two steps, the read of the row and the save of a whole row that
  is computed from it. The code asks for a row lock with `tx.Set("gorm:query_option", "FOR
  UPDATE")`, which gorm 1.25 (`go.mod`) ignores, so the model has no lock: transactions overlap
  and an update can be lost. The row then shows less than the requests were charged. `paid` says
  what a request was charged, so `ExactCharge` does not depend on the row, and `SubWithinTotal`
  bounds what the row shows. In a deployment whose database serialises writers (SQLite) the
  overlaps do not occur, which leaves fewer behaviours.
- A user has one subscription row; `PreConsumeUserSubscription` tries several in turn, and each
  attempt is the one modelled here.
- No caller of `Reserve` exists today; `ReserveTargets = {}` is the system as deployed. The
  passing run and the proofs cover the operation as well. The two violation runs do not use it.
- The number of retries of `RelayTask` is not bounded here; that only adds behaviours.
- Crashes of a node are not modelled in this module: nothing recovers a session.

## SystemTask

State. The columns of both tables for one task type (rows of different types never meet in a
query), `now`, and per runner the locals of its loop. `handler[r][t]` is the goroutine runner
`r` dispatched for task `t`. `lease` is history: the last `locked_until` a runner was granted.

Actions. Each is one SQL statement: `StaleList`, `StaleMark`, `StaleDelete`
(`ExpireStaleSystemTaskLocks`); `SchedRead`, `SchedCreate` (`runSystemTaskScheduler`);
`ClaimRead`, `LockCreate`, `LockRead`, `LockTake`, `ClaimMark`, `ClaimSet`, `ClaimLoad`,
`ClaimRelease` (`ClaimSystemTask`, `acquireSystemTaskLock`); `Heartbeat`, `Progress`,
`FinishSystemTask`, `FinishRelease`, `HandlerPanic` for a dispatched handler; `EnqueueRead`,
`EnqueueCreate` for an API request; `Crash`, `Tick`. A restarted node draws a new runner id, so
a crashed runner never returns.

Abstractions and assumptions. Clocks agree between nodes. Time may pass anywhere, so a claim, a
heartbeat or a finish can be late by any amount. The throttles and the wake-up channel only
decide whether a part of a pass is skipped, which is a choice here. The two reads before a
claim are one action: the second repeats the first's condition. A failed statement has changed
nothing (a commit whose answer is lost is not modelled). What handlers do between their
statements, payloads and progress percentages are left out.

## AsyncTask

State. `row` is the table (a status, and whether progress is 100 %), `copy[p]` the rows pass
`p` holds in memory, `work[p][t]` the save, refund or settlement it still owes a task, `charge`
and `token` what the task costs its user now, `paid` and `tokenPaid` (history) what its
submission took. `due` are the tasks old enough for the sweep, `gone` the channels that were
deleted.

Actions. `Submit` (the end of `RelayTask`, where an error of the settlement or of the insert is
only logged: the row has the full quota even if less was taken); `StartPass`, `SweepTask`
(`sweepTimedOutTasks`); `ReadUnfinished`, `FailNullIds`, `OpenChannel`, `FailChannel`,
`NoAnswer`, `UpdateVideoSingleTask`, `UpdateSunoTask`, `SaveSunoTask`, `Refund`, `Settle`,
`EndPass` (`RunTaskPollingOnce` and what it calls); `FetchTask`, `FinishFetch` (a user's fetch
of a Gemini or Vertex task); `TimeOut`, `DeleteChannel`, `Cancel`, `Crash`. Each is one
statement or one balance adjustment.

What holds and what does not. For video tasks the compare-and-set of `UpdateWithStatus` comes
before the billing, so they are paid back their row's quota at most once (`VideoRefundedOnce`),
only if they failed (`VideoRefundMeansFailure`), and outcomes stay (`VideoTerminalFinal`),
except that the bulk update for a channel that is gone or could not be looked up
(`CacheGetChannel` returned any error) or for a missing upstream id overwrites any outcome
(`GivenUp`). The row's quota is what was charged only if the settlement at the submission
worked: after an error that was logged there, a refund pays back more than was taken. Two more
things are not promised and are hazards without a property: a Suno task is refunded before a
plain save, so overlapping passes, or a save that fails, refund it again; and the fetch of a
Gemini task records its outcome without billing it. A crash between the compare-and-set and the
billing loses the billing.

Bounds. `Workloads` are the sets of tasks submitted together. `MaxOverpaid` stops passes from
taking up a Suno task that was paid back too much, which would go on without end. The legacy
cutoff of `sweepTimedOutTasks` is the code's constant; one task was submitted before it.

## QuotaLedger

State. `db` holds four counters (quota, token quota, used quota, request count) of one user and
token; `store[n]` and `stores[n]` are node `n`'s deltas before and after `batchUpdate` has
taken them; `cache` is the quota's Redis hash and whether it has a time to live; `jobs` are the
goroutines that will change it. `lost` is history: what failed batches and crashes dropped.

Actions. `ChangeQuota`, `AddUsed`, `AddCount` are the callers; `BatchUpdate`, `TakeStore`,
`WriteToken`, `WriteUser` the updater; `Refill`, `ReadFromDB`, `LookTTL`, `SetCache`, `Expire`
the cache, in which an increment and a field write are two round trips; `Crash`. Calls are
bounded by `MaxPosts`; reads are not: a reader may refill or set a field as often as it likes,
with at most `MaxReads` such jobs under way and `MaxHashes` hashes at a time.

`QuotaAccount` is the promise: a call adds its amounts to the columns, once and whole (the used
quota together with the request count), or it fails and changes nothing; nothing but a call
changes a column. `ImplementsAccount` is that specification under the mapping *database + what
every node has recorded, taken into a batch or still owes as the second record of a call +
lost*, so that a step of the updater or of the cache must be a stutter, and the only way for
money to disappear is a failed batch or a crash (the code logs and drops it).
`EventuallyWritten` and `CacheRecovers` are liveness. `CacheRecovers` says that once the calls
are over, a hash that is there comes to hold the database's value and keeps it, although reads
go on writing it: a wrong value left by a refill that crossed an increment must be replaced or
expire. An administrator's edit, which overwrites the quota, is not a change the account
describes and is left out.

## ChannelRetry

State. `row` and `ability` are the tables, `list` and `cached` the maps of the memory cache,
`snap` what a running `InitChannelCache` has read, `lock` `channelStatusLock`, `upd` the
running `UpdateChannelStatus` of each updater, `req` the locals and context values of each
request (token group, auto group, index, retry counter, channel, the group it is priced by).
`snapshot` is the group whose ratio `ModelPriceHelper` froze before the first attempt of a request
billed by a tiered expression. `tried` and `always` are history.

Actions follow a request through the distributor, `CacheGetRandomSatisfiedChannel`, the attempt
and `shouldRetry`; an update through its cache, row and ability writes; a reload through its
read and its swap. `None`, model values and one model name abstract the data; weights choose
among channels of equal priority, which is a choice here. Multi-key channels, selection from
the database without a cache, the locked channel of `RelayTask` and edits by tag are not
modelled.

`SettledGroup` is the group whose ratio a request is settled with: `HandleGroupRatio` follows the
selection at every attempt, but a tiered expression is settled from its snapshot, so that a
request which another group answers pays by the first group's ratio. `PricedByUsedGroup` states
both cases.

`CacheConverges` holds because `SyncChannelCache` reloads for ever: a swap that brought back a
channel disabled in between is put right by the next one.

## TopUp and OrderLock

State of `TopUp`. `status` and `credited` of an order, the provider's side of it (`deal`,
`notices`), the process locks, the row locks and the handlers. `serving` and `rowLocks` are the
deployment, chosen initially: which nodes serve, and whether the database honours the `FOR
UPDATE` that the code asks for with `gorm:query_option`. gorm 1.25 does not know that option,
so deployments with `rowLocks = FALSE` are the likely ones. `CreditedAtMostOnce` says exactly
where the code's locks suffice: on one node always, because `LockOrder` excludes; on several
nodes only with row locks, and not for `EpayNotify`, which uses no transaction. A provider goes on
sending a notification until it is answered, so one payment is notified any number of times, also
to two handlers at once, Epay's included. `PaidIsCredited` has one exception, which the history
variable `unresolved` names: when Waffo Pancake's webhook cannot look up the order because the
database fails, it answers 200 as for an order that does not exist, and the payment is not
notified again (`Resolve`).

Actions: `Insert`, `Created`, `CreateFails` (the user's request), `Pay`, `Progress`, `Close`
(the provider), `Deliver`, `AdminComplete`, `Resolve` and the other parts of `Step` (the
handlers, statement by statement), `Crash`. Amounts are not modelled: an order credits one
unit.

`OrderLock` is the lock itself, for one trade number: a reference-counted mutex in a concurrent
map, deleted by its last user, which `UnlockOrder` looks up again without `createLock`.

## Redemption

State: the status of each code and whether it has expired, the transactions that passed their
checks (`redeeming`), the rows `UpdateRedemption` has read and not written back (`copies`).
`grants` and `enablings` are history. `RedeemClaim` is the conditional update with the rest of
its transaction; the row lock is left out, because the claim does not need it. An edit writes
back the status it read: when a user redeems the code in between, the code is usable again.
`OneGrantPerEnabling` counts such a write as an enabling; nothing in the code prevents it.

## RateWindow

`queue` is the limiter's store for one key, `log` the history of all admissions,
`clearExpiredItems` the goroutine that deletes an unused key. `SlidingWindow` is the promise
over the full log. The theorems need `Duration <= Expiration`, which `common/constants.go` asks
of whoever configures the limits.

## Playground

State. `messages`, the flush and save timers, `pending` chunks, the SSE source, the fetch's
controller and request id, and `stored`, the copy in `localStorage`. Each message carries as
history the request it was created for and the requests whose answers it shows. Actions are
events: clicks, timers, SSE events, the settling of a fetch, leaving and mounting the page
(cleanly or not). JavaScript runs one at a time. A text is a sequence of tokens, with the think
tags as tokens, so that `parseThinkTags`, `getAppendableChunk` (snapshots or increments) and
the size limits of the storage are modelled by what they do.

What the code does not prevent is in the model, and a history variable names it, so that the
properties say exactly where they stop.
- An editor that was opened earlier can be submitted while a reply is generated (`ApplyEdit` looks
  at nothing else), and a failed request ends the generation of another. The requests still under
  way then are `stray`: their chunks go to whatever message is last. `ReplyBelongs` allows a reply
  the answers of stray requests and no others.
- `saveMessages` only logs an error (`Write`, `MaxFailures`), and nothing closes the stream or
  aborts the fetch of a page that is unmounted: `left` are such old pages, whose first update is
  still saved over the copy (`LateChunk`, `LateSave`). Until the page's next save the copy is then
  `behind`; otherwise it follows (`StoredFollows`).
- `mergePendingStreamChunk` and `getAppendableChunk` take an increment that starts with the text
  before it (the same token twice) for a snapshot and lose that text. `TextIntact` speaks of
  scripts that can be read in one way only (`Legible`); the run has one that cannot.
- A stream may end without `[DONE]` (`CutStreams`), after which only the stop button ends the
  generation; `GenerationCanEnd` names that exception.

## PricingEditor

State. Three copies of the price: the sheet's `bill` and `rule` (what Save stores), the form
(`config`, `groups`) and the text (`raw`); `fresh` is `initRef`, `seen` what the last effects
ran for. `meant` is history: what the user last wrote. Actions are the handlers, each followed
by a render whose `Effects` all read the state it rendered. A text is a base (tiers, zero,
custom) with layers of rule factors; `splitBillingExprAndRequestRules` and `combineBillingExpr`
work on that structure, and strings, labels and the cost estimator are left out.

All texts are inputs: tiers with rules, custom expressions, rules around rules, conditions that
are written as two tests (`contains`, comparisons of a parameter), and factors without parentheses
around the tiers (`loose`). The editor loses some of them, and `lost` (history) says how, by the
names of `Losses`.
- `unread`: the editor is mounted in the visual mode on a text its form cannot show, and the
  effects write the form's price (`p * 0 + c * 0` for no configuration) to the sheet before the
  re-read shows the text; or the user switches such a text to the form.
- `dropped`: a rule of two tests entered as the first edit is re-read as no rule.
- `reverted`, `stacked`: a text or preset that changes both the base and the rule before the first
  edit. The rule reaches the sheet first, its change is re-read, and the old base comes back, with
  the rules inside it if it had any.
- `parentheses`: splitting a loose text puts its base in parentheses, which changes the price.
- `twice`: a rule of two tests, shown as text, becomes a part of the base while the sheet keeps
  the rule, and Save stores `((base) * rule) * rule`.

`WhatIsWrittenIsCharged` holds when nothing is lost; `ShownIsSaved` holds in the text mode also
after a loss, but for `parentheses`, `twice` and `stacked`. The losses are defined by what was read and written,
never by the price that results.

## Runs

| Run | Result | Shows | States |
|---|---|---|---|
| `billing_session` | pass | `ExactCharge`, `BooksMatchLedger`, `SubWithinTotal`, no deadlock | 3.7 million |
| `refund_idempotent` | violation | a retried subscription refund pays twice | |
| `fee_after_refund` | violation | the fee does not wait for the refund | |
| `system_task` | pass | `OneActiveRow`, `ExecutedOnce`, `LeaseHonoured`, `TerminalStable` | 2.3 million |
| `expired_lease` | violation | a stalled claim leaves a running row no one will find | |
| `scheduled_when_due` | violation | a scheduled task may be created again before it is due | |
| `async_task` | pass | `VideoRefundedOnce`, `VideoRefundMeansFailure`, `VideoTerminalFinal`, no deadlock | 959 thousand |
| `quota_ledger` | pass | `ImplementsAccount`, `EventuallyWritten`, `CacheRecovers` | 346 thousand |
| `channel_retry` | pass | `ListedIsEnabled`, `PricedByUsedGroup`, `AttemptsBounded`, `EveryGroupTried`, `AbilitiesFollow`, `CacheConverges` | 700 thousand |
| `topup` | pass | `CreditedAtMostOnce`, `PaidIsCredited`, no deadlock | 307 thousand |
| `playground` | pass | `ReplyBelongs`, `PendingOnlyWhileGenerating`, `TextIntact`, `StoredFollows`, `GenerationCanEnd`, no deadlock | 2.7 million |
| `pricing` | pass | `ShownIsSaved`, `WhatIsWrittenIsCharged`, `Settles`, no deadlock | 1.1 million |

Every passing run also checks its module's `TypeOK`.

Bounds of `billing_session`: two requests, because all interference goes through the shared
rows and one other request already produces it; five profiles with all four kinds and
preferences, estimates of 0 and 2 and a usage of 2, against a wallet of 2 and a token and a
subscription of 3, so that one request fits and two do not, two transactions read the same
amount, and a refund can meet a reset; `TrustQuota = 1` so that the wallet and the token are
trusted at first and not after one charge; a reserve to 3; a fee of 1; one fault anywhere.

Bounds of `system_task`: two runners, a client, two rows (a run and its successor), TTL and
interval 1 with a clock up to 4, so that a lease can expire, be taken over, and expire again;
one fault. The two violation runs of this module need no fault.

Bounds of `async_task`: two overlapping passes, the least with which one is stale; a legacy
Suno task, a Gemini task with a user's fetch, two video tasks on one channel, or one of them
without an upstream id; a quota of 2, of which 1 is pre-consumed for two of the tasks, so that a
settlement that fails leaves less taken than the row says; recalculations to 1 and to 3; two
faults, so that a save can fail and a channel disappear or a pass crash in one behaviour.

Bounds of `quota_ledger`: two nodes, one of which batches; two calls of amount 1 in either
direction, so that one meets a batch under way and an increment meets a refill; one reader, which
reads for ever, with one refresh under way and one hash at a time (the two hashes have no step in
common); one fault.

Bounds of `channel_retry`: two groups, one with a channel and one with two priorities that
shares it; one retry, so that the counter is reset between two attempts of different groups;
one updater and one update, next to the reloads; one failed write.

Bounds of `topup`: an order of each provider in turn, one or two nodes, with and without row
locks, two handlers (a notification twice at once, or one and the administrator), repeated for
ever, two faults.

Bounds of `playground`: two requests, so that an answer can meet a later message; a script of
increments with reasoning apart, one of snapshots with tags and one of the same token twice; one
failed save; limits of two stored messages and of sizes both of which a conversation of two
replies exceeds.

Bounds of `pricing`: two tiers, one condition, one rule group with one condition (one test, two
tests, or blank), two presets and eight texts: four that the form can show, a custom expression, a
rule of two tests, rules around rules and a loose text. Every handler has an input that changes
the base only, the rule only, or both, and every loss occurs.

Deadlock is not checked where the system may stop: `system_task` (all nodes may have crashed),
`quota_ledger` (calls are bounded and an idle node waits) and `channel_retry` (finished
requests and updates are not replaced).

Fairness. `quota_ledger`: weak fairness of each node's updater (a `for` loop with a sleep), of
the second record of a call, and of the goroutines that change a hash; a hash expires unless it is
written again and again. No read is ever assumed to happen. `channel_retry`:
weak fairness of the reload (`SyncChannelCache` is an endless loop) and strong fairness of an
update's steps, since they wait for `channelStatusLock`, which Go's mutex grants to every
waiter in the end. `topup`: strong fairness of a handler's steps (they wait for locks) and of
the delivery of an unacknowledged payment (Creem and Waffo Pancake send again after an error; a
delivery may find all handlers busy). `pricing`: weak fairness of `Effects`, because React runs
the effects of each render it commits. No run assumes that users act, that providers answer, or
that faults stop other than by their bound.

## What is proved

All proofs hold for any sets of requests, runners, tasks, passes, channels and threads and for
every value of the constants that satisfies the module's named assumption.

`BillingSessionProofs`: `ChargedExactly`, `BooksAgree`, `SubscriptionBounded`, `TypeCorrect`,
from `Invariance`. `ExactCharge` is not inductive: it speaks of finished requests only. The
inductive invariant adds, for each call site of a session, what its books owe to the ledger:
`OpeningInv` (nothing but the token has been taken), `TrustInv` (only the wallet path skips the
pre-consumption), `HoldingInv` (while the request is out or `Reserve` is between two calls),
`SettlingInv` (source first, token second), `FailingInv` (what the refund goroutine still has
to return, plus the fee). No lock is needed for the bound of the subscription: `SettlingInv`
has that what an open transaction read was within the total, and every save is checked against
it. An action of one request changes no field of another, so each of the step lemmas shows the
invariant of its own request and `Frame` carries the others over.

`SystemTaskProofs`: `ActiveRowUnique`, `NeverExecutedTwice`, `LeasesHonoured`, `EndedForGood`,
`TypeCorrect`, from `Invariance`. The strengthening is `LeaseInv` (an unexpired lease *is* the
lock row), `RunInv` (the runner that won a task is the one its row names, and the row is never
pending again, which is why a second claim's update matches nothing), `LocalsInv` (a pass's
clock readings are in the past, which is why a take-over conditioned on them never hits a valid
lease) and `RowsInv`.

`AsyncTaskProofs`: `VideoRefundedAtMostOnce`, `VideoRefundOnlyOnFailure`, `VideoOutcomeFinal`,
`TypeCorrect`, for any number of overlapping passes and faults. The strengthening: a pass only
holds copies of unfinished rows (`CopiesUnfinished`), which is why a compare-and-set from a
stale copy fails once the outcome is recorded; only submitted tasks have rows
(`OnlySubmitted`); users fetch Gemini tasks only (`FetchesGemini`); and `VideoInv`: of all
passes at most one owes a video task its billing, and until then what the submission took stands
(`Charged`), whether or not that is the row's quota.

`ChannelRetryProofs`: `ListedAreEnabled`, `PricedByGroup`, `AttemptsAreBounded`,
`AllGroupsTried`, `AbilitiesAgree`, `ChannelRetryTypeOK`. The invariant is in two parts that do
not depend on each other's steps: `SharedInv` for the tables, the lock, the lists and an update
between its writes (`StoreInv`, `LockInv`, `ListInv`, `SavedInv`, `UpdateInv`), and
`RequestsInv` for each request: `CountInv` relates attempts to the group index and the retry
counter through both places that reset it, `GroupInv` its channel to the group whose ratio
`HandleGroupRatio` set, `TriedInv` the groups before the index to those tried. `SnapshotInv`
adds that a snapshot is of the group of the first attempt's channel.

`TopUpProofs`: `CreditedOnce` and `TopUpTypeOK`, from `Invariance`. A handler *claims* an order
once it has found it pending and is going to credit it. The invariant: a handler that may
complete an order holds its process lock (`LockInv`), a transaction past its read holds the row
lock if there are row locks (`RowInv`), only `EpayNotify` completes without a transaction, and
when it credits the order is no longer pending (`EpayInv`), handlers work on orders that exist
and nodes that serve (`PlaceInv`), and a guarded order that is pending or claimed has not been
credited (`CreditInv`). `OneClaim` follows from the locks: on one node through `LockOrder`, on
several through the row. So whoever credits is alone, and leaves no claim behind.

`QuotaLedgerProofs`: `QuotaLedgerImplementsAccount`, the refinement of `QuotaAccount`, and
`QuotaLedgerTypeCorrect`. The mapping sums deltas over all nodes. A sum is the number of its
units on the one side less those on the other, and a unit is a pair of a node and a number up to
its delta; so what a step of one node does to a sum is a fact about the cardinality of finite
sets, and no induction over the nodes is needed. The invariant adds that the batch of a type is
empty until `batchUpdate` takes that type, so that taking it overwrites nothing (`NotTaken`),
and that no node owes more second records than there were calls (`OwedByCalls`).

`TopUpProofs` also holds the proofs about three small guards, as instances.
- `OrderLockExcludes`, `OrderLockUnlocksItsOwn`, `OrderLockLeavesNothing`, `OrderLockTypeOK`.
  The invariant: at most one goroutine is inside `createLock` (`OneCreator`), everyone between
  its count and its uncount refers to the entry of the map (`RefersToEntry`), what `UnlockOrder`
  loaded is what it locked (`FoundIsLocked`), the count is the number of those users
  (`CountIsCounting`), a mutex is held by who is past `mu.Lock` (`HolderHolds`), and the entry has
  a user (`EntryIsUsed`).
- `GrantedPerEnabling`, `GrantedOnce`, `RedemptionTypeOK`. Counting a disabled code as one that
  can still be granted makes the property inductive.
- `RateWindowTypeOK`, `WindowIsBounded` and `LimiterImplementsWindow`, the refinement of
  `SlidingWindow`. The invariant says that the queue is the end of the log and that every
  admission it lacks, but has room for, is older than the window, which is where `Duration <=
  Expiration` is needed.

`PlaygroundProofs`: `PlaygroundTypeCorrect`, `PlaygroundPending`, `PlaygroundStored`,
`PlaygroundCanEnd`, `PlaygroundReplies`, `PlaygroundTexts`, for all scripts, limits, failures and
numbers of requests, without a hypothesis on what the user does. The invariant: which connection
stands behind `isStreaming` and `isRequesting` (`Wired`), that chunks wait only for a stream and
with a timer (`Buffered`), that only the last message of the conversation, of its copy and of the
pages that were left may be pending, and in the conversation only during a generation
(`Conversed`). `Answered` adds that a request which can still answer is stray, or the last message
is its reply, on the page and on every page that was left. That a part of the conversation which
is kept by size exists at all takes the least element of a set of numbers (`LeastNumber`, by
well-foundedness).

For `PlaygroundTexts`, `Reading(chunks, kind, i, j)` is what the chunks behind the i-th say up to
the j-th; `MergeReadsOn` shows that `mergePendingStreamChunk` turns the reading up to j into that
up to j + 1, `FlushReadsOn` that `getAppendableChunk` joins what is shown, the reading up to i,
with what is held, that from i to j, both for chunks that are `Legible`. The readings are computed
by induction over the chunks (`UpTo`, from the least counterexample). The invariant `Told`: a
reply into which no other request's chunks went shows the reading up to some chunk and the rest is
held (`ReadsOn`), the reply of the open stream is pending (`Growing`), and replies whose stream is
done are right (`Shown`), in the conversation, in the copy and on the pages that were left.

`PricingEditorProofs`: `EditorTypeCorrect`, `EditorShownIsSaved`, `EditorCharges`, for any prices,
multipliers and bounds and for all texts, conditions and presets; the module assumes only that
texts are texts (`IsText`) and that the form can show the presets, as it can those of the code.
Reading undoes writing: for a factor and for a rule, where what a recursive definition computes is
shown by a least counterexample (`UpTo`, `FactorAgain`, `RuleAgain`), for tiers (`BaseAgain`) and
for the text that joins them (`SplitCombined`). The invariant: the form is what was read from the
sheet when the editor is mounted (`OnMount`), a name is edited at rest (`OnRename`), the sheet has
the rule of the text in the text mode, but for losses (`RuleOfText`, `Fits`, `UnreadInText`), the
first edit can be read back if nothing of it is lost (`FirstEdit`), what is re-read then is what
the form or text already says (`RereadsTheSame`), and what the effects are going to write is what
was meant (`MeantIsWritten`).

Checked by TLC only: absence of deadlock, the four violations, liveness (`EventuallyWritten`,
`CacheRecovers`, `CacheConverges`, `PaidIsCredited`, `Settles`), which is out of the prover's
reach. `OrderLock`, `Redemption` and `RateWindow` have no run of their own: their theorems cover
every instance.

## Not modelled

- Midjourney tasks: a copy of the asynchronous tasks' code without a compare-and-set; nothing
  new to show.
- Realtime billing (`relay_realtime.go`): turns charged as they end. Its goroutines share usage
  counters; a module of its own, for later.
- Subscription orders and purchases by balance; plans, groups raised and lowered with
  subscriptions, record cleanup.
- The Redis rate limits, the token bucket of model requests, the counter of verification mails.
- Secure verification and the channel key; upstream model updates; multi-key channels.
- Pricing and tiered billing expressions in Go: floating point over configuration. Their result
  is an arbitrary quota in `BillingSession`.
- Provider adaptors and format conversion: stateless. Accounts, OAuth, passkeys, authorization,
  options: rows and external services. Logs, rankings, metrics and the instance registry:
  nothing reads them back.
- The rest of the two web consoles (forms, tables, charts) and the desktop shell.
- `service/pre_consume_quota.go` and `controller/task_video.go` are older copies that nothing
  calls.

## Plan

1. `RealtimeBilling`: turns charged on the way against the final settlement.
2. `Subscription`: several rows per user, resets and expiry with group changes, orders, record
   cleanup against late refunds.
3. For `SystemTask`: a valid run marked failed from a stale snapshot; multi-key channels in
   `ChannelRetry`.
