--------------------------- MODULE BillingSession ---------------------------
(***************************************************************************)
(* The life of billed requests: service/billing_session.go and             *)
(* service/funding_source.go, driven the way controller/relay.go drives    *)
(* them.  Several requests of one user run concurrently over one wallet,   *)
(* one API token and one subscription row.                                 *)
(*                                                                         *)
(* Each action is one database call together with the in-memory code       *)
(* around it, so any other request may run between two calls of the same   *)
(* session.  A call may also fail (a "fault"): a failed call changes no    *)
(* row, and the code takes its error path.  A subscription transaction is  *)
(* two steps, the read of the row and the Save of the whole row: the FOR   *)
(* UPDATE it asks for by tx.Set("gorm:query_option") is one that gorm v2   *)
(* (go.mod) ignores, so transactions overlap and overwrite each other.     *)
(***************************************************************************)
EXTENDS Integers

CONSTANTS
  Requests,             \* requests of the user; a request has one RequestId
  Profiles,             \* what requests are: kind, billing preference, estimated quota
  Usages,               \* the quotas of the usage the upstream reports
  ReserveTargets,       \* targets of Reserve; {} when nothing calls it
  Fees,                 \* violation fees that may be due on a failed request
  InitWallet,           \* users.quota at the start
  InitToken,            \* tokens.remain_quota at the start
  TokenUnlimited,       \* tokens.unlimited_quota
  SubTotal,             \* user_subscriptions.amount_total, 0 = unlimited
  AllowWalletOverflow,  \* user_subscriptions.allow_wallet_overflow
  TrustQuota,           \* common.GetTrustQuota()
  MaxFaults             \* bound on the database errors of a behaviour

\* relay: Relay; playground: Relay without a stored token; task: RelayTask,
\* which forces the pre-consumption; free: a free model, which has no session.
AllKinds == {"relay", "playground", "task", "free"}

AllPrefs == {"subscription_only", "wallet_only", "wallet_first", "subscription_first"}

ASSUME BillingAssumption ==
  /\ Profiles \subseteq [kind : AllKinds, pref : AllPrefs, quota : Nat]
  /\ Usages \subseteq Nat
  /\ ReserveTargets \subseteq Nat
  /\ Fees \subseteq Nat \ {0}
  /\ InitWallet \in Nat /\ InitToken \in Nat
  /\ SubTotal \in Nat /\ TrustQuota \in Nat /\ MaxFaults \in Nat
  /\ TokenUnlimited \in BOOLEAN /\ AllowWalletOverflow \in BOOLEAN

VARIABLES
  \* rows shared by all requests
  wallet,               \* users.quota
  token,                \* tokens.remain_quota
  subUsed,              \* user_subscriptions.amount_used
  subActive,            \* status = "active" and end_time > now
  record,               \* status of the SubscriptionPreConsumeRecord of a request
  \* the request and its handler goroutine
  pc,                   \* the call the handler makes next
  seen,                 \* amount_used as its open transaction read it, or NotRead
  req,                  \* kind, preference, estimate, token trusted at login
  actual,               \* quota of the usage the upstream reported
  amt,                  \* increment of the Reserve under way, or fee due
  \* fields of BillingSession and of its FundingSource
  source,               \* funding.Source()
  trusted,
  preConsumedQuota,
  tokenConsumed,
  consumed,             \* WalletFunding.consumed / SubscriptionFunding.preConsumed
  extraReserved,
  fundingSettled,
  settled,
  refunded,
  \* the goroutine Refund starts
  bg,                   \* the call it makes next
  bgSeen,               \* amount_used as its open transaction read it, or NotRead
  attempts,             \* failed attempts of refundWithRetry
  \* history
  paid,                 \* net amount debited from funding sources per request
  tokPaid,              \* net amount debited from the token per request
  failed,               \* a database call of the request failed
  faults                \* number of failed calls so far

funds    == <<wallet, subUsed, paid>>
tokens   == <<token, tokPaid>>
inputs   == <<req, actual, amt>>
books    == <<preConsumedQuota, tokenConsumed, consumed, extraReserved>>
flags    == <<trusted, fundingSettled, settled, refunded>>
handler  == <<pc, seen>>
refund   == <<bg, bgSeen, attempts>>
faultLog == <<failed, faults>>
vars == <<funds, tokens, inputs, books, flags, refund, faultLog,
          source, handler, record, subActive>>

NotRead == -1

Sources == {"none", "wallet", "subscription"}

Labels == {"idle", "has_sub", "wallet_check", "token_check", "token_take",
           "fund_take", "rollback_short", "rollback_error", "overflow_check",
           "relaying", "reserve_fund", "reserve_check", "reserve_take", "reserve_rollback",
           "settle_fund", "settle_token", "legacy_fund", "legacy_token",
           "fee_fund", "fee_token", "rejected", "served", "failed"}

RefundLabels == {"none", "fund", "extra", "token", "done"}

RequestType == [kind : AllKinds, pref : AllPrefs, quota : Nat, tokenTrusted : BOOLEAN]

RowsType ==
  /\ wallet \in Int /\ token \in Int
  /\ subUsed \in Nat /\ subActive \in BOOLEAN
  /\ record \in [Requests -> {"none", "consumed", "refunded"}]

HandlerType ==
  /\ pc \in [Requests -> Labels] /\ seen \in [Requests -> Nat \cup {NotRead}]
  /\ req \in [Requests -> RequestType]
  /\ actual \in [Requests -> Nat] /\ amt \in [Requests -> Nat]

SessionType ==
  /\ source \in [Requests -> Sources]
  /\ preConsumedQuota \in [Requests -> Nat]
  /\ tokenConsumed \in [Requests -> Nat]
  /\ consumed \in [Requests -> Nat]
  /\ extraReserved \in [Requests -> Nat]

FlagsType ==
  /\ trusted \in [Requests -> BOOLEAN]
  /\ fundingSettled \in [Requests -> BOOLEAN]
  /\ settled \in [Requests -> BOOLEAN]
  /\ refunded \in [Requests -> BOOLEAN]

RefundType ==
  /\ bg \in [Requests -> RefundLabels] /\ bgSeen \in [Requests -> Nat \cup {NotRead}]
  /\ attempts \in [Requests -> 0..2]

LedgerType == paid \in [Requests -> Int] /\ tokPaid \in [Requests -> Int]

FaultType == failed \in [Requests -> BOOLEAN] /\ faults \in 0..MaxFaults

TypeOK ==
  /\ RowsType /\ HandlerType /\ SessionType /\ FlagsType /\ RefundType
  /\ LedgerType /\ FaultType

Init ==
  /\ wallet = InitWallet /\ token = InitToken
  /\ subUsed = 0 /\ subActive = TRUE
  /\ record = [r \in Requests |-> "none"]
  /\ pc = [r \in Requests |-> "idle"] /\ seen = [r \in Requests |-> NotRead]
  /\ req = [r \in Requests |-> [kind |-> "relay", pref |-> "wallet_only",
                                quota |-> 0, tokenTrusted |-> FALSE]]
  /\ actual = [r \in Requests |-> 0] /\ amt = [r \in Requests |-> 0]
  /\ source = [r \in Requests |-> "none"]
  /\ trusted = [r \in Requests |-> FALSE]
  /\ preConsumedQuota = [r \in Requests |-> 0]
  /\ tokenConsumed = [r \in Requests |-> 0]
  /\ consumed = [r \in Requests |-> 0]
  /\ extraReserved = [r \in Requests |-> 0]
  /\ fundingSettled = [r \in Requests |-> FALSE]
  /\ settled = [r \in Requests |-> FALSE]
  /\ refunded = [r \in Requests |-> FALSE]
  /\ bg = [r \in Requests |-> "none"] /\ bgSeen = [r \in Requests |-> NotRead]
  /\ attempts = [r \in Requests |-> 0]
  /\ paid = [r \in Requests |-> 0] /\ tokPaid = [r \in Requests |-> 0]
  /\ failed = [r \in Requests |-> FALSE] /\ faults = 0

-----------------------------------------------------------------------------
(* Database calls.                                                         *)

\* The next call; a transaction that was open has ended.
Goto(r, label) ==
  pc' = [pc EXCEPT ![r] = label] /\ seen' = [seen EXCEPT ![r] = NotRead]

RefundGoto(r, label) ==
  bg' = [bg EXCEPT ![r] = label] /\ bgSeen' = [bgSeen EXCEPT ![r] = NotRead]

NoFault == UNCHANGED faultLog

\* The call returns an error and leaves every row as it was.
Fault(r) ==
  /\ faults < MaxFaults
  /\ faults' = faults + 1
  /\ failed' = [failed EXCEPT ![r] = TRUE]

Playground(r) == req[r].kind = "playground"

\* DecreaseUserQuota (n > 0) and IncreaseUserQuota (n < 0).
WalletDelta(r, n) ==
  /\ wallet' = wallet - n
  /\ paid' = [paid EXCEPT ![r] = @ + n]
  /\ UNCHANGED subUsed

\* DecreaseTokenQuota (n > 0) and IncreaseTokenQuota (n < 0).
TokenDelta(r, n) ==
  /\ token' = token - n
  /\ tokPaid' = [tokPaid EXCEPT ![r] = @ + n]

\* Mutant of ClampZero: the refund after a reset is not clamped.
ClampZeroDropped(n) == n

ClampZero(n) == IF n < 0 THEN 0 ELSE n

\* Mutant of SubFits: the amount in use is compared, not the amount after the step.
SubFitsBefore(used, n) == SubTotal > 0 => ClampZero(used) <= SubTotal

SubFits(used, n) == SubTotal > 0 => ClampZero(used + n) <= SubTotal

\* A transaction of the handler reads the subscription's row.
SubRead(r) ==
  /\ source[r] = "subscription" /\ seen[r] = NotRead
  /\ \/ pc[r] = "fund_take" /\ subActive
     \/ pc[r] \in {"reserve_rollback", "settle_fund", "fee_fund"}
  /\ seen' = [seen EXCEPT ![r] = subUsed]
  /\ UNCHANGED <<funds, tokens, inputs, books, flags, refund, faultLog, source, pc,
                 record, subActive>>

\* It saves the row with the amount it computed from what it read, and commits
\* (PostConsumeUserSubscriptionDelta, PreConsumeUserSubscription).
PostConsumeUserSubscriptionDelta(r, used, n) ==
  /\ used # NotRead /\ SubFits(used, n)
  /\ subUsed' = ClampZero(used + n)
  /\ paid' = [paid EXCEPT ![r] = @ + n]
  /\ UNCHANGED wallet

\* Adjusting whichever source funds the request; a request without a session
\* (BillingSource = "") is charged to the wallet.
FundingDelta(r, n) ==
  IF source[r] = "subscription" THEN PostConsumeUserSubscriptionDelta(r, seen[r], n)
                                ELSE WalletDelta(r, n)

\* The subscription refuses the adjustment: "subscription used exceeds total".
FundingRefuses(r, n) ==
  source[r] = "subscription" /\ seen[r] # NotRead /\ ~SubFits(seen[r], n)

-----------------------------------------------------------------------------
(* NewBillingSession: choice of the source, pre-consumption, rollback.     *)

\* A fresh BillingSession over the given source.
Attempt(r, src) ==
  /\ source' = [source EXCEPT ![r] = src]
  /\ tokenConsumed' = [tokenConsumed EXCEPT ![r] = 0]
  /\ Goto(r, IF src = "wallet" THEN "wallet_check" ELSE "token_check")
  /\ UNCHANGED <<preConsumedQuota, consumed, extraReserved>>

\* The request fails before it has a session; the discarded session's fields
\* are gone with it.
Reject(r) ==
  /\ source' = [source EXCEPT ![r] = "none"]
  /\ tokenConsumed' = [tokenConsumed EXCEPT ![r] = 0]
  /\ Goto(r, "rejected")
  /\ UNCHANGED <<preConsumedQuota, consumed, extraReserved>>

\* What trySubscription and tryWallet ask preConsume for.
AskedQuota(r) ==
  IF source[r] = "subscription" /\ req[r].quota <= 0 THEN 1 ELSE req[r].quota

EffectiveQuota(r) == IF trusted[r] THEN 0 ELSE AskedQuota(r)

\* The switch of NewBillingSession on the billing preference.
ChooseSource(r, pref) ==
  \/ pref = "subscription_only" /\ Attempt(r, "subscription")
  \/ pref \in {"wallet_only", "wallet_first"} /\ Attempt(r, "wallet")
  \/ pref = "subscription_first" /\ Goto(r, "has_sub") /\ UNCHANGED <<source, books>>

\* ValidateUserToken lets an exhausted token in no more.
TokenAccepted(kind) == kind = "playground" \/ TokenUnlimited \/ token > 0

\* What shouldTrust will find in the context: SetupContextForToken stores the
\* token's quota at login.
TrustedAtLogin(kind) == kind # "playground" /\ (TokenUnlimited \/ token > TrustQuota)

\* Authentication, pricing, and the choice of the source.  A free model skips
\* PreConsumeBilling.
Start(r, kind, pref, quota) ==
  /\ pc[r] = "idle"
  /\ TokenAccepted(kind)
  /\ req' = [req EXCEPT ![r] =
       [kind |-> kind, pref |-> pref, quota |-> IF kind = "free" THEN 0 ELSE quota,
        tokenTrusted |-> TrustedAtLogin(kind)]]
  /\ \/ kind = "free" /\ Goto(r, "relaying") /\ UNCHANGED <<source, books>>
     \/ kind # "free" /\ ChooseSource(r, pref)
  /\ UNCHANGED <<funds, tokens, actual, amt, flags, refund, faultLog, record, subActive>>

\* RelayTask takes a failed pre-consumption for a failure of the channel and may
\* submit again, with a new session under the same RequestId.
RetryTask(r) ==
  /\ pc[r] = "rejected" /\ req[r].kind = "task"
  /\ ChooseSource(r, req[r].pref)
  /\ UNCHANGED <<funds, tokens, inputs, flags, refund, faultLog, record, subActive>>

\* HasActiveUserSubscription.
HasSub(r) ==
  /\ pc[r] = "has_sub"
  /\ \/ NoFault /\ Attempt(r, IF subActive THEN "subscription" ELSE "wallet")
     \/ Fault(r) /\ Reject(r)
  /\ UNCHANGED <<funds, tokens, inputs, flags, refund, record, subActive>>

\* shouldTrust, on the wallet balance just read and on the token quota read at login.
ShouldTrust(r) ==
  /\ req[r].kind # "task"
  /\ TrustQuota > 0
  /\ req[r].tokenTrusted
  /\ wallet > TrustQuota

\* GetUserQuota and the checks of tryWallet.
WalletCheck(r) ==
  /\ pc[r] = "wallet_check"
  /\ \/ /\ wallet > 0 /\ wallet - req[r].quota >= 0
        /\ trusted' = [trusted EXCEPT ![r] = ShouldTrust(r)]
        /\ Goto(r, "token_check") /\ NoFault
        /\ UNCHANGED <<source, books>>
     \/ /\ wallet <= 0 \/ wallet - req[r].quota < 0
        /\ IF req[r].pref = "wallet_first" THEN Attempt(r, "subscription") ELSE Reject(r)
        /\ NoFault /\ UNCHANGED trusted
     \/ Fault(r) /\ Reject(r) /\ UNCHANGED trusted
  /\ UNCHANGED <<funds, tokens, inputs, fundingSettled, settled, refunded, refund,
                 record, subActive>>

\* The first half of PreConsumeTokenQuota: the token is read and compared.
TokenCheck(r) ==
  /\ pc[r] = "token_check"
  /\ \/ /\ EffectiveQuota(r) = 0 \/ Playground(r)
        /\ tokenConsumed' = [tokenConsumed EXCEPT ![r] = EffectiveQuota(r)]
        /\ Goto(r, "fund_take") /\ NoFault
        /\ UNCHANGED <<source, preConsumedQuota, consumed, extraReserved>>
     \/ /\ EffectiveQuota(r) > 0 /\ ~Playground(r)
        /\ \/ /\ TokenUnlimited \/ token >= EffectiveQuota(r)
              /\ Goto(r, "token_take") /\ NoFault /\ UNCHANGED <<source, books>>
           \/ /\ ~TokenUnlimited /\ token < EffectiveQuota(r)
              /\ Reject(r) /\ NoFault
           \/ Fault(r) /\ Reject(r)
  /\ UNCHANGED <<funds, tokens, inputs, flags, refund, record, subActive>>

\* The second half: DecreaseTokenQuota.
TokenTake(r) ==
  /\ pc[r] = "token_take"
  /\ \/ /\ TokenDelta(r, EffectiveQuota(r)) /\ NoFault
        /\ tokenConsumed' = [tokenConsumed EXCEPT ![r] = EffectiveQuota(r)]
        /\ Goto(r, "fund_take")
        /\ UNCHANGED <<source, preConsumedQuota, consumed, extraReserved>>
     \/ Fault(r) /\ Reject(r) /\ UNCHANGED tokens
  /\ UNCHANGED <<funds, inputs, flags, refund, record, subActive>>

\* The session is complete: relayInfo.Billing is set and the request goes out.
PreConsumed(r) ==
  /\ consumed' = [consumed EXCEPT ![r] = EffectiveQuota(r)]
  /\ preConsumedQuota' = [preConsumedQuota EXCEPT ![r] = EffectiveQuota(r)]
  /\ Goto(r, "relaying") /\ NoFault
  /\ UNCHANGED <<tokenConsumed, extraReserved>>

\* WalletFunding.PreConsume.
WalletTake(r) ==
  /\ pc[r] = "fund_take" /\ source[r] = "wallet"
  /\ \/ /\ IF EffectiveQuota(r) <= 0 THEN UNCHANGED funds
                                     ELSE WalletDelta(r, EffectiveQuota(r))
        /\ PreConsumed(r)
     \/ /\ EffectiveQuota(r) > 0
        /\ Fault(r) /\ Goto(r, "rollback_error") /\ UNCHANGED <<funds, books>>
  /\ UNCHANGED <<tokens, inputs, source, flags, refund, record, subActive>>

\* SubscriptionFunding.PreConsume: the transaction PreConsumeUserSubscription.
SubTake(r) ==
  /\ pc[r] = "fund_take" /\ source[r] = "subscription"
  /\ \/ /\ FundingDelta(r, AskedQuota(r))
        /\ record' = [record EXCEPT ![r] = "consumed"]
        /\ PreConsumed(r)
     \/ /\ (seen[r] = NotRead /\ ~subActive) \/ FundingRefuses(r, AskedQuota(r))
        /\ Goto(r, "rollback_short") /\ NoFault
        /\ UNCHANGED <<funds, books, record>>
     \/ Fault(r) /\ Goto(r, "rollback_error") /\ UNCHANGED <<funds, books, record>>
  /\ UNCHANGED <<tokens, inputs, source, flags, refund, subActive>>

\* Where the request goes when its funding could not be pre-consumed: an empty
\* subscription may overflow into the wallet, anything else is an error.
AfterRollback(r) ==
  IF pc[r] = "rollback_short" /\ req[r].pref = "subscription_first"
  THEN /\ tokenConsumed' = [tokenConsumed EXCEPT ![r] = 0]
       /\ Goto(r, "overflow_check")
       /\ UNCHANGED <<source, preConsumedQuota, consumed, extraReserved>>
  ELSE Reject(r)

\* preConsume gives the token its quota back; an error is only logged.
TokenRollback(r) ==
  /\ pc[r] \in {"rollback_short", "rollback_error"}
  /\ IF tokenConsumed[r] > 0 /\ ~Playground(r)
     THEN \/ TokenDelta(r, -tokenConsumed[r]) /\ NoFault
          \/ UNCHANGED tokens /\ Fault(r)
     ELSE UNCHANGED tokens /\ NoFault
  /\ AfterRollback(r)
  /\ UNCHANGED <<funds, inputs, flags, refund, record, subActive>>

\* UserActiveSubscriptionsAllowWalletOverflow: only active rows can forbid it.
OverflowCheck(r) ==
  /\ pc[r] = "overflow_check"
  /\ \/ /\ NoFault
        /\ IF ~subActive \/ AllowWalletOverflow THEN Attempt(r, "wallet") ELSE Reject(r)
     \/ Fault(r) /\ Reject(r)
  /\ UNCHANGED <<funds, tokens, inputs, flags, refund, record, subActive>>

-----------------------------------------------------------------------------
(* Reserve: topping the pre-consumption up before the request is sent.     *)

\* Reserve has something to do.
CanReserve(r, target) ==
  ~settled[r] /\ ~refunded[r] /\ ~trusted[r] /\ target > preConsumedQuota[r]

\* reserveFunding on the wallet.  An error leaves the session as it was.
ReserveWallet(r, target) ==
  /\ pc[r] = "relaying" /\ source[r] = "wallet"
  /\ CanReserve(r, target)
  /\ LET delta == target - preConsumedQuota[r] IN
     \/ /\ WalletDelta(r, delta) /\ NoFault
        /\ consumed' = [consumed EXCEPT ![r] = @ + delta]
        /\ amt' = [amt EXCEPT ![r] = delta]
        /\ Goto(r, "reserve_check")
     \/ Fault(r) /\ UNCHANGED <<funds, consumed, amt, handler>>
  /\ UNCHANGED <<tokens, req, actual, source, preConsumedQuota, tokenConsumed,
                 extraReserved, flags, refund, record, subActive>>

\* reserveFunding on the subscription: the row is read, then saved.
ReserveRead(r, target) ==
  /\ pc[r] = "relaying" /\ source[r] = "subscription"
  /\ CanReserve(r, target)
  /\ amt' = [amt EXCEPT ![r] = target - preConsumedQuota[r]]
  /\ seen' = [seen EXCEPT ![r] = subUsed]
  /\ pc' = [pc EXCEPT ![r] = "reserve_fund"]
  /\ UNCHANGED <<funds, tokens, req, actual, source, books, flags, refund, faultLog,
                 record, subActive>>

ReserveSub(r) ==
  /\ pc[r] = "reserve_fund"
  /\ \/ /\ FundingDelta(r, amt[r]) /\ NoFault
        /\ Goto(r, "reserve_check") /\ UNCHANGED amt
     \/ /\ \/ FundingRefuses(r, amt[r]) /\ NoFault
           \/ Fault(r)
        /\ Goto(r, "relaying") /\ amt' = [amt EXCEPT ![r] = 0] /\ UNCHANGED funds
  /\ UNCHANGED <<tokens, req, actual, source, books, flags, refund, record, subActive>>

\* The end of a successful Reserve.
Reserved(r) ==
  /\ preConsumedQuota' = [preConsumedQuota EXCEPT ![r] = @ + amt[r]]
  /\ tokenConsumed' = [tokenConsumed EXCEPT ![r] = @ + amt[r]]
  /\ extraReserved' = [extraReserved EXCEPT ![r] = @ + amt[r]]
  /\ amt' = [amt EXCEPT ![r] = 0]
  /\ Goto(r, "relaying")
  /\ UNCHANGED consumed

\* reserveToken, first half of PreConsumeTokenQuota.
ReserveTokenCheck(r) ==
  /\ pc[r] = "reserve_check"
  /\ \/ Playground(r) /\ Reserved(r) /\ NoFault
     \/ /\ ~Playground(r)
        /\ \/ /\ NoFault
              /\ Goto(r, IF TokenUnlimited \/ token >= amt[r]
                         THEN "reserve_take" ELSE "reserve_rollback")
           \/ Fault(r) /\ Goto(r, "reserve_rollback")
        /\ UNCHANGED <<books, amt>>
  /\ UNCHANGED <<funds, tokens, req, actual, source, flags, refund, record, subActive>>

\* Second half.
ReserveTokenTake(r) ==
  /\ pc[r] = "reserve_take"
  /\ \/ TokenDelta(r, amt[r]) /\ Reserved(r) /\ NoFault
     \/ Fault(r) /\ Goto(r, "reserve_rollback") /\ UNCHANGED <<tokens, books, amt>>
  /\ UNCHANGED <<funds, req, actual, source, flags, refund, record, subActive>>

\* Mutant of ReserveRollback: the session forgets the reserve even when the wallet
\* kept it.
ReserveRollbackForgets(r) ==
  /\ pc[r] = "reserve_rollback"
  /\ \/ FundingDelta(r, -amt[r]) /\ NoFault
     \/ Fault(r) /\ UNCHANGED funds
  /\ consumed' = IF source[r] = "wallet"
                 THEN [consumed EXCEPT ![r] = @ - amt[r]] ELSE consumed
  /\ amt' = [amt EXCEPT ![r] = 0]
  /\ Goto(r, "relaying")
  /\ UNCHANGED <<tokens, req, actual, source, preConsumedQuota, tokenConsumed,
                 extraReserved, flags, refund, record, subActive>>

\* rollbackFundingReserve; an error is only logged.
ReserveRollback(r) ==
  /\ pc[r] = "reserve_rollback"
  /\ \/ /\ FundingDelta(r, -amt[r]) /\ NoFault
        /\ consumed' = IF source[r] = "wallet"
                       THEN [consumed EXCEPT ![r] = @ - amt[r]] ELSE consumed
     \/ Fault(r) /\ UNCHANGED <<funds, consumed>>
  /\ amt' = [amt EXCEPT ![r] = 0]
  /\ Goto(r, "relaying")
  /\ UNCHANGED <<tokens, req, actual, source, preConsumedQuota, tokenConsumed,
                 extraReserved, flags, refund, record, subActive>>

-----------------------------------------------------------------------------
(* The request succeeded: SettleBilling, or PostConsumeQuota when there is *)
(* no session.  Errors are logged and the request stays served.            *)

\* The upstream answered and its usage costs the given quota.
Succeed(r, quota) ==
  /\ pc[r] = "relaying"
  /\ actual' = [actual EXCEPT ![r] = quota]
  /\ \/ /\ source[r] = "none" /\ UNCHANGED settled
        /\ Goto(r, IF quota = 0 THEN "served" ELSE "legacy_fund")
     \/ /\ source[r] # "none" /\ quota = preConsumedQuota[r]
        /\ settled' = [settled EXCEPT ![r] = TRUE]
        /\ Goto(r, "served")
     \/ /\ source[r] # "none" /\ quota # preConsumedQuota[r] /\ UNCHANGED settled
        /\ Goto(r, "settle_fund")
  /\ UNCHANGED <<funds, tokens, req, amt, source, books, trusted, fundingSettled,
                 refunded, refund, faultLog, record, subActive>>

\* Mutant of SettleDelta: the settlement forgets what Reserve added.
SettleDeltaWithoutReserve(r) == actual[r] - (preConsumedQuota[r] - extraReserved[r])

SettleDelta(r) == actual[r] - preConsumedQuota[r]

\* Settle, step 1.
SettleFunding(r) ==
  /\ pc[r] = "settle_fund"
  /\ \/ /\ FundingDelta(r, SettleDelta(r)) /\ NoFault
        /\ fundingSettled' = [fundingSettled EXCEPT ![r] = TRUE]
        /\ Goto(r, "settle_token")
     \/ /\ FundingRefuses(r, SettleDelta(r)) /\ NoFault
        /\ Goto(r, "served") /\ UNCHANGED <<funds, fundingSettled>>
     \/ Fault(r) /\ Goto(r, "served") /\ UNCHANGED <<funds, fundingSettled>>
  /\ UNCHANGED <<tokens, inputs, source, books, trusted, settled, refunded, refund,
                 record, subActive>>

\* Settle, steps 2 and 3.
SettleToken(r) ==
  /\ pc[r] = "settle_token"
  /\ IF Playground(r)
     THEN UNCHANGED tokens /\ NoFault
     ELSE \/ TokenDelta(r, SettleDelta(r)) /\ NoFault
          \/ UNCHANGED tokens /\ Fault(r)
  /\ settled' = [settled EXCEPT ![r] = TRUE]
  /\ Goto(r, "served")
  /\ UNCHANGED <<funds, inputs, source, books, trusted, fundingSettled, refunded, refund,
                 record, subActive>>

\* PostConsumeQuota(n): the funding source, then the token, then `end`.
PostConsumeFunding(r, n, at, next, end) ==
  /\ pc[r] = at
  /\ \/ FundingDelta(r, n) /\ NoFault /\ Goto(r, IF Playground(r) THEN end ELSE next)
     \/ FundingRefuses(r, n) /\ NoFault /\ Goto(r, end) /\ UNCHANGED funds
     \/ Fault(r) /\ Goto(r, end) /\ UNCHANGED funds
  /\ UNCHANGED <<tokens, inputs, source, books, flags, refund, record, subActive>>

PostConsumeToken(r, n, at, end) ==
  /\ pc[r] = at
  /\ \/ TokenDelta(r, n) /\ NoFault
     \/ UNCHANGED tokens /\ Fault(r)
  /\ Goto(r, end)
  /\ UNCHANGED <<funds, inputs, source, books, flags, refund, record, subActive>>

LegacyFunding(r) == PostConsumeFunding(r, actual[r], "legacy_fund", "legacy_token", "served")
LegacyToken(r)   == PostConsumeToken(r, actual[r], "legacy_token", "served")

-----------------------------------------------------------------------------
(* The request failed: Refund, then ChargeViolationFeeIfNeeded.            *)

\* needsRefundLocked.
NeedsRefund(r) ==
  /\ ~settled[r] /\ ~refunded[r] /\ ~fundingSettled[r]
  /\ tokenConsumed[r] > 0 \/ (source[r] = "subscription" /\ consumed[r] > 0)

\* The deferred function of Relay (and of RelayTask, which knows no fee).  Refund
\* only starts its goroutine, so the fee does not wait for it.
Fail(r, fee) ==
  /\ pc[r] = "relaying"
  /\ req[r].kind = "task" => fee = 0
  /\ IF NeedsRefund(r)
     THEN /\ refunded' = [refunded EXCEPT ![r] = TRUE]
          /\ RefundGoto(r, "fund")
     ELSE UNCHANGED <<refunded, bg, bgSeen>>
  /\ amt' = [amt EXCEPT ![r] = fee]
  /\ Goto(r, IF fee = 0 THEN "failed" ELSE "fee_fund")
  /\ UNCHANGED <<funds, tokens, req, actual, source, books, trusted, fundingSettled,
                 settled, attempts, faultLog, record, subActive>>

FeeFunding(r) == PostConsumeFunding(r, amt[r], "fee_fund", "fee_token", "failed")
FeeToken(r)   == PostConsumeToken(r, amt[r], "fee_token", "failed")

\* WalletFunding.Refund: one attempt, an error is only logged.
RefundWallet(r) ==
  /\ bg[r] = "fund" /\ source[r] = "wallet"
  /\ IF consumed[r] <= 0
     THEN UNCHANGED funds /\ NoFault
     ELSE \/ WalletDelta(r, -consumed[r]) /\ NoFault
          \/ UNCHANGED funds /\ Fault(r)
  /\ RefundGoto(r, "extra")
  /\ UNCHANGED <<tokens, inputs, source, books, flags, attempts, handler, record, subActive>>

\* A transaction of the refund goroutine reads the subscription's row: that of
\* RefundSubscriptionPreConsume, or the one that returns the reserve.
RefundRead(r) ==
  /\ source[r] = "subscription" /\ bgSeen[r] = NotRead
  /\ \/ bg[r] = "fund"
     \/ bg[r] = "extra" /\ extraReserved[r] > 0
  /\ bgSeen' = [bgSeen EXCEPT ![r] = subUsed]
  /\ UNCHANGED <<funds, tokens, inputs, source, books, flags, faultLog, bg, attempts,
                 handler, record, subActive>>

\* SubscriptionFunding.Refund: one attempt of RefundSubscriptionPreConsume under
\* refundWithRetry.  The attempt adjusts the subscription in a transaction of its
\* own before it saves the record's new status, so it can fail between the two.
RefundSubscription(r) ==
  /\ bg[r] = "fund" /\ source[r] = "subscription"
  /\ \/ /\ record[r] = "consumed"
        /\ PostConsumeUserSubscriptionDelta(r, bgSeen[r], -consumed[r])
        /\ record' = [record EXCEPT ![r] = "refunded"]
        /\ RefundGoto(r, "extra")
        /\ NoFault /\ UNCHANGED attempts
     \/ /\ Fault(r)
        /\ \/ UNCHANGED funds
           \/ PostConsumeUserSubscriptionDelta(r, bgSeen[r], -consumed[r])
        /\ IF attempts[r] = 2
           THEN RefundGoto(r, "extra") /\ UNCHANGED attempts
           ELSE RefundGoto(r, "fund") /\ attempts' = [attempts EXCEPT ![r] = @ + 1]
        /\ UNCHANGED record
  /\ UNCHANGED <<tokens, inputs, source, books, flags, handler, subActive>>

\* The reserve on top of a subscription is returned separately.
RefundExtra(r) ==
  /\ bg[r] = "extra"
  /\ IF extraReserved[r] > 0 /\ source[r] = "subscription"
     THEN \/ PostConsumeUserSubscriptionDelta(r, bgSeen[r], -extraReserved[r]) /\ NoFault
          \/ UNCHANGED funds /\ Fault(r)
     ELSE UNCHANGED funds /\ NoFault
  /\ RefundGoto(r, "token")
  /\ UNCHANGED <<tokens, inputs, source, books, flags, attempts, handler, record, subActive>>

RefundToken(r) ==
  /\ bg[r] = "token"
  /\ IF tokenConsumed[r] > 0 /\ ~Playground(r)
     THEN \/ TokenDelta(r, -tokenConsumed[r]) /\ NoFault
          \/ UNCHANGED tokens /\ Fault(r)
     ELSE UNCHANGED tokens /\ NoFault
  /\ RefundGoto(r, "done")
  /\ UNCHANGED <<funds, inputs, source, books, flags, attempts, handler, record, subActive>>

-----------------------------------------------------------------------------
(* The subscription's own life: the periodic quota reset, and its end.     *)

ResetSub ==
  /\ subActive /\ subUsed > 0
  /\ subUsed' = 0
  /\ UNCHANGED <<wallet, paid, tokens, inputs, books, flags, refund, faultLog, source,
                 handler, record, subActive>>

ExpireSub ==
  /\ subActive
  /\ subActive' = FALSE
  /\ UNCHANGED <<funds, tokens, inputs, books, flags, refund, faultLog, source, handler,
                 record>>

Opening(r) ==
  \/ \E p \in Profiles : Start(r, p.kind, p.pref, p.quota)
  \/ RetryTask(r) \/ HasSub(r) \/ WalletCheck(r) \/ TokenCheck(r) \/ TokenTake(r)
  \/ WalletTake(r) \/ SubTake(r) \/ TokenRollback(r) \/ OverflowCheck(r)

Reserving(r) ==
  \/ \E target \in ReserveTargets : ReserveWallet(r, target) \/ ReserveRead(r, target)
  \/ ReserveSub(r) \/ ReserveTokenCheck(r) \/ ReserveTokenTake(r) \/ ReserveRollback(r)

Settling(r) ==
  \/ \E quota \in Usages : Succeed(r, quota)
  \/ SettleFunding(r) \/ SettleToken(r) \/ LegacyFunding(r) \/ LegacyToken(r)

Failing(r) ==
  \/ \E fee \in Fees \cup {0} : Fail(r, fee)
  \/ FeeFunding(r) \/ FeeToken(r)
  \/ RefundWallet(r) \/ RefundRead(r) \/ RefundSubscription(r) \/ RefundExtra(r) \/ RefundToken(r)

\* Both the handler and the refund goroutine of the request have ended.
Finished(r) ==
  pc[r] \in {"rejected", "served", "failed"} /\ bg[r] \in {"none", "done"}

\* Nothing is under way.  (The token may be too empty for idle requests to start.)
Quiet ==
  /\ \A r \in Requests : pc[r] = "idle" \/ Finished(r)
  /\ UNCHANGED vars

Next ==
  \/ \E r \in Requests : Opening(r) \/ SubRead(r) \/ Reserving(r) \/ Settling(r) \/ Failing(r)
  \/ ResetSub \/ ExpireSub \/ Quiet

Spec == Init /\ [][Next]_vars

-----------------------------------------------------------------------------
(* Properties.                                                             *)

TokenShare(r, n) == IF Playground(r) THEN 0 ELSE n

\* A served request whose database calls all worked has paid for its usage from
\* its funding source and from its token.  The one exception is a subscription
\* without room for the rest: Settle is refused and the pre-consumption stays.
ServedExactly(r) ==
  /\ tokPaid[r] = TokenShare(r, paid[r])
  /\ \/ paid[r] = actual[r]
     \/ /\ source[r] = "subscription" /\ ~settled[r]
        /\ preConsumedQuota[r] < actual[r] /\ paid[r] = preConsumedQuota[r]

\* A failed request has paid the fee due, if any, and nothing else.  (A full
\* subscription refuses the fee.)
FailedExactly(r) ==
  /\ tokPaid[r] = TokenShare(r, paid[r])
  /\ paid[r] = amt[r] \/ (source[r] = "subscription" /\ paid[r] = 0)

\* Settle, Refund, Reserve and the rollbacks of preConsume leave a finished request
\* charged exactly: whatever the other requests, the resets and the fallbacks
\* between sources did in between (service/billing_session.go).
ExactCharge ==
  \A r \in Requests : Finished(r) /\ ~failed[r] =>
    /\ pc[r] = "rejected" => paid[r] = 0 /\ tokPaid[r] = 0
    /\ pc[r] = "served"   => ServedExactly(r)
    /\ pc[r] = "failed"   => FailedExactly(r)

\* While a request is out, what Refund would return is what was really taken: for
\* the wallet even when a rollback of Reserve failed, for the subscription and the
\* token as long as no call failed (reserveFunding, rollbackFundingReserve).
BooksMatchLedger ==
  \A r \in Requests : pc[r] = "relaying" =>
    /\ source[r] # "subscription" => consumed[r] = paid[r]
    /\ ~failed[r] => /\ paid[r] = preConsumedQuota[r]
                     /\ source[r] = "subscription" => consumed[r] + extraReserved[r] = paid[r]
                     /\ tokPaid[r] = TokenShare(r, tokenConsumed[r])
                     /\ paid[r] > 0 => NeedsRefund(r)

\* The row never shows more used than its total, although pre-consumptions, settlements,
\* refunds and resets overlap and each saves the whole row as it computed it from a read
\* that may be stale (PostConsumeUserSubscriptionDelta, PreConsumeUserSubscription).
SubWithinTotal == SubTotal > 0 => subUsed <= SubTotal

-----------------------------------------------------------------------------
(* The inductive invariant behind ExactCharge and BooksMatchLedger: what   *)
(* each call site of a session may assume about its books.                 *)

BeforeFunding == {"idle", "has_sub", "wallet_check", "token_check", "token_take",
                  "fund_take", "rollback_short", "rollback_error", "overflow_check",
                  "rejected"}

FailLabels == {"fee_fund", "fee_token", "failed"}

\* Nothing is pre-consumed yet; the token may be.
OpeningInv(r) ==
  pc[r] \in BeforeFunding =>
    /\ preConsumedQuota[r] = 0 /\ consumed[r] = 0 /\ extraReserved[r] = 0
    /\ paid[r] = 0
    /\ ~settled[r] /\ ~fundingSettled[r] /\ ~refunded[r]
    /\ ~failed[r] => tokPaid[r] = TokenShare(r, tokenConsumed[r])
    /\ pc[r] \notin {"fund_take", "rollback_short", "rollback_error"} => tokenConsumed[r] = 0
    /\ pc[r] \in {"token_check", "token_take", "fund_take"} => source[r] # "none"
    /\ pc[r] = "token_take" => ~Playground(r)
    /\ pc[r] = "fund_take" => tokenConsumed[r] = EffectiveQuota(r)
    /\ pc[r] = "rollback_error" => failed[r]
    /\ pc[r] = "wallet_check" => source[r] = "wallet"
    /\ pc[r] = "rollback_short" => source[r] = "subscription"
    /\ pc[r] # "idle" => req[r].kind # "free"

\* Only the wallet path ever skips the pre-consumption.
TrustInv(r) ==
  \/ source[r] = "subscription" \/ req[r].kind = "task"
  \/ pc[r] \in {"idle", "has_sub", "wallet_check", "overflow_check"}
  => ~trusted[r]

\* The request is out, or Reserve is between two calls.
HoldingInv(r) ==
  pc[r] \in {"relaying", "reserve_fund", "reserve_check", "reserve_take", "reserve_rollback"} =>
    LET reserving == IF pc[r] \in {"relaying", "reserve_fund"} THEN 0 ELSE amt[r] IN
    /\ ~settled[r] /\ ~fundingSettled[r] /\ ~refunded[r]
    /\ source[r] # "subscription" => consumed[r] = paid[r] /\ consumed[r] >= reserving
    /\ source[r] = "none" => /\ req[r].kind = "free" /\ pc[r] = "relaying"
                             /\ preConsumedQuota[r] = 0 /\ tokenConsumed[r] = 0
    /\ pc[r] = "reserve_take" => ~Playground(r)
    /\ pc[r] = "reserve_fund" => source[r] = "subscription"
    /\ ~failed[r] => /\ paid[r] = preConsumedQuota[r] + reserving
                     /\ tokenConsumed[r] = preConsumedQuota[r]
                     /\ tokPaid[r] = TokenShare(r, tokenConsumed[r])
                     /\ source[r] = "subscription" =>
                          consumed[r] + extraReserved[r] = preConsumedQuota[r]

\* Settle and PostConsumeQuota adjust the source first and the token second.  What a
\* transaction read was within the total, so only a larger amount is refused.
SettlingInv(r) ==
  /\ SubTotal > 0 => seen[r] <= SubTotal
  /\ pc[r] \in {"settle_fund", "settle_token"} =>
       /\ source[r] # "none"
       /\ ~failed[r] =>
            /\ tokPaid[r] = TokenShare(r, preConsumedQuota[r])
            /\ paid[r] = IF pc[r] = "settle_fund" THEN preConsumedQuota[r] ELSE actual[r]
  /\ pc[r] = "settle_fund" => ~settled[r]
  /\ pc[r] \in {"legacy_fund", "legacy_token"} =>
       /\ source[r] = "none" /\ req[r].kind = "free"
       /\ ~failed[r] => /\ tokPaid[r] = 0
                        /\ paid[r] = IF pc[r] = "legacy_fund" THEN 0 ELSE actual[r]
  /\ pc[r] = "served" /\ ~failed[r] => ServedExactly(r)
  /\ pc[r] = "rejected" /\ ~failed[r] => paid[r] = 0 /\ tokPaid[r] = 0

\* What the refund goroutine still has to give back.
FundingDue(r) ==
  (IF bg[r] = "fund" THEN consumed[r] ELSE 0)
  + (IF bg[r] \in {"fund", "extra"} /\ source[r] = "subscription" THEN extraReserved[r] ELSE 0)

TokenDue(r) == IF bg[r] \in {"fund", "extra", "token"} THEN tokenConsumed[r] ELSE 0

\* The refund goroutine and the fee run side by side and do not disturb each other.
FailingInv(r) ==
  /\ bg[r] # "none" => pc[r] \in FailLabels /\ source[r] # "none"
  /\ pc[r] = "fee_token" => ~Playground(r)
  /\ pc[r] \in FailLabels /\ ~failed[r] =>
       LET fee == paid[r] - FundingDue(r) IN
       /\ pc[r] = "fee_fund" => fee = 0
       /\ pc[r] = "fee_token" => fee = amt[r]
       /\ pc[r] = "failed" => fee = amt[r] \/ (source[r] = "subscription" /\ fee = 0)
       /\ tokPaid[r] = TokenShare(r, TokenDue(r) + IF pc[r] = "failed" THEN fee ELSE 0)

SessionInv(r) ==
  OpeningInv(r) /\ TrustInv(r) /\ HoldingInv(r) /\ SettlingInv(r) /\ FailingInv(r)

\* The books of every session agree with what was really taken, at each of its call
\* sites (BillingSession.Settle, Refund, Reserve and preConsume).
SessionBooks == \A r \in Requests : SessionInv(r)

-----------------------------------------------------------------------------
(* What comments of the code say, and the code does not do.                *)

\* "RefundSubscriptionPreConsume is idempotent" (model/subscription.go:1250), so
\* refundWithRetry never gives back more than was taken.
RefundIdempotent ==
  \A r \in Requests : source[r] = "subscription" => paid[r] >= 0

\* "charges an additional fee after the normal flow finishes (including refund)"
\* (service/violation_fee.go:102).
FeeAfterRefund ==
  \A r \in Requests : pc[r] \in {"fee_fund", "fee_token"} => bg[r] \in {"none", "done"}
=============================================================================
