------------------------------- MODULE TopUp --------------------------------
(***************************************************************************)
(* Top-up orders: their creation, the payment providers' notifications and *)
(* the administrator's completion (controller/topup*.go, model/topup.go),  *)
(* on several nodes that share the database.                               *)
(*                                                                         *)
(* LockOrder is a lock of one process (module OrderLock shows that it      *)
(* excludes).  A step is one SQL statement or one commit.  A behaviour is  *)
(* that of one deployment: the nodes that serve, and whether the database  *)
(* honours the FOR UPDATE the transactions ask for.                        *)
(***************************************************************************)
EXTENDS Naturals, FiniteSets

CONSTANTS
  Nodes,
  Handlers,      \* goroutines that handle a notification or a completion
  Orders, Providers,
  Free,
  MaxFaults      \* bound on database errors, crashes and lost answers

ASSUME TopUpAssumption ==
  /\ Providers \subseteq {"epay", "stripe", "creem", "waffo", "pancake"}
  /\ IsFiniteSet(Nodes) /\ Free \notin Handlers
  /\ MaxFaults \in Nat

VARIABLES
  serving, rowLocks,  \* the deployment
  provider,           \* the order's payment provider
  status, credited,   \* the order's row, and what its user got for it
  deal,               \* the order at its provider
  notices,            \* notifications the provider will (still) send
  lock,               \* LockOrder
  row,                \* row locks of the database
  h,                  \* the handlers
  unresolved,         \* history: orders whose notification was acknowledged unhandled
  faults

deployment == <<serving, rowLocks>>
vars == <<deployment, provider, status, credited, deal, notices, lock, row, h,
          unresolved, faults>>

\* progress: a Waffo notification of a status that is not final.
Notice == [order : Orders, what : {"paid", "failed", "expired", "progress"}]

Idle == [pc |-> "idle"]

Busy == [pc : {"resolve", "lock", "look", "read", "save", "credit", "tx", "commit", "done"},
         node : Nodes, order : Orders,
         what : {"paid", "failed", "expired", "progress", "admin"},
         read : {"none", "pending", "success", "failed", "expired"}, ok : BOOLEAN]

TypeOK ==
  /\ serving \in SUBSET Nodes \ {{}} /\ rowLocks \in BOOLEAN
  /\ provider \in [Orders -> Providers \cup {"none"}]
  /\ status \in [Orders -> {"none", "pending", "success", "failed", "expired"}]
  /\ credited \in [Orders -> Nat]
  /\ deal \in [Orders -> {"none", "calling", "unpayable", "open", "paid", "closed"}]
  /\ notices \subseteq Notice
  /\ lock \in [Nodes -> [Orders -> Handlers \cup {Free}]]
  /\ row \in [Orders -> Handlers \cup {Free}]
  /\ h \in [Handlers -> {Idle} \cup Busy]
  /\ unresolved \subseteq Orders
  /\ faults \in 0..MaxFaults

Init ==
  /\ serving \in SUBSET Nodes \ {{}} /\ rowLocks \in BOOLEAN
  /\ provider = [o \in Orders |-> "none"]
  /\ status = [o \in Orders |-> "none"] /\ credited = [o \in Orders |-> 0]
  /\ deal = [o \in Orders |-> "none"] /\ notices = {}
  /\ lock = [n \in Nodes |-> [o \in Orders |-> Free]]
  /\ row = [o \in Orders |-> Free]
  /\ h = [x \in Handlers |-> Idle]
  /\ unresolved = {} /\ faults = 0

Fault == faults < MaxFaults /\ faults' = faults + 1

-----------------------------------------------------------------------------
(* Creating an order.  Epay's and Stripe's are inserted after the provider  *)
(* was asked, the others before.                                            *)

Insert(o, p) ==
  /\ status[o] = "none"
  /\ status' = [status EXCEPT ![o] = "pending"]
  /\ provider' = [provider EXCEPT ![o] = p]
  /\ deal' = [deal EXCEPT ![o] = IF p \in {"epay", "stripe"} THEN "open" ELSE "calling"]
  /\ UNCHANGED <<unresolved, deployment, credited, notices, lock, row, h, faults>>

Created(o) ==
  /\ deal[o] = "calling" /\ deal' = [deal EXCEPT ![o] = "open"]
  /\ UNCHANGED <<unresolved, deployment, provider, status, credited, notices, lock, row, h, faults>>

\* topUp.Update() saves the whole row, without LockOrder; Creem's stays pending.
CreateFails(o) ==
  /\ deal[o] = "calling" /\ row[o] = Free
  /\ deal' = [deal EXCEPT ![o] = "unpayable"]
  /\ status' = IF provider[o] = "creem" THEN status ELSE [status EXCEPT ![o] = "failed"]
  /\ UNCHANGED <<unresolved, deployment, provider, credited, notices, lock, row, h, faults>>

-----------------------------------------------------------------------------
(* The provider *)

Send(o, what) == notices' = notices \cup {[order |-> o, what |-> what]}

Pay(o) ==
  /\ deal[o] = "open" /\ deal' = [deal EXCEPT ![o] = "paid"] /\ Send(o, "paid")
  /\ UNCHANGED <<unresolved, deployment, provider, status, credited, lock, row, h, faults>>

\* Stripe sends expired, or failed for a delayed method; Waffo sends failed.
Close(o, what) ==
  /\ deal[o] = "open" /\ provider[o] \in {"stripe", "waffo"}
  /\ what = "expired" => provider[o] = "stripe"
  /\ deal' = [deal EXCEPT ![o] = "closed"] /\ Send(o, what)
  /\ UNCHANGED <<unresolved, deployment, provider, status, credited, lock, row, h, faults>>

Progress(o) ==
  /\ deal[o] = "open" /\ provider[o] = "waffo" /\ Send(o, "progress")
  /\ UNCHANGED <<unresolved, deployment, provider, status, credited, deal, lock, row, h, faults>>

-----------------------------------------------------------------------------
(* Handlers *)

Start(x, n, o, what, pc) ==
  /\ h[x] = Idle
  /\ h' = [h EXCEPT ![x] = [pc |-> pc, node |-> n, order |-> o, what |-> what,
                            read |-> "none", ok |-> TRUE]]

\* A notification arrives: the provider goes on sending it until it is answered, so
\* that it may be handled several times, also at the same time.  handleWaffoPayment
\* marks an unpaid order without LockOrder.
Deliver(x, n, m) ==
  /\ m \in notices
  /\ Start(x, n, m.order, m.what,
           CASE provider[m.order] = "waffo" /\ m.what # "paid" -> "tx"
             [] provider[m.order] = "pancake" -> "resolve"
             [] OTHER -> "lock")
  /\ UNCHANGED <<unresolved, deployment, provider, status, credited, deal, notices, lock, row, faults>>

\* ResolveWaffoPancakeTradeNo looks the order up.  GetTopUpByTradeNo returns nil for a
\* database error too, and the webhook answers 200 for an order it does not find.
Resolve(x) ==
  LET r == h[x] IN
  /\ r.pc = "resolve"
  /\ \/ h' = [h EXCEPT ![x].pc = "lock"] /\ UNCHANGED <<unresolved, faults>>
     \/ /\ Fault /\ h' = [h EXCEPT ![x].pc = "done"]
        /\ unresolved' = unresolved \cup {r.order}
  /\ UNCHANGED <<deployment, provider, status, credited, deal, notices, lock, row>>

\* AdminCompleteTopUp.
AdminComplete(x, n, o) ==
  /\ status[o] # "none" /\ Start(x, n, o, "admin", "lock")
  /\ UNCHANGED <<unresolved, deployment, provider, status, credited, deal, notices, lock, row, faults>>

\* What follows LockOrder: Creem looks at the status first, EpayNotify and
\* sessionAsyncPaymentFailed work without a transaction.
AfterLock(r) ==
  CASE r.what = "admin" -> "tx"
    [] r.what = "paid" /\ provider[r.order] = "creem" -> "look"
    [] r.what = "paid" /\ provider[r.order] = "epay" -> "read"
    [] r.what = "failed" -> "read"
    [] OTHER -> "tx"

\* Mutant of Lock: handlers do not wait for each other.
LockSkipped(x) ==
  /\ h[x].pc = "lock"
  /\ h' = [h EXCEPT ![x].pc = AfterLock(h[x])]
  /\ UNCHANGED <<unresolved, deployment, provider, status, credited, deal, notices, lock, row, faults>>

Lock(x) ==
  LET r == h[x] IN
  /\ r.pc = "lock" /\ lock[r.node][r.order] = Free
  /\ lock' = [lock EXCEPT ![r.node][r.order] = x]
  /\ h' = [h EXCEPT ![x].pc = AfterLock(r)]
  /\ UNCHANGED <<unresolved, deployment, provider, status, credited, deal, notices, row, faults>>

\* An order that is not pending is acknowledged, one that is not found is refused.
Look(x) ==
  LET r == h[x] IN
  /\ r.pc = "look"
  /\ \/ /\ h' = [h EXCEPT ![x].pc = IF status[r.order] = "pending" THEN "tx" ELSE "done"]
        /\ UNCHANGED faults
     \/ Fault /\ h' = [h EXCEPT ![x].pc = "done", ![x].ok = FALSE]
  /\ UNCHANGED <<unresolved, deployment, provider, status, credited, deal, notices, lock, row>>

Read(x) ==
  LET r == h[x] IN
  /\ r.pc = "read"
  /\ \/ /\ h' = [h EXCEPT ![x].pc = IF status[r.order] = "pending" THEN "save" ELSE "done"]
        /\ UNCHANGED faults
     \/ Fault /\ h' = [h EXCEPT ![x].pc = "done"]
  /\ UNCHANGED <<unresolved, deployment, provider, status, credited, deal, notices, lock, row>>

\* topUp.Update(): the whole row.
Save(x) ==
  LET r == h[x] IN
  /\ r.pc = "save" /\ row[r.order] = Free
  /\ \/ /\ status' = [status EXCEPT ![r.order] = IF r.what = "paid" THEN "success" ELSE "failed"]
        /\ h' = [h EXCEPT ![x].pc = IF r.what = "paid" THEN "credit" ELSE "done"]
        /\ UNCHANGED faults
     \/ Fault /\ h' = [h EXCEPT ![x].pc = "done"] /\ UNCHANGED status
  /\ UNCHANGED <<unresolved, deployment, provider, credited, deal, notices, lock, row>>

\* IncreaseUserQuota(..., true)
Credit(x) ==
  LET r == h[x] IN
  /\ r.pc = "credit"
  /\ h' = [h EXCEPT ![x].pc = "done"]
  /\ \/ credited' = [credited EXCEPT ![r.order] = @ + 1] /\ UNCHANGED faults
     \/ Fault /\ UNCHANGED credited
  /\ UNCHANGED <<unresolved, deployment, provider, status, deal, notices, lock, row>>

\* A transaction reads the row FOR UPDATE.
TxRead(x) ==
  LET r == h[x] IN
  /\ r.pc = "tx" /\ row[r.order] = Free
  /\ row' = IF rowLocks THEN [row EXCEPT ![r.order] = x] ELSE row
  /\ h' = [h EXCEPT ![x].pc = "commit", ![x].read = status[r.order]]
  /\ UNCHANGED <<unresolved, deployment, provider, status, credited, deal, notices, lock, faults>>

\* Mutant of Target: the event's name is taken for the status.
TargetRaw(what) == what

Target(what) ==
  CASE what \in {"paid", "admin"} -> "success"
    [] what = "expired" -> "expired"
    [] OTHER -> "failed"

\* Recharge and RechargeCreem fail for an order that is done; the others and the
\* administrator's completion return nil.
Succeeds(r) ==
  \/ r.read = "pending"
  \/ r.read = "success" /\ (r.what = "admin" \/ provider[r.order] \in {"waffo", "pancake"})

\* Only a pending order is changed.
Writes(r) == r.read = "pending"

\* The status and the credit are committed together, or rolled back.
TxCommit(x) ==
  LET r == h[x] IN
  /\ r.pc = "commit"
  /\ row' = IF rowLocks THEN [row EXCEPT ![r.order] = Free] ELSE row
  /\ \/ /\ h' = [h EXCEPT ![x].pc = "done", ![x].ok = Succeeds(r)]
        /\ UNCHANGED faults
        /\ IF Writes(r)
             THEN /\ status' = [status EXCEPT ![r.order] = Target(r.what)]
                  /\ credited' = [credited EXCEPT ![r.order] =
                                    @ + (IF Target(r.what) = "success" THEN 1 ELSE 0)]
             ELSE UNCHANGED <<status, credited>>
     \/ /\ Fault
        /\ h' = [h EXCEPT ![x].pc = "done", ![x].ok = FALSE]
        /\ UNCHANGED <<status, credited>>
  /\ UNCHANGED <<unresolved, deployment, provider, deal, notices, lock>>

\* Mutant of Acks: a failed completion is acknowledged too.
AcksAnyway(r) == r.what # "admin"

\* StripeWebhook and EpayNotify answer with success whatever happened (ok stays TRUE on
\* EpayNotify's path), handleWaffoPayment for unpaid orders; Creem, Waffo and Waffo
\* Pancake answer an error with an error.
Acks(r) ==
  r.what # "admin" /\ (r.ok \/ provider[r.order] = "stripe" \/ r.what # "paid")

\* The answer, and the deferred UnlockOrder.  The answer may get lost.
Done(x) ==
  LET r == h[x] IN
  /\ r.pc = "done"
  /\ h' = [h EXCEPT ![x] = Idle]
  /\ lock' = IF lock[r.node][r.order] = x THEN [lock EXCEPT ![r.node][r.order] = Free] ELSE lock
  /\ \/ /\ notices' = IF Acks(r) THEN notices \ {[order |-> r.order, what |-> r.what]} ELSE notices
        /\ UNCHANGED faults
     \/ Acks(r) /\ Fault /\ UNCHANGED notices
  /\ UNCHANGED <<unresolved, deployment, provider, status, credited, deal, row>>

Crash(n) ==
  LET H == {x \in Handlers : h[x] # Idle /\ h[x].node = n} IN
  /\ Fault /\ H # {}
  /\ h' = [x \in Handlers |-> IF x \in H THEN Idle ELSE h[x]]
  /\ lock' = [lock EXCEPT ![n] = [o \in Orders |-> Free]]
  /\ row' = [o \in Orders |-> IF row[o] \in H THEN Free ELSE row[o]]
  /\ UNCHANGED <<unresolved, deployment, provider, status, credited, deal, notices>>

Step(x) ==
  \/ Resolve(x) \/ Lock(x) \/ Look(x) \/ Read(x) \/ Save(x) \/ Credit(x)
  \/ TxRead(x) \/ TxCommit(x) \/ Done(x)

Next ==
  \/ \E o \in Orders : \/ (\E p \in Providers : Insert(o, p)) \/ Created(o) \/ CreateFails(o) \/ Pay(o) \/ Progress(o)
                       \/ Close(o, "failed") \/ Close(o, "expired")
  \/ \E x \in Handlers :
       \/ Step(x)
       \/ \E n \in serving : \/ \E m \in notices : Deliver(x, n, m)
                           \/ \E o \in Orders : AdminComplete(x, n, o)
  \/ \E n \in serving : Crash(n)

Spec == Init /\ [][Next]_vars

\* Handlers run, and a provider that got no acknowledgement sends again.  A
\* delivery may find every handler busy with administrators' requests.
FairSpec ==
  /\ Spec
  /\ \A x \in Handlers : SF_vars(Step(x))
  /\ \A o \in Orders : SF_vars(\E x \in Handlers, n \in Nodes :
                                 Deliver(x, n, [order |-> o, what |-> "paid"]))

-----------------------------------------------------------------------------
(* Properties *)

\* However often and wherever a payment is notified, several notifications being handled
\* at once, and whoever completes the order besides, its user is credited once (LockOrder,
\* the pending check, the transactions): on one node always; on several nodes if the
\* database honours FOR UPDATE and the order is not EpayNotify's, which uses no transaction.
CreditedAtMostOnce ==
  \A o \in Orders :
    Cardinality(serving) = 1 \/ (rowLocks /\ provider[o] # "epay") => credited[o] <= 1

\* A payment by Creem or Waffo Pancake is credited in the end, although answers,
\* statements and nodes fail: an error makes the provider send again.  The one exception
\* is Waffo Pancake's lookup of the order, whose error is answered with 200.
PaidIsCredited ==
  \A o \in Orders :
    deal[o] = "paid" /\ provider[o] \in {"creem", "pancake"}
      ~> credited[o] > 0 \/ (provider[o] = "pancake" /\ o \in unresolved)
=============================================================================
