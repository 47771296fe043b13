------------------------ MODULE BillingSessionProofs ------------------------
(***************************************************************************)
(* BillingSession proved for any set of requests, any amounts, any bound   *)
(* on the faults and any constants that satisfy BillingAssumption.         *)
(*                                                                         *)
(* The inductive invariant IInv is the types, the subscription's bound and *)
(* SessionBooks.  ExactCharge alone is not inductive: it speaks of         *)
(* finished requests only, and says nothing of what a session that is      *)
(* between two database calls owes.  One lemma per action shows that IInv  *)
(* is kept; an action of r changes no field of another request, so there   *)
(* SessionInv(r)' is all that is left to show.                             *)
(***************************************************************************)
EXTENDS BillingSession, TLAPS

IInv == TypeOK /\ SubWithinTotal /\ SessionBooks

\* The step changes nothing of the request that SessionInv reads.
Same(x) ==
  /\ pc[x] = pc'[x] /\ seen[x] = seen'[x] /\ req[x] = req'[x] /\ actual[x] = actual'[x] /\ amt[x] = amt'[x]
  /\ source[x] = source'[x] /\ trusted[x] = trusted'[x]
  /\ preConsumedQuota[x] = preConsumedQuota'[x] /\ tokenConsumed[x] = tokenConsumed'[x]
  /\ consumed[x] = consumed'[x] /\ extraReserved[x] = extraReserved'[x]
  /\ fundingSettled[x] = fundingSettled'[x] /\ settled[x] = settled'[x]
  /\ refunded[x] = refunded'[x] /\ bg[x] = bg'[x]
  /\ paid[x] = paid'[x] /\ tokPaid[x] = tokPaid'[x] /\ failed[x] = failed'[x]

\* TypeOK at one request.
LocalType(x) ==
  /\ pc[x] \in Labels /\ seen[x] \in Nat \cup {NotRead} /\ bgSeen[x] \in Nat \cup {NotRead}
  /\ req[x].kind \in AllKinds /\ req[x].quota \in Nat
  /\ actual[x] \in Nat /\ amt[x] \in Nat
  /\ source[x] \in Sources
  /\ preConsumedQuota[x] \in Nat /\ tokenConsumed[x] \in Nat
  /\ consumed[x] \in Nat /\ extraReserved[x] \in Nat
  /\ trusted[x] \in BOOLEAN /\ fundingSettled[x] \in BOOLEAN
  /\ settled[x] \in BOOLEAN /\ refunded[x] \in BOOLEAN
  /\ bg[x] \in RefundLabels
  /\ paid[x] \in Int /\ tokPaid[x] \in Int /\ failed[x] \in BOOLEAN

\* The fields of a request have their types.
LEMMA LocalTypes ==
  ASSUME TypeOK, NEW x \in Requests
  PROVE  LocalType(x)
  BY DEF TypeOK, HandlerType, RequestType, SessionType, FlagsType, RefundType,
         LedgerType, FaultType, LocalType

\* What preConsume asks for and what it takes are quotas.
LEMMA EffectiveIsNat ==
  ASSUME TypeOK, NEW r \in Requests
  PROVE  EffectiveQuota(r) \in Nat /\ AskedQuota(r) \in Nat
  BY DEF TypeOK, HandlerType, RequestType, EffectiveQuota, AskedQuota

\* The fault log keeps its type whether or not the call fails.
LEMMA FaultTypeStep ==
  ASSUME FaultType, NEW r \in Requests, NoFault \/ Fault(r)
  PROVE  FaultType'
<1>1. (failed \in [Requests -> BOOLEAN])'
  BY DEF FaultType, NoFault, Fault, faultLog
<1>2. (faults \in 0..MaxFaults)'
  BY BillingAssumption DEF FaultType, NoFault, Fault, faultLog
<1> QED BY <1>1, <1>2 DEF FaultType

\* A request whose fields a step leaves alone keeps its invariant.
LEMMA Frame ==
  ASSUME NEW x \in Requests, Same(x), SessionInv(x)
  PROVE  SessionInv(x)'
  BY DEF Same, SessionInv, OpeningInv, TrustInv, HoldingInv, SettlingInv, FailingInv,
         BeforeFunding, FailLabels, FundingDue, TokenDue, TokenShare, Playground,
         ServedExactly, EffectiveQuota, AskedQuota

\* A step of r keeps the invariant if it keeps the types, the bound and r's books.
LEMMA StepByFrame ==
  ASSUME IInv, NEW r \in Requests, TypeOK', SubWithinTotal', SessionInv(r)',
         \A x \in Requests : x # r => Same(x)
  PROVE  IInv'
  BY Frame DEF IInv, SessionBooks

-----------------------------------------------------------------------------
(* One lemma per action.                                                   *)

\* Authentication and pricing: no money moves.
LEMMA StartStep ==
  ASSUME IInv, NEW r \in Requests, NEW p \in Profiles,
         Start(r, p.kind, p.pref, p.quota)
  PROVE  IInv'
<1> USE BillingAssumption DEF Start, handler, NotRead, TrustedAtLogin, ChooseSource, Goto, books, Attempt,
     funds, tokens, flags, refund, faultLog
<1>1. LocalType(r) /\ SessionInv(r)
  BY LocalTypes DEF IInv, SessionBooks
<1>2. EffectiveQuota(r) \in Nat /\ AskedQuota(r) \in Nat
  BY EffectiveIsNat DEF IInv
<1>3. RowsType'
  BY <1>1, <1>2 DEF IInv, TypeOK, RowsType, LocalType
<1>4. HandlerType'
  BY <1>1 DEF IInv, TypeOK, HandlerType, RequestType, Labels, LocalType
<1>5. SessionType'
  BY <1>1, <1>2 DEF IInv, TypeOK, SessionType, Sources, LocalType
<1>6. FlagsType' /\ RefundType'
  BY DEF IInv, TypeOK, FlagsType, RefundType, RefundLabels
<1>7. LedgerType'
  BY <1>1, <1>2 DEF IInv, TypeOK, LedgerType, LocalType
<1>8. FaultType'
  BY FaultTypeStep DEF IInv, TypeOK, NoFault
<1>9. SubWithinTotal'
  BY <1>1, <1>2 DEF IInv, TypeOK, RowsType, LocalType, SubWithinTotal
<1>10. ASSUME NEW x \in Requests, x # r PROVE Same(x)
  BY <1>10 DEF IInv, TypeOK, HandlerType, SessionType, FlagsType, RefundType,
    LedgerType, FaultType, Same
<1>11. SessionInv(r)'
  BY <1>1, <1>2 DEF IInv, TypeOK, HandlerType, SessionType, FlagsType, RefundType,
    LedgerType, FaultType, LocalType, SessionInv, OpeningInv, TrustInv, HoldingInv,
    SettlingInv, FailingInv, BeforeFunding, FailLabels, FundingDue, TokenDue, TokenShare,
    Playground, ServedExactly, EffectiveQuota, AskedQuota
<1> QED BY <1>3, <1>4, <1>5, <1>6, <1>7, <1>8, <1>9, <1>10, <1>11, StepByFrame DEF
  TypeOK

\* A rejected task request starts over with empty books.
LEMMA RetryTaskStep ==
  ASSUME IInv, NEW r \in Requests, RetryTask(r)
  PROVE  IInv'
<1> USE BillingAssumption DEF RetryTask, handler, NotRead, ChooseSource, Attempt, Goto, books, funds,
     tokens, inputs, flags, refund, faultLog
<1>1. LocalType(r) /\ SessionInv(r)
  BY LocalTypes DEF IInv, SessionBooks
<1>2. EffectiveQuota(r) \in Nat /\ AskedQuota(r) \in Nat
  BY EffectiveIsNat DEF IInv
<1>3. RowsType'
  BY <1>1, <1>2 DEF IInv, TypeOK, RowsType, LocalType
<1>4. HandlerType'
  BY <1>1 DEF IInv, TypeOK, HandlerType, RequestType, Labels, LocalType
<1>5. SessionType'
  BY <1>1, <1>2 DEF IInv, TypeOK, SessionType, Sources, LocalType
<1>6. FlagsType' /\ RefundType'
  BY DEF IInv, TypeOK, FlagsType, RefundType, RefundLabels
<1>7. LedgerType'
  BY <1>1, <1>2 DEF IInv, TypeOK, LedgerType, LocalType
<1>8. FaultType'
  BY FaultTypeStep DEF IInv, TypeOK, NoFault
<1>9. SubWithinTotal'
  BY <1>1, <1>2 DEF IInv, TypeOK, RowsType, LocalType, SubWithinTotal
<1>10. ASSUME NEW x \in Requests, x # r PROVE Same(x)
  BY <1>10 DEF IInv, TypeOK, HandlerType, SessionType, FlagsType, RefundType,
    LedgerType, FaultType, Same
<1>11. SessionInv(r)'
  BY <1>1, <1>2 DEF IInv, TypeOK, HandlerType, SessionType, FlagsType, RefundType,
    LedgerType, FaultType, LocalType, SessionInv, OpeningInv, TrustInv, HoldingInv,
    SettlingInv, FailingInv, BeforeFunding, FailLabels, FundingDue, TokenDue, TokenShare,
    Playground, ServedExactly, EffectiveQuota, AskedQuota
<1> QED BY <1>3, <1>4, <1>5, <1>6, <1>7, <1>8, <1>9, <1>10, <1>11, StepByFrame DEF
  TypeOK

\* The existence check of subscription_first only picks the source.
LEMMA HasSubStep ==
  ASSUME IInv, NEW r \in Requests, HasSub(r)
  PROVE  IInv'
<1> USE BillingAssumption DEF HasSub, handler, NotRead, NoFault, faultLog, Attempt, Goto, Fault,
     Reject, funds, tokens, inputs, flags, refund
<1>1. LocalType(r) /\ SessionInv(r)
  BY LocalTypes DEF IInv, SessionBooks
<1>2. EffectiveQuota(r) \in Nat /\ AskedQuota(r) \in Nat
  BY EffectiveIsNat DEF IInv
<1>3. RowsType'
  BY <1>1, <1>2 DEF IInv, TypeOK, RowsType, LocalType
<1>4. HandlerType'
  BY <1>1 DEF IInv, TypeOK, HandlerType, RequestType, Labels, LocalType
<1>5. SessionType'
  BY <1>1, <1>2 DEF IInv, TypeOK, SessionType, Sources, LocalType
<1>6. FlagsType' /\ RefundType'
  BY DEF IInv, TypeOK, FlagsType, RefundType, RefundLabels
<1>7. LedgerType'
  BY <1>1, <1>2 DEF IInv, TypeOK, LedgerType, LocalType
<1>8. FaultType'
  BY FaultTypeStep DEF IInv, TypeOK
<1>9. SubWithinTotal'
  BY <1>1, <1>2 DEF IInv, TypeOK, RowsType, LocalType, SubWithinTotal
<1>10. ASSUME NEW x \in Requests, x # r PROVE Same(x)
  BY <1>10 DEF IInv, TypeOK, HandlerType, SessionType, FlagsType, RefundType,
    LedgerType, FaultType, Same
<1>11. SessionInv(r)'
  BY <1>1, <1>2 DEF IInv, TypeOK, HandlerType, SessionType, FlagsType, RefundType,
    LedgerType, FaultType, LocalType, SessionInv, OpeningInv, TrustInv, HoldingInv,
    SettlingInv, FailingInv, BeforeFunding, FailLabels, FundingDue, TokenDue, TokenShare,
    Playground, ServedExactly, EffectiveQuota, AskedQuota
<1> QED BY <1>3, <1>4, <1>5, <1>6, <1>7, <1>8, <1>9, <1>10, <1>11, StepByFrame DEF
  TypeOK

\* The wallet is read, and perhaps trusted; nothing is taken.
LEMMA WalletCheckStep ==
  ASSUME IInv, NEW r \in Requests, WalletCheck(r)
  PROVE  IInv'
<1> USE BillingAssumption DEF WalletCheck, handler, NotRead, ShouldTrust, Goto, NoFault, faultLog,
     books, Attempt, Reject, Fault, funds, tokens, inputs, refund
<1>1. LocalType(r) /\ SessionInv(r)
  BY LocalTypes DEF IInv, SessionBooks
<1>2. EffectiveQuota(r) \in Nat /\ AskedQuota(r) \in Nat
  BY EffectiveIsNat DEF IInv
<1>3. RowsType'
  BY <1>1, <1>2 DEF IInv, TypeOK, RowsType, LocalType
<1>4. HandlerType'
  BY <1>1 DEF IInv, TypeOK, HandlerType, RequestType, Labels, LocalType
<1>5. SessionType'
  BY <1>1, <1>2 DEF IInv, TypeOK, SessionType, Sources, LocalType
<1>6. FlagsType' /\ RefundType'
  BY DEF IInv, TypeOK, FlagsType, RefundType, RefundLabels
<1>7. LedgerType'
  BY <1>1, <1>2 DEF IInv, TypeOK, LedgerType, LocalType
<1>8. FaultType'
  BY FaultTypeStep DEF IInv, TypeOK
<1>9. SubWithinTotal'
  BY <1>1, <1>2 DEF IInv, TypeOK, RowsType, LocalType, SubWithinTotal
<1>10. ASSUME NEW x \in Requests, x # r PROVE Same(x)
  BY <1>10 DEF IInv, TypeOK, HandlerType, SessionType, FlagsType, RefundType,
    LedgerType, FaultType, Same
<1>11. SessionInv(r)'
  <2> USE <1>1, <1>2 DEF IInv, TypeOK, HandlerType, SessionType, FlagsType, RefundType,
    LedgerType, FaultType, LocalType, SessionInv, OpeningInv, TrustInv, HoldingInv,
    SettlingInv, FailingInv, BeforeFunding, FailLabels, FundingDue, TokenDue, TokenShare,
    Playground, ServedExactly, EffectiveQuota, AskedQuota
  <2>1. OpeningInv(r)' OBVIOUS
  <2>2. TrustInv(r)' OBVIOUS
  <2>3. HoldingInv(r)' OBVIOUS
  <2>4. SettlingInv(r)' OBVIOUS
  <2>5. FailingInv(r)' OBVIOUS
  <2> QED BY <2>1, <2>2, <2>3, <2>4, <2>5 DEF SessionInv
<1> QED BY <1>3, <1>4, <1>5, <1>6, <1>7, <1>8, <1>9, <1>10, <1>11, StepByFrame DEF
  TypeOK

\* The token is read; a playground request counts its quota without a token.
LEMMA TokenCheckStep ==
  ASSUME IInv, NEW r \in Requests, TokenCheck(r)
  PROVE  IInv'
<1> USE BillingAssumption DEF TokenCheck, handler, NotRead, Playground, Goto, NoFault, faultLog, books,
     Reject, Fault, funds, tokens, inputs, flags, refund
<1>1. LocalType(r) /\ SessionInv(r)
  BY LocalTypes DEF IInv, SessionBooks
<1>2. EffectiveQuota(r) \in Nat /\ AskedQuota(r) \in Nat
  BY EffectiveIsNat DEF IInv
<1>3. RowsType'
  BY <1>1, <1>2 DEF IInv, TypeOK, RowsType, LocalType
<1>4. HandlerType'
  BY <1>1 DEF IInv, TypeOK, HandlerType, RequestType, Labels, LocalType
<1>5. SessionType'
  BY <1>1, <1>2 DEF IInv, TypeOK, SessionType, Sources, LocalType
<1>6. FlagsType' /\ RefundType'
  BY DEF IInv, TypeOK, FlagsType, RefundType, RefundLabels
<1>7. LedgerType'
  BY <1>1, <1>2 DEF IInv, TypeOK, LedgerType, LocalType
<1>8. FaultType'
  BY FaultTypeStep DEF IInv, TypeOK
<1>9. SubWithinTotal'
  BY <1>1, <1>2 DEF IInv, TypeOK, RowsType, LocalType, SubWithinTotal
<1>10. ASSUME NEW x \in Requests, x # r PROVE Same(x)
  BY <1>10 DEF IInv, TypeOK, HandlerType, SessionType, FlagsType, RefundType,
    LedgerType, FaultType, Same
<1>11. SessionInv(r)'
  BY <1>1, <1>2 DEF IInv, TypeOK, HandlerType, SessionType, FlagsType, RefundType,
    LedgerType, FaultType, LocalType, SessionInv, OpeningInv, TrustInv, HoldingInv,
    SettlingInv, FailingInv, BeforeFunding, FailLabels, FundingDue, TokenDue, TokenShare,
    Playground, ServedExactly, EffectiveQuota, AskedQuota
<1> QED BY <1>3, <1>4, <1>5, <1>6, <1>7, <1>8, <1>9, <1>10, <1>11, StepByFrame DEF
  TypeOK

\* The token is debited, and tokenConsumed with it.
LEMMA TokenTakeStep ==
  ASSUME IInv, NEW r \in Requests, TokenTake(r)
  PROVE  IInv'
<1> USE BillingAssumption DEF TokenTake, handler, NotRead, TokenDelta, NoFault, faultLog, Goto, Fault,
     Reject, tokens, funds, inputs, flags, refund
<1>1. LocalType(r) /\ SessionInv(r)
  BY LocalTypes DEF IInv, SessionBooks
<1>2. EffectiveQuota(r) \in Nat /\ AskedQuota(r) \in Nat
  BY EffectiveIsNat DEF IInv
<1>3. RowsType'
  BY <1>1, <1>2 DEF IInv, TypeOK, RowsType, LocalType
<1>4. HandlerType'
  BY <1>1 DEF IInv, TypeOK, HandlerType, RequestType, Labels, LocalType
<1>5. SessionType'
  BY <1>1, <1>2 DEF IInv, TypeOK, SessionType, Sources, LocalType
<1>6. FlagsType' /\ RefundType'
  BY DEF IInv, TypeOK, FlagsType, RefundType, RefundLabels
<1>7. LedgerType'
  BY <1>1, <1>2 DEF IInv, TypeOK, LedgerType, LocalType
<1>8. FaultType'
  BY FaultTypeStep DEF IInv, TypeOK
<1>9. SubWithinTotal'
  BY <1>1, <1>2 DEF IInv, TypeOK, RowsType, LocalType, SubWithinTotal
<1>10. ASSUME NEW x \in Requests, x # r PROVE Same(x)
  BY <1>10 DEF IInv, TypeOK, HandlerType, SessionType, FlagsType, RefundType,
    LedgerType, FaultType, Same
<1>11. SessionInv(r)'
  BY <1>1, <1>2 DEF IInv, TypeOK, HandlerType, SessionType, FlagsType, RefundType,
    LedgerType, FaultType, LocalType, SessionInv, OpeningInv, TrustInv, HoldingInv,
    SettlingInv, FailingInv, BeforeFunding, FailLabels, FundingDue, TokenDue, TokenShare,
    Playground, ServedExactly, EffectiveQuota, AskedQuota
<1> QED BY <1>3, <1>4, <1>5, <1>6, <1>7, <1>8, <1>9, <1>10, <1>11, StepByFrame DEF
  TypeOK

\* The wallet is debited for what preConsumedQuota records.
LEMMA WalletTakeStep ==
  ASSUME IInv, NEW r \in Requests, WalletTake(r)
  PROVE  IInv'
<1> USE BillingAssumption DEF WalletTake, handler, NotRead, funds, WalletDelta, PreConsumed, Goto,
     NoFault, faultLog, Fault, books, tokens, inputs, flags, refund
<1>1. LocalType(r) /\ SessionInv(r)
  BY LocalTypes DEF IInv, SessionBooks
<1>2. EffectiveQuota(r) \in Nat /\ AskedQuota(r) \in Nat
  BY EffectiveIsNat DEF IInv
<1>3. RowsType'
  BY <1>1, <1>2 DEF IInv, TypeOK, RowsType, LocalType
<1>4. HandlerType'
  BY <1>1 DEF IInv, TypeOK, HandlerType, RequestType, Labels, LocalType
<1>5. SessionType'
  BY <1>1, <1>2 DEF IInv, TypeOK, SessionType, Sources, LocalType
<1>6. FlagsType' /\ RefundType'
  BY DEF IInv, TypeOK, FlagsType, RefundType, RefundLabels
<1>7. LedgerType'
  BY <1>1, <1>2 DEF IInv, TypeOK, LedgerType, LocalType
<1>8. FaultType'
  BY FaultTypeStep DEF IInv, TypeOK
<1>9. SubWithinTotal'
  BY <1>1, <1>2 DEF IInv, TypeOK, RowsType, LocalType, SubWithinTotal
<1>10. ASSUME NEW x \in Requests, x # r PROVE Same(x)
  BY <1>10 DEF IInv, TypeOK, HandlerType, SessionType, FlagsType, RefundType,
    LedgerType, FaultType, Same
<1>11. SessionInv(r)'
  BY <1>1, <1>2 DEF IInv, TypeOK, HandlerType, SessionType, FlagsType, RefundType,
    LedgerType, FaultType, LocalType, SessionInv, OpeningInv, TrustInv, HoldingInv,
    SettlingInv, FailingInv, BeforeFunding, FailLabels, FundingDue, TokenDue, TokenShare,
    Playground, ServedExactly, EffectiveQuota, AskedQuota
<1> QED BY <1>3, <1>4, <1>5, <1>6, <1>7, <1>8, <1>9, <1>10, <1>11, StepByFrame DEF
  TypeOK

\* The subscription is debited within its total, and the session recorded.
LEMMA SubTakeStep ==
  ASSUME IInv, NEW r \in Requests, SubTake(r)
  PROVE  IInv'
<1> USE BillingAssumption DEF SubTake, FundingDelta, FundingRefuses, WalletDelta, handler, NotRead, PostConsumeUserSubscriptionDelta, SubFits,
     ClampZero, PreConsumed, Goto, NoFault, faultLog, funds, books, Fault, tokens,
       inputs,
     flags, refund
<1>1. LocalType(r) /\ SessionInv(r)
  BY LocalTypes DEF IInv, SessionBooks
<1>2. EffectiveQuota(r) \in Nat /\ AskedQuota(r) \in Nat
  BY EffectiveIsNat DEF IInv
<1>3. RowsType'
  BY <1>1, <1>2 DEF IInv, TypeOK, RowsType, LocalType
<1>4. HandlerType'
  BY <1>1 DEF IInv, TypeOK, HandlerType, RequestType, Labels, LocalType
<1>5. SessionType'
  BY <1>1, <1>2 DEF IInv, TypeOK, SessionType, Sources, LocalType
<1>6. FlagsType' /\ RefundType'
  BY DEF IInv, TypeOK, FlagsType, RefundType, RefundLabels
<1>7. LedgerType'
  BY <1>1, <1>2 DEF IInv, TypeOK, LedgerType, LocalType
<1>8. FaultType'
  BY FaultTypeStep DEF IInv, TypeOK
<1>9. SubWithinTotal'
  BY <1>1, <1>2 DEF IInv, TypeOK, RowsType, LocalType, SubWithinTotal
<1>10. ASSUME NEW x \in Requests, x # r PROVE Same(x)
  BY <1>10 DEF IInv, TypeOK, HandlerType, SessionType, FlagsType, RefundType,
    LedgerType, FaultType, Same
<1>11. SessionInv(r)'
  BY <1>1, <1>2 DEF IInv, TypeOK, HandlerType, SessionType, FlagsType, RefundType,
    LedgerType, FaultType, LocalType, SessionInv, OpeningInv, TrustInv, HoldingInv,
    SettlingInv, FailingInv, BeforeFunding, FailLabels, FundingDue, TokenDue, TokenShare,
    Playground, ServedExactly, EffectiveQuota, AskedQuota
<1> QED BY <1>3, <1>4, <1>5, <1>6, <1>7, <1>8, <1>9, <1>10, <1>11, StepByFrame DEF
  TypeOK

\* The token gets back what it gave, unless the call fails.
LEMMA TokenRollbackStep ==
  ASSUME IInv, NEW r \in Requests, TokenRollback(r)
  PROVE  IInv'
<1> USE BillingAssumption DEF TokenRollback, handler, NotRead, Playground, TokenDelta, NoFault,
     faultLog, tokens, Fault, AfterRollback, Goto, Reject, funds, inputs, flags, refund
<1>1. LocalType(r) /\ SessionInv(r)
  BY LocalTypes DEF IInv, SessionBooks
<1>2. EffectiveQuota(r) \in Nat /\ AskedQuota(r) \in Nat
  BY EffectiveIsNat DEF IInv
<1>3. RowsType'
  BY <1>1, <1>2 DEF IInv, TypeOK, RowsType, LocalType
<1>4. HandlerType'
  BY <1>1 DEF IInv, TypeOK, HandlerType, RequestType, Labels, LocalType
<1>5. SessionType'
  BY <1>1, <1>2 DEF IInv, TypeOK, SessionType, Sources, LocalType
<1>6. FlagsType' /\ RefundType'
  BY DEF IInv, TypeOK, FlagsType, RefundType, RefundLabels
<1>7. LedgerType'
  BY <1>1, <1>2 DEF IInv, TypeOK, LedgerType, LocalType
<1>8. FaultType'
  BY FaultTypeStep DEF IInv, TypeOK
<1>9. SubWithinTotal'
  BY <1>1, <1>2 DEF IInv, TypeOK, RowsType, LocalType, SubWithinTotal
<1>10. ASSUME NEW x \in Requests, x # r PROVE Same(x)
  BY <1>10 DEF IInv, TypeOK, HandlerType, SessionType, FlagsType, RefundType,
    LedgerType, FaultType, Same
<1>11. SessionInv(r)'
  <2> USE <1>1, <1>2 DEF IInv, TypeOK, HandlerType, SessionType, FlagsType, RefundType,
    LedgerType, FaultType, LocalType, SessionInv, OpeningInv, TrustInv, HoldingInv,
    SettlingInv, FailingInv, BeforeFunding, FailLabels, FundingDue, TokenDue, TokenShare,
    Playground, ServedExactly, EffectiveQuota, AskedQuota
  <2>1. OpeningInv(r)' OBVIOUS
  <2>2. TrustInv(r)' OBVIOUS
  <2>3. HoldingInv(r)' OBVIOUS
  <2>4. SettlingInv(r)' OBVIOUS
  <2>5. FailingInv(r)' OBVIOUS
  <2> QED BY <2>1, <2>2, <2>3, <2>4, <2>5 DEF SessionInv
<1> QED BY <1>3, <1>4, <1>5, <1>6, <1>7, <1>8, <1>9, <1>10, <1>11, StepByFrame DEF
  TypeOK

\* The wallet attempt after a full subscription starts from nothing.
LEMMA OverflowCheckStep ==
  ASSUME IInv, NEW r \in Requests, OverflowCheck(r)
  PROVE  IInv'
<1> USE BillingAssumption DEF OverflowCheck, handler, NotRead, NoFault, faultLog, Attempt, Goto,
     Reject, Fault, funds, tokens, inputs, flags, refund
<1>1. LocalType(r) /\ SessionInv(r)
  BY LocalTypes DEF IInv, SessionBooks
<1>2. EffectiveQuota(r) \in Nat /\ AskedQuota(r) \in Nat
  BY EffectiveIsNat DEF IInv
<1>3. RowsType'
  BY <1>1, <1>2 DEF IInv, TypeOK, RowsType, LocalType
<1>4. HandlerType'
  BY <1>1 DEF IInv, TypeOK, HandlerType, RequestType, Labels, LocalType
<1>5. SessionType'
  BY <1>1, <1>2 DEF IInv, TypeOK, SessionType, Sources, LocalType
<1>6. FlagsType' /\ RefundType'
  BY DEF IInv, TypeOK, FlagsType, RefundType, RefundLabels
<1>7. LedgerType'
  BY <1>1, <1>2 DEF IInv, TypeOK, LedgerType, LocalType
<1>8. FaultType'
  BY FaultTypeStep DEF IInv, TypeOK
<1>9. SubWithinTotal'
  BY <1>1, <1>2 DEF IInv, TypeOK, RowsType, LocalType, SubWithinTotal
<1>10. ASSUME NEW x \in Requests, x # r PROVE Same(x)
  BY <1>10 DEF IInv, TypeOK, HandlerType, SessionType, FlagsType, RefundType,
    LedgerType, FaultType, Same
<1>11. SessionInv(r)'
  BY <1>1, <1>2 DEF IInv, TypeOK, HandlerType, SessionType, FlagsType, RefundType,
    LedgerType, FaultType, LocalType, SessionInv, OpeningInv, TrustInv, HoldingInv,
    SettlingInv, FailingInv, BeforeFunding, FailLabels, FundingDue, TokenDue, TokenShare,
    Playground, ServedExactly, EffectiveQuota, AskedQuota
<1> QED BY <1>3, <1>4, <1>5, <1>6, <1>7, <1>8, <1>9, <1>10, <1>11, StepByFrame DEF
  TypeOK

\* A transaction that reads the subscription changes no books.
LEMMA SubReadStep ==
  ASSUME IInv, NEW r \in Requests, SubRead(r)
  PROVE  IInv'
<1> USE BillingAssumption DEF SubRead, NotRead, funds, tokens,
     inputs, books, flags, refund, faultLog
<1>1. LocalType(r) /\ SessionInv(r)
  BY LocalTypes DEF IInv, SessionBooks
<1>2. EffectiveQuota(r) \in Nat /\ AskedQuota(r) \in Nat
  BY EffectiveIsNat DEF IInv
<1>3. RowsType'
  BY <1>1, <1>2 DEF IInv, TypeOK, RowsType, LocalType
<1>4. HandlerType'
  BY <1>1 DEF IInv, TypeOK, RowsType, HandlerType, RequestType, Labels, LocalType
<1>5. SessionType'
  BY <1>1, <1>2 DEF IInv, TypeOK, SessionType, Sources, LocalType
<1>6. FlagsType' /\ RefundType'
  BY <1>1 DEF IInv, TypeOK, RowsType, FlagsType, RefundType, RefundLabels, LocalType
<1>7. LedgerType'
  BY <1>1, <1>2 DEF IInv, TypeOK, LedgerType, LocalType
<1>8. FaultType'
  BY FaultTypeStep DEF IInv, TypeOK, NoFault
<1>9. SubWithinTotal'
  BY <1>1, <1>2 DEF IInv, TypeOK, RowsType, LocalType, SubWithinTotal
<1>10. ASSUME NEW x \in Requests, x # r PROVE Same(x)
  BY <1>10 DEF IInv, TypeOK, HandlerType, SessionType, FlagsType, RefundType,
    LedgerType, FaultType, Same
<1>11. SessionInv(r)'
  <2>1. SubTotal > 0 => seen'[r] <= SubTotal
    BY <1>1 DEF IInv, SubWithinTotal, TypeOK, HandlerType
  <2> QED BY <1>1, <2>1 DEF IInv, TypeOK, HandlerType, LocalType, SessionInv, OpeningInv, TrustInv,
    HoldingInv, SettlingInv, FailingInv, BeforeFunding, FailLabels, FundingDue, TokenDue,
    TokenShare, Playground, ServedExactly, EffectiveQuota, AskedQuota
<1> QED BY <1>3, <1>4, <1>5, <1>6, <1>7, <1>8, <1>9, <1>10, <1>11, StepByFrame DEF
  TypeOK

\* The wallet is debited for the reserve, and consumed with it.
LEMMA ReserveWalletStep ==
  ASSUME IInv, NEW r \in Requests, NEW target \in ReserveTargets,
         ReserveWallet(r, target)
  PROVE  IInv'
<1> USE BillingAssumption DEF ReserveWallet, CanReserve, WalletDelta,
     NoFault, faultLog, Goto, handler, NotRead, Fault, funds, tokens, flags, refund
<1>1. LocalType(r) /\ SessionInv(r)
  BY LocalTypes DEF IInv, SessionBooks
<1>2. EffectiveQuota(r) \in Nat /\ AskedQuota(r) \in Nat
  BY EffectiveIsNat DEF IInv
<1>3. RowsType'
  BY <1>1, <1>2 DEF IInv, TypeOK, RowsType, LocalType
<1>4. HandlerType'
  <2>1. (pc \in [Requests -> Labels])'
    BY <1>1 DEF IInv, TypeOK, HandlerType, Labels, LocalType
  <2>2. (seen \in [Requests -> Nat \cup {NotRead}])'
    BY <1>1 DEF IInv, TypeOK, HandlerType, LocalType
  <2>3. (req \in [Requests -> RequestType] /\ actual \in [Requests -> Nat])'
    BY DEF IInv, TypeOK, HandlerType
  <2>4. (amt \in [Requests -> Nat])'
    BY <1>1 DEF IInv, TypeOK, HandlerType, LocalType
  <2> QED BY <2>1, <2>2, <2>3, <2>4 DEF HandlerType
<1>5. SessionType'
  BY <1>1, <1>2 DEF IInv, TypeOK, SessionType, Sources, LocalType
<1>6. FlagsType' /\ RefundType'
  BY <1>1 DEF IInv, TypeOK, RowsType, FlagsType, RefundType, RefundLabels, LocalType
<1>7. LedgerType'
  BY <1>1, <1>2 DEF IInv, TypeOK, LedgerType, LocalType
<1>8. FaultType'
  BY FaultTypeStep DEF IInv, TypeOK, NoFault
<1>9. SubWithinTotal'
  BY <1>1, <1>2 DEF IInv, TypeOK, RowsType, LocalType, SubWithinTotal
<1>10. ASSUME NEW x \in Requests, x # r PROVE Same(x)
  BY <1>10 DEF IInv, TypeOK, HandlerType, SessionType, FlagsType, RefundType,
    LedgerType, FaultType, Same
<1>11. SessionInv(r)'
  <2> USE <1>1, <1>2 DEF IInv, TypeOK, HandlerType, SessionType, FlagsType, RefundType,
    LedgerType, FaultType, LocalType, SessionInv, OpeningInv, TrustInv, HoldingInv,
    SettlingInv, FailingInv, BeforeFunding, FailLabels, FundingDue, TokenDue, TokenShare,
    Playground, ServedExactly, EffectiveQuota, AskedQuota
  <2>1. OpeningInv(r)' OBVIOUS
  <2>2. TrustInv(r)' OBVIOUS
  <2>3. HoldingInv(r)'
    <3>1. CASE Fault(r) BY <3>1
    <3>2. CASE NoFault BY <3>2
    <3> QED BY <3>1, <3>2
  <2>4. SettlingInv(r)' OBVIOUS
  <2>5. FailingInv(r)' OBVIOUS
  <2> QED BY <2>1, <2>2, <2>3, <2>4, <2>5 DEF SessionInv
<1> QED BY <1>3, <1>4, <1>5, <1>6, <1>7, <1>8, <1>9, <1>10, <1>11, StepByFrame DEF
  TypeOK

\* The reserve on the subscription begins with a read.
LEMMA ReserveReadStep ==
  ASSUME IInv, NEW r \in Requests, NEW target \in ReserveTargets,
         ReserveRead(r, target)
  PROVE  IInv'
<1> USE BillingAssumption DEF ReserveRead, CanReserve, NotRead, funds,
     tokens, books, flags, refund, faultLog
<1>1. LocalType(r) /\ SessionInv(r)
  BY LocalTypes DEF IInv, SessionBooks
<1>2. EffectiveQuota(r) \in Nat /\ AskedQuota(r) \in Nat
  BY EffectiveIsNat DEF IInv
<1>3. RowsType'
  BY <1>1, <1>2 DEF IInv, TypeOK, RowsType, LocalType
<1>4. HandlerType'
  BY <1>1 DEF IInv, TypeOK, RowsType, HandlerType, RequestType, Labels, LocalType
<1>5. SessionType'
  BY <1>1, <1>2 DEF IInv, TypeOK, SessionType, Sources, LocalType
<1>6. FlagsType' /\ RefundType'
  BY <1>1 DEF IInv, TypeOK, RowsType, FlagsType, RefundType, RefundLabels, LocalType
<1>7. LedgerType'
  BY <1>1, <1>2 DEF IInv, TypeOK, LedgerType, LocalType
<1>8. FaultType'
  BY FaultTypeStep DEF IInv, TypeOK, NoFault
<1>9. SubWithinTotal'
  BY <1>1, <1>2 DEF IInv, TypeOK, RowsType, LocalType, SubWithinTotal
<1>10. ASSUME NEW x \in Requests, x # r PROVE Same(x)
  BY <1>10 DEF IInv, TypeOK, HandlerType, SessionType, FlagsType, RefundType,
    LedgerType, FaultType, Same
<1>11. SessionInv(r)'
  <2>1. SubTotal > 0 => seen'[r] <= SubTotal
    BY <1>1 DEF IInv, SubWithinTotal, TypeOK, HandlerType
  <2> QED BY <1>1, <1>2, <2>1 DEF IInv, TypeOK, HandlerType, SessionType, FlagsType, RefundType,
    LedgerType, FaultType, LocalType, SessionInv, OpeningInv, TrustInv, HoldingInv,
    SettlingInv, FailingInv, BeforeFunding, FailLabels, FundingDue, TokenDue, TokenShare,
    Playground, ServedExactly, EffectiveQuota, AskedQuota
<1> QED BY <1>3, <1>4, <1>5, <1>6, <1>7, <1>8, <1>9, <1>10, <1>11, StepByFrame DEF
  TypeOK

\* The subscription takes the reserve or refuses it.
LEMMA ReserveSubStep ==
  ASSUME IInv, NEW r \in Requests, ReserveSub(r)
  PROVE  IInv'
<1> USE BillingAssumption DEF ReserveSub, FundingDelta, FundingRefuses,
     PostConsumeUserSubscriptionDelta, SubFits, ClampZero, WalletDelta, NoFault, faultLog,
     Goto, NotRead, Fault, funds, tokens, books, flags, refund
<1>1. LocalType(r) /\ SessionInv(r)
  BY LocalTypes DEF IInv, SessionBooks
<1>2. EffectiveQuota(r) \in Nat /\ AskedQuota(r) \in Nat
  BY EffectiveIsNat DEF IInv
<1>3. RowsType'
  BY <1>1, <1>2 DEF IInv, TypeOK, RowsType, LocalType
<1>4. HandlerType'
  <2>1. (pc \in [Requests -> Labels])'
    BY <1>1 DEF IInv, TypeOK, HandlerType, Labels, LocalType
  <2>2. (seen \in [Requests -> Nat \cup {NotRead}])'
    BY <1>1 DEF IInv, TypeOK, HandlerType, LocalType
  <2>3. (req \in [Requests -> RequestType] /\ actual \in [Requests -> Nat])'
    BY DEF IInv, TypeOK, HandlerType
  <2>4. (amt \in [Requests -> Nat])'
    BY <1>1 DEF IInv, TypeOK, HandlerType, LocalType
  <2> QED BY <2>1, <2>2, <2>3, <2>4 DEF HandlerType
<1>5. SessionType'
  BY <1>1, <1>2 DEF IInv, TypeOK, SessionType, Sources, LocalType
<1>6. FlagsType' /\ RefundType'
  BY <1>1 DEF IInv, TypeOK, RowsType, FlagsType, RefundType, RefundLabels, LocalType
<1>7. LedgerType'
  BY <1>1, <1>2 DEF IInv, TypeOK, LedgerType, LocalType
<1>8. FaultType'
  BY FaultTypeStep DEF IInv, TypeOK, NoFault
<1>9. SubWithinTotal'
  BY <1>1, <1>2 DEF IInv, TypeOK, RowsType, LocalType, SubWithinTotal
<1>10. ASSUME NEW x \in Requests, x # r PROVE Same(x)
  BY <1>10 DEF IInv, TypeOK, HandlerType, SessionType, FlagsType, RefundType,
    LedgerType, FaultType, Same
<1>11. SessionInv(r)'
  <2> USE <1>1, <1>2 DEF IInv, TypeOK, HandlerType, SessionType, FlagsType, RefundType,
    LedgerType, FaultType, LocalType, SessionInv, OpeningInv, TrustInv, HoldingInv,
    SettlingInv, FailingInv, BeforeFunding, FailLabels, FundingDue, TokenDue, TokenShare,
    Playground, ServedExactly, EffectiveQuota, AskedQuota
  <2>1. OpeningInv(r)' OBVIOUS
  <2>2. TrustInv(r)' OBVIOUS
  <2>3. HoldingInv(r)'
    <3>1. CASE Fault(r) BY <3>1
    <3>2. CASE NoFault BY <3>2
    <3> QED BY <3>1, <3>2
  <2>4. SettlingInv(r)' OBVIOUS
  <2>5. FailingInv(r)' OBVIOUS
  <2> QED BY <2>1, <2>2, <2>3, <2>4, <2>5 DEF SessionInv
<1> QED BY <1>3, <1>4, <1>5, <1>6, <1>7, <1>8, <1>9, <1>10, <1>11, StepByFrame DEF
  TypeOK

\* A playground reserve completes here, the others go on to the token.
LEMMA ReserveTokenCheckStep ==
  ASSUME IInv, NEW r \in Requests, ReserveTokenCheck(r)
  PROVE  IInv'
<1> USE BillingAssumption DEF ReserveTokenCheck, handler, NotRead, Playground, Reserved, Goto, NoFault,
     faultLog, Fault, books, funds, tokens, flags, refund
<1>1. LocalType(r) /\ SessionInv(r)
  BY LocalTypes DEF IInv, SessionBooks
<1>2. EffectiveQuota(r) \in Nat /\ AskedQuota(r) \in Nat
  BY EffectiveIsNat DEF IInv
<1>3. RowsType'
  BY <1>1, <1>2 DEF IInv, TypeOK, RowsType, LocalType
<1>4. HandlerType'
  <2>1. (pc \in [Requests -> Labels])'
    BY <1>1 DEF IInv, TypeOK, HandlerType, Labels, LocalType
  <2>2. (seen \in [Requests -> Nat \cup {NotRead}])'
    BY <1>1 DEF IInv, TypeOK, HandlerType, LocalType
  <2>3. (req \in [Requests -> RequestType] /\ actual \in [Requests -> Nat])'
    BY DEF IInv, TypeOK, HandlerType
  <2>4. (amt \in [Requests -> Nat])'
    BY <1>1 DEF IInv, TypeOK, HandlerType, LocalType
  <2> QED BY <2>1, <2>2, <2>3, <2>4 DEF HandlerType
<1>5. SessionType'
  BY <1>1, <1>2 DEF IInv, TypeOK, SessionType, Sources, LocalType
<1>6. FlagsType' /\ RefundType'
  BY DEF IInv, TypeOK, FlagsType, RefundType, RefundLabels
<1>7. LedgerType'
  BY <1>1, <1>2 DEF IInv, TypeOK, LedgerType, LocalType
<1>8. FaultType'
  BY FaultTypeStep DEF IInv, TypeOK
<1>9. SubWithinTotal'
  BY <1>1, <1>2 DEF IInv, TypeOK, RowsType, LocalType, SubWithinTotal
<1>10. ASSUME NEW x \in Requests, x # r PROVE Same(x)
  BY <1>10 DEF IInv, TypeOK, HandlerType, SessionType, FlagsType, RefundType,
    LedgerType, FaultType, Same
<1>11. SessionInv(r)'
  BY <1>1, <1>2 DEF IInv, TypeOK, HandlerType, SessionType, FlagsType, RefundType,
    LedgerType, FaultType, LocalType, SessionInv, OpeningInv, TrustInv, HoldingInv,
    SettlingInv, FailingInv, BeforeFunding, FailLabels, FundingDue, TokenDue, TokenShare,
    Playground, ServedExactly, EffectiveQuota, AskedQuota
<1> QED BY <1>3, <1>4, <1>5, <1>6, <1>7, <1>8, <1>9, <1>10, <1>11, StepByFrame DEF
  TypeOK

\* The token catches up and the reserve enters the books.
LEMMA ReserveTokenTakeStep ==
  ASSUME IInv, NEW r \in Requests, ReserveTokenTake(r)
  PROVE  IInv'
<1> USE BillingAssumption DEF ReserveTokenTake, handler, NotRead, TokenDelta, Reserved, Goto, NoFault,
     faultLog, Fault, tokens, books, funds, flags, refund
<1>1. LocalType(r) /\ SessionInv(r)
  BY LocalTypes DEF IInv, SessionBooks
<1>2. EffectiveQuota(r) \in Nat /\ AskedQuota(r) \in Nat
  BY EffectiveIsNat DEF IInv
<1>3. RowsType'
  BY <1>1, <1>2 DEF IInv, TypeOK, RowsType, LocalType
<1>4. HandlerType'
  <2>1. (pc \in [Requests -> Labels])'
    BY <1>1 DEF IInv, TypeOK, HandlerType, Labels, LocalType
  <2>2. (seen \in [Requests -> Nat \cup {NotRead}])'
    BY <1>1 DEF IInv, TypeOK, HandlerType, LocalType
  <2>3. (req \in [Requests -> RequestType] /\ actual \in [Requests -> Nat])'
    BY DEF IInv, TypeOK, HandlerType
  <2>4. (amt \in [Requests -> Nat])'
    BY <1>1 DEF IInv, TypeOK, HandlerType, LocalType
  <2> QED BY <2>1, <2>2, <2>3, <2>4 DEF HandlerType
<1>5. SessionType'
  BY <1>1, <1>2 DEF IInv, TypeOK, SessionType, Sources, LocalType
<1>6. FlagsType' /\ RefundType'
  BY DEF IInv, TypeOK, FlagsType, RefundType, RefundLabels
<1>7. LedgerType'
  BY <1>1, <1>2 DEF IInv, TypeOK, LedgerType, LocalType
<1>8. FaultType'
  BY FaultTypeStep DEF IInv, TypeOK
<1>9. SubWithinTotal'
  BY <1>1, <1>2 DEF IInv, TypeOK, RowsType, LocalType, SubWithinTotal
<1>10. ASSUME NEW x \in Requests, x # r PROVE Same(x)
  BY <1>10 DEF IInv, TypeOK, HandlerType, SessionType, FlagsType, RefundType,
    LedgerType, FaultType, Same
<1>11. SessionInv(r)'
  BY <1>1, <1>2 DEF IInv, TypeOK, HandlerType, SessionType, FlagsType, RefundType,
    LedgerType, FaultType, LocalType, SessionInv, OpeningInv, TrustInv, HoldingInv,
    SettlingInv, FailingInv, BeforeFunding, FailLabels, FundingDue, TokenDue, TokenShare,
    Playground, ServedExactly, EffectiveQuota, AskedQuota
<1> QED BY <1>3, <1>4, <1>5, <1>6, <1>7, <1>8, <1>9, <1>10, <1>11, StepByFrame DEF
  TypeOK

\* The source falls back to the books; the wallet also when the call fails.
LEMMA ReserveRollbackStep ==
  ASSUME IInv, NEW r \in Requests, ReserveRollback(r)
  PROVE  IInv'
<1> USE BillingAssumption DEF ReserveRollback, handler, NotRead, FundingDelta,
     PostConsumeUserSubscriptionDelta, SubFits, ClampZero, WalletDelta, NoFault,
       faultLog,
     Fault, funds, Goto, tokens, flags, refund
<1>1. LocalType(r) /\ SessionInv(r)
  BY LocalTypes DEF IInv, SessionBooks
<1>2. EffectiveQuota(r) \in Nat /\ AskedQuota(r) \in Nat
  BY EffectiveIsNat DEF IInv
<1>3. RowsType'
  BY <1>1, <1>2 DEF IInv, TypeOK, RowsType, LocalType
<1>4. HandlerType'
  BY <1>1 DEF IInv, TypeOK, HandlerType, RequestType, Labels, LocalType
<1>5. SessionType'
  BY <1>1, <1>2 DEF IInv, TypeOK, SessionType, Sources, LocalType, SessionInv,
    HoldingInv
<1>6. FlagsType' /\ RefundType'
  BY DEF IInv, TypeOK, FlagsType, RefundType, RefundLabels
<1>7. LedgerType'
  BY <1>1, <1>2 DEF IInv, TypeOK, LedgerType, LocalType
<1>8. FaultType'
  BY FaultTypeStep DEF IInv, TypeOK
<1>9. SubWithinTotal'
  BY <1>1, <1>2 DEF IInv, TypeOK, RowsType, LocalType, SubWithinTotal
<1>10. ASSUME NEW x \in Requests, x # r PROVE Same(x)
  BY <1>10 DEF IInv, TypeOK, HandlerType, SessionType, FlagsType, RefundType,
    LedgerType, FaultType, Same
<1>11. SessionInv(r)'
  <2> USE <1>1, <1>2 DEF IInv, TypeOK, HandlerType, SessionType, FlagsType, RefundType,
    LedgerType, FaultType, LocalType, SessionInv, OpeningInv, TrustInv, HoldingInv,
    SettlingInv, FailingInv, BeforeFunding, FailLabels, FundingDue, TokenDue, TokenShare,
    Playground, ServedExactly, EffectiveQuota, AskedQuota
  <2>1. OpeningInv(r)' OBVIOUS
  <2>2. TrustInv(r)' OBVIOUS
  <2>3. HoldingInv(r)'
    <3>1. CASE Fault(r) BY <3>1
    <3>2. CASE NoFault /\ source[r] = "wallet" BY <3>2
    <3>3. CASE NoFault /\ source[r] = "subscription" BY <3>3
    <3> QED BY <3>1, <3>2, <3>3 DEF Sources
  <2>4. SettlingInv(r)' OBVIOUS
  <2>5. FailingInv(r)' OBVIOUS
  <2> QED BY <2>1, <2>2, <2>3, <2>4, <2>5 DEF SessionInv
<1> QED BY <1>3, <1>4, <1>5, <1>6, <1>7, <1>8, <1>9, <1>10, <1>11, StepByFrame DEF
  TypeOK

\* An exact estimate settles at once.
LEMMA SucceedStep ==
  ASSUME IInv, NEW r \in Requests, NEW quota \in Usages, Succeed(r, quota)
  PROVE  IInv'
<1> USE BillingAssumption DEF Succeed, handler, NotRead, Goto, funds, tokens, books, refund, faultLog
<1>1. LocalType(r) /\ SessionInv(r)
  BY LocalTypes DEF IInv, SessionBooks
<1>2. EffectiveQuota(r) \in Nat /\ AskedQuota(r) \in Nat
  BY EffectiveIsNat DEF IInv
<1>3. RowsType'
  BY <1>1, <1>2 DEF IInv, TypeOK, RowsType, LocalType
<1>4. HandlerType'
  BY <1>1 DEF IInv, TypeOK, HandlerType, RequestType, Labels, LocalType
<1>5. SessionType'
  BY <1>1, <1>2 DEF IInv, TypeOK, SessionType, Sources, LocalType
<1>6. FlagsType' /\ RefundType'
  BY DEF IInv, TypeOK, FlagsType, RefundType, RefundLabels
<1>7. LedgerType'
  BY <1>1, <1>2 DEF IInv, TypeOK, LedgerType, LocalType
<1>8. FaultType'
  BY FaultTypeStep DEF IInv, TypeOK, NoFault
<1>9. SubWithinTotal'
  BY <1>1, <1>2 DEF IInv, TypeOK, RowsType, LocalType, SubWithinTotal
<1>10. ASSUME NEW x \in Requests, x # r PROVE Same(x)
  BY <1>10 DEF IInv, TypeOK, HandlerType, SessionType, FlagsType, RefundType,
    LedgerType, FaultType, Same
<1>11. SessionInv(r)'
  BY <1>1, <1>2 DEF IInv, TypeOK, HandlerType, SessionType, FlagsType, RefundType,
    LedgerType, FaultType, LocalType, SessionInv, OpeningInv, TrustInv, HoldingInv,
    SettlingInv, FailingInv, BeforeFunding, FailLabels, FundingDue, TokenDue, TokenShare,
    Playground, ServedExactly, EffectiveQuota, AskedQuota
<1> QED BY <1>3, <1>4, <1>5, <1>6, <1>7, <1>8, <1>9, <1>10, <1>11, StepByFrame DEF
  TypeOK

\* The source moves from the pre-consumption to the actual usage.
LEMMA SettleFundingStep ==
  ASSUME IInv, NEW r \in Requests, SettleFunding(r)
  PROVE  IInv'
<1> USE BillingAssumption DEF SettleFunding, handler, NotRead, FundingDelta,
     PostConsumeUserSubscriptionDelta, SubFits, ClampZero, WalletDelta, SettleDelta,
     NoFault, faultLog, Goto, FundingRefuses, funds, Fault, tokens, inputs, books,
       refund
<1>1. LocalType(r) /\ SessionInv(r)
  BY LocalTypes DEF IInv, SessionBooks
<1>2. EffectiveQuota(r) \in Nat /\ AskedQuota(r) \in Nat
  BY EffectiveIsNat DEF IInv
<1>3. RowsType'
  BY <1>1, <1>2 DEF IInv, TypeOK, RowsType, LocalType
<1>4. HandlerType'
  BY <1>1 DEF IInv, TypeOK, HandlerType, RequestType, Labels, LocalType
<1>5. SessionType'
  BY <1>1, <1>2 DEF IInv, TypeOK, SessionType, Sources, LocalType
<1>6. FlagsType' /\ RefundType'
  BY DEF IInv, TypeOK, FlagsType, RefundType, RefundLabels
<1>7. LedgerType'
  BY <1>1, <1>2 DEF IInv, TypeOK, LedgerType, LocalType
<1>8. FaultType'
  BY FaultTypeStep DEF IInv, TypeOK
<1>9. SubWithinTotal'
  BY <1>1, <1>2 DEF IInv, TypeOK, RowsType, LocalType, SubWithinTotal
<1>10. ASSUME NEW x \in Requests, x # r PROVE Same(x)
  BY <1>10 DEF IInv, TypeOK, HandlerType, SessionType, FlagsType, RefundType,
    LedgerType, FaultType, Same
<1>11. SessionInv(r)'
  <2> USE <1>1, <1>2 DEF IInv, TypeOK, RowsType, SubWithinTotal, HandlerType,
    SessionType, FlagsType, RefundType, LedgerType, FaultType, LocalType, SessionInv,
    OpeningInv, TrustInv, HoldingInv, SettlingInv, FailingInv, BeforeFunding, FailLabels,
    FundingDue, TokenDue, TokenShare, Playground, ServedExactly, EffectiveQuota,
    AskedQuota
  <2>1. OpeningInv(r)' OBVIOUS
  <2>2. TrustInv(r)' OBVIOUS
  <2>3. HoldingInv(r)' OBVIOUS
  <2>4. SettlingInv(r)' OBVIOUS
  <2>5. FailingInv(r)' OBVIOUS
  <2> QED BY <2>1, <2>2, <2>3, <2>4, <2>5 DEF SessionInv
<1> QED BY <1>3, <1>4, <1>5, <1>6, <1>7, <1>8, <1>9, <1>10, <1>11, StepByFrame DEF
  TypeOK

\* The token follows.
LEMMA SettleTokenStep ==
  ASSUME IInv, NEW r \in Requests, SettleToken(r)
  PROVE  IInv'
<1> USE BillingAssumption DEF SettleToken, handler, NotRead, Playground, tokens, NoFault, faultLog,
     TokenDelta, SettleDelta, Fault, Goto, funds, inputs, books, refund
<1>1. LocalType(r) /\ SessionInv(r)
  BY LocalTypes DEF IInv, SessionBooks
<1>2. EffectiveQuota(r) \in Nat /\ AskedQuota(r) \in Nat
  BY EffectiveIsNat DEF IInv
<1>3. RowsType'
  BY <1>1, <1>2 DEF IInv, TypeOK, RowsType, LocalType
<1>4. HandlerType'
  BY <1>1 DEF IInv, TypeOK, HandlerType, RequestType, Labels, LocalType
<1>5. SessionType'
  BY <1>1, <1>2 DEF IInv, TypeOK, SessionType, Sources, LocalType
<1>6. FlagsType' /\ RefundType'
  BY DEF IInv, TypeOK, FlagsType, RefundType, RefundLabels
<1>7. LedgerType'
  BY <1>1, <1>2 DEF IInv, TypeOK, LedgerType, LocalType
<1>8. FaultType'
  BY FaultTypeStep DEF IInv, TypeOK
<1>9. SubWithinTotal'
  BY <1>1, <1>2 DEF IInv, TypeOK, RowsType, LocalType, SubWithinTotal
<1>10. ASSUME NEW x \in Requests, x # r PROVE Same(x)
  BY <1>10 DEF IInv, TypeOK, HandlerType, SessionType, FlagsType, RefundType,
    LedgerType, FaultType, Same
<1>11. SessionInv(r)'
  BY <1>1, <1>2 DEF IInv, TypeOK, HandlerType, SessionType, FlagsType, RefundType,
    LedgerType, FaultType, LocalType, SessionInv, OpeningInv, TrustInv, HoldingInv,
    SettlingInv, FailingInv, BeforeFunding, FailLabels, FundingDue, TokenDue, TokenShare,
    Playground, ServedExactly, EffectiveQuota, AskedQuota
<1> QED BY <1>3, <1>4, <1>5, <1>6, <1>7, <1>8, <1>9, <1>10, <1>11, StepByFrame DEF
  TypeOK

\* A free model with a charge pays the whole usage.
LEMMA LegacyFundingStep ==
  ASSUME IInv, NEW r \in Requests, LegacyFunding(r)
  PROVE  IInv'
<1> USE BillingAssumption DEF LegacyFunding, handler, NotRead, PostConsumeFunding, FundingDelta,
     PostConsumeUserSubscriptionDelta, SubFits, ClampZero, WalletDelta, NoFault,
       faultLog,
     Goto, Playground, FundingRefuses, funds, Fault, tokens, inputs, books, flags,
       refund
<1>1. LocalType(r) /\ SessionInv(r)
  BY LocalTypes DEF IInv, SessionBooks
<1>2. EffectiveQuota(r) \in Nat /\ AskedQuota(r) \in Nat
  BY EffectiveIsNat DEF IInv
<1>3. RowsType'
  BY <1>1, <1>2 DEF IInv, TypeOK, RowsType, LocalType
<1>4. HandlerType'
  BY <1>1 DEF IInv, TypeOK, HandlerType, RequestType, Labels, LocalType
<1>5. SessionType'
  BY <1>1, <1>2 DEF IInv, TypeOK, SessionType, Sources, LocalType
<1>6. FlagsType' /\ RefundType'
  BY DEF IInv, TypeOK, FlagsType, RefundType, RefundLabels
<1>7. LedgerType'
  BY <1>1, <1>2 DEF IInv, TypeOK, LedgerType, LocalType
<1>8. FaultType'
  BY FaultTypeStep DEF IInv, TypeOK
<1>9. SubWithinTotal'
  BY <1>1, <1>2 DEF IInv, TypeOK, RowsType, LocalType, SubWithinTotal
<1>10. ASSUME NEW x \in Requests, x # r PROVE Same(x)
  BY <1>10 DEF IInv, TypeOK, HandlerType, SessionType, FlagsType, RefundType,
    LedgerType, FaultType, Same
<1>11. SessionInv(r)'
  BY <1>1, <1>2 DEF IInv, TypeOK, HandlerType, SessionType, FlagsType, RefundType,
    LedgerType, FaultType, LocalType, SessionInv, OpeningInv, TrustInv, HoldingInv,
    SettlingInv, FailingInv, BeforeFunding, FailLabels, FundingDue, TokenDue, TokenShare,
    Playground, ServedExactly, EffectiveQuota, AskedQuota
<1> QED BY <1>3, <1>4, <1>5, <1>6, <1>7, <1>8, <1>9, <1>10, <1>11, StepByFrame DEF
  TypeOK

\* The token follows.
LEMMA LegacyTokenStep ==
  ASSUME IInv, NEW r \in Requests, LegacyToken(r)
  PROVE  IInv'
<1> USE BillingAssumption DEF LegacyToken, handler, NotRead, PostConsumeToken, TokenDelta, NoFault,
     faultLog, tokens, Fault, Goto, funds, inputs, books, flags, refund
<1>1. LocalType(r) /\ SessionInv(r)
  BY LocalTypes DEF IInv, SessionBooks
<1>2. EffectiveQuota(r) \in Nat /\ AskedQuota(r) \in Nat
  BY EffectiveIsNat DEF IInv
<1>3. RowsType'
  BY <1>1, <1>2 DEF IInv, TypeOK, RowsType, LocalType
<1>4. HandlerType'
  BY <1>1 DEF IInv, TypeOK, HandlerType, RequestType, Labels, LocalType
<1>5. SessionType'
  BY <1>1, <1>2 DEF IInv, TypeOK, SessionType, Sources, LocalType
<1>6. FlagsType' /\ RefundType'
  BY DEF IInv, TypeOK, FlagsType, RefundType, RefundLabels
<1>7. LedgerType'
  BY <1>1, <1>2 DEF IInv, TypeOK, LedgerType, LocalType
<1>8. FaultType'
  BY FaultTypeStep DEF IInv, TypeOK
<1>9. SubWithinTotal'
  BY <1>1, <1>2 DEF IInv, TypeOK, RowsType, LocalType, SubWithinTotal
<1>10. ASSUME NEW x \in Requests, x # r PROVE Same(x)
  BY <1>10 DEF IInv, TypeOK, HandlerType, SessionType, FlagsType, RefundType,
    LedgerType, FaultType, Same
<1>11. SessionInv(r)'
  BY <1>1, <1>2 DEF IInv, TypeOK, HandlerType, SessionType, FlagsType, RefundType,
    LedgerType, FaultType, LocalType, SessionInv, OpeningInv, TrustInv, HoldingInv,
    SettlingInv, FailingInv, BeforeFunding, FailLabels, FundingDue, TokenDue, TokenShare,
    Playground, ServedExactly, EffectiveQuota, AskedQuota
<1> QED BY <1>3, <1>4, <1>5, <1>6, <1>7, <1>8, <1>9, <1>10, <1>11, StepByFrame DEF
  TypeOK

\* Refund is started when, and only when, there is something to give back.
LEMMA FailStep ==
  ASSUME IInv, NEW r \in Requests, NEW fee \in Fees \cup {0}, Fail(r, fee)
  PROVE  IInv'
<1> USE BillingAssumption DEF Fail, RefundGoto, handler, NotRead, NeedsRefund, Goto, funds, tokens, books, faultLog
<1>1. LocalType(r) /\ SessionInv(r)
  BY LocalTypes DEF IInv, SessionBooks
<1>2. EffectiveQuota(r) \in Nat /\ AskedQuota(r) \in Nat
  BY EffectiveIsNat DEF IInv
<1>3. RowsType'
  BY <1>1, <1>2 DEF IInv, TypeOK, RowsType, LocalType
<1>4. HandlerType'
  BY <1>1 DEF IInv, TypeOK, HandlerType, RequestType, Labels, LocalType
<1>5. SessionType'
  BY <1>1, <1>2 DEF IInv, TypeOK, SessionType, Sources, LocalType
<1>6. FlagsType' /\ RefundType'
  BY DEF IInv, TypeOK, FlagsType, RefundType, RefundLabels
<1>7. LedgerType'
  BY <1>1, <1>2 DEF IInv, TypeOK, LedgerType, LocalType
<1>8. FaultType'
  BY FaultTypeStep DEF IInv, TypeOK, NoFault
<1>9. SubWithinTotal'
  BY <1>1, <1>2 DEF IInv, TypeOK, RowsType, LocalType, SubWithinTotal
<1>10. ASSUME NEW x \in Requests, x # r PROVE Same(x)
  BY <1>10 DEF IInv, TypeOK, HandlerType, SessionType, FlagsType, RefundType,
    LedgerType, FaultType, Same
<1>11. SessionInv(r)'
  BY <1>1, <1>2 DEF IInv, TypeOK, HandlerType, SessionType, FlagsType, RefundType,
    LedgerType, FaultType, LocalType, SessionInv, OpeningInv, TrustInv, HoldingInv,
    SettlingInv, FailingInv, BeforeFunding, FailLabels, FundingDue, TokenDue, TokenShare,
    Playground, ServedExactly, EffectiveQuota, AskedQuota
<1> QED BY <1>3, <1>4, <1>5, <1>6, <1>7, <1>8, <1>9, <1>10, <1>11, StepByFrame DEF
  TypeOK

\* The fee is taken beside whatever the refund still owes.
LEMMA FeeFundingStep ==
  ASSUME IInv, NEW r \in Requests, FeeFunding(r)
  PROVE  IInv'
<1> USE BillingAssumption DEF FeeFunding, handler, NotRead, PostConsumeFunding, FundingDelta,
     PostConsumeUserSubscriptionDelta, SubFits, ClampZero, WalletDelta, NoFault,
       faultLog,
     Goto, Playground, FundingRefuses, funds, Fault, tokens, inputs, books, flags,
       refund
<1>1. LocalType(r) /\ SessionInv(r)
  BY LocalTypes DEF IInv, SessionBooks
<1>2. EffectiveQuota(r) \in Nat /\ AskedQuota(r) \in Nat
  BY EffectiveIsNat DEF IInv
<1>3. RowsType'
  BY <1>1, <1>2 DEF IInv, TypeOK, RowsType, LocalType
<1>4. HandlerType'
  BY <1>1 DEF IInv, TypeOK, HandlerType, RequestType, Labels, LocalType
<1>5. SessionType'
  BY <1>1, <1>2 DEF IInv, TypeOK, SessionType, Sources, LocalType
<1>6. FlagsType' /\ RefundType'
  BY DEF IInv, TypeOK, FlagsType, RefundType, RefundLabels
<1>7. LedgerType'
  BY <1>1, <1>2 DEF IInv, TypeOK, LedgerType, LocalType
<1>8. FaultType'
  BY FaultTypeStep DEF IInv, TypeOK
<1>9. SubWithinTotal'
  BY <1>1, <1>2 DEF IInv, TypeOK, RowsType, LocalType, SubWithinTotal
<1>10. ASSUME NEW x \in Requests, x # r PROVE Same(x)
  BY <1>10 DEF IInv, TypeOK, HandlerType, SessionType, FlagsType, RefundType,
    LedgerType, FaultType, Same
<1>11. SessionInv(r)'
  <2> USE <1>1, <1>2 DEF IInv, TypeOK, HandlerType, SessionType, FlagsType, RefundType,
    LedgerType, FaultType, LocalType, SessionInv, OpeningInv, TrustInv, HoldingInv,
    SettlingInv, FailingInv, BeforeFunding, FailLabels, FundingDue, TokenDue, TokenShare,
    Playground, ServedExactly, EffectiveQuota, AskedQuota
  <2>1. OpeningInv(r)' OBVIOUS
  <2>2. TrustInv(r)' OBVIOUS
  <2>3. HoldingInv(r)' OBVIOUS
  <2>4. SettlingInv(r)' OBVIOUS
  <2>5. FailingInv(r)'
    <3>1. CASE Fault(r) BY <3>1
    <3>2. CASE NoFault BY <3>2
    <3> QED BY <3>1, <3>2
  <2> QED BY <2>1, <2>2, <2>3, <2>4, <2>5 DEF SessionInv
<1> QED BY <1>3, <1>4, <1>5, <1>6, <1>7, <1>8, <1>9, <1>10, <1>11, StepByFrame DEF
  TypeOK

\* The token follows.
LEMMA FeeTokenStep ==
  ASSUME IInv, NEW r \in Requests, FeeToken(r)
  PROVE  IInv'
<1> USE BillingAssumption DEF FeeToken, handler, NotRead, PostConsumeToken, TokenDelta, NoFault,
     faultLog, tokens, Fault, Goto, funds, inputs, books, flags, refund
<1>1. LocalType(r) /\ SessionInv(r)
  BY LocalTypes DEF IInv, SessionBooks
<1>2. EffectiveQuota(r) \in Nat /\ AskedQuota(r) \in Nat
  BY EffectiveIsNat DEF IInv
<1>3. RowsType'
  BY <1>1, <1>2 DEF IInv, TypeOK, RowsType, LocalType
<1>4. HandlerType'
  BY <1>1 DEF IInv, TypeOK, HandlerType, RequestType, Labels, LocalType
<1>5. SessionType'
  BY <1>1, <1>2 DEF IInv, TypeOK, SessionType, Sources, LocalType
<1>6. FlagsType' /\ RefundType'
  BY DEF IInv, TypeOK, FlagsType, RefundType, RefundLabels
<1>7. LedgerType'
  BY <1>1, <1>2 DEF IInv, TypeOK, LedgerType, LocalType
<1>8. FaultType'
  BY FaultTypeStep DEF IInv, TypeOK
<1>9. SubWithinTotal'
  BY <1>1, <1>2 DEF IInv, TypeOK, RowsType, LocalType, SubWithinTotal
<1>10. ASSUME NEW x \in Requests, x # r PROVE Same(x)
  BY <1>10 DEF IInv, TypeOK, HandlerType, SessionType, FlagsType, RefundType,
    LedgerType, FaultType, Same
<1>11. SessionInv(r)'
  BY <1>1, <1>2 DEF IInv, TypeOK, HandlerType, SessionType, FlagsType, RefundType,
    LedgerType, FaultType, LocalType, SessionInv, OpeningInv, TrustInv, HoldingInv,
    SettlingInv, FailingInv, BeforeFunding, FailLabels, FundingDue, TokenDue, TokenShare,
    Playground, ServedExactly, EffectiveQuota, AskedQuota
<1> QED BY <1>3, <1>4, <1>5, <1>6, <1>7, <1>8, <1>9, <1>10, <1>11, StepByFrame DEF
  TypeOK

\* The wallet gets back what the session consumed.
LEMMA RefundWalletStep ==
  ASSUME IInv, NEW r \in Requests, RefundWallet(r)
  PROVE  IInv'
<1> USE BillingAssumption DEF RefundWallet, RefundGoto, handler, NotRead, funds, NoFault, faultLog, WalletDelta,
     Fault, tokens, inputs, books, flags
<1>1. LocalType(r) /\ SessionInv(r)
  BY LocalTypes DEF IInv, SessionBooks
<1>2. EffectiveQuota(r) \in Nat /\ AskedQuota(r) \in Nat
  BY EffectiveIsNat DEF IInv
<1>3. RowsType'
  BY <1>1, <1>2 DEF IInv, TypeOK, RowsType, LocalType
<1>4. HandlerType'
  BY <1>1 DEF IInv, TypeOK, HandlerType, RequestType, Labels, LocalType
<1>5. SessionType'
  BY <1>1, <1>2 DEF IInv, TypeOK, SessionType, Sources, LocalType
<1>6. FlagsType' /\ RefundType'
  BY DEF IInv, TypeOK, FlagsType, RefundType, RefundLabels
<1>7. LedgerType'
  BY <1>1, <1>2 DEF IInv, TypeOK, LedgerType, LocalType
<1>8. FaultType'
  BY FaultTypeStep DEF IInv, TypeOK
<1>9. SubWithinTotal'
  BY <1>1, <1>2 DEF IInv, TypeOK, RowsType, LocalType, SubWithinTotal
<1>10. ASSUME NEW x \in Requests, x # r PROVE Same(x)
  BY <1>10 DEF IInv, TypeOK, HandlerType, SessionType, FlagsType, RefundType,
    LedgerType, FaultType, Same
<1>11. SessionInv(r)'
  <2> USE <1>1, <1>2 DEF IInv, TypeOK, HandlerType, SessionType, FlagsType, RefundType,
    LedgerType, FaultType, LocalType, SessionInv, OpeningInv, TrustInv, HoldingInv,
    SettlingInv, FailingInv, BeforeFunding, FailLabels, FundingDue, TokenDue, TokenShare,
    Playground, ServedExactly, EffectiveQuota, AskedQuota
  <2>1. OpeningInv(r)' OBVIOUS
  <2>2. TrustInv(r)' OBVIOUS
  <2>3. HoldingInv(r)' OBVIOUS
  <2>4. SettlingInv(r)' OBVIOUS
  <2>5. FailingInv(r)' OBVIOUS
  <2> QED BY <2>1, <2>2, <2>3, <2>4, <2>5 DEF SessionInv
<1> QED BY <1>3, <1>4, <1>5, <1>6, <1>7, <1>8, <1>9, <1>10, <1>11, StepByFrame DEF
  TypeOK

\* An attempt without a fault returns the pre-consumption once.
LEMMA RefundSubscriptionStep ==
  ASSUME IInv, NEW r \in Requests, RefundSubscription(r)
  PROVE  IInv'
<1> USE BillingAssumption DEF RefundSubscription, RefundGoto, handler, NotRead, PostConsumeUserSubscriptionDelta,
     SubFits, ClampZero, NoFault, faultLog, Fault, funds, tokens, inputs, books, flags
<1>1. LocalType(r) /\ SessionInv(r)
  BY LocalTypes DEF IInv, SessionBooks
<1>2. EffectiveQuota(r) \in Nat /\ AskedQuota(r) \in Nat
  BY EffectiveIsNat DEF IInv
<1>3. RowsType'
  BY <1>1, <1>2 DEF IInv, TypeOK, RowsType, LocalType
<1>4. HandlerType'
  BY <1>1 DEF IInv, TypeOK, HandlerType, RequestType, Labels, LocalType
<1>5. SessionType'
  BY <1>1, <1>2 DEF IInv, TypeOK, SessionType, Sources, LocalType
<1>6. FlagsType' /\ RefundType'
  BY DEF IInv, TypeOK, FlagsType, RefundType, RefundLabels
<1>7. LedgerType'
  BY <1>1, <1>2 DEF IInv, TypeOK, LedgerType, LocalType
<1>8. FaultType'
  BY FaultTypeStep DEF IInv, TypeOK
<1>9. SubWithinTotal'
  BY <1>1, <1>2 DEF IInv, TypeOK, RowsType, LocalType, SubWithinTotal
<1>10. ASSUME NEW x \in Requests, x # r PROVE Same(x)
  BY <1>10 DEF IInv, TypeOK, HandlerType, SessionType, FlagsType, RefundType,
    LedgerType, FaultType, Same
<1>11. SessionInv(r)'
  <2> USE <1>1, <1>2 DEF IInv, TypeOK, HandlerType, SessionType, FlagsType, RefundType,
    LedgerType, FaultType, LocalType, SessionInv, OpeningInv, TrustInv, HoldingInv,
    SettlingInv, FailingInv, BeforeFunding, FailLabels, FundingDue, TokenDue, TokenShare,
    Playground, ServedExactly, EffectiveQuota, AskedQuota
  <2>1. OpeningInv(r)' OBVIOUS
  <2>2. TrustInv(r)' OBVIOUS
  <2>3. HoldingInv(r)' OBVIOUS
  <2>4. SettlingInv(r)' OBVIOUS
  <2>5. FailingInv(r)'
    <3>1. CASE Fault(r) BY <3>1
    <3>2. CASE NoFault BY <3>2
    <3> QED BY <3>1, <3>2
  <2> QED BY <2>1, <2>2, <2>3, <2>4, <2>5 DEF SessionInv
<1> QED BY <1>3, <1>4, <1>5, <1>6, <1>7, <1>8, <1>9, <1>10, <1>11, StepByFrame DEF
  TypeOK

\* A transaction of the refund goroutine reads the subscription.
LEMMA RefundReadStep ==
  ASSUME IInv, NEW r \in Requests, RefundRead(r)
  PROVE  IInv'
<1> USE BillingAssumption DEF RefundRead, NotRead, handler, funds,
     tokens, inputs, books, flags, refund, faultLog
<1>1. LocalType(r) /\ SessionInv(r)
  BY LocalTypes DEF IInv, SessionBooks
<1>2. EffectiveQuota(r) \in Nat /\ AskedQuota(r) \in Nat
  BY EffectiveIsNat DEF IInv
<1>3. RowsType'
  BY <1>1, <1>2 DEF IInv, TypeOK, RowsType, LocalType
<1>4. HandlerType'
  BY <1>1 DEF IInv, TypeOK, RowsType, HandlerType, RequestType, Labels, LocalType
<1>5. SessionType'
  BY <1>1, <1>2 DEF IInv, TypeOK, SessionType, Sources, LocalType
<1>6. FlagsType' /\ RefundType'
  BY <1>1 DEF IInv, TypeOK, RowsType, FlagsType, RefundType, RefundLabels, LocalType
<1>7. LedgerType'
  BY <1>1, <1>2 DEF IInv, TypeOK, LedgerType, LocalType
<1>8. FaultType'
  BY FaultTypeStep DEF IInv, TypeOK, NoFault
<1>9. SubWithinTotal'
  BY <1>1, <1>2 DEF IInv, TypeOK, RowsType, LocalType, SubWithinTotal
<1>10. ASSUME NEW x \in Requests, x # r PROVE Same(x)
  BY <1>10 DEF IInv, TypeOK, HandlerType, SessionType, FlagsType, RefundType,
    LedgerType, FaultType, Same
<1>11. SessionInv(r)'
  BY <1>1, Frame DEF IInv, TypeOK, HandlerType, RefundType, Same
<1> QED BY <1>3, <1>4, <1>5, <1>6, <1>7, <1>8, <1>9, <1>10, <1>11, StepByFrame DEF
  TypeOK

\* The reserve on top of a subscription is returned.
LEMMA RefundExtraStep ==
  ASSUME IInv, NEW r \in Requests, RefundExtra(r)
  PROVE  IInv'
<1> USE BillingAssumption DEF RefundExtra, RefundGoto, handler, NotRead, PostConsumeUserSubscriptionDelta, SubFits,
     ClampZero, NoFault, faultLog, funds, Fault, tokens, inputs, books, flags
<1>1. LocalType(r) /\ SessionInv(r)
  BY LocalTypes DEF IInv, SessionBooks
<1>2. EffectiveQuota(r) \in Nat /\ AskedQuota(r) \in Nat
  BY EffectiveIsNat DEF IInv
<1>3. RowsType'
  BY <1>1, <1>2 DEF IInv, TypeOK, RowsType, LocalType
<1>4. HandlerType'
  BY <1>1 DEF IInv, TypeOK, HandlerType, RequestType, Labels, LocalType
<1>5. SessionType'
  BY <1>1, <1>2 DEF IInv, TypeOK, SessionType, Sources, LocalType
<1>6. FlagsType' /\ RefundType'
  BY DEF IInv, TypeOK, FlagsType, RefundType, RefundLabels
<1>7. LedgerType'
  BY <1>1, <1>2 DEF IInv, TypeOK, LedgerType, LocalType
<1>8. FaultType'
  BY FaultTypeStep DEF IInv, TypeOK
<1>9. SubWithinTotal'
  BY <1>1, <1>2 DEF IInv, TypeOK, RowsType, LocalType, SubWithinTotal
<1>10. ASSUME NEW x \in Requests, x # r PROVE Same(x)
  BY <1>10 DEF IInv, TypeOK, HandlerType, SessionType, FlagsType, RefundType,
    LedgerType, FaultType, Same
<1>11. SessionInv(r)'
  <2> USE <1>1, <1>2 DEF IInv, TypeOK, HandlerType, SessionType, FlagsType, RefundType,
    LedgerType, FaultType, LocalType, SessionInv, OpeningInv, TrustInv, HoldingInv,
    SettlingInv, FailingInv, BeforeFunding, FailLabels, FundingDue, TokenDue, TokenShare,
    Playground, ServedExactly, EffectiveQuota, AskedQuota
  <2>1. OpeningInv(r)' OBVIOUS
  <2>2. TrustInv(r)' OBVIOUS
  <2>3. HoldingInv(r)' OBVIOUS
  <2>4. SettlingInv(r)' OBVIOUS
  <2>5. FailingInv(r)' OBVIOUS
  <2> QED BY <2>1, <2>2, <2>3, <2>4, <2>5 DEF SessionInv
<1> QED BY <1>3, <1>4, <1>5, <1>6, <1>7, <1>8, <1>9, <1>10, <1>11, StepByFrame DEF
  TypeOK

\* The token is returned.
LEMMA RefundTokenStep ==
  ASSUME IInv, NEW r \in Requests, RefundToken(r)
  PROVE  IInv'
<1> USE BillingAssumption DEF RefundToken, RefundGoto, handler, NotRead, Playground, TokenDelta, NoFault, faultLog,
     tokens, Fault, funds, inputs, books, flags
<1>1. LocalType(r) /\ SessionInv(r)
  BY LocalTypes DEF IInv, SessionBooks
<1>2. EffectiveQuota(r) \in Nat /\ AskedQuota(r) \in Nat
  BY EffectiveIsNat DEF IInv
<1>3. RowsType'
  BY <1>1, <1>2 DEF IInv, TypeOK, RowsType, LocalType
<1>4. HandlerType'
  BY <1>1 DEF IInv, TypeOK, HandlerType, RequestType, Labels, LocalType
<1>5. SessionType'
  BY <1>1, <1>2 DEF IInv, TypeOK, SessionType, Sources, LocalType
<1>6. FlagsType' /\ RefundType'
  BY DEF IInv, TypeOK, FlagsType, RefundType, RefundLabels
<1>7. LedgerType'
  BY <1>1, <1>2 DEF IInv, TypeOK, LedgerType, LocalType
<1>8. FaultType'
  BY FaultTypeStep DEF IInv, TypeOK
<1>9. SubWithinTotal'
  BY <1>1, <1>2 DEF IInv, TypeOK, RowsType, LocalType, SubWithinTotal
<1>10. ASSUME NEW x \in Requests, x # r PROVE Same(x)
  BY <1>10 DEF IInv, TypeOK, HandlerType, SessionType, FlagsType, RefundType,
    LedgerType, FaultType, Same
<1>11. SessionInv(r)'
  <2> USE <1>1, <1>2 DEF IInv, TypeOK, HandlerType, SessionType, FlagsType, RefundType,
    LedgerType, FaultType, LocalType, SessionInv, OpeningInv, TrustInv, HoldingInv,
    SettlingInv, FailingInv, BeforeFunding, FailLabels, FundingDue, TokenDue, TokenShare,
    Playground, ServedExactly, EffectiveQuota, AskedQuota
  <2>1. OpeningInv(r)' OBVIOUS
  <2>2. TrustInv(r)' OBVIOUS
  <2>3. HoldingInv(r)' OBVIOUS
  <2>4. SettlingInv(r)' OBVIOUS
  <2>5. FailingInv(r)' OBVIOUS
  <2> QED BY <2>1, <2>2, <2>3, <2>4, <2>5 DEF SessionInv
<1> QED BY <1>3, <1>4, <1>5, <1>6, <1>7, <1>8, <1>9, <1>10, <1>11, StepByFrame DEF
  TypeOK

\* The periodic reset empties the subscription and touches no session.
LEMMA ResetSubStep ==
  ASSUME IInv, ResetSub
  PROVE  IInv'
<1> USE DEF ResetSub, handler, tokens, inputs, books, flags, refund, faultLog
<1>1. TypeOK'
  BY DEF IInv, TypeOK, RowsType, HandlerType, SessionType, FlagsType, RefundType,
         LedgerType, FaultType
<1>2. SubWithinTotal'
  BY BillingAssumption DEF SubWithinTotal
<1>3. ASSUME NEW x \in Requests PROVE SessionInv(x)'
  BY <1>3, Frame DEF IInv, SessionBooks, Same
<1> QED BY <1>1, <1>2, <1>3 DEF IInv, SessionBooks

\* The end of the subscription touches neither a session nor its used amount.
LEMMA ExpireSubStep ==
  ASSUME IInv, ExpireSub
  PROVE  IInv'
<1> USE DEF ExpireSub, handler, funds, tokens, inputs, books, flags, refund, faultLog
<1>1. TypeOK'
  BY DEF IInv, TypeOK, RowsType, HandlerType, SessionType, FlagsType, RefundType,
         LedgerType, FaultType
<1>2. SubWithinTotal'
  BY DEF IInv, SubWithinTotal
<1>3. ASSUME NEW x \in Requests PROVE SessionInv(x)'
  BY <1>3, Frame DEF IInv, SessionBooks, Same
<1> QED BY <1>1, <1>2, <1>3 DEF IInv, SessionBooks

\* Nothing happens.
LEMMA StutterStep ==
  ASSUME IInv, UNCHANGED vars
  PROVE  IInv'
<1> USE DEF vars, handler, funds, tokens, inputs, books, flags, refund, faultLog
<1>1. TypeOK'
  BY DEF IInv, TypeOK, RowsType, HandlerType, SessionType, FlagsType, RefundType,
         LedgerType, FaultType
<1>2. SubWithinTotal'
  BY DEF IInv, SubWithinTotal
<1>3. ASSUME NEW x \in Requests PROVE SessionInv(x)'
  BY <1>3, Frame DEF IInv, SessionBooks, Same
<1> QED BY <1>1, <1>2, <1>3 DEF IInv, SessionBooks

-----------------------------------------------------------------------------
(* The theorems.                                                           *)

\* No session exists at the start.
LEMMA InitInv == Init => IInv
<1> SUFFICES ASSUME Init PROVE IInv
  OBVIOUS
<1>1. RowsType BY BillingAssumption DEF Init, RowsType
<1>2. HandlerType BY DEF Init, NotRead, HandlerType, Labels, RequestType, AllKinds, AllPrefs
<1>3. SessionType BY DEF Init, SessionType, Sources
<1>4. FlagsType /\ RefundType BY DEF Init, NotRead, FlagsType, RefundType, RefundLabels
<1>5. LedgerType BY DEF Init, LedgerType
<1>6. FaultType BY BillingAssumption DEF Init, FaultType
<1>7. SubWithinTotal BY BillingAssumption DEF Init, SubWithinTotal
<1>8. ASSUME NEW r \in Requests PROVE SessionInv(r)
  BY <1>8, BillingAssumption DEF Init, NotRead, SessionInv, OpeningInv, TrustInv, HoldingInv, SettlingInv, FailingInv,
     BeforeFunding, FailLabels, FundingDue, TokenDue, TokenShare, Playground, ServedExactly
<1> QED BY <1>1, <1>2, <1>3, <1>4, <1>5, <1>6, <1>7, <1>8 DEF IInv, TypeOK, SessionBooks

\* Every step of every request keeps the books of all of them.
LEMMA NextInv == IInv /\ [Next]_vars => IInv'
<1> SUFFICES ASSUME IInv, [Next]_vars PROVE IInv'
  OBVIOUS
<1>1. ASSUME NEW r \in Requests, Opening(r) PROVE IInv'
  BY <1>1, StartStep, RetryTaskStep, HasSubStep, WalletCheckStep, TokenCheckStep, TokenTakeStep,
     WalletTakeStep, SubTakeStep, TokenRollbackStep, OverflowCheckStep DEF Opening
<1>2. ASSUME NEW r \in Requests, Reserving(r) PROVE IInv'
  BY <1>2, ReserveWalletStep, ReserveReadStep, ReserveSubStep, ReserveTokenCheckStep, ReserveTokenTakeStep,
     ReserveRollbackStep DEF Reserving
<1>3. ASSUME NEW r \in Requests, Settling(r) PROVE IInv'
  BY <1>3, SucceedStep, SettleFundingStep, SettleTokenStep, LegacyFundingStep,
     LegacyTokenStep DEF Settling
<1>4. ASSUME NEW r \in Requests, Failing(r) PROVE IInv'
  BY <1>4, FailStep, FeeFundingStep, FeeTokenStep, RefundWalletStep,
     RefundReadStep, RefundSubscriptionStep, RefundExtraStep, RefundTokenStep DEF Failing
<1>8. ASSUME NEW r \in Requests, SubRead(r) PROVE IInv'
  BY <1>8, SubReadStep
<1>5. CASE ResetSub BY <1>5, ResetSubStep
<1>6. CASE ExpireSub BY <1>6, ExpireSubStep
<1>7. CASE Quiet \/ UNCHANGED vars BY <1>7, StutterStep DEF Quiet
<1> QED BY <1>1, <1>2, <1>3, <1>4, <1>5, <1>6, <1>7, <1>8 DEF Next

\* SessionBooks at a finished request is ExactCharge, and at a request that is out
\* it is BooksMatchLedger.
LEMMA InvImplies == IInv => ExactCharge /\ BooksMatchLedger
<1> SUFFICES ASSUME IInv, NEW r \in Requests
             PROVE  /\ Finished(r) /\ ~failed[r] =>
                         /\ pc[r] = "rejected" => paid[r] = 0 /\ tokPaid[r] = 0
                         /\ pc[r] = "served"   => ServedExactly(r)
                         /\ pc[r] = "failed"   => FailedExactly(r)
                    /\ pc[r] = "relaying" =>
                         /\ source[r] # "subscription" => consumed[r] = paid[r]
                         /\ ~failed[r] =>
                              /\ paid[r] = preConsumedQuota[r]
                              /\ source[r] = "subscription" =>
                                   consumed[r] + extraReserved[r] = paid[r]
                              /\ tokPaid[r] = TokenShare(r, tokenConsumed[r])
                              /\ paid[r] > 0 => NeedsRefund(r)
  BY DEF ExactCharge, BooksMatchLedger
<1>1. LocalType(r) /\ SessionInv(r)
  BY LocalTypes DEF IInv, SessionBooks
<1>2. Finished(r) /\ ~failed[r] /\ pc[r] = "failed" => FailedExactly(r)
  BY <1>1 DEF Finished, FailedExactly, SessionInv, FailingInv, FailLabels, FundingDue,
     TokenDue, TokenShare, LocalType
<1>3. Finished(r) /\ ~failed[r] /\ pc[r] # "failed" =>
        /\ pc[r] = "rejected" => paid[r] = 0 /\ tokPaid[r] = 0
        /\ pc[r] = "served"   => ServedExactly(r)
  BY <1>1 DEF SessionInv, SettlingInv
<1>4. pc[r] = "relaying" /\ ~failed[r] /\ paid[r] > 0 => NeedsRefund(r)
  BY <1>1 DEF SessionInv, HoldingInv, NeedsRefund, LocalType
<1> QED BY <1>1, <1>2, <1>3, <1>4 DEF SessionInv, HoldingInv, LocalType

\* The inductive invariant holds in every reachable state.
THEOREM Invariance == Spec => []IInv
<1>1. IInv /\ [Next]_vars => IInv' BY NextInv
<1> QED BY InitInv, <1>1, PTL DEF Spec

\* Every field of every session keeps its type: no counter of BillingSession or of
\* WalletFunding goes negative, rollbacks of Reserve included.
THEOREM TypeCorrect == Spec => []TypeOK
<1>1. IInv => TypeOK BY DEF IInv
<1> QED BY Invariance, <1>1, PTL

\* A finished request whose calls worked is charged exactly (Settle, Refund, Reserve,
\* the rollbacks of preConsume), for any number of concurrent requests.
THEOREM ChargedExactly == Spec => []ExactCharge
<1>1. IInv => ExactCharge BY InvImplies
<1> QED BY Invariance, <1>1, PTL

\* While a request is out, its session would refund exactly what was taken
\* (reserveFunding, rollbackFundingReserve, needsRefundLocked).
THEOREM BooksAgree == Spec => []BooksMatchLedger
<1>1. IInv => BooksMatchLedger BY InvImplies
<1> QED BY Invariance, <1>1, PTL

\* The subscription's row never shows more than its total, however many requests share it
\* and however their transactions overlap (PreConsumeUserSubscription,
\* PostConsumeUserSubscriptionDelta).
THEOREM SubscriptionBounded == Spec => []SubWithinTotal
<1>1. IInv => SubWithinTotal BY DEF IInv
<1> QED BY Invariance, <1>1, PTL
=============================================================================
