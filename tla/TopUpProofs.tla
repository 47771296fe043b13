---------------------------- MODULE TopUpProofs -----------------------------
(***************************************************************************)
(* Proofs about payments and the guards beside them: orders, whose module  *)
(* is extended, and as named instances that share no state with them the   *)
(* lock of an order, the claim of a redemption code and the in-memory rate *)
(* limiter.                                                                *)
(***************************************************************************)
EXTENDS TopUp, Sequences, FiniteSetTheorems, TLAPS

CONSTANTS Threads, Mutexes, None,                \* of OrderLock
          Codes, Users,                          \* of Redemption
          MaxRequestNum, Duration, Expiration    \* of RateWindow

VARIABLES pc, rcm, entry, refCount, holder, createLock, found,
          code, expired, planEnabled, redeeming, copies, grants, enablings,
          now, queue, log, answer

Mutex == INSTANCE OrderLock

Code == INSTANCE Redemption WITH status <- code

Window == INSTANCE RateWindow

-----------------------------------------------------------------------------
(***************************************************************************)
(* An order is credited at most once, for any nodes, handlers, orders and  *)
(* faults.  On one node LockOrder keeps two handlers from both finding the *)
(* order pending; on several nodes the row lock of a transaction does.     *)
(***************************************************************************)

Busied == {"resolve", "lock", "look", "read", "save", "credit", "tx", "commit", "done"}
Locked == {"look", "read", "save", "credit", "tx", "commit"}
Completes(r) == r.what \in {"paid", "admin"}

\* Handlers run on nodes that serve, for orders that were inserted.
PlaceInv ==
  /\ \A x \in Handlers : h[x] # Idle =>
       h[x].node \in serving /\ status[h[x].order] # "none"
  /\ \A m \in notices : status[m.order] # "none"
  /\ \A o \in Orders : status[o] = "none" =>
       deal[o] = "none" /\ provider[o] = "none" /\ credited[o] = 0

\* A handler that may complete an order has its LockOrder.
LockInv ==
  \A x \in Handlers : h[x].pc \in Locked /\ Completes(h[x]) =>
    lock[h[x].node][h[x].order] = x

\* A transaction that has read its row holds the row lock, if there are any.
RowInv == rowLocks => \A x \in Handlers : h[x].pc = "commit" => row[h[x].order] = x

\* Only EpayNotify completes an order without a transaction.
EpayInv ==
  \A x \in Handlers :
    /\ h[x].pc \in {"read", "save"} /\ h[x].what = "paid" => provider[h[x].order] = "epay"
    /\ h[x].pc = "credit" => /\ h[x].what = "paid" /\ provider[h[x].order] = "epay"
                              /\ status[h[x].order] # "pending"
    /\ h[x].pc \in {"read", "save"} => h[x].what # "admin"

\* The handler found the order pending and is going to credit it.
Claims(r) ==
  \/ r.pc = "credit"
  \/ r.pc = "save" /\ r.what = "paid"
  \/ r.pc = "commit" /\ r.read = "pending" /\ Completes(r)

Guarded(o) == Cardinality(serving) = 1 \/ (rowLocks /\ provider[o] # "epay")

\* A guarded order that is pending, or claimed, has not been credited yet.
CreditInv ==
  \A o \in Orders : Guarded(o) =>
    /\ credited[o] <= 1
    /\ status[o] = "pending" => credited[o] = 0
    /\ \A x \in Handlers : h[x] # Idle /\ h[x].order = o /\ Claims(h[x]) => credited[o] = 0

IInv == TypeOK /\ PlaceInv /\ LockInv /\ RowInv /\ EpayInv /\ CreditInv

-----------------------------------------------------------------------------
(* Records and locks *)

HandlerType == [Handlers -> {Idle} \cup Busy]

LEMMA IdlePc == \A r \in {Idle} \cup Busy : (r.pc = "idle" <=> r = Idle) /\ (r # Idle => r \in Busy)
BY DEF Idle, Busy

\* A handler goes on to the statement q.
LEMMA GoesOn ==
  ASSUME h \in HandlerType, NEW x \in Handlers, h[x] # Idle,
         NEW q \in Busied, h' = [h EXCEPT ![x].pc = q]
  PROVE  /\ h' \in HandlerType
         /\ h'[x] # Idle /\ h'[x] \in Busy /\ h'[x].pc = q
         /\ h'[x].node = h[x].node /\ h'[x].order = h[x].order
         /\ h'[x].what = h[x].what /\ h'[x].read = h[x].read
         /\ \A y \in Handlers : y # x => h'[y] = h[y]
<1>1. h[x] \in Busy
  BY DEF HandlerType
<1>2. h'[x] = [h[x] EXCEPT !.pc = q] /\ \A y \in Handlers : y # x => h'[y] = h[y]
  BY DEF HandlerType
<1>3. /\ h'[x] \in Busy /\ h'[x].pc = q
      /\ h'[x].node = h[x].node /\ h'[x].order = h[x].order
      /\ h'[x].what = h[x].what /\ h'[x].read = h[x].read
  BY <1>1, <1>2 DEF Busy, Busied
<1>4. h'[x] # Idle
  BY <1>3 DEF Idle, Busied
<1>5. h' \in HandlerType
  BY <1>1, <1>2, <1>3 DEF HandlerType
<1>6. QED  BY <1>2, <1>3, <1>4, <1>5

\* On one node, or with row locks for an order that is not EpayNotify's, no two
\* handlers claim the same order.
LEMMA OneClaim ==
  ASSUME TopUpAssumption, IInv, NEW o \in Orders, Guarded(o),
         NEW x \in Handlers, h[x] # Idle, h[x].order = o, Claims(h[x]),
         NEW y \in Handlers, h[y] # Idle, h[y].order = o, Claims(h[y])
  PROVE  x = y
<1>1. h[x] \in Busy /\ h[y] \in Busy
  BY IdlePc DEF IInv, TypeOK
<1>2. CASE Cardinality(serving) = 1
  <2>1. IsFiniteSet(serving)
    BY FS_Subset DEF TopUpAssumption, IInv, TypeOK
  <2>2. PICK n : serving = {n}
    BY <1>2, <2>1, FS_Singleton
  <2>3. h[x].node = n /\ h[y].node = n
    BY <2>2 DEF IInv, PlaceInv
  <2>4. lock[n][o] = x /\ lock[n][o] = y
    BY <2>3 DEF IInv, LockInv, EpayInv, Claims, Completes, Locked
  <2>5. QED  BY <2>4
<1>3. CASE rowLocks /\ provider[o] # "epay"
  <2>1. h[x].pc = "commit" /\ h[y].pc = "commit"
    BY <1>3 DEF IInv, EpayInv, Claims
  <2>2. QED  BY <1>3, <2>1 DEF IInv, RowInv
<1>4. QED  BY <1>2, <1>3 DEF Guarded

-----------------------------------------------------------------------------
(* The steps of the user and the provider *)

LEMMA InitIInv == TopUpAssumption /\ Init => IInv
<1> SUFFICES ASSUME TopUpAssumption, Init PROVE IInv
  OBVIOUS
<1>1. TypeOK
  BY DEF Init, TypeOK, Notice, TopUpAssumption
<1>2. PlaceInv /\ LockInv /\ RowInv /\ EpayInv /\ CreditInv
  BY DEF Init, PlaceInv, LockInv, RowInv, EpayInv, CreditInv, Idle, Locked
<1>3. QED  BY <1>1, <1>2 DEF IInv

LEMMA InsertIInv ==
  ASSUME TopUpAssumption, IInv, NEW o \in Orders, NEW p \in Providers, Insert(o, p)
  PROVE  IInv'
<1>1. TypeOK'
  BY DEF Insert, deployment, IInv, TypeOK
<1>2. PlaceInv'
  BY DEF Insert, deployment, IInv, TypeOK, PlaceInv, Notice, Busy
<1>3. LockInv' /\ RowInv'
  BY DEF Insert, deployment, IInv, LockInv, RowInv
<1>4. \A x \in Handlers : h[x] # Idle => h[x].order # o
  BY DEF Insert, IInv, PlaceInv
<1>5. EpayInv'
  BY <1>4, IdlePc DEF Insert, deployment, IInv, EpayInv, TypeOK, Busy, Idle
<1>6. CreditInv'
  <2> SUFFICES ASSUME NEW q \in Orders, Guarded(q)'
               PROVE  /\ credited'[q] <= 1
                      /\ status'[q] = "pending" => credited'[q] = 0
                      /\ \A x \in Handlers : h'[x] # Idle /\ h'[x].order = q /\ Claims(h'[x])
                           => credited'[q] = 0
    BY DEF CreditInv
  <2>1. CASE q = o
    BY <2>1 DEF Insert, IInv, PlaceInv
  <2>2. CASE q # o
    <3>1. provider'[q] = provider[q] /\ status'[q] = status[q]
      BY <2>2 DEF Insert, IInv, TypeOK
    <3>2. Guarded(q)
      BY <3>1 DEF Guarded, Insert, deployment
    <3>3. QED  BY <3>1, <3>2 DEF IInv, CreditInv, Insert
  <2>3. QED  BY <2>1, <2>2
<1>7. QED  BY <1>1, <1>2, <1>3, <1>5, <1>6 DEF IInv

LEMMA CreateIInv ==
  ASSUME TopUpAssumption, IInv, NEW o \in Orders, Created(o) \/ CreateFails(o)
  PROVE  IInv'
<1>1. TypeOK'
  BY DEF Created, CreateFails, deployment, IInv, TypeOK
<1>2. PlaceInv'
  BY DEF Created, CreateFails, deployment, IInv, TypeOK, PlaceInv, Notice, Busy
<1>3. LockInv' /\ RowInv'
  BY DEF Created, CreateFails, deployment, IInv, LockInv, RowInv
<1>4. EpayInv'
  BY IdlePc DEF Created, CreateFails, deployment, IInv, EpayInv, TypeOK, Busy, Idle
<1>5. CreditInv'
  BY DEF Created, CreateFails, deployment, IInv, TypeOK, CreditInv, Guarded
<1>6. QED  BY <1>1, <1>2, <1>3, <1>4, <1>5 DEF IInv

LEMMA ProviderIInv ==
  ASSUME TopUpAssumption, IInv, NEW o \in Orders,
         Pay(o) \/ Progress(o) \/ Close(o, "failed") \/ Close(o, "expired")
  PROVE  IInv'
<1>1. /\ h' = h /\ status' = status /\ credited' = credited /\ provider' = provider
      /\ lock' = lock /\ row' = row /\ serving' = serving /\ rowLocks' = rowLocks
      /\ faults' = faults /\ unresolved' = unresolved
  BY DEF Pay, Progress, Close, deployment
<1>2. /\ deal[o] = "open"
      /\ deal' = deal \/ \E d \in {"paid", "closed"} : deal' = [deal EXCEPT ![o] = d]
      /\ \E w \in {"paid", "failed", "expired", "progress"} :
            notices' = notices \cup {[order |-> o, what |-> w]}
  BY DEF Pay, Progress, Close, Send
<1>3. TypeOK'
  BY <1>1, <1>2 DEF IInv, TypeOK, Notice
<1>4. PlaceInv'
  BY <1>1, <1>2 DEF IInv, TypeOK, PlaceInv
<1>5. LockInv' /\ RowInv' /\ EpayInv'
  BY <1>1 DEF IInv, LockInv, RowInv, EpayInv
<1>6. CreditInv'
  BY <1>1 DEF IInv, CreditInv, Guarded
<1>7. QED  BY <1>3, <1>4, <1>5, <1>6 DEF IInv

-----------------------------------------------------------------------------
(* The handlers *)

\* A handler starts with LockOrder; only one that cannot complete the order does without.
LEMMA StartIInv ==
  ASSUME TopUpAssumption, IInv, NEW x \in Handlers, NEW n \in serving, NEW o \in Orders,
         NEW what \in {"paid", "failed", "expired", "progress", "admin"},
         NEW q \in {"resolve", "lock", "tx"}, q = "tx" => what \notin {"paid", "admin"},
         status[o] # "none", Start(x, n, o, what, q),
         notices' \subseteq notices,
         UNCHANGED <<unresolved, deployment, provider, status, credited, deal, lock, row, faults>>
  PROVE  IInv'
<1> DEFINE r == [pc |-> q, node |-> n, order |-> o, what |-> what, read |-> "none", ok |-> TRUE]
<1>1. n \in Nodes
  BY DEF IInv, TypeOK
<1>2. r \in Busy /\ r # Idle
  BY <1>1 DEF Busy, Idle
<1>3. h' = [h EXCEPT ![x] = r]
  BY DEF Start
<1>4. h'[x] = r /\ \A y \in Handlers : y # x => h'[y] = h[y]
  BY <1>3 DEF IInv, TypeOK
<1>5. r.pc = q /\ r.node = n /\ r.order = o /\ r.what = what
  OBVIOUS
<1> HIDE DEF r
<1>6. TypeOK'
  BY <1>2, <1>3 DEF IInv, TypeOK, deployment
<1>7. PlaceInv'
  BY <1>4, <1>5 DEF IInv, PlaceInv, deployment
<1>8. LockInv'
  BY <1>4, <1>5 DEF IInv, LockInv, Locked, Completes
<1>9. RowInv' /\ EpayInv'
  BY <1>4, <1>5 DEF IInv, RowInv, EpayInv, deployment
<1>10. ~Claims(r)
  BY <1>5 DEF Claims
<1>11. CreditInv'
  BY <1>4, <1>10 DEF IInv, CreditInv, Guarded, deployment
<1>12. QED  BY <1>6, <1>7, <1>8, <1>9, <1>11 DEF IInv

LEMMA ArriveIInv ==
  ASSUME TopUpAssumption, IInv, NEW x \in Handlers, NEW n \in serving,
         \/ \E m \in notices : Deliver(x, n, m)
         \/ \E o \in Orders : AdminComplete(x, n, o)
  PROVE  IInv'
<1>1. ASSUME NEW m \in notices, Deliver(x, n, m) PROVE IInv'
  <2>1. /\ m.order \in Orders /\ m.what \in {"paid", "failed", "expired", "progress"}
        /\ status[m.order] # "none"
    BY DEF IInv, TypeOK, Notice, PlaceInv
  <2>2. CASE provider[m.order] = "waffo" /\ m.what # "paid"
    BY <1>1, <2>1, <2>2, StartIInv DEF Deliver
  <2>3. CASE provider[m.order] = "pancake"
    BY <1>1, <2>1, <2>3, StartIInv DEF Deliver
  <2>4. CASE ~(provider[m.order] = "waffo" /\ m.what # "paid") /\ provider[m.order] # "pancake"
    BY <1>1, <2>1, <2>4, StartIInv DEF Deliver
  <2>5. QED  BY <2>2, <2>3, <2>4
<1>2. ASSUME NEW o \in Orders, AdminComplete(x, n, o) PROVE IInv'
  BY <1>2, StartIInv DEF AdminComplete
<1>3. QED  BY <1>1, <1>2

LEMMA LockIInv ==
  ASSUME TopUpAssumption, IInv, NEW x \in Handlers, Lock(x)
  PROVE  IInv'
<1> DEFINE n == h[x].node
           o == h[x].order
           q == AfterLock(h[x])
<1>1. h[x] \in Busy /\ h[x] # Idle /\ n \in Nodes /\ o \in Orders
  BY DEF Lock, IInv, TypeOK, Busy, Idle
<1>2. /\ q \in {"tx", "look", "read"}
      /\ q = "read" /\ h[x].what = "paid" => provider[o] = "epay"
      /\ q = "read" => h[x].what # "admin"
  BY DEF AfterLock
<1>3. /\ h' = [h EXCEPT ![x].pc = q] /\ lock[n][o] = Free
      /\ lock' = [lock EXCEPT ![n][o] = x]
      /\ UNCHANGED <<unresolved, serving, rowLocks, provider, status, credited, deal, notices, row, faults>>
  BY DEF Lock, deployment
<1> HIDE DEF q
<1>4. /\ h' \in HandlerType
      /\ h'[x] # Idle /\ h'[x] \in Busy /\ h'[x].pc = q
      /\ h'[x].node = n /\ h'[x].order = o
      /\ h'[x].what = h[x].what /\ h'[x].read = h[x].read
      /\ \A y \in Handlers : y # x => h'[y] = h[y]
  <2>1. h \in HandlerType /\ q \in Busied
    BY <1>2 DEF IInv, TypeOK, HandlerType, Busied
  <2>2. QED  BY <1>1, <1>3, <2>1, GoesOn
<1>5. TypeOK'
  BY <1>1, <1>3, <1>4 DEF IInv, TypeOK, HandlerType
<1>6. PlaceInv'
  BY <1>1, <1>3, <1>4 DEF IInv, PlaceInv
<1>7. LockInv'
  <2>1. lock'[n][o] = x
    BY <1>1, <1>3 DEF IInv, TypeOK
  <2>2. ASSUME NEW y \in Handlers, y # x, h[y].pc \in Locked, Completes(h[y])
        PROVE  lock'[h[y].node][h[y].order] = y
    <3>1. h[y] \in Busy
      BY <2>2 DEF IInv, TypeOK, Locked, Idle
    <3>2. lock[h[y].node][h[y].order] = y /\ y # Free
      BY <2>2 DEF IInv, LockInv, TopUpAssumption
    <3>3. QED  BY <1>1, <1>3, <3>1, <3>2 DEF IInv, TypeOK, Busy
  <2>3. QED  BY <1>4, <2>1, <2>2 DEF LockInv
<1>8. RowInv'
  BY <1>2, <1>3, <1>4 DEF IInv, RowInv
<1>9. EpayInv'
  BY <1>2, <1>3, <1>4 DEF IInv, EpayInv
<1>10. CreditInv'
  BY <1>2, <1>3, <1>4 DEF IInv, CreditInv, Guarded, Claims
<1>11. QED  BY <1>5, <1>6, <1>7, <1>8, <1>9, <1>10 DEF IInv

\* The lookup of the order and the first look at its status: a handler goes on only
\* with a pending order.
LEMMA LookIInv ==
  ASSUME TopUpAssumption, IInv, NEW x \in Handlers, Resolve(x) \/ Look(x) \/ Read(x)
  PROVE  IInv'
<1> DEFINE o == h[x].order
<1>1. h[x] \in Busy /\ h[x] # Idle /\ o \in Orders /\ h[x].pc \in {"resolve", "look", "read"}
  BY DEF Resolve, Look, Read, IInv, TypeOK, Busy, Idle
<1>2. PICK q \in {"lock", "tx", "save", "done"}, ok \in BOOLEAN :
        /\ h' = [h EXCEPT ![x] = [h[x] EXCEPT !.pc = q, !.ok = ok]]
        /\ q = "save" => h[x].pc = "read" /\ status[o] = "pending"
        /\ q = "tx" => h[x].pc = "look"
  <2>1. h[x].ok \in BOOLEAN /\ \A q : [h[x] EXCEPT !.pc = q, !.ok = h[x].ok] = [h[x] EXCEPT !.pc = q]
    BY <1>1 DEF Busy
  <2>2. ASSUME NEW q \in {"lock", "tx", "save", "done"}, h' = [h EXCEPT ![x].pc = q]
        PROVE  h' = [h EXCEPT ![x] = [h[x] EXCEPT !.pc = q, !.ok = h[x].ok]]
    BY <1>1, <2>1, <2>2 DEF IInv, TypeOK
  <2>3. CASE Resolve(x)
    BY <2>1, <2>2, <2>3 DEF Resolve
  <2>4. CASE Look(x)
    <3>1. CASE h' = [h EXCEPT ![x].pc = "done", ![x].ok = FALSE]
      <4>1. h' = [h EXCEPT ![x] = [h[x] EXCEPT !.pc = "done", !.ok = FALSE]]
        BY <1>1, <3>1 DEF IInv, TypeOK
      <4>2. QED  BY <4>1
    <3>2. CASE h' = [h EXCEPT ![x].pc = IF status[o] = "pending" THEN "tx" ELSE "done"]
      BY <2>1, <2>2, <2>4, <3>2 DEF Look
    <3>3. QED  BY <2>4, <3>1, <3>2 DEF Look
  <2>5. CASE Read(x)
    BY <2>1, <2>2, <2>5 DEF Read
  <2>6. QED  BY <2>3, <2>4, <2>5
<1>3. /\ unresolved' \subseteq Orders /\ faults' \in 0..MaxFaults
      /\ UNCHANGED <<serving, rowLocks, provider, status, credited, deal, notices, lock, row>>
  BY <1>1 DEF Resolve, Look, Read, Fault, deployment, IInv, TypeOK, TopUpAssumption
<1>4. /\ h' \in HandlerType
      /\ h'[x] # Idle /\ h'[x] \in Busy /\ h'[x].pc = q
      /\ h'[x].node = h[x].node /\ h'[x].order = o
      /\ h'[x].what = h[x].what /\ h'[x].read = h[x].read
      /\ \A y \in Handlers : y # x => h'[y] = h[y]
  <2> DEFINE r == [h[x] EXCEPT !.pc = q, !.ok = ok]
  <2>1. /\ r \in Busy /\ r # Idle /\ r.pc = q /\ r.node = h[x].node /\ r.order = o
        /\ r.what = h[x].what /\ r.read = h[x].read
    BY <1>1 DEF Busy, Idle
  <2> HIDE DEF r
  <2>2. h' = [h EXCEPT ![x] = r]
    BY <1>2 DEF r
  <2>3. h'[x] = r /\ (\A y \in Handlers : y # x => h'[y] = h[y]) /\ h' \in HandlerType
    BY <2>1, <2>2 DEF IInv, TypeOK, HandlerType
  <2>4. QED  BY <2>1, <2>3
<1>5. TypeOK'
  BY <1>1, <1>3, <1>4 DEF IInv, TypeOK, HandlerType
<1>6. PlaceInv'
  BY <1>1, <1>3, <1>4 DEF IInv, PlaceInv
<1>7. LockInv'
  BY <1>1, <1>2, <1>3, <1>4 DEF IInv, LockInv, Locked, Completes
<1>8. RowInv'
  BY <1>2, <1>3, <1>4 DEF IInv, RowInv
<1>9. EpayInv'
  BY <1>1, <1>2, <1>3, <1>4 DEF IInv, EpayInv
<1>10. CreditInv'
  <2> SUFFICES ASSUME NEW p \in Orders, Guarded(p)'
               PROVE  /\ credited'[p] <= 1
                      /\ status'[p] = "pending" => credited'[p] = 0
                      /\ \A y \in Handlers : h'[y] # Idle /\ h'[y].order = p /\ Claims(h'[y])
                           => credited'[p] = 0
    BY DEF CreditInv
  <2>1. Guarded(p)
    BY <1>3 DEF Guarded
  <2>2. Claims(h'[x]) => status[o] = "pending"
    BY <1>2, <1>4 DEF Claims
  <2>3. QED  BY <1>3, <1>4, <2>1, <2>2 DEF IInv, CreditInv
<1>11. QED  BY <1>5, <1>6, <1>7, <1>8, <1>9, <1>10 DEF IInv

\* EpayNotify saves the order as paid and keeps its claim.
LEMMA SaveIInv ==
  ASSUME TopUpAssumption, IInv, NEW x \in Handlers, Save(x)
  PROVE  IInv'
<1> DEFINE o == h[x].order
<1>1. h[x] \in Busy /\ h[x] # Idle /\ o \in Orders /\ h[x].pc = "save"
  BY DEF Save, IInv, TypeOK, Busy, Idle
<1>2. PICK q \in {"credit", "done"} :
        /\ h' = [h EXCEPT ![x].pc = q]
        /\ q = "credit" => h[x].what = "paid" /\ status'[o] # "pending"
        /\ \/ status' = status
           \/ \E s \in {"success", "failed"} : status' = [status EXCEPT ![o] = s]
        /\ faults' \in 0..MaxFaults
  BY <1>1 DEF Save, Fault, IInv, TypeOK, TopUpAssumption
<1>3. /\ h' = [h EXCEPT ![x].pc = q]
      /\ UNCHANGED <<unresolved, serving, rowLocks, provider, credited, deal, notices, lock, row>>
  BY <1>2 DEF Save, deployment
<1>4. /\ h' \in HandlerType
      /\ h'[x] # Idle /\ h'[x] \in Busy /\ h'[x].pc = q
      /\ h'[x].node = h[x].node /\ h'[x].order = o
      /\ h'[x].what = h[x].what /\ h'[x].read = h[x].read
      /\ \A y \in Handlers : y # x => h'[y] = h[y]
  <2>1. h \in HandlerType /\ q \in Busied
    BY <1>2 DEF IInv, TypeOK, HandlerType, Busied
  <2>2. QED  BY <1>1, <1>3, <2>1, GoesOn
<1>5. TypeOK'
  BY <1>1, <1>2, <1>3, <1>4 DEF IInv, TypeOK, HandlerType
<1>6. PlaceInv'
  BY <1>1, <1>2, <1>3, <1>4, IdlePc DEF IInv, PlaceInv, TypeOK, Notice, Busy
<1>7. LockInv'
  BY <1>1, <1>3, <1>4 DEF IInv, LockInv, Locked, Completes
<1>8. RowInv'
  BY <1>2, <1>3, <1>4 DEF IInv, RowInv
<1>9. EpayInv'
  <2>1. \A p \in Orders : status[p] # "pending" => status'[p] # "pending"
    BY <1>1, <1>2 DEF IInv, TypeOK
  <2>2. \A y \in Handlers : h[y].pc = "credit" => h[y].order \in Orders
    BY DEF IInv, TypeOK, Busy, Idle
  <2>3. QED  BY <1>1, <1>2, <1>3, <1>4, <2>1, <2>2 DEF IInv, EpayInv
<1>10. CreditInv'
  <2> SUFFICES ASSUME NEW p \in Orders, Guarded(p)'
               PROVE  /\ credited'[p] <= 1
                      /\ status'[p] = "pending" => credited'[p] = 0
                      /\ \A y \in Handlers : h'[y] # Idle /\ h'[y].order = p /\ Claims(h'[y])
                           => credited'[p] = 0
    BY DEF CreditInv
  <2>1. Guarded(p)
    BY <1>3 DEF Guarded
  <2>2. Claims(h'[x]) => Claims(h[x])
    BY <1>1, <1>2, <1>4 DEF Claims
  <2>3. status'[p] = "pending" => status[p] = "pending"
    BY <1>1, <1>2 DEF IInv, TypeOK
  <2>4. QED  BY <1>1, <1>3, <1>4, <2>1, <2>2, <2>3 DEF IInv, CreditInv
<1>11. QED  BY <1>5, <1>6, <1>7, <1>8, <1>9, <1>10 DEF IInv

\* EpayNotify credits the order it saved: it is the only one with a claim.
LEMMA CreditIInv ==
  ASSUME TopUpAssumption, IInv, NEW x \in Handlers, Credit(x)
  PROVE  IInv'
<1> DEFINE o == h[x].order
           q == "done"
<1>1. h[x] \in Busy /\ h[x] # Idle /\ o \in Orders /\ h[x].pc = "credit"
  BY DEF Credit, IInv, TypeOK, Busy, Idle
<1>2. /\ credited' = credited \/ credited' = [credited EXCEPT ![o] = @ + 1]
      /\ faults' \in 0..MaxFaults
  BY DEF Credit, Fault, IInv, TypeOK, TopUpAssumption
<1>3. /\ h' = [h EXCEPT ![x].pc = q]
      /\ UNCHANGED <<unresolved, serving, rowLocks, provider, status, deal, notices, lock, row>>
  BY DEF Credit, deployment
<1>4. /\ h' \in HandlerType
      /\ h'[x] # Idle /\ h'[x] \in Busy /\ h'[x].pc = q
      /\ h'[x].node = h[x].node /\ h'[x].order = o
      /\ h'[x].what = h[x].what /\ h'[x].read = h[x].read
      /\ \A y \in Handlers : y # x => h'[y] = h[y]
  <2>1. h \in HandlerType /\ q \in Busied
    BY <1>2 DEF IInv, TypeOK, HandlerType, Busied
  <2>2. QED  BY <1>1, <1>3, <2>1, GoesOn
<1>5. TypeOK'
  BY <1>1, <1>2, <1>3, <1>4 DEF IInv, TypeOK, HandlerType
<1>6. PlaceInv'
  BY <1>1, <1>2, <1>3, <1>4 DEF IInv, PlaceInv, TypeOK
<1>7. LockInv' /\ RowInv' /\ EpayInv'
  BY <1>3, <1>4 DEF IInv, LockInv, Locked, RowInv, EpayInv
<1>8. Claims(h[x]) /\ ~Claims(h'[x])
  BY <1>1, <1>4 DEF Claims
<1>9. CreditInv'
  <2> SUFFICES ASSUME NEW p \in Orders, Guarded(p)'
               PROVE  /\ credited'[p] <= 1
                      /\ status'[p] = "pending" => credited'[p] = 0
                      /\ \A y \in Handlers : h'[y] # Idle /\ h'[y].order = p /\ Claims(h'[y])
                           => credited'[p] = 0
    BY DEF CreditInv
  <2>1. Guarded(p)
    BY <1>3 DEF Guarded
  <2>2. CASE p # o
    BY <1>2, <1>3, <1>4, <1>8, <2>1, <2>2 DEF IInv, TypeOK, CreditInv
  <2>3. CASE p = o
    <3>1. credited[o] = 0 /\ credited'[o] <= 1
      BY <1>1, <1>2, <1>8, <2>1, <2>3 DEF IInv, TypeOK, CreditInv
    <3>2. status[o] # "pending"
      BY <1>1 DEF IInv, EpayInv
    <3>3. \A y \in Handlers : h'[y] # Idle /\ h'[y].order = o => ~Claims(h'[y])
      BY <1>1, <1>4, <1>8, <2>1, <2>3, OneClaim
    <3>4. QED  BY <1>3, <2>3, <3>1, <3>2, <3>3
  <2>4. QED  BY <2>2, <2>3
<1>10. QED  BY <1>5, <1>6, <1>7, <1>9 DEF IInv

\* A transaction reads its row, under the row lock if there are any.
LEMMA TxReadIInv ==
  ASSUME TopUpAssumption, IInv, NEW x \in Handlers, TxRead(x)
  PROVE  IInv'
<1> DEFINE o == h[x].order
           r == [h[x] EXCEPT !.pc = "commit", !.read = status[o]]
<1>1. h[x] \in Busy /\ h[x] # Idle /\ o \in Orders /\ h[x].pc = "tx" /\ row[o] = Free
  BY DEF TxRead, IInv, TypeOK, Busy, Idle
<1>2. status[o] \in {"none", "pending", "success", "failed", "expired"}
  BY <1>1 DEF IInv, TypeOK
<1>3. /\ r \in Busy /\ r # Idle /\ r.pc = "commit" /\ r.read = status[o]
      /\ r.node = h[x].node /\ r.order = o /\ r.what = h[x].what
  BY <1>1, <1>2 DEF Busy, Idle
<1>4. h' = [h EXCEPT ![x] = r]
  BY <1>1 DEF TxRead, IInv, TypeOK
<1> HIDE DEF r
<1>5. h'[x] = r /\ \A y \in Handlers : y # x => h'[y] = h[y]
  BY <1>4 DEF IInv, TypeOK
<1>6. /\ row' = IF rowLocks THEN [row EXCEPT ![o] = x] ELSE row
      /\ UNCHANGED <<unresolved, serving, rowLocks, provider, status, credited, deal, notices, lock, faults>>
  BY DEF TxRead, deployment
<1>7. TypeOK'
  BY <1>1, <1>3, <1>4, <1>6 DEF IInv, TypeOK
<1>8. PlaceInv'
  BY <1>1, <1>3, <1>5, <1>6 DEF IInv, PlaceInv
<1>9. LockInv'
  BY <1>1, <1>3, <1>5, <1>6 DEF IInv, LockInv, Locked, Completes
<1>10. RowInv'
  <2> SUFFICES ASSUME rowLocks, NEW y \in Handlers, h'[y].pc = "commit"
               PROVE  row'[h'[y].order] = y
    BY <1>6 DEF RowInv
  <2>1. CASE y = x
    BY <1>1, <1>3, <1>5, <1>6, <2>1 DEF IInv, TypeOK
  <2>2. CASE y # x
    <3>1. h[y].pc = "commit" /\ h'[y] = h[y]
      BY <1>5, <2>2
    <3>2. h[y].order \in Orders /\ row[h[y].order] = y /\ y # Free
      BY <3>1 DEF IInv, TypeOK, Busy, Idle, RowInv, TopUpAssumption
    <3>3. QED  BY <1>1, <1>6, <3>1, <3>2 DEF IInv, TypeOK
  <2>3. QED  BY <2>1, <2>2
<1>11. EpayInv'
  BY <1>3, <1>5, <1>6 DEF IInv, EpayInv
<1>12. CreditInv'
  BY <1>1, <1>3, <1>5, <1>6 DEF IInv, CreditInv, Guarded, Claims
<1>13. QED  BY <1>7, <1>8, <1>9, <1>10, <1>11, <1>12 DEF IInv

\* A transaction credits the order it found pending: it is the only one with a claim.
LEMMA TxCommitIInv ==
  ASSUME TopUpAssumption, IInv, NEW x \in Handlers, TxCommit(x)
  PROVE  IInv'
<1> DEFINE o == h[x].order
<1>1. h[x] \in Busy /\ h[x] # Idle /\ o \in Orders /\ h[x].pc = "commit"
  BY DEF TxCommit, IInv, TypeOK, Busy, Idle
<1>2. PICK ok \in BOOLEAN : h' = [h EXCEPT ![x] = [h[x] EXCEPT !.pc = "done", !.ok = ok]]
  BY <1>1 DEF TxCommit, Succeeds, IInv, TypeOK
<1> DEFINE r == [h[x] EXCEPT !.pc = "done", !.ok = ok]
<1>3. /\ r \in Busy /\ r # Idle /\ r.pc = "done"
      /\ r.node = h[x].node /\ r.order = o /\ r.what = h[x].what
  BY <1>1 DEF Busy, Idle
<1> HIDE DEF r
<1>4. h' = [h EXCEPT ![x] = r]
  BY <1>2 DEF r
<1>5. h'[x] = r /\ \A y \in Handlers : y # x => h'[y] = h[y]
  BY <1>4 DEF IInv, TypeOK
<1>6. /\ row' = IF rowLocks THEN [row EXCEPT ![o] = Free] ELSE row
      /\ UNCHANGED <<unresolved, serving, rowLocks, provider, deal, notices, lock>>
      /\ faults' \in 0..MaxFaults
  BY DEF TxCommit, deployment, Fault, IInv, TypeOK, TopUpAssumption
<1>7. \/ status' = status /\ credited' = credited
      \/ /\ h[x].read = "pending"
         /\ \E s \in {"success", "failed", "expired"} : status' = [status EXCEPT ![o] = s]
         /\ \/ credited' = credited
            \/ Completes(h[x]) /\ credited' = [credited EXCEPT ![o] = @ + 1]
  BY <1>1 DEF TxCommit, Writes, Target, Completes, IInv, TypeOK
<1>8. /\ status' \in [Orders -> {"none", "pending", "success", "failed", "expired"}]
      /\ credited' \in [Orders -> Nat]
      /\ \A p \in Orders : p # o => status'[p] = status[p] /\ credited'[p] = credited[p]
      /\ \A p \in Orders : status[p] # "pending" => status'[p] # "pending"
      /\ \A p \in Orders : status'[p] = "none" => status[p] = "none" /\ credited'[p] = credited[p]
      /\ \A p \in Orders : status[p] # "none" => status'[p] # "none"
  BY <1>1, <1>7 DEF IInv, TypeOK
<1>9. TypeOK'
  BY <1>1, <1>3, <1>4, <1>6, <1>8 DEF IInv, TypeOK
<1>10. \A y \in Handlers : h[y] # Idle => h[y].order \in Orders
  BY DEF IInv, TypeOK, Busy
<1>11. PlaceInv'
  <2>1. \A m \in notices : m.order \in Orders
    BY DEF IInv, TypeOK, Notice
  <2>2. QED  BY <1>1, <1>3, <1>5, <1>6, <1>8, <1>10, <2>1 DEF IInv, PlaceInv
<1>12. LockInv'
  BY <1>3, <1>5, <1>6 DEF IInv, LockInv, Locked
<1>13. RowInv'
  <2> SUFFICES ASSUME rowLocks, NEW y \in Handlers, h'[y].pc = "commit"
               PROVE  row'[h'[y].order] = y
    BY <1>6 DEF RowInv
  <2>1. y # x /\ h'[y] = h[y] /\ h[y] # Idle
    BY <1>3, <1>5 DEF Idle
  <2>2. row[h[y].order] = y /\ row[o] = x
    BY <1>1, <2>1 DEF IInv, RowInv
  <2>3. QED  BY <1>1, <1>6, <1>10, <2>1, <2>2 DEF IInv, TypeOK
<1>14. EpayInv'
  <2>1. \A y \in Handlers : h[y].pc = "credit" => h[y] # Idle
    BY DEF Idle
  <2>2. QED  BY <1>3, <1>5, <1>6, <1>8, <1>10, <2>1 DEF IInv, EpayInv
<1>15. CreditInv'
  <2> SUFFICES ASSUME NEW p \in Orders, Guarded(p)'
               PROVE  /\ credited'[p] <= 1
                      /\ status'[p] = "pending" => credited'[p] = 0
                      /\ \A y \in Handlers : h'[y] # Idle /\ h'[y].order = p /\ Claims(h'[y])
                           => credited'[p] = 0
    BY DEF CreditInv
  <2>1. Guarded(p) /\ ~Claims(h'[x])
    BY <1>3, <1>5, <1>6 DEF Guarded, Claims
  <2>2. CASE credited'[p] = credited[p]
    BY <1>5, <1>8, <2>1, <2>2 DEF IInv, CreditInv
  <2>3. CASE credited'[p] # credited[p]
    <3>1. p = o /\ Claims(h[x]) /\ credited'[o] = credited[o] + 1 /\ status'[o] # "pending"
      BY <1>1, <1>7, <1>8, <2>3 DEF IInv, TypeOK, Claims
    <3>2. credited[o] = 0 /\ credited'[o] = 1
      BY <1>1, <2>1, <3>1 DEF IInv, CreditInv
    <3>3. \A y \in Handlers : h'[y] # Idle /\ h'[y].order = o => ~Claims(h'[y])
      BY <1>1, <1>5, <2>1, <3>1, OneClaim
    <3>4. QED  BY <3>1, <3>2, <3>3
  <2>4. QED  BY <2>2, <2>3
<1>16. QED  BY <1>9, <1>11, <1>12, <1>13, <1>14, <1>15 DEF IInv

\* A handler answers and unlocks; what others hold stays.
LEMMA DoneIInv ==
  ASSUME TopUpAssumption, IInv, NEW x \in Handlers, Done(x)
  PROVE  IInv'
<1> DEFINE n == h[x].node
           o == h[x].order
<1>1. h[x] \in Busy /\ h[x] # Idle /\ n \in Nodes /\ o \in Orders
  BY DEF Done, IInv, TypeOK, Busy, Idle
<1>2. /\ h' = [h EXCEPT ![x] = Idle] /\ notices' \subseteq notices /\ faults' \in 0..MaxFaults
      /\ lock' = IF lock[n][o] = x THEN [lock EXCEPT ![n][o] = Free] ELSE lock
      /\ UNCHANGED <<unresolved, serving, rowLocks, provider, status, credited, deal, row>>
  BY DEF Done, deployment, Fault, IInv, TypeOK, TopUpAssumption
<1>3. h'[x] = Idle /\ \A y \in Handlers : y # x => h'[y] = h[y]
  BY <1>2 DEF IInv, TypeOK
<1>4. Idle.pc = "idle"
  BY DEF Idle
<1>5. TypeOK'
  BY <1>1, <1>2 DEF IInv, TypeOK
<1>6. PlaceInv'
  BY <1>2, <1>3 DEF IInv, PlaceInv
<1>7. LockInv'
  <2> SUFFICES ASSUME NEW y \in Handlers, h'[y].pc \in Locked, Completes(h'[y])
               PROVE  lock'[h'[y].node][h'[y].order] = y
    BY DEF LockInv
  <2>1. y # x /\ h'[y] = h[y] /\ h[y] \in Busy
    BY <1>3, <1>4 DEF Locked, IInv, TypeOK
  <2>2. lock[h[y].node][h[y].order] = y
    BY <2>1 DEF IInv, LockInv
  <2>3. QED  BY <1>1, <1>2, <2>1, <2>2 DEF IInv, TypeOK, Busy
<1>8. RowInv' /\ EpayInv'
  BY <1>2, <1>3, <1>4 DEF IInv, RowInv, EpayInv
<1>9. CreditInv'
  BY <1>2, <1>3 DEF IInv, CreditInv, Guarded
<1>10. QED  BY <1>5, <1>6, <1>7, <1>8, <1>9 DEF IInv

\* A node's handlers and locks disappear together.
LEMMA CrashIInv ==
  ASSUME TopUpAssumption, IInv, NEW n \in serving, Crash(n)
  PROVE  IInv'
<1> DEFINE H == {x \in Handlers : h[x] # Idle /\ h[x].node = n}
<1>1. /\ h' = [x \in Handlers |-> IF x \in H THEN Idle ELSE h[x]]
      /\ lock' = [lock EXCEPT ![n] = [p \in Orders |-> Free]]
      /\ row' = [p \in Orders |-> IF row[p] \in H THEN Free ELSE row[p]]
      /\ UNCHANGED <<unresolved, serving, rowLocks, provider, status, credited, deal, notices>>
      /\ faults' \in 0..MaxFaults
  BY DEF Crash, Fault, deployment, IInv, TypeOK, TopUpAssumption
<1>2. n \in Nodes /\ Idle.pc = "idle"
  BY DEF IInv, TypeOK, Idle
<1>3. ASSUME NEW x \in Handlers, h'[x] # Idle
      PROVE  h'[x] = h[x] /\ x \notin H /\ h[x] \in Busy /\ h[x].node # n
  BY <1>1, <1>3 DEF IInv, TypeOK
<1>4. TypeOK'
  BY <1>1, <1>2 DEF IInv, TypeOK
<1>5. PlaceInv'
  BY <1>1, <1>3 DEF IInv, PlaceInv
<1>6. \A x \in Handlers : h'[x].pc # "idle" => h'[x] # Idle
  BY <1>2
<1>7. LockInv'
  <2> SUFFICES ASSUME NEW y \in Handlers, h'[y].pc \in Locked, Completes(h'[y])
               PROVE  lock'[h'[y].node][h'[y].order] = y
    BY DEF LockInv
  <2>1. h'[y] = h[y] /\ h[y] \in Busy /\ h[y].node # n
    BY <1>3, <1>6 DEF Locked
  <2>2. lock[h[y].node][h[y].order] = y
    BY <2>1 DEF IInv, LockInv
  <2>3. QED  BY <1>1, <1>2, <2>1, <2>2 DEF IInv, TypeOK, Busy
<1>8. RowInv'
  <2> SUFFICES ASSUME rowLocks, NEW y \in Handlers, h'[y].pc = "commit"
               PROVE  row'[h'[y].order] = y
    BY <1>1 DEF RowInv
  <2>1. h'[y] = h[y] /\ h[y] \in Busy /\ y \notin H
    BY <1>3, <1>6
  <2>2. row[h[y].order] = y /\ h[y].order \in Orders
    BY <2>1 DEF IInv, RowInv, Busy
  <2>3. QED  BY <1>1, <2>1, <2>2
<1>9. EpayInv'
  BY <1>1, <1>3, <1>6 DEF IInv, EpayInv
<1>10. CreditInv'
  BY <1>1, <1>3 DEF IInv, CreditInv, Guarded
<1>11. QED  BY <1>4, <1>5, <1>7, <1>8, <1>9, <1>10 DEF IInv

-----------------------------------------------------------------------------
(* The theorems *)

\* Every action preserves the inductive invariant.
LEMMA NextIInv == TopUpAssumption /\ IInv /\ [Next]_vars => IInv'
<1> SUFFICES ASSUME TopUpAssumption, IInv, [Next]_vars PROVE IInv'
  OBVIOUS
<1>1. ASSUME NEW o \in Orders,
             \/ \E p \in Providers : Insert(o, p)
             \/ Created(o) \/ CreateFails(o) \/ Pay(o) \/ Progress(o)
             \/ Close(o, "failed") \/ Close(o, "expired")
      PROVE  IInv'
  BY <1>1, InsertIInv, CreateIInv, ProviderIInv
<1>2. ASSUME NEW x \in Handlers, Step(x) PROVE IInv'
  BY <1>2, LockIInv, LookIInv, SaveIInv, CreditIInv, TxReadIInv, TxCommitIInv,
       DoneIInv DEF Step
<1>3. ASSUME NEW x \in Handlers, NEW n \in serving,
             \/ \E m \in notices : Deliver(x, n, m)
             \/ \E o \in Orders : AdminComplete(x, n, o)
      PROVE  IInv'
  BY <1>3, ArriveIInv
<1>4. ASSUME NEW n \in serving, Crash(n) PROVE IInv'
  BY <1>4, CrashIInv
<1>5. CASE UNCHANGED vars
  BY <1>5 DEF vars, deployment, IInv, TypeOK, PlaceInv, LockInv, RowInv, EpayInv,
       CreditInv, Guarded
<1>6. QED  BY <1>1, <1>2, <1>3, <1>4, <1>5 DEF Next

\* The inductive invariant: who holds which lock, and that an order which is
\* pending or claimed has not been credited, in every reachable state.
THEOREM Invariance == Spec => []IInv
BY TopUpAssumption, InitIInv, NextIInv, PTL DEF Spec

\* Type correctness of orders, notifications, locks and handlers.
THEOREM TopUpTypeOK == Spec => []TypeOK
<1>1. IInv => TypeOK
  BY DEF IInv
<1>2. QED  BY <1>1, Invariance, PTL

\* An order is credited at most once on one node, and on several nodes if the
\* database honours FOR UPDATE and the order is not EpayNotify's, for any number
\* of notifications, completions, handlers, crashes and errors.
THEOREM CreditedOnce == Spec => []CreditedAtMostOnce
<1>1. IInv => CreditedAtMostOnce
  BY DEF IInv, CreditInv, Guarded, CreditedAtMostOnce
<1>2. QED  BY <1>1, Invariance, PTL

-----------------------------------------------------------------------------
(***************************************************************************)
(* The order lock is a lock, for any finite set of goroutines.             *)
(*                                                                         *)
(* The argument: every goroutine that got an object from LoadOrStore and   *)
(* has not yet counted down refers to the object in the map, because the   *)
(* map's entry is deleted only when the count, which is the number of      *)
(* these goroutines, falls to zero, under the lock that guards LoadOrStore *)
(* as well.  One object in use at a time means one mutex to hold.          *)
(***************************************************************************)

\* The goroutines that hold createLock.
Creating == {"load", "count", "uncount"}

\* The goroutines the count counts.
Counted == {"wait", "held"} \cup Mutex!Unlocking
Counting == {t \in Threads : pc[t] \in Counted}

OneCreator == \A t \in Threads : pc[t] \in Creating <=> createLock = t

RefersToEntry ==
  \A t \in Threads :
    IF pc[t] \in Counted \cup {"count"} THEN rcm[t] = entry /\ entry # None
                                        ELSE rcm[t] = None

FoundIsLocked == \A t \in Threads : pc[t] \in Mutex!Unlocking => found[t] = rcm[t]

CountIsCounting == entry # None => refCount[entry] = Cardinality(Counting)

HolderHolds ==
  entry # None =>
    \A t \in Threads : pc[t] \in {"held", "unlock"} <=> holder[entry] = t

EntryIsUsed == entry # None => \E t \in Threads : pc[t] \in Counted \cup {"count"}

MutexIInv ==
  /\ Mutex!OrderLockAssumption
  /\ Mutex!TypeOK /\ OneCreator /\ RefersToEntry /\ FoundIsLocked
  /\ CountIsCounting /\ HolderHolds /\ EntryIsUsed

-----------------------------------------------------------------------------
(* The count *)

\* A goroutine that starts to be counted adds one.
LEMMA CountingGrows ==
  ASSUME Mutex!OrderLockAssumption, Mutex!TypeOK, NEW t \in Threads,
         pc[t] \notin Counted, pc'[t] \in Counted,
         \A s \in Threads \ {t} : pc'[s] = pc[s]
  PROVE  /\ Cardinality(Counting) \in Nat
         /\ Cardinality(Counting') = Cardinality(Counting) + 1
<1>1. IsFiniteSet(Counting)
  <2>1. IsFiniteSet(Threads) BY DEF Mutex!OrderLockAssumption, Mutex!IsFiniteSet,
       IsFiniteSet
  <2> QED BY <2>1, FS_Subset DEF Counting
<1>2. Counting' = Counting \cup {t} /\ t \notin Counting BY DEF Counting
<1> QED BY <1>1, <1>2, FS_AddElement, FS_CardinalityType

\* One that stops takes one off; a count of one means it was the only one.
LEMMA CountingShrinks ==
  ASSUME Mutex!OrderLockAssumption, Mutex!TypeOK, NEW t \in Threads,
         pc[t] \in Counted, pc'[t] \notin Counted,
         \A s \in Threads \ {t} : pc'[s] = pc[s]
  PROVE  /\ Cardinality(Counting) \in Nat
         /\ Cardinality(Counting') = Cardinality(Counting) - 1
         /\ Cardinality(Counting) # 0
         /\ Cardinality(Counting) = 1 => Counting = {t}
         /\ Cardinality(Counting) # 1 => \E s \in Threads \ {t} : s \in Counting
<1>1. IsFiniteSet(Counting)
  <2>1. IsFiniteSet(Threads) BY DEF Mutex!OrderLockAssumption, Mutex!IsFiniteSet,
       IsFiniteSet
  <2> QED BY <2>1, FS_Subset DEF Counting
<1>2. Counting' = Counting \ {t} /\ t \in Counting BY DEF Counting
<1>3. Cardinality(Counting') = Cardinality(Counting) - 1 /\ Cardinality(Counting) \in Nat
  BY <1>1, <1>2, FS_RemoveElement, FS_CardinalityType
<1>4. Cardinality(Counting) # 0 BY <1>1, <1>2, FS_EmptySet
<1>5. Cardinality(Counting) = 1 => Counting = {t}
  BY <1>1, <1>2, FS_Singleton
<1>6. Cardinality(Counting) # 1 => \E s \in Threads \ {t} : s \in Counting
  BY <1>1, <1>2, FS_Singleton DEF Counting
<1> QED BY <1>3, <1>4, <1>5, <1>6

\* The count stays while nobody starts or stops to be counted.
LEMMA CountingStays ==
  ASSUME Mutex!TypeOK, \A s \in Threads : pc'[s] \in Counted <=> pc[s] \in Counted
  PROVE  Counting' = Counting
BY DEF Counting

-----------------------------------------------------------------------------
(* The invariant is inductive *)

LEMMA InitMutexIInv == Mutex!OrderLockAssumption /\ Mutex!Init => MutexIInv
<1> SUFFICES ASSUME Mutex!OrderLockAssumption, Mutex!Init PROVE MutexIInv OBVIOUS
<1> USE DEF Mutex!OrderLockAssumption
<1> QED BY DEF Mutex!Init, MutexIInv, Mutex!TypeOK, OneCreator, RefersToEntry,
     FoundIsLocked,
       CountIsCounting, HolderHolds, EntryIsUsed, Creating, Counted, Mutex!Unlocking,
            Mutex!Locking

\* What the parts of the invariant say is expanded where an action is handled.
LEMMA LockOrderInd ==
  ASSUME MutexIInv, NEW t \in Threads, Mutex!LockOrder(t) PROVE MutexIInv'
<1>1. Counting' = Counting
  BY CountingStays DEF MutexIInv, Mutex!LockOrder, Mutex!Goto, Mutex!TypeOK, Counted,
       Mutex!Unlocking
<1> QED BY <1>1 DEF MutexIInv, Mutex!LockOrder, Mutex!Goto, Mutex!TypeOK, OneCreator,
     RefersToEntry,
       FoundIsLocked, CountIsCounting, HolderHolds, EntryIsUsed, Creating, Counted,
       Mutex!Unlocking, Mutex!Locking

LEMMA TakeInd ==
  ASSUME MutexIInv, NEW t \in Threads,
         \/ Mutex!TakeCreateLock(t, "lock", "load")
         \/ Mutex!TakeCreateLock(t, "uncreate", "uncount")
  PROVE  MutexIInv'
<1>1. Counting' = Counting
  BY CountingStays DEF MutexIInv, Mutex!TakeCreateLock, Mutex!Goto, Mutex!TypeOK, Counted,
       Mutex!Unlocking
<1>2. OneCreator'
  BY DEF Mutex!OrderLockAssumption, MutexIInv, Mutex!TakeCreateLock, Mutex!Goto,
       Mutex!TypeOK,
       OneCreator,
     Creating, Counted, Mutex!Unlocking, Mutex!Locking
<1> QED BY <1>1, <1>2 DEF MutexIInv, Mutex!TakeCreateLock, Mutex!Goto, Mutex!TypeOK,
     RefersToEntry,
       FoundIsLocked, CountIsCounting, HolderHolds, EntryIsUsed, Creating, Counted,
       Mutex!Unlocking, Mutex!Locking

LEMMA LoadOrStoreInd ==
  ASSUME MutexIInv, NEW t \in Threads, Mutex!LoadOrStore(t) PROVE MutexIInv'
<1> Mutex!OrderLockAssumption BY DEF MutexIInv
<1> USE DEF Mutex!OrderLockAssumption
<1>1. Counting' = Counting
  BY CountingStays DEF MutexIInv, Mutex!LoadOrStore, Mutex!Goto, Mutex!TypeOK, Counted,
       Mutex!Unlocking
<1>2. Mutex!TypeOK' /\ OneCreator'
  BY DEF MutexIInv, Mutex!LoadOrStore, Mutex!Goto, Mutex!TypeOK, OneCreator, Creating,
       Mutex!Unlocking, Mutex!Locking
<1>3. CASE entry # None
  BY <1>1, <1>2, <1>3 DEF MutexIInv, Mutex!LoadOrStore, Mutex!Goto, Mutex!TypeOK,
       RefersToEntry,
     FoundIsLocked, CountIsCounting, HolderHolds, EntryIsUsed, Counted, Mutex!Unlocking
<1>4. CASE entry = None
  <2>1. \A s \in Threads : pc[s] \notin Counted
    BY <1>4 DEF MutexIInv, RefersToEntry
  <2>2. Counting' = {} /\ Cardinality(Counting') = 0
    BY <1>1, <2>1, FS_EmptySet DEF Counting
  <2>3. PICK m \in Mutexes :
          /\ rcm' = [rcm EXCEPT ![t] = m] /\ entry' = m
          /\ refCount' = [refCount EXCEPT ![m] = 0]
          /\ holder' = [holder EXCEPT ![m] = None]
    BY <1>4 DEF Mutex!LoadOrStore
  <2>4. RefersToEntry' /\ FoundIsLocked' /\ EntryIsUsed'
    BY <1>4, <2>1, <2>3 DEF MutexIInv, Mutex!LoadOrStore, Mutex!Goto, Mutex!TypeOK,
         RefersToEntry,
       FoundIsLocked, EntryIsUsed, Counted, Mutex!Unlocking
  <2>5. CountIsCounting'
    BY <2>2, <2>3 DEF MutexIInv, Mutex!TypeOK, CountIsCounting
  <2>6. HolderHolds'
    BY <2>1, <2>3 DEF MutexIInv, Mutex!LoadOrStore, Mutex!Goto, Mutex!TypeOK, HolderHolds,
         Counted, Mutex!Unlocking
  <2> QED BY <1>2, <2>4, <2>5, <2>6 DEF MutexIInv
<1> QED BY <1>3, <1>4

LEMMA CountUpInd ==
  ASSUME MutexIInv, NEW t \in Threads, Mutex!CountUp(t) PROVE MutexIInv'
<1> Mutex!OrderLockAssumption BY DEF MutexIInv
<1> USE DEF Mutex!OrderLockAssumption
<1>1. Cardinality(Counting') = Cardinality(Counting) + 1 /\ Cardinality(Counting) \in Nat
  BY CountingGrows DEF MutexIInv, Mutex!CountUp, Mutex!Goto, Mutex!TypeOK, Counted,
       Mutex!Unlocking
<1>2. Mutex!TypeOK' /\ OneCreator'
  BY DEF MutexIInv, Mutex!CountUp, Mutex!Goto, Mutex!TypeOK, OneCreator, RefersToEntry,
       Creating,
     Mutex!Unlocking, Mutex!Locking
<1>3. CountIsCounting'
  BY <1>1 DEF MutexIInv, Mutex!CountUp, Mutex!TypeOK, RefersToEntry, CountIsCounting
<1> QED BY <1>2, <1>3 DEF MutexIInv, Mutex!CountUp, Mutex!Goto, Mutex!TypeOK,
     RefersToEntry,
       FoundIsLocked, HolderHolds, EntryIsUsed, Counted, Mutex!Unlocking

LEMMA AcquireInd ==
  ASSUME MutexIInv, NEW t \in Threads, Mutex!Acquire(t) PROVE MutexIInv'
<1> Mutex!OrderLockAssumption BY DEF MutexIInv
<1> USE DEF Mutex!OrderLockAssumption
<1>1. Counting' = Counting
  BY CountingStays DEF MutexIInv, Mutex!Acquire, Mutex!Goto, Mutex!TypeOK, Counted,
       Mutex!Unlocking
<1>2. HolderHolds'
  BY DEF MutexIInv, Mutex!Acquire, Mutex!Goto, Mutex!TypeOK, RefersToEntry, HolderHolds,
       Counted, Mutex!Unlocking
<1> QED BY <1>1, <1>2 DEF MutexIInv, Mutex!Acquire, Mutex!Goto, Mutex!TypeOK, OneCreator,
     RefersToEntry,
       FoundIsLocked, CountIsCounting, EntryIsUsed, Creating, Counted, Mutex!Unlocking,
            Mutex!Locking

LEMMA UnlockOrderInd ==
  ASSUME MutexIInv, NEW t \in Threads, Mutex!UnlockOrder(t) PROVE MutexIInv'
<1>1. Counting' = Counting
  BY CountingStays DEF MutexIInv, Mutex!UnlockOrder, Mutex!Goto, Mutex!TypeOK,
       RefersToEntry,
       Counted, Mutex!Unlocking
<1>2. entry # None /\ entry = rcm[t]
  BY DEF MutexIInv, Mutex!UnlockOrder, RefersToEntry, Counted
<1> QED BY <1>1, <1>2 DEF MutexIInv, Mutex!UnlockOrder, Mutex!Goto, Mutex!TypeOK,
     OneCreator,
     RefersToEntry,
       FoundIsLocked, CountIsCounting, HolderHolds, EntryIsUsed, Creating, Counted,
       Mutex!Unlocking, Mutex!Locking

LEMMA ReleaseInd ==
  ASSUME MutexIInv, NEW t \in Threads, Mutex!Release(t) PROVE MutexIInv'
<1> Mutex!OrderLockAssumption BY DEF MutexIInv
<1> USE DEF Mutex!OrderLockAssumption
<1>1. Counting' = Counting
  BY CountingStays DEF MutexIInv, Mutex!Release, Mutex!Goto, Mutex!TypeOK, Counted,
       Mutex!Unlocking
<1>2. found[t] = entry /\ entry # None
  BY DEF MutexIInv, Mutex!Release, RefersToEntry, FoundIsLocked, Counted, Mutex!Unlocking
<1>3. HolderHolds'
  BY <1>2 DEF MutexIInv, Mutex!Release, Mutex!Goto, Mutex!TypeOK, HolderHolds
<1> QED BY <1>1, <1>2, <1>3 DEF MutexIInv, Mutex!Release, Mutex!Goto, Mutex!TypeOK,
     OneCreator,
       RefersToEntry, FoundIsLocked, CountIsCounting, EntryIsUsed, Creating, Counted,
       Mutex!Unlocking, Mutex!Locking

LEMMA CountDownInd ==
  ASSUME MutexIInv, NEW t \in Threads, Mutex!CountDown(t) PROVE MutexIInv'
<1> Mutex!OrderLockAssumption BY DEF MutexIInv
<1> USE DEF Mutex!OrderLockAssumption
<1>1. found[t] = entry /\ entry \in Mutexes /\ refCount[entry] = Cardinality(Counting)
  BY DEF MutexIInv, Mutex!TypeOK, Mutex!CountDown, RefersToEntry, FoundIsLocked,
       CountIsCounting,
     Counted, Mutex!Unlocking
<1>2. /\ Cardinality(Counting) \in Nat
      /\ Cardinality(Counting') = Cardinality(Counting) - 1
      /\ Cardinality(Counting) # 0
      /\ Cardinality(Counting) = 1 => Counting = {t}
      /\ Cardinality(Counting) # 1 => \E s \in Threads \ {t} : s \in Counting
  <2> pc[t] \in Counted /\ pc'[t] \notin Counted /\ \A s \in Threads \ {t} : pc'[s] = pc[s]
    BY DEF MutexIInv, Mutex!CountDown, Mutex!Goto, Mutex!TypeOK, Counted, Mutex!Unlocking
  <2> QED BY CountingShrinks DEF MutexIInv
<1>3. Mutex!TypeOK' /\ OneCreator' /\ FoundIsLocked'
  BY <1>1, <1>2 DEF MutexIInv, Mutex!CountDown, Mutex!Goto, Mutex!TypeOK, OneCreator,
       FoundIsLocked,
     Creating, Mutex!Unlocking, Mutex!Locking
<1>4. CASE Cardinality(Counting) = 1
  <2>1. \A s \in Threads \ {t} : pc[s] \notin Counted \cup {"count"}
    BY <1>2, <1>4 DEF MutexIInv, Mutex!CountDown, OneCreator, Creating, Counting
  <2>2. entry' = None BY <1>1, <1>4 DEF Mutex!CountDown
  <2>3. RefersToEntry'
    BY <2>1, <2>2 DEF MutexIInv, Mutex!CountDown, Mutex!Goto, Mutex!TypeOK, RefersToEntry,
         Counted, Mutex!Unlocking
  <2> QED BY <1>3, <2>2, <2>3 DEF MutexIInv, CountIsCounting, HolderHolds, EntryIsUsed
<1>5. CASE Cardinality(Counting) # 1
  <2>1. entry' = entry BY <1>1, <1>5 DEF Mutex!CountDown
  <2>2. RefersToEntry' /\ HolderHolds'
    BY <2>1 DEF MutexIInv, Mutex!CountDown, Mutex!Goto, Mutex!TypeOK, RefersToEntry,
         HolderHolds, Counted,
       Mutex!Unlocking
  <2>3. CountIsCounting'
    BY <1>1, <1>2, <2>1 DEF MutexIInv, Mutex!CountDown, Mutex!TypeOK, CountIsCounting
  <2>4. EntryIsUsed'
    BY <1>2, <1>5 DEF MutexIInv, Mutex!CountDown, Mutex!Goto, Mutex!TypeOK, EntryIsUsed,
         Counting
  <2> QED BY <1>3, <2>2, <2>3, <2>4 DEF MutexIInv
<1> QED BY <1>4, <1>5

LEMMA NextMutexIInv == MutexIInv /\ [Mutex!Next]_(Mutex!vars) => MutexIInv'
<1> SUFFICES ASSUME MutexIInv, [Mutex!Next]_(Mutex!vars) PROVE MutexIInv' OBVIOUS
<1>1. CASE UNCHANGED Mutex!vars
  BY <1>1 DEF Mutex!vars, MutexIInv, Mutex!TypeOK, OneCreator, RefersToEntry,
       FoundIsLocked,
     CountIsCounting, HolderHolds, EntryIsUsed, Counting
<1>2. CASE Mutex!Next
  BY <1>2, LockOrderInd, TakeInd, LoadOrStoreInd, CountUpInd, AcquireInd,
     UnlockOrderInd, ReleaseInd, CountDownInd DEF Mutex!Next, Mutex!Step
<1> QED BY <1>1, <1>2

-----------------------------------------------------------------------------
LEMMA MutexInvariant == Mutex!OrderLockAssumption /\ Mutex!Spec => []MutexIInv
BY InitMutexIInv, NextMutexIInv, PTL DEF Mutex!Spec

\* Between LockOrder and UnlockOrder of controller/topup.go a goroutine is alone,
\* however many goroutines complete the order.
THEOREM OrderLockExcludes == Mutex!OrderLockAssumption /\ Mutex!Spec => []Mutex!MutualExclusion
<1>1. MutexIInv => Mutex!MutualExclusion
  BY DEF MutexIInv, RefersToEntry, HolderHolds, Mutex!MutualExclusion, Counted
<1> QED BY <1>1, MutexInvariant, PTL

\* UnlockOrder finds the entry its goroutine locked and unlocks that.
THEOREM OrderLockUnlocksItsOwn == Mutex!OrderLockAssumption /\ Mutex!Spec => []Mutex!UnlocksItsOwn
<1>1. MutexIInv => Mutex!UnlocksItsOwn
  BY DEF MutexIInv, RefersToEntry, FoundIsLocked, HolderHolds, Mutex!UnlocksItsOwn,
       Counted,
     Mutex!Unlocking
<1> QED BY <1>1, MutexInvariant, PTL

\* orderLocks keeps no entry that nobody uses.
THEOREM OrderLockLeavesNothing == Mutex!OrderLockAssumption /\ Mutex!Spec => []Mutex!NoEntryLeft
<1>1. MutexIInv => Mutex!NoEntryLeft
  BY DEF MutexIInv, EntryIsUsed, Mutex!NoEntryLeft, Counted, Mutex!Unlocking
<1> QED BY <1>1, MutexInvariant, PTL

\* The variables of the order lock keep their types.
THEOREM OrderLockTypeOK == Mutex!OrderLockAssumption /\ Mutex!Spec => []Mutex!TypeOK
<1>1. MutexIInv => Mutex!TypeOK BY DEF MutexIInv
<1> QED BY <1>1, MutexInvariant, PTL

-----------------------------------------------------------------------------
(***************************************************************************)
(* A redemption code is granted once per enabling, for any number of users,*)
(* codes and administrators' edits.  Strengthened by the types,            *)
(* OneGrantPerEnabling is inductive: a claim moves the code from usable to *)
(* used in the statement that counts it.                                   *)
(***************************************************************************)

CodeIInv == Code!TypeOK /\ Code!OneGrantPerEnabling

LEMMA InitCodeIInv == Code!Init => CodeIInv
BY DEF Code!Init, CodeIInv, Code!TypeOK, Code!OneGrantPerEnabling, Code!Status, Code!Copy

LEMMA ClaimIInv ==
  ASSUME CodeIInv, NEW u \in Users, NEW c \in Codes, Code!RedeemClaim(u, c)
  PROVE  CodeIInv'
<1>1. Code!TypeOK'
  BY DEF Code!RedeemClaim, CodeIInv, Code!TypeOK, Code!Status
<1>2. CASE UNCHANGED <<code, grants>>
  BY <1>1, <1>2 DEF Code!RedeemClaim, CodeIInv, Code!OneGrantPerEnabling
<1>3. CASE /\ code[c] = "enabled"
           /\ code' = [code EXCEPT ![c] = "used"]
           /\ grants' = [grants EXCEPT ![c] = @ + 1]
  <2>1. enablings' = enablings
    BY DEF Code!RedeemClaim
  <2>2. ASSUME NEW d \in Codes, d # c
        PROVE  code'[d] = code[d] /\ grants'[d] = grants[d]
    BY <1>3, <2>2 DEF CodeIInv, Code!TypeOK
  <2>3. code'[c] = "used" /\ grants'[c] = grants[c] + 1 /\ grants[c] + 1 <= 1 + enablings[c]
    BY <1>3 DEF CodeIInv, Code!TypeOK, Code!OneGrantPerEnabling
  <2>4. Code!OneGrantPerEnabling'
    BY <2>1, <2>2, <2>3 DEF CodeIInv, Code!TypeOK, Code!OneGrantPerEnabling
  <2>5. QED  BY <1>1, <2>4 DEF CodeIInv
<1>4. QED  BY <1>2, <1>3 DEF Code!RedeemClaim

LEMMA EditIInv ==
  ASSUME CodeIInv, NEW k \in copies, NEW s \in {"enabled", "disabled", "used"},
       NEW e \in BOOLEAN,
         Code!EditWrite(k, s, e)
  PROVE  CodeIInv'
<1> DEFINE c == k.code
<1>1. c \in Codes
  BY DEF CodeIInv, Code!TypeOK, Code!Copy
<1>2. Code!TypeOK'
  BY <1>1 DEF Code!EditWrite, CodeIInv, Code!TypeOK, Code!Status
<1>3. CASE code[c] = "deleted"
  BY <1>2, <1>3 DEF Code!EditWrite, CodeIInv, Code!OneGrantPerEnabling
<1>4. CASE code[c] # "deleted"
  <2>1. /\ grants' = grants /\ code' = [code EXCEPT ![c] = s]
        /\ enablings' = IF code[c] = "used" /\ s # "used"
                          THEN [enablings EXCEPT ![c] = @ + 1] ELSE enablings
    BY <1>4 DEF Code!EditWrite
  <2>2. ASSUME NEW d \in Codes, d # c
        PROVE  code'[d] = code[d] /\ enablings'[d] = enablings[d]
    BY <2>1, <2>2 DEF CodeIInv, Code!TypeOK
  <2>3. /\ code'[c] = s /\ code[c] \in {"enabled", "disabled", "used"}
        /\ enablings'[c] = IF code[c] = "used" /\ s # "used"
                             THEN enablings[c] + 1 ELSE enablings[c]
        /\ grants[c] \in Nat /\ enablings[c] \in Nat
    BY <1>1, <1>4, <2>1 DEF CodeIInv, Code!TypeOK, Code!Status
  <2>4. grants[c] + (IF code'[c] \in {"enabled",
       "disabled"} THEN 1 ELSE 0) <= 1 + enablings'[c]
    BY <1>1, <2>3 DEF CodeIInv, Code!OneGrantPerEnabling
  <2>5. Code!OneGrantPerEnabling'
    BY <2>1, <2>2, <2>4 DEF CodeIInv, Code!OneGrantPerEnabling
  <2>6. QED  BY <1>2, <2>5 DEF CodeIInv
<1>5. QED  BY <1>3, <1>4

\* Every action preserves the inductive invariant.
LEMMA NextCodeIInv == CodeIInv /\ [Code!Next]_(Code!vars) => CodeIInv'
<1> SUFFICES ASSUME CodeIInv, [Code!Next]_(Code!vars) PROVE CodeIInv'
  OBVIOUS
<1>1. ASSUME NEW u \in Users, NEW c \in Codes, Code!RedeemRead(u, c) PROVE CodeIInv'
  BY <1>1 DEF Code!RedeemRead, CodeIInv, Code!TypeOK, Code!OneGrantPerEnabling
<1>2. ASSUME NEW u \in Users, NEW c \in Codes, Code!RedeemClaim(u, c) PROVE CodeIInv'
  BY <1>2, ClaimIInv
<1>3. ASSUME NEW c \in Codes, NEW how \in {"fields", "status"}, Code!EditRead(c,
     how) PROVE CodeIInv'
  BY <1>3 DEF Code!EditRead, CodeIInv, Code!TypeOK, Code!Status, Code!Copy,
       Code!OneGrantPerEnabling
<1>4. ASSUME NEW k \in copies, NEW s \in {"enabled", "disabled", "used"}, NEW e \in BOOLEAN,
             Code!EditWrite(k, s, e)
      PROVE  CodeIInv'
  BY <1>4, EditIInv
<1>5. ASSUME NEW c \in Codes, Code!Delete(c) PROVE CodeIInv'
  BY <1>5 DEF Code!Delete, CodeIInv, Code!TypeOK, Code!Status, Code!OneGrantPerEnabling
<1>6. ASSUME NEW c \in Codes, Code!Expire(c) \/ Code!TogglePlan(c) PROVE CodeIInv'
  BY <1>6 DEF Code!Expire, Code!TogglePlan, CodeIInv, Code!TypeOK,
       Code!OneGrantPerEnabling
<1>7. CASE Code!DeleteInvalid
  BY <1>7 DEF Code!DeleteInvalid, Code!Usable, CodeIInv, Code!TypeOK, Code!Status,
       Code!OneGrantPerEnabling
<1>8. CASE UNCHANGED Code!vars
  BY <1>8 DEF Code!vars, CodeIInv, Code!TypeOK, Code!OneGrantPerEnabling
<1>9. QED  BY <1>1, <1>2, <1>3, <1>4, <1>5, <1>6, <1>7, <1>8 DEF Code!Next

\* Grants never outnumber the enablings of a code, whoever redeems and edits it at once.
THEOREM GrantedPerEnabling == Code!Spec => []Code!OneGrantPerEnabling
<1>1. CodeIInv => Code!OneGrantPerEnabling
  BY DEF CodeIInv
<1>2. QED  BY <1>1, InitCodeIInv, NextCodeIInv, PTL DEF Code!Spec

\* A code is used once as long as no edit makes a used one usable again.
THEOREM GrantedOnce == Code!Spec => []Code!SingleUse
<1>1. CodeIInv => Code!SingleUse
  BY DEF CodeIInv, Code!TypeOK, Code!OneGrantPerEnabling, Code!SingleUse
<1>2. QED  BY <1>1, InitCodeIInv, NextCodeIInv, PTL DEF Code!Spec

\* Type correctness of the codes' rows and of what requests hold of them.
THEOREM RedemptionTypeOK == Code!Spec => []Code!TypeOK
<1>1. CodeIInv => Code!TypeOK
  BY DEF CodeIInv
<1>2. QED  BY <1>1, InitCodeIInv, NextCodeIInv, PTL DEF Code!Spec

-----------------------------------------------------------------------------
(***************************************************************************)
(* For every limit, window and expiration that is not shorter than the     *)
(* window, the in-memory limiter answers as the sliding window over all    *)
(* admissions does. The queue is the end of the log of admissions, and     *)
(* what it lacks of the latest MaxRequestNum entries was deleted with the  *)
(* key and is older than the window.                                       *)
(***************************************************************************)

\* An admission keeps the queue within the limit, and its end is the time of
\* the admission.
LEMMA PushedFacts ==
  ASSUME Window!RateWindowAssumption, Window!TypeOK
  PROVE  /\ Window!Pushed \in Seq(Nat)
         /\ Window!Room => Len(Window!Pushed) = Len(queue) + 1
         /\ ~Window!Room => Len(Window!Pushed) = MaxRequestNum /\ Len(queue) = MaxRequestNum
         /\ Window!Pushed[Len(Window!Pushed)] = now
         /\ Window!Room => \A i \in 1..Len(queue) : Window!Pushed[i] = queue[i]
         /\ ~Window!Room => \A i \in 1..MaxRequestNum - 1 : Window!Pushed[i] = queue[i + 1]
<1>1. CASE Window!Room
  BY <1>1 DEF Window!Pushed, Window!Room, Window!TypeOK
<1>2. CASE ~Window!Room
  <2>1. Len(queue) = MaxRequestNum /\ queue # <<>>
    BY <1>2 DEF Window!RateWindowAssumption, Window!Room, Window!TypeOK
  <2>2. /\ Tail(queue) \in Seq(Nat)
        /\ Len(Tail(queue)) = MaxRequestNum - 1
        /\ \A i \in 1..MaxRequestNum - 1 : Tail(queue)[i] = queue[i + 1]
    BY <2>1 DEF Window!RateWindowAssumption, Window!TypeOK
  <2>3. Window!Pushed = Append(Tail(queue), now)
    BY <1>2 DEF Window!Pushed
  <2> QED
    BY <2>1, <2>2, <2>3, <1>2 DEF Window!RateWindowAssumption, Window!TypeOK
<1> QED
  BY <1>1, <1>2

\* A request is admitted exactly when fewer than MaxRequestNum admissions are
\* in the window: the queue's first entry is the one the window looks at, and
\* a queue that is not full has forgotten only what has left the window.
LEMMA AdmittedUnlessFull ==
  ASSUME Window!IInv
  PROVE  (Window!Room \/ Window!OldestLeft) <=> ~Window!Promise!Full
<1> USE DEF Window!RateWindowAssumption, Window!IInv, Window!TypeOK
<1>1. CASE Window!Room
  <2>1. SUFFICES ASSUME Len(log) >= MaxRequestNum
                 PROVE  ~(now - log[Len(log) - MaxRequestNum + 1] < Duration)
    BY <1>1 DEF Window!Promise!Full
  <2>2. Len(log) - MaxRequestNum + 1 \in 1..Len(log) - Len(queue)
    BY <2>1, <1>1 DEF Window!Room
  <2>3. now - log[Len(log) - MaxRequestNum + 1] >= Duration
    BY <2>2, <1>1 DEF Window!ForgottenIsOld, Window!Room
  <2> QED
    BY <2>3, <2>2
<1>2. CASE ~Window!Room
  <2>1. Len(queue) = MaxRequestNum /\ queue # <<>>
    BY <1>2 DEF Window!Room
  <2>2. Len(log) >= MaxRequestNum /\ Head(queue) = log[Len(log) - MaxRequestNum + 1]
    BY <2>1 DEF Window!QueueIsRecent
  <2>3. now - Head(queue) \in Int
    BY <2>1
  <2> QED
    BY <1>2, <2>1, <2>2, <2>3 DEF Window!Promise!Full, Window!OldestLeft
<1> QED
  BY <1>1, <1>2

\* An admission is appended to the log.
LEMMA LogFacts ==
  ASSUME Window!TypeOK
  PROVE  /\ Append(log, now) \in Seq(Nat)
         /\ Len(Append(log, now)) = Len(log) + 1
         /\ \A i \in 1..Len(log) : Append(log, now)[i] = log[i]
         /\ Append(log, now)[Len(log) + 1] = now
BY DEF Window!TypeOK

LEMMA InitWindow == Window!RateWindowAssumption /\ Window!Init => Window!IInv
BY DEF Window!RateWindowAssumption, Window!Init, Window!IInv, Window!TypeOK,
     Window!Sorted, Window!QueueIsRecent, Window!ForgottenIsOld,
     Window!AtMostMax

\* Every action preserves the inductive invariant.
LEMMA NextWindow == Window!IInv /\ [Window!Next]_(Window!vars) => Window!IInv'
<1> SUFFICES ASSUME Window!IInv, [Window!Next]_(Window!vars)
             PROVE  Window!IInv'
  OBVIOUS
<1> Window!RateWindowAssumption BY DEF Window!IInv
<1> USE DEF Window!RateWindowAssumption
<1>1. CASE Window!Tick
  <2>1. now' = now + 1 /\ queue' = queue /\ log' = log /\ answer' = answer
    BY <1>1 DEF Window!Tick
  <2>2. Window!TypeOK'
    BY <2>1 DEF Window!IInv, Window!TypeOK
  <2>3. Window!Sorted' /\ Window!AtMostMax' /\ Window!QueueIsRecent'
    BY <2>1 DEF Window!IInv, Window!TypeOK, Window!Sorted, Window!AtMostMax,
         Window!QueueIsRecent
  <2>4. Window!ForgottenIsOld'
    <3>1. SUFFICES ASSUME Len(queue') < MaxRequestNum, NEW i \in 1..Len(log') - Len(queue')
                   PROVE  now' - log'[i] >= Duration
      BY DEF Window!ForgottenIsOld
    <3>2. i \in 1..Len(log) /\ log[i] \in Nat /\ now \in Nat
      BY <2>1, <3>1 DEF Window!IInv, Window!TypeOK
    <3>3. now - log[i] >= Duration
      BY <2>1, <3>1 DEF Window!IInv, Window!ForgottenIsOld
    <3> QED
      BY <2>1, <3>2, <3>3
  <2> QED
    BY <2>2, <2>3, <2>4 DEF Window!IInv
<1>2. CASE Window!Request
  <2>1. CASE ~(Window!Room \/ Window!OldestLeft)
    <3>1. now' = now /\ queue' = queue /\ log' = log /\ answer' = "refused"
      BY <1>2, <2>1 DEF Window!Request
    <3> QED
      BY <3>1 DEF Window!IInv, Window!TypeOK, Window!Sorted, Window!AtMostMax,
           Window!QueueIsRecent, Window!ForgottenIsOld
  <2>2. CASE Window!Room \/ Window!OldestLeft
    <3>1. /\ queue' = Window!Pushed /\ log' = Append(log, now)
          /\ answer' = "admitted" /\ now' = now
      BY <1>2, <2>2 DEF Window!Request
    <3> HIDE DEF Window!Pushed
    <3>2. Window!TypeOK
      BY DEF Window!IInv
    <3>3. /\ log' \in Seq(Nat)
          /\ Len(log') = Len(log) + 1
          /\ \A i \in 1..Len(log) : log'[i] = log[i]
          /\ log'[Len(log) + 1] = now
      BY <3>1, <3>2, LogFacts
    <3>4. Window!TypeOK'
      BY <3>1, <3>2, <3>3, PushedFacts DEF Window!TypeOK, Window!Room
    <3>5. Window!Sorted'
      BY <3>1, <3>2, <3>3 DEF Window!IInv, Window!Sorted, Window!TypeOK
    <3>6. Window!QueueIsRecent'
      <4>1. CASE Window!Room
        <5>1. Len(queue') = Len(queue) + 1
          BY <4>1, <3>1, <3>2, PushedFacts
        <5>2. ASSUME NEW i \in 1..Len(queue')
              PROVE  queue'[i] = log'[Len(log') - Len(queue') + i]
          <6>1. CASE i \in 1..Len(queue)
            <7>1. queue'[i] = queue[i]
              BY <6>1, <4>1, <3>1, <3>2, PushedFacts
            <7>2. queue[i] = log[Len(log) - Len(queue) + i]
              BY <6>1 DEF Window!IInv, Window!QueueIsRecent
            <7>3. Len(log) - Len(queue) + i \in 1..Len(log)
              BY <6>1, <3>2 DEF Window!IInv, Window!QueueIsRecent, Window!TypeOK
            <7>4. Len(log') - Len(queue') + i = Len(log) - Len(queue) + i
              BY <5>1, <3>2, <3>3 DEF Window!TypeOK
            <7> QED
              BY <7>1, <7>2, <7>3, <7>4, <3>3
          <6>2. CASE i = Len(queue) + 1
            BY <6>2, <5>1, <4>1, <3>1, <3>2, <3>3, PushedFacts DEF Window!TypeOK
          <6> QED
            BY <6>1, <6>2, <5>1, <3>2 DEF Window!TypeOK
        <5> QED
          BY <5>1, <5>2, <3>2, <3>3 DEF Window!IInv, Window!QueueIsRecent, Window!TypeOK
      <4>2. CASE ~Window!Room
        <5>1. Len(queue') = MaxRequestNum /\ Len(queue) = MaxRequestNum
          BY <4>2, <3>1, <3>2, PushedFacts
        <5>2. ASSUME NEW i \in 1..Len(queue')
              PROVE  queue'[i] = log'[Len(log') - Len(queue') + i]
          <6>1. CASE i \in 1..MaxRequestNum - 1
            <7>1. queue'[i] = queue[i + 1]
              BY <6>1, <4>2, <3>1, <3>2, PushedFacts
            <7>2. queue[i + 1] = log[Len(log) - MaxRequestNum + (i + 1)]
              BY <6>1, <5>1 DEF Window!IInv, Window!QueueIsRecent
            <7>3. Len(log) - MaxRequestNum + (i + 1) \in 1..Len(log)
              BY <6>1, <5>1, <3>2 DEF Window!IInv, Window!QueueIsRecent, Window!TypeOK
            <7>4. Len(log') - Len(queue') + i = Len(log) - MaxRequestNum + (i + 1)
              BY <5>1, <3>2, <3>3 DEF Window!TypeOK
            <7> QED
              BY <7>1, <7>2, <7>3, <7>4, <3>3
          <6>2. CASE i = MaxRequestNum
            BY <6>2, <5>1, <4>2, <3>1, <3>2, <3>3, PushedFacts DEF Window!TypeOK
          <6> QED
            BY <6>1, <6>2, <5>1
        <5> QED
          BY <5>1, <5>2, <3>2, <3>3 DEF Window!IInv, Window!QueueIsRecent, Window!TypeOK
      <4> QED
        BY <4>1, <4>2
    <3>7. Window!ForgottenIsOld'
      <4>1. SUFFICES ASSUME Len(queue') < MaxRequestNum,
                            NEW i \in 1..Len(log') - Len(queue')
                     PROVE  now - log'[i] >= Duration
        BY <3>1 DEF Window!ForgottenIsOld
      <4>2. Window!Room /\ Len(queue') = Len(queue) + 1
        BY <4>1, <3>1, <3>2, PushedFacts
      <4>3. i \in 1..Len(log) - Len(queue) /\ i \in 1..Len(log)
        BY <4>1, <4>2, <3>2, <3>3, SMTT(30) DEF Window!TypeOK
      <4> QED
        BY <4>2, <4>3, <3>3 DEF Window!IInv, Window!ForgottenIsOld, Window!Room
    <3>8. Window!AtMostMax'
      <4>1. SUFFICES ASSUME NEW i \in 1..Len(log'), i + MaxRequestNum <= Len(log')
                     PROVE  log'[i + MaxRequestNum] - log'[i] >= Duration
        BY DEF Window!AtMostMax
      <4>2. CASE i + MaxRequestNum <= Len(log)
        <5>1. i \in 1..Len(log) /\ i + MaxRequestNum \in 1..Len(log)
          BY <4>1, <4>2, <3>2, <3>3 DEF Window!TypeOK
        <5>2. log[i + MaxRequestNum] - log[i] >= Duration
          BY <5>1, <4>2 DEF Window!IInv, Window!AtMostMax
        <5> QED
          BY <5>1, <5>2, <3>3
      <4>3. CASE i + MaxRequestNum = Len(log) + 1
        <5>1. ~Window!Promise!Full
          BY <2>2, AdmittedUnlessFull
        <5>2. Len(log) >= MaxRequestNum /\ i = Len(log) - MaxRequestNum + 1
          BY <4>1, <4>3, <3>2 DEF Window!TypeOK
        <5>3. i \in 1..Len(log) /\ log'[i] = log[i] /\ log[i] \in Nat
          <6>1. i \in 1..Len(log)
            BY <5>2, <3>2 DEF Window!TypeOK
          <6> QED
            BY <6>1, <3>2, <3>3 DEF Window!TypeOK
        <5>4. ~(now - log[i] < Duration)
          BY <5>1, <5>2 DEF Window!Promise!Full
        <5>5. log'[i + MaxRequestNum] = now
          BY <4>3, <3>3
        <5> QED
          BY <5>3, <5>4, <5>5, <3>2 DEF Window!TypeOK
      <4>4. i + MaxRequestNum <= Len(log) \/ i + MaxRequestNum = Len(log) + 1
        <5>1. i + MaxRequestNum \in Nat /\ i + MaxRequestNum <= Len(log) + 1
          BY <4>1, <3>3
        <5>2. Len(log) \in Nat
          BY <3>2 DEF Window!TypeOK
        <5> QED
          BY <5>1, <5>2
      <4> QED
        BY <4>2, <4>3, <4>4
    <3> QED
      BY <3>4, <3>5, <3>6, <3>7, <3>8 DEF Window!IInv
  <2> QED
    BY <2>1, <2>2
<1>3. CASE Window!clearExpiredItems
  <2>1. /\ queue # <<>> /\ now - queue[Len(queue)] > Expiration
        /\ queue' = <<>> /\ now' = now /\ log' = log /\ answer' = answer
    BY <1>3 DEF Window!clearExpiredItems, Window!Unused
  <2>2. Window!TypeOK /\ Window!TypeOK'
    BY <2>1 DEF Window!IInv, Window!TypeOK
  <2>3. Window!Sorted' /\ Window!AtMostMax' /\ Window!QueueIsRecent'
    BY <2>1, <2>2 DEF Window!IInv, Window!TypeOK, Window!Sorted, Window!AtMostMax,
         Window!QueueIsRecent
  <2>4. Len(queue) \in 1..Len(queue) /\ Len(log) \in 1..Len(log)
    BY <2>1, <2>2 DEF Window!IInv, Window!QueueIsRecent, Window!TypeOK
  <2>5. queue[Len(queue)] = log[Len(log)]
    BY <2>4, <2>2 DEF Window!IInv, Window!QueueIsRecent, Window!TypeOK
  <2>6. Window!ForgottenIsOld'
    <3>1. SUFFICES ASSUME NEW i \in 1..Len(log) PROVE now - log[i] >= Duration
      BY <2>1, <2>2 DEF Window!ForgottenIsOld, Window!TypeOK
    <3>2. log[i] <= log[Len(log)] /\ log[i] \in Nat /\ log[Len(log)] \in Nat
      BY <2>4, <2>2, SMTT(30) DEF Window!IInv, Window!Sorted, Window!TypeOK
    <3> QED
      BY <3>2, <2>1, <2>2, <2>5, SMTT(30) DEF Window!TypeOK
  <2> QED
    BY <2>2, <2>3, <2>6 DEF Window!IInv
<1>4. CASE UNCHANGED Window!vars
  BY <1>4 DEF Window!vars, Window!IInv, Window!TypeOK, Window!Sorted, Window!AtMostMax,
       Window!QueueIsRecent, Window!ForgottenIsOld
<1> QED
  BY <1>1, <1>2, <1>3, <1>4 DEF Window!Next

\* The inductive invariant holds in every reachable state.
LEMMA WindowInvariant == Window!RateWindowAssumption /\ Window!Spec => []Window!IInv
BY InitWindow, NextWindow, PTL DEF Window!Spec

\* Type correctness of the limiter: the queue of a key never holds more than
\* maxRequestNum times.
THEOREM RateWindowTypeOK == Window!RateWindowAssumption /\ Window!Spec => []Window!TypeOK
<1>1. Window!IInv => Window!TypeOK
  BY DEF Window!IInv
<1> QED
  BY <1>1, WindowInvariant, PTL

\* No window of Duration seconds holds more than maxRequestNum admissions,
\* whenever the cleaning goroutine deletes the key.
THEOREM WindowIsBounded == Window!RateWindowAssumption /\ Window!Spec => []Window!AtMostMax
<1>1. Window!IInv => Window!AtMostMax
  BY DEF Window!IInv
<1> QED
  BY <1>1, WindowInvariant, PTL

\* The limiter implements the sliding window: Request admits and refuses as the
\* log of all admissions says, and deleting a key changes no later answer.
THEOREM LimiterImplementsWindow ==
  Window!RateWindowAssumption /\ Window!Spec => Window!ImplementsWindow
<1>1. Window!Init => Window!Promise!Init
  BY DEF Window!Init, Window!Promise!Init
<1>2. Window!IInv /\ [Window!Next]_(Window!vars) => [Window!Promise!Next]_<<now, log, answer>>
  <2> SUFFICES ASSUME Window!IInv, [Window!Next]_(Window!vars)
               PROVE  [Window!Promise!Next]_<<now, log, answer>>
    OBVIOUS
  <2>1. CASE Window!Tick
    BY <2>1 DEF Window!Tick, Window!Promise!Next, Window!Promise!Tick
  <2>2. CASE Window!Request
    <3>1. CASE Window!Room \/ Window!OldestLeft
      BY <2>2, <3>1, AdmittedUnlessFull DEF Window!Request, Window!Promise!Next,
           Window!Promise!Admit
    <3>2. CASE ~(Window!Room \/ Window!OldestLeft)
      BY <2>2, <3>2, AdmittedUnlessFull DEF Window!Request, Window!Promise!Next,
           Window!Promise!Refuse
    <3> QED
      BY <3>1, <3>2
  <2>3. CASE Window!clearExpiredItems
    BY <2>3 DEF Window!clearExpiredItems
  <2>4. CASE UNCHANGED Window!vars
    BY <2>4 DEF Window!vars
  <2> QED
    BY <2>1, <2>2, <2>3, <2>4 DEF Window!Next
<1> QED
  BY <1>1, <1>2, WindowInvariant, PTL DEF Window!Spec, Window!ImplementsWindow,
       Window!Promise!Spec
=============================================================================
