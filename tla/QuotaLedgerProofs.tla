------------------------- MODULE QuotaLedgerProofs --------------------------
(***************************************************************************)
(* The storage of the quotas implements its account, whatever the nodes,   *)
(* the amounts and the bounds.  The sum over the nodes is a count of pairs *)
(* (Units), so that the laws it obeys follow from those of finite sets.    *)
(***************************************************************************)
EXTENDS QuotaLedger, FiniteSetTheorems, TLAPS

-----------------------------------------------------------------------------
(* The sum over the nodes                                                  *)

\* The units of the nodes other than n.
Rest(f, n) == UNION {{m} \X (1..f[m]) : m \in Nodes \ {n}}

\* Where two functions agree, so do their units.
LEMMA RestSame ==
  ASSUME NEW n \in Nodes, NEW f \in [Nodes -> Int], NEW g \in [Nodes -> Int],
         \A m \in Nodes \ {n} : g[m] = f[m]
  PROVE  Rest(f, n) = Rest(g, n)
<1>1. ASSUME NEW p PROVE p \in Rest(f, n) <=> p \in Rest(g, n)
  BY DEF Rest
<1> QED BY <1>1

\* Finitely many nodes have finitely many units.
LEMMA RestFinite ==
  ASSUME NEW n \in Nodes, NEW f \in [Nodes -> Int]
  PROVE  IsFiniteSet(Rest(f, n))
<1> DEFINE Others == Nodes \ {n}
<1> DEFINE Parts == {{m} \X (1..f[m]) : m \in Others}
<1> DEFINE part == [m \in Others |-> {m} \X (1..f[m])]
<1>1. IsFiniteSet(Others)
  BY QuotaLedgerAssumption, FS_RemoveElement
<1>2. part \in Surjection(Others, Parts)
  BY DEF Surjection
<1>3. IsFiniteSet(Parts)
  <2> HIDE DEF Others, Parts, part
  <2> QED BY <1>1, <1>2, FS_Surjection
<1>4. ASSUME NEW T \in Parts PROVE IsFiniteSet(T)
  <2>1. PICK m \in Others : T = {m} \X (1..f[m]) OBVIOUS
  <2>2. IsFiniteSet(1..f[m]) BY FS_Interval
  <2>3. IsFiniteSet({m}) BY FS_Singleton
  <2> QED BY <2>1, <2>2, <2>3, FS_Product
<1>5. IsFiniteSet(UNION Parts)
  <2> HIDE DEF Parts
  <2> QED BY <1>3, <1>4, FS_UNION
<1> QED BY <1>5 DEF Rest

\* A node adds as many units as its value, or none if that is a debt.
LEMMA UnitsCount ==
  ASSUME NEW n \in Nodes, NEW f \in [Nodes -> Int]
  PROVE  /\ Cardinality(Rest(f, n)) \in Nat
         /\ Cardinality(Units(f)) =
              Cardinality(Rest(f, n)) + (IF f[n] > 0 THEN f[n] ELSE 0)
<1> DEFINE own == {n} \X (1..f[n])
<1>1. IsFiniteSet(Rest(f, n)) BY RestFinite
<1>2. IsFiniteSet(1..f[n]) /\ Cardinality(1..f[n]) = IF f[n] > 0 THEN f[n] ELSE 0
  <2>1. f[n] \in Int OBVIOUS
  <2>2. IsFiniteSet(1..f[n]) /\ Cardinality(1..f[n]) = IF 1 > f[n] THEN 0 ELSE f[n] - 1 + 1
    BY <2>1, FS_Interval
  <2> QED BY <2>1, <2>2
<1>3. IsFiniteSet({n}) /\ Cardinality({n}) = 1 BY FS_Singleton
<1>4. IsFiniteSet(own) /\ Cardinality(own) = 1 * Cardinality(1..f[n])
  BY <1>2, <1>3, FS_Product
<1>5. Cardinality(own) = IF f[n] > 0 THEN f[n] ELSE 0 BY <1>2, <1>4
<1>6. Units(f) = Rest(f, n) \cup own
  <2>1. ASSUME NEW p PROVE p \in Units(f) <=> p \in Rest(f, n) \cup own
    BY DEF Units, Rest
  <2> QED BY <2>1
<1>7. Rest(f, n) \cap own = {} BY DEF Rest
<1>8. Cardinality({}) = 0 BY FS_EmptySet
<1>9. Cardinality(Rest(f, n)) \in Nat BY <1>1, FS_CardinalityType
<1>10. Cardinality(Rest(f, n) \cup own)
         = Cardinality(Rest(f, n)) + Cardinality(own) - Cardinality(Rest(f, n) \cap own)
  <2> HIDE DEF own
  <2> QED BY <1>1, <1>4, FS_Union
<1>11. Cardinality(Units(f)) = Cardinality(Rest(f, n)) + Cardinality(own) - Cardinality({})
  BY <1>6, <1>7, <1>10
<1>12. f[n] \in Int OBVIOUS
<1> QED
  <2> HIDE DEF own
  <2> QED BY <1>5, <1>8, <1>9, <1>11, <1>12

\* The sum moves by what one node's value moves.
LEMMA SumChange ==
  ASSUME NEW n \in Nodes, NEW f \in [Nodes -> Int], NEW g \in [Nodes -> Int],
         \A m \in Nodes \ {n} : g[m] = f[m]
  PROVE  Sum(f) \in Int /\ Sum(g) = Sum(f) + g[n] - f[n]
<1> DEFINE minus(h) == [m \in Nodes |-> 0 - h[m]]
<1>1. /\ minus(f) \in [Nodes -> Int] /\ minus(g) \in [Nodes -> Int]
      /\ \A m \in Nodes \ {n} : minus(g)[m] = minus(f)[m]
      /\ minus(f)[n] = 0 - f[n] /\ minus(g)[n] = 0 - g[n]
  OBVIOUS
<1> HIDE DEF minus
<1>2. Rest(f, n) = Rest(g, n) BY RestSame
<1>3. Rest(minus(f), n) = Rest(minus(g), n) BY <1>1, RestSame
<1>4. /\ Cardinality(Rest(f, n)) \in Nat
      /\ Cardinality(Units(f)) = Cardinality(Rest(f, n)) + (IF f[n] > 0 THEN f[n] ELSE 0)
  BY UnitsCount
<1>5. Cardinality(Units(g)) = Cardinality(Rest(f, n)) + (IF g[n] > 0 THEN g[n] ELSE 0)
  BY <1>2, UnitsCount
<1>6. /\ Cardinality(Rest(minus(f), n)) \in Nat
      /\ Cardinality(Units(minus(f)))
           = Cardinality(Rest(minus(f), n)) + (IF 0 > f[n] THEN 0 - f[n] ELSE 0)
  BY <1>1, UnitsCount
<1>7. Cardinality(Units(minus(g)))
        = Cardinality(Rest(minus(f), n)) + (IF 0 > g[n] THEN 0 - g[n] ELSE 0)
  BY <1>1, <1>3, UnitsCount
<1>8. /\ Sum(f) = Cardinality(Units(f)) - Cardinality(Units(minus(f)))
      /\ Sum(g) = Cardinality(Units(g)) - Cardinality(Units(minus(g)))
  BY DEF Sum, minus
<1>9. f[n] \in Int /\ g[n] \in Int OBVIOUS
<1> QED BY <1>4, <1>5, <1>6, <1>7, <1>8, <1>9

\* Nothing anywhere sums to nothing.
LEMMA SumZero == Sum([n \in Nodes |-> 0]) = 0
<1> DEFINE none == [n \in Nodes |-> 0]
<1>1. Units(none) = {} BY DEF Units
<1>2. [n \in Nodes |-> 0 - none[n]] = none OBVIOUS
<1>3. Cardinality({}) = 0 BY FS_EmptySet
<1> QED BY <1>1, <1>2, <1>3 DEF Sum

-----------------------------------------------------------------------------
(* The inductive invariant                                                 *)

\* The batch of a type is empty until batchUpdate takes that type, so taking one
\* overwrites nothing; the token's is empty again once its row is written.
NotTaken(n) ==
  /\ pc[n] <= 1 => stores[n]["quota"] = 0
  /\ pc[n] <= 2 \/ pc[n] = 6 => stores[n]["token"] = 0
  /\ pc[n] <= 3 => stores[n]["used"] = 0
  /\ pc[n] <= 4 => stores[n]["count"] = 0

\* Every call between its two records has been counted as a call.
OwedByCalls(n) == owed[n] <= posts

IInv == TypeOK /\ \A n \in Nodes : NotTaken(n) /\ OwedByCalls(n)

LEMMA InitInv == Init => IInv
BY QuotaLedgerAssumption
   DEF Init, IInv, TypeOK, NotTaken, OwedByCalls, Zero, NoHash, Counters, Cached

\* A goroutine is of its type.
LEMMA GoType ==
  ASSUME NEW id \in 0..MaxPosts, NEW n \in Nodes, NEW k \in Cached,
         NEW op \in {"fill", "field", "incr"}, NEW val \in Int,
         jobs \subseteq Job, Go(id, n, k, op, val)
  PROVE  jobs' \subseteq Job
<1>1. [id |-> id, node |-> n, key |-> k, op |-> op, val |-> val, seen |-> FALSE] \in Job
  BY DEF Job
<1> QED BY <1>1 DEF Go

LEMMA ChangeQuotaInv ==
  ASSUME IInv, NEW n \in Nodes, NEW k \in Cached, NEW d \in Int, NEW direct \in BOOLEAN,
         ChangeQuota(n, k, d, direct)
  PROVE  IInv'
<1> USE QuotaLedgerAssumption
<1>1. posts' \in 0..MaxPosts /\ posts' = posts + 1 /\ posts \in Nat
  BY DEF ChangeQuota, Call, IInv, TypeOK
<1>2. jobs' \subseteq Job
  <2>1. Go(posts', n, k, "incr", d) BY DEF ChangeQuota
  <2>2. jobs \subseteq Job BY DEF IInv, TypeOK
  <2> QED BY <1>1, <2>1, <2>2, GoType
<1>3. /\ db' \in [Counters -> Int] /\ store' \in [Nodes -> [Counters -> Int]]
      /\ faults' \in 0..MaxFaults
  BY DEF ChangeQuota, addNewRecord, Write, Fault, IInv, TypeOK, Cached, Counters
<1>4. UNCHANGED <<stores, pc, owed, cache, lost>> BY DEF ChangeQuota
<1>5. TypeOK' BY <1>1, <1>2, <1>3, <1>4 DEF IInv, TypeOK
<1>6. ASSUME NEW m \in Nodes PROVE NotTaken(m)' /\ OwedByCalls(m)'
  BY <1>1, <1>4 DEF IInv, TypeOK, NotTaken, OwedByCalls
<1> QED BY <1>5, <1>6 DEF IInv

LEMMA AddUsedInv ==
  ASSUME IInv, NEW n \in Nodes, NEW d \in Int, AddUsed(n, d)
  PROVE  IInv'
<1> USE QuotaLedgerAssumption
<1>1. posts' \in 0..MaxPosts /\ posts' = posts + 1 /\ posts \in Nat
  BY DEF AddUsed, Call, IInv, TypeOK
<1>2. /\ db' \in [Counters -> Int] /\ store' \in [Nodes -> [Counters -> Int]]
      /\ faults' \in 0..MaxFaults
  <2>1. "used" \in Counters /\ "count" \in Counters BY DEF Counters
  <2>2. store' \in [Nodes -> [Counters -> Int]]
    BY <2>1, SMTT(30) DEF AddUsed, addNewRecord, IInv, TypeOK
  <2>3. db' \in [Counters -> Int]
    BY <2>1 DEF AddUsed, IInv, TypeOK
  <2>4. faults' \in 0..MaxFaults
    BY DEF AddUsed, Fault, IInv, TypeOK
  <2> QED BY <2>2, <2>3, <2>4
<1>3. UNCHANGED <<stores, pc, cache, jobs, lost>> BY DEF AddUsed
<1>4. /\ DOMAIN owed' = Nodes /\ owed' = [m \in Nodes |-> owed'[m]]
      /\ \A m \in Nodes : owed'[m] \in Nat /\ owed'[m] <= posts + 1
  BY DEF AddUsed, IInv, TypeOK, OwedByCalls
<1>5. owed' \in [Nodes -> 0..MaxPosts] BY <1>1, <1>4
<1>6. TypeOK' BY <1>1, <1>2, <1>3, <1>5 DEF IInv, TypeOK
<1>7. ASSUME NEW m \in Nodes PROVE NotTaken(m)' /\ OwedByCalls(m)'
  BY <1>1, <1>3, <1>4 DEF IInv, TypeOK, NotTaken, OwedByCalls
<1> QED BY <1>6, <1>7 DEF IInv

LEMMA AddCountInv ==
  ASSUME IInv, NEW n \in Nodes, AddCount(n)
  PROVE  IInv'
<1> USE QuotaLedgerAssumption
<1>1. store' \in [Nodes -> [Counters -> Int]]
  BY DEF AddCount, addNewRecord, IInv, TypeOK, Counters
<1>2. UNCHANGED <<db, stores, pc, cache, jobs, posts, faults, lost>>
  BY DEF AddCount
<1>3. /\ owed' \in [Nodes -> 0..MaxPosts]
      /\ \A m \in Nodes : owed'[m] <= owed[m] /\ owed'[m] \in Nat
  BY DEF AddCount, IInv, TypeOK
<1>4. TypeOK' BY <1>1, <1>2, <1>3 DEF IInv, TypeOK
<1>5. ASSUME NEW m \in Nodes PROVE NotTaken(m)' /\ OwedByCalls(m)'
  BY <1>2, <1>3 DEF IInv, TypeOK, NotTaken, OwedByCalls
<1> QED BY <1>4, <1>5 DEF IInv

LEMMA BatchUpdateInv ==
  ASSUME IInv, NEW n \in Nodes, BatchUpdate(n)
  PROVE  IInv'
<1>1. UNCHANGED <<db, store, stores, owed, cache, jobs, posts, faults, lost>>
  BY DEF BatchUpdate
<1>2. pc' \in [Nodes -> 0..6] BY DEF BatchUpdate, IInv, TypeOK
<1>3. TypeOK' BY <1>1, <1>2 DEF IInv, TypeOK
<1>4. ASSUME NEW m \in Nodes PROVE NotTaken(m)' /\ OwedByCalls(m)'
  BY <1>1 DEF BatchUpdate, IInv, TypeOK, NotTaken, OwedByCalls
<1> QED BY <1>3, <1>4 DEF IInv

\* The type taken at each step.
LEMMA TypeTaken ==
  /\ BatchUpdateType[1] = "quota" /\ BatchUpdateType[2] = "token"
  /\ BatchUpdateType[3] = "used" /\ BatchUpdateType[4] = "count"
BY DEF BatchUpdateType

LEMMA TakeStoreInv ==
  ASSUME IInv, NEW n \in Nodes, TakeStore(n)
  PROVE  IInv'
<1> DEFINE c == BatchUpdateType[pc[n]]
<1>1. c \in Counters BY TypeTaken DEF TakeStore, Counters
<1>2. UNCHANGED <<db, owed, cache, jobs, posts, faults, lost>>
  BY DEF TakeStore
<1>3. /\ stores' = [stores EXCEPT ![n][c] = store[n][c]]
      /\ store' = [store EXCEPT ![n][c] = 0]
      /\ pc' = [pc EXCEPT ![n] = @ + 1] /\ pc[n] \in 1..4
  BY DEF TakeStore
<1>4. /\ stores' \in [Nodes -> [Counters -> Int]] /\ store' \in [Nodes -> [Counters -> Int]]
  <2> HIDE DEF c
  <2> QED BY <1>1, <1>3 DEF IInv, TypeOK
<1>5. pc' \in [Nodes -> 0..6] BY <1>3 DEF IInv, TypeOK
<1>6. TypeOK' BY <1>2, <1>4, <1>5 DEF IInv, TypeOK
<1>7. ASSUME NEW m \in Nodes PROVE NotTaken(m)'
  <2>1. CASE m # n BY <2>1, <1>3 DEF IInv, TypeOK, NotTaken
  <2>2. CASE m = n
    <3>1. pc'[n] = pc[n] + 1 /\ pc[n] \in 1..4 BY <1>3 DEF IInv, TypeOK
    <3>2. \A x \in Counters \ {c} : stores'[n][x] = stores[n][x]
      <4> HIDE DEF c
      <4> QED BY <1>1, <1>3 DEF IInv, TypeOK
    <3>3. NotTaken(n) BY DEF IInv
    <3> QED BY <2>2, <3>1, <3>2, <3>3, TypeTaken DEF NotTaken, Counters
  <2> QED BY <2>1, <2>2
<1>8. ASSUME NEW m \in Nodes PROVE OwedByCalls(m)'
  BY <1>2 DEF IInv, OwedByCalls
<1> QED BY <1>6, <1>7, <1>8 DEF IInv

LEMMA WriteTokenInv ==
  ASSUME IInv, NEW n \in Nodes, WriteToken(n)
  PROVE  IInv'
<1> USE QuotaLedgerAssumption
<1>1. UNCHANGED <<store, owed, cache, jobs, posts>>
  BY DEF WriteToken, WriteColumns
<1>2. /\ db' \in [Counters -> Int] /\ lost' \in [Counters -> Int]
      /\ faults' \in 0..MaxFaults
  BY DEF WriteToken, WriteColumns, Lose, Fault, IInv, TypeOK
<1>3. /\ stores' \in [Nodes -> [Counters -> Int]] /\ pc' \in [Nodes -> 0..6]
  BY DEF WriteToken, WriteColumns, IInv, TypeOK
<1>4. TypeOK' BY <1>1, <1>2, <1>3 DEF IInv, TypeOK
<1>5. ASSUME NEW m \in Nodes PROVE NotTaken(m)' /\ OwedByCalls(m)'
  BY <1>1 DEF WriteToken, WriteColumns, IInv, TypeOK, NotTaken, OwedByCalls, Counters
<1> QED BY <1>4, <1>5 DEF IInv

LEMMA WriteUserInv ==
  ASSUME IInv, NEW n \in Nodes, WriteUser(n)
  PROVE  IInv'
<1> USE QuotaLedgerAssumption
<1>1. UNCHANGED <<store, owed, cache, jobs, posts>>
  BY DEF WriteUser, WriteColumns
<1>2. /\ db' \in [Counters -> Int] /\ lost' \in [Counters -> Int]
      /\ faults' \in 0..MaxFaults
  BY DEF WriteUser, WriteColumns, Lose, Fault, IInv, TypeOK
<1>3. /\ stores' \in [Nodes -> [Counters -> Int]] /\ pc' \in [Nodes -> 0..6]
  BY DEF WriteUser, WriteColumns, IInv, TypeOK
<1>4. TypeOK' BY <1>1, <1>2, <1>3 DEF IInv, TypeOK
<1>5. ASSUME NEW m \in Nodes PROVE NotTaken(m)' /\ OwedByCalls(m)'
  BY <1>1 DEF WriteUser, WriteColumns, IInv, TypeOK, NotTaken, OwedByCalls, Counters,
              UserColumns
<1> QED BY <1>4, <1>5 DEF IInv

LEMMA CrashInv ==
  ASSUME IInv, NEW n \in Nodes, Crash(n)
  PROVE  IInv'
<1> USE QuotaLedgerAssumption
<1>1. UNCHANGED <<db, cache, posts>> /\ jobs' \subseteq jobs BY DEF Crash
<1>2. Zero \in [Counters -> Int] BY DEF Zero
<1>3. lost' \in [Counters -> Int]
  BY DEF Crash, Lose, UnderWay, IInv, TypeOK
<1>4. /\ store' \in [Nodes -> [Counters -> Int]] /\ stores' \in [Nodes -> [Counters -> Int]]
      /\ pc' \in [Nodes -> 0..6] /\ owed' \in [Nodes -> 0..MaxPosts]
      /\ faults' \in 0..MaxFaults
  BY <1>2 DEF Crash, Fault, IInv, TypeOK
<1>5. TypeOK' BY <1>1, <1>3, <1>4 DEF IInv, TypeOK
<1>6. ASSUME NEW m \in Nodes PROVE NotTaken(m)' /\ OwedByCalls(m)'
  BY <1>1 DEF Crash, IInv, TypeOK, NotTaken, OwedByCalls, Counters, Zero
<1> QED BY <1>5, <1>6 DEF IInv

\* The steps that only concern the cache.
LEMMA ReadingInv ==
  ASSUME IInv, NEW n \in Nodes, NEW k \in Cached, NEW op \in {"fill", "field"},
         Reading(n, k, op)
  PROVE  IInv'
<1> USE QuotaLedgerAssumption
<1>1. UNCHANGED <<db, store, stores, pc, owed, cache, posts, faults, lost>>
  BY DEF Reading
<1>3. db[k] \in Int BY DEF IInv, TypeOK, Cached, Counters
<1>4. jobs' \subseteq Job
  <2>1. Go(0, n, k, op, db[k]) BY DEF Reading
  <2>2. jobs \subseteq Job /\ 0 \in 0..MaxPosts BY DEF IInv, TypeOK
  <2> QED BY <1>3, <2>1, <2>2, GoType
<1>5. TypeOK' BY <1>1, <1>4 DEF IInv, TypeOK
<1>6. ASSUME NEW m \in Nodes PROVE NotTaken(m)' /\ OwedByCalls(m)'
  BY <1>1 DEF IInv, NotTaken, OwedByCalls
<1> QED BY <1>5, <1>6 DEF IInv

LEMMA CacheInv ==
  ASSUME IInv,
         \/ \E j \in jobs : LookTTL(j) \/ SetCache(j)
         \/ \E k \in Cached : Expire(k)
  PROVE  /\ IInv'
         /\ UNCHANGED <<db, store, stores, pc, owed, posts, faults, lost>>
<1>1. UNCHANGED <<db, store, stores, pc, owed, posts, faults, lost>>
  BY DEF LookTTL, SetCache, Expire
<1>2. jobs' \subseteq Job
  <2>1. ASSUME NEW j \in jobs, LookTTL(j) PROVE jobs' \subseteq Job
    <3>1. j \in Job BY DEF IInv, TypeOK
    <3>2. [j EXCEPT !.seen = TRUE] \in Job BY <3>1 DEF Job
    <3> QED BY <2>1, <3>2 DEF LookTTL, IInv, TypeOK
  <2>2. ASSUME NEW j \in jobs, SetCache(j) PROVE jobs' \subseteq Job
    BY <2>2 DEF SetCache, IInv, TypeOK
  <2>3. ASSUME NEW k \in Cached, Expire(k) PROVE jobs' \subseteq Job
    BY <2>3 DEF Expire, IInv, TypeOK
  <2> QED BY <2>1, <2>2, <2>3
<1>3. cache' \in [Cached -> [val : Int, expires : BOOLEAN, exists : BOOLEAN]]
  <2>1. ASSUME NEW j \in jobs, LookTTL(j)
        PROVE  cache' \in [Cached -> [val : Int, expires : BOOLEAN, exists : BOOLEAN]]
    BY <2>1 DEF LookTTL, IInv, TypeOK
  <2>2. ASSUME NEW j \in jobs, SetCache(j)
        PROVE  cache' \in [Cached -> [val : Int, expires : BOOLEAN, exists : BOOLEAN]]
    <3>1. j.val \in Int /\ j.key \in Cached BY DEF IInv, TypeOK, Job
    <3>2. cache[j.key].val \in Int BY <3>1 DEF IInv, TypeOK
    <3>3. NewVal(j) \in Int BY <3>1, <3>2 DEF NewVal
    <3>4. Hash(NewVal(j)) \in [val : Int, expires : BOOLEAN, exists : BOOLEAN]
      BY <3>3 DEF Hash
    <3> QED BY <2>2, <3>1, <3>4 DEF SetCache, IInv, TypeOK
  <2>3. ASSUME NEW k \in Cached, Expire(k)
        PROVE  cache' \in [Cached -> [val : Int, expires : BOOLEAN, exists : BOOLEAN]]
    BY <2>3 DEF Expire, NoHash, IInv, TypeOK
  <2> QED BY <2>1, <2>2, <2>3
<1>4. TypeOK' BY <1>1, <1>2, <1>3 DEF IInv, TypeOK
<1>5. ASSUME NEW m \in Nodes PROVE NotTaken(m)' /\ OwedByCalls(m)'
  BY <1>1 DEF IInv, NotTaken, OwedByCalls
<1> QED BY <1>1, <1>4, <1>5 DEF IInv

\* A call's amount is an integer, with either sign.
LEMMA AmountsInt == \A a \in Amounts : a \in Int /\ -a \in Int
<1>1. \A a \in Amounts : a \in Int BY QuotaLedgerAssumption
<1>2. \A i \in Int : -i \in Int OBVIOUS
<1> QED BY <1>1, <1>2

LEMMA NextInv == IInv /\ [Next]_vars => IInv'
<1> SUFFICES ASSUME IInv, [Next]_vars PROVE IInv' OBVIOUS
<1>1. ASSUME NEW n \in Nodes, NEW a \in Amounts, NEW k \in Cached, NEW direct \in BOOLEAN,
             ChangeQuota(n, k, a, direct) \/ ChangeQuota(n, k, -a, direct)
      PROVE  IInv'
  BY <1>1, AmountsInt, ChangeQuotaInv
<1>2. ASSUME NEW n \in Nodes, NEW a \in Amounts, AddUsed(n, a) PROVE IInv'
  BY <1>2, AmountsInt, AddUsedInv
<1>3. ASSUME NEW n \in Nodes, AddCount(n) \/ BatchStep(n) \/ Crash(n) PROVE IInv'
  BY <1>3, AddCountInv, BatchUpdateInv, TakeStoreInv, WriteTokenInv, WriteUserInv, CrashInv
     DEF BatchStep
<1>4. ASSUME NEW n \in Nodes, ReadFromDB(n) \/ \E k \in Cached : Refill(n, k) PROVE IInv'
  BY <1>4, ReadingInv DEF ReadFromDB, Refill, Cached
<1>5. ASSUME \/ \E j \in jobs : LookTTL(j) \/ SetCache(j)
             \/ \E k \in Cached : Expire(k)
      PROVE  IInv'
  BY <1>5, CacheInv
<1>6. ASSUME UNCHANGED vars PROVE IInv'
  BY <1>6 DEF vars, IInv, TypeOK, NotTaken, OwedByCalls
<1> QED BY <1>1, <1>2, <1>3, <1>4, <1>5, <1>6 DEF Next, RunJob

LEMMA Invariance == Spec => []IInv
<1> QED BY InitInv, NextInv, PTL DEF Spec

\* The columns, the stores and batches of every node, the cached hashes and the
\* goroutines keep their types: no node owes more counts than there were calls,
\* and no batch leaves the loop over the types.
THEOREM QuotaLedgerTypeCorrect == Spec => []TypeOK
<1>1. IInv => TypeOK BY DEF IInv
<1> QED BY Invariance, <1>1, PTL

-----------------------------------------------------------------------------
(* The refinement                                                          *)

\* The abstract total of column c.
Total(c) == Balance[c] + lost[c]

\* A step that touches the stores of node n alone moves the total by what it moves
\* in the database, in that node and in what was dropped.
LEMMA TotalStep ==
  ASSUME TypeOK, TypeOK', NEW n \in Nodes, NEW c \in Counters,
         \A m \in Nodes \ {n} : store'[m] = store[m] /\ stores'[m] = stores[m]
                                  /\ owed'[m] = owed[m]
  PROVE  /\ Total(c) \in Int
         /\ Total(c)' = Total(c) + (db'[c] - db[c]) + (lost'[c] - lost[c])
                          + (UnderWay(n, c)' - UnderWay(n, c))
<1> DEFINE f == [m \in Nodes |-> UnderWay(m, c)]
<1> DEFINE g == [m \in Nodes |-> UnderWay(m, c)']
<1>1. \A m \in Nodes : UnderWay(m, c) \in Int BY DEF TypeOK, UnderWay
<1>2. \A m \in Nodes : UnderWay(m, c)' \in Int BY DEF TypeOK, UnderWay
<1>3. f \in [Nodes -> Int] /\ g \in [Nodes -> Int] BY <1>1, <1>2
<1>4. \A m \in Nodes \ {n} : g[m] = f[m] BY DEF UnderWay
<1>5. f[n] = UnderWay(n, c) /\ g[n] = UnderWay(n, c)' OBVIOUS
<1>6. Balance[c] = db[c] + Sum(f) BY DEF Balance
<1>7. Balance'[c] = db'[c] + Sum(g) BY DEF Balance, Sum, Units
<1>8. db[c] \in Int /\ db'[c] \in Int /\ lost[c] \in Int /\ lost'[c] \in Int
  BY DEF TypeOK
<1> HIDE DEF f, g
<1>9. Sum(f) \in Int /\ Sum(g) = Sum(f) + g[n] - f[n]
  BY <1>3, <1>4, SumChange
<1>10. f[n] \in Int /\ g[n] \in Int BY <1>3
<1>11. Total(c) = db[c] + Sum(f) + lost[c] /\ Total(c)' = db'[c] + Sum(g) + lost'[c]
  BY <1>6, <1>7 DEF Total
<1> QED BY <1>5, <1>8, <1>9, <1>10, <1>11

\* The step of the account behind a step of the storage.
AccountStep ==
  \/ AccountOf!Failed
  \/ \E change \in Changes : AccountOf!Applied(change)
  \/ UNCHANGED <<posts, [c \in Counters |-> Balance[c] + lost[c]]>>

\* When no total moves, the account stutters, or a call failed.
LEMMA Stutter ==
  ASSUME \A c \in Counters : Total(c)' = Total(c),
         posts' = posts \/ posts' = posts + 1
  PROVE  AccountStep
<1>1. [c \in Counters |-> Balance[c] + lost[c]]' = [c \in Counters |-> Balance[c] + lost[c]]
  BY DEF Total
<1> QED BY <1>1 DEF AccountStep, AccountOf!Failed

\* When every total moves by a change, the call was applied.
LEMMA Apply ==
  ASSUME NEW change \in Changes, posts' = posts + 1,
         \A c \in Counters : Total(c)' = Total(c) + change[c]
  PROVE  AccountStep
<1>1. [c \in Counters |-> Balance[c] + lost[c]]'
        = [c \in Counters |-> [x \in Counters |-> Balance[x] + lost[x]][c] + change[c]]
  BY DEF Total
<1>2. AccountOf!Applied(change) BY <1>1 DEF AccountOf!Applied
<1> QED BY <1>2 DEF AccountStep

\* Nothing moves when the database, the stores and the losses stay.
LEMMA StutterSame ==
  ASSUME UNCHANGED <<db, store, stores, owed, lost>>, posts' = posts \/ posts' = posts + 1
  PROVE  AccountStep
<1>1. Balance' = Balance BY DEF Balance, UnderWay, Sum, Units
<1> QED BY <1>1, Stutter DEF Total

LEMMA ChangeQuotaStep ==
  ASSUME IInv, IInv', NEW n \in Nodes, NEW k \in Cached, NEW direct \in BOOLEAN,
         NEW d \in Amounts \cup {-a : a \in Amounts}, ChangeQuota(n, k, d, direct)
  PROVE  AccountStep
<1>1. d \in Int BY AmountsInt
<1>2. TypeOK /\ TypeOK' /\ k \in Counters BY DEF IInv, Cached, Counters
<1>3. posts' = posts + 1 BY DEF ChangeQuota, Call
<1>4. UNCHANGED <<stores, owed, lost>> BY DEF ChangeQuota
<1>5. [Zero EXCEPT ![k] = d] \in Changes
  <2> DEFINE Only(i, x) == [Zero EXCEPT ![i] = x]
  <2>1. Changes = {Only(i, x) : i \in Cached, x \in Amounts \cup {-a : a \in Amounts}}
                    \cup {[Zero EXCEPT !["used"] = a, !["count"] = 1] : a \in Amounts}
    BY DEF Changes
  <2>2. Only(k, d) \in Changes
    <3> HIDE DEF Only
    <3> QED BY <2>1
  <2> QED BY <2>2
<1>6. \A c \in Counters : [Zero EXCEPT ![k] = d][c] = IF c = k THEN d ELSE 0 BY DEF Zero
<1>7. CASE n \in BatchUpdateEnabled /\ ~direct
  <2>1. UNCHANGED db /\ store' = [store EXCEPT ![n][k] = @ + d]
    BY <1>7 DEF ChangeQuota, addNewRecord
  <2>2. ASSUME NEW c \in Counters
        PROVE  Total(c)' = Total(c) + IF c = k THEN d ELSE 0
    <3>1. \A m \in Nodes \ {n} : store'[m] = store[m] /\ stores'[m] = stores[m]
                                   /\ owed'[m] = owed[m]
      BY <1>4, <2>1 DEF IInv, TypeOK
    <3>2. UnderWay(n, c)' - UnderWay(n, c) = IF c = k THEN d ELSE 0
      BY <1>1, <1>2, <1>4, <2>1 DEF TypeOK, UnderWay
    <3>3. db'[c] - db[c] = 0 /\ lost'[c] - lost[c] = 0 BY <1>2, <1>4, <2>1 DEF TypeOK
    <3> QED BY <1>1, <1>2, <3>1, <3>2, <3>3, TotalStep
  <2> QED BY <1>3, <1>5, <1>6, <2>2, Apply
<1>8. CASE ~(n \in BatchUpdateEnabled /\ ~direct)
  <2>1. UNCHANGED store BY <1>8 DEF ChangeQuota
  <2>2. CASE db' = [db EXCEPT ![k] = @ + d]
    <3>1. ASSUME NEW c \in Counters
          PROVE  Total(c)' = Total(c) + IF c = k THEN d ELSE 0
      <4>1. UnderWay(n, c)' - UnderWay(n, c) = 0
        BY <1>2, <1>4, <2>1 DEF TypeOK, UnderWay
      <4>2. db'[c] - db[c] = IF c = k THEN d ELSE 0 BY <1>1, <1>2, <2>2 DEF TypeOK
      <4>3. lost'[c] - lost[c] = 0 BY <1>2, <1>4 DEF TypeOK
      <4> QED BY <1>1, <1>2, <1>4, <2>1, <4>1, <4>2, <4>3, TotalStep
    <3> QED BY <1>3, <1>5, <1>6, <3>1, Apply
  <2>3. CASE UNCHANGED db BY <1>3, <1>4, <2>1, <2>3, StutterSame
  <2> QED BY <1>8, <2>2, <2>3 DEF ChangeQuota, Write
<1> QED BY <1>7, <1>8

LEMMA AddUsedStep ==
  ASSUME IInv, IInv', NEW n \in Nodes, NEW a \in Amounts, AddUsed(n, a)
  PROVE  AccountStep
<1> DEFINE moved(c) == IF c = "used" THEN a ELSE IF c = "count" THEN 1 ELSE 0
<1>1. a \in Int BY AmountsInt
<1>2. TypeOK /\ TypeOK' BY DEF IInv
<1>3. posts' = posts + 1 BY DEF AddUsed, Call
<1>4. UNCHANGED <<stores, lost>> BY DEF AddUsed
<1>5. [Zero EXCEPT !["used"] = a, !["count"] = 1] \in Changes BY DEF Changes
<1>6. \A c \in Counters : [Zero EXCEPT !["used"] = a, !["count"] = 1][c] = moved(c)
  BY DEF Zero, Counters
<1>7. CASE n \in BatchUpdateEnabled
  <2>1. /\ UNCHANGED db /\ store' = [store EXCEPT ![n]["used"] = @ + a]
        /\ owed' = [owed EXCEPT ![n] = @ + 1]
    BY <1>7 DEF AddUsed, addNewRecord
  <2>2. ASSUME NEW c \in Counters PROVE Total(c)' = Total(c) + moved(c)
    <3>1. \A m \in Nodes \ {n} : store'[m] = store[m] /\ stores'[m] = stores[m]
                                   /\ owed'[m] = owed[m]
      BY <1>4, <2>1 DEF IInv, TypeOK
    <3>2. UnderWay(n, c)' - UnderWay(n, c) = moved(c)
      BY <1>1, <1>2, <1>4, <2>1 DEF TypeOK, UnderWay, Counters
    <3>3. db'[c] - db[c] = 0 /\ lost'[c] - lost[c] = 0 BY <1>2, <1>4, <2>1 DEF TypeOK
    <3> QED BY <1>1, <1>2, <3>1, <3>2, <3>3, TotalStep
  <2> QED BY <1>3, <1>5, <1>6, <2>2, Apply
<1>8. CASE n \notin BatchUpdateEnabled
  <2>1. UNCHANGED <<store, owed>> BY <1>8 DEF AddUsed
  <2>2. CASE db' = [db EXCEPT !["used"] = @ + a, !["count"] = @ + 1]
    <3>1. ASSUME NEW c \in Counters PROVE Total(c)' = Total(c) + moved(c)
      <4>1. UnderWay(n, c)' - UnderWay(n, c) = 0
        BY <1>2, <1>4, <2>1 DEF TypeOK, UnderWay
      <4>2. db'[c] - db[c] = moved(c)
        <5>1. db \in [Counters -> Int] BY <1>2 DEF TypeOK
        <5>2. db[c] \in Int BY <5>1
        <5>3. db'[c] = db[c] + moved(c)
          <6>1. CASE c = "used" BY <2>2, <5>1, <6>1
          <6>2. CASE c = "count" BY <2>2, <5>1, <6>2
          <6>3. CASE c # "used" /\ c # "count" BY <2>2, <5>1, <5>2, <6>3
          <6> QED BY <6>1, <6>2, <6>3
        <5>4. moved(c) \in Int BY <1>1
        <5> QED
          <6> HIDE DEF moved
          <6> QED BY <5>2, <5>3, <5>4
      <4>3. lost'[c] - lost[c] = 0 BY <1>2, <1>4 DEF TypeOK
      <4> QED BY <1>1, <1>2, <1>4, <2>1, <4>1, <4>2, <4>3, TotalStep
    <3> QED BY <1>3, <1>5, <1>6, <3>1, Apply
  <2>3. CASE UNCHANGED db BY <1>3, <1>4, <2>1, <2>3, StutterSame
  <2> QED BY <1>8, <2>2, <2>3 DEF AddUsed
<1> QED BY <1>7, <1>8

\* The second record of a call moves its count from owed to the store.
LEMMA AddCountStep ==
  ASSUME IInv, IInv', NEW n \in Nodes, AddCount(n)
  PROVE  AccountStep
<1>1. TypeOK /\ TypeOK' BY DEF IInv
<1>2. UNCHANGED <<db, stores, posts, lost>> BY DEF AddCount
<1>3. store' = [store EXCEPT ![n]["count"] = @ + 1] /\ owed' = [owed EXCEPT ![n] = @ - 1]
  BY DEF AddCount, addNewRecord
<1>4. ASSUME NEW c \in Counters PROVE Total(c)' = Total(c)
  <2>1. \A m \in Nodes \ {n} : store'[m] = store[m] /\ stores'[m] = stores[m]
                                 /\ owed'[m] = owed[m]
    BY <1>2, <1>3 DEF IInv, TypeOK
  <2>2. UnderWay(n, c)' - UnderWay(n, c) = 0
    BY <1>1, <1>2, <1>3 DEF TypeOK, UnderWay, Counters
  <2>3. db'[c] - db[c] = 0 /\ lost'[c] - lost[c] = 0 BY <1>1, <1>2 DEF TypeOK
  <2> QED BY <1>1, <2>1, <2>2, <2>3, TotalStep
<1> QED BY <1>2, <1>4, Stutter

LEMMA TakeStoreStep ==
  ASSUME IInv, IInv', NEW n \in Nodes, TakeStore(n)
  PROVE  AccountStep
<1> DEFINE t == BatchUpdateType[pc[n]]
<1>1. TypeOK /\ TypeOK' BY DEF IInv
<1>2. UNCHANGED <<db, owed, posts, lost>> BY DEF TakeStore
<1>3. /\ stores' = [stores EXCEPT ![n][t] = store[n][t]]
      /\ store' = [store EXCEPT ![n][t] = 0] /\ pc[n] \in 1..4
  BY DEF TakeStore
<1>4. t \in Counters /\ stores[n][t] = 0
  <2>1. NotTaken(n) BY DEF IInv
  <2> QED BY <1>3, <2>1, TypeTaken DEF NotTaken, Counters
<1>5. ASSUME NEW c \in Counters PROVE Total(c)' = Total(c)
  <2> HIDE DEF t
  <2>1. \A m \in Nodes \ {n} : store'[m] = store[m] /\ stores'[m] = stores[m]
                                 /\ owed'[m] = owed[m]
    BY <1>2, <1>3 DEF IInv, TypeOK
  <2>2. UnderWay(n, c)' - UnderWay(n, c) = 0
    BY <1>1, <1>2, <1>3, <1>4 DEF TypeOK, UnderWay
  <2>3. db'[c] - db[c] = 0 /\ lost'[c] - lost[c] = 0 BY <1>1, <1>2 DEF TypeOK
  <2> QED BY <1>1, <2>1, <2>2, <2>3, TotalStep
<1> QED BY <1>2, <1>5, Stutter

\* A row is written, or what it should have got is dropped.
LEMMA WriteColumnsStep ==
  ASSUME IInv, IInv', NEW n \in Nodes, NEW S \in SUBSET Counters, NEW next,
         WriteColumns(n, S, next)
  PROVE  AccountStep
<1>1. TypeOK /\ TypeOK' BY DEF IInv
<1>2. UNCHANGED <<store, owed, posts>> BY DEF WriteColumns
<1>3. stores' = [stores EXCEPT ![n] = [c \in Counters |-> IF c \in S THEN 0 ELSE @[c]]]
  BY DEF WriteColumns
<1>4. ASSUME NEW c \in Counters PROVE Total(c)' = Total(c)
  <2>1. \A m \in Nodes \ {n} : store'[m] = store[m] /\ stores'[m] = stores[m]
                                 /\ owed'[m] = owed[m]
    BY <1>2, <1>3 DEF IInv, TypeOK
  <2>2. UnderWay(n, c)' - UnderWay(n, c) = IF c \in S THEN 0 - stores[n][c] ELSE 0
    BY <1>1, <1>2, <1>3 DEF TypeOK, UnderWay
  <2>3. (db'[c] - db[c]) + (lost'[c] - lost[c]) = IF c \in S THEN stores[n][c] ELSE 0
    BY <1>1 DEF WriteColumns, Lose, TypeOK
  <2>4. stores[n][c] \in Int /\ db[c] \in Int /\ db'[c] \in Int /\ lost[c] \in Int
          /\ lost'[c] \in Int
    BY <1>1 DEF TypeOK
  <2> QED BY <1>1, <2>1, <2>2, <2>3, <2>4, TotalStep
<1> QED BY <1>2, <1>4, Stutter

LEMMA CrashStep ==
  ASSUME IInv, IInv', NEW n \in Nodes, Crash(n)
  PROVE  AccountStep
<1>1. TypeOK /\ TypeOK' BY DEF IInv
<1>2. UNCHANGED <<db, posts>> BY DEF Crash
<1>3. ASSUME NEW c \in Counters PROVE Total(c)' = Total(c)
  <2>1. \A m \in Nodes \ {n} : store'[m] = store[m] /\ stores'[m] = stores[m]
                                 /\ owed'[m] = owed[m]
    BY DEF Crash, IInv, TypeOK
  <2>2. UnderWay(n, c)' = 0 BY DEF Crash, IInv, TypeOK, UnderWay, Zero
  <2>3. lost'[c] = lost[c] + UnderWay(n, c) BY DEF Crash, Lose
  <2>4. UnderWay(n, c) \in Int /\ lost[c] \in Int /\ db'[c] - db[c] = 0
    BY <1>1, <1>2 DEF TypeOK, UnderWay
  <2> QED BY <1>1, <2>1, <2>2, <2>3, <2>4, TotalStep
<1> QED BY <1>2, <1>3, Stutter

LEMMA NextStep == IInv /\ IInv' /\ [Next]_vars => AccountStep
<1> SUFFICES ASSUME IInv, IInv', [Next]_vars PROVE AccountStep OBVIOUS
<1>1. ASSUME NEW n \in Nodes, NEW a \in Amounts, NEW k \in Cached, NEW direct \in BOOLEAN,
             ChangeQuota(n, k, a, direct) \/ ChangeQuota(n, k, -a, direct)
      PROVE  AccountStep
  BY <1>1, ChangeQuotaStep
<1>2. ASSUME NEW n \in Nodes, NEW a \in Amounts, AddUsed(n, a) PROVE AccountStep
  BY <1>2, AddUsedStep
<1>3. ASSUME NEW n \in Nodes, AddCount(n) \/ Crash(n) PROVE AccountStep
  BY <1>3, AddCountStep, CrashStep
<1>4. ASSUME NEW n \in Nodes, BatchStep(n) PROVE AccountStep
  <2>1. CASE BatchUpdate(n) BY <2>1, StutterSame DEF BatchUpdate
  <2>2. CASE TakeStore(n) BY <2>2, TakeStoreStep
  <2>3. {"token"} \in SUBSET Counters /\ UserColumns \in SUBSET Counters
    BY DEF Counters, UserColumns
  <2>4. CASE WriteToken(n) BY <2>3, <2>4, WriteColumnsStep DEF WriteToken
  <2>5. CASE WriteUser(n) BY <2>3, <2>5, WriteColumnsStep DEF WriteUser
  <2> QED BY <1>4, <2>1, <2>2, <2>4, <2>5 DEF BatchStep
<1>5. ASSUME NEW n \in Nodes, ReadFromDB(n) \/ \E k \in Cached : Refill(n, k)
      PROVE  AccountStep
  BY <1>5, StutterSame DEF ReadFromDB, Refill, Reading
<1>6. ASSUME \/ \E j \in jobs : LookTTL(j) \/ SetCache(j)
             \/ \E k \in Cached : Expire(k)
      PROVE  AccountStep
  BY <1>6, CacheInv, StutterSame
<1>7. ASSUME UNCHANGED vars PROVE AccountStep
  BY <1>7, StutterSame DEF vars
<1> QED BY <1>1, <1>2, <1>3, <1>4, <1>5, <1>6, <1>7 DEF Next, RunJob

LEMMA InitOpen == Init => AccountOf!Open
<1> SUFFICES ASSUME Init PROVE AccountOf!Open OBVIOUS
<1>1. ASSUME NEW c \in Counters PROVE Balance[c] + lost[c] = 0
  <2>1. [n \in Nodes |-> UnderWay(n, c)] = [n \in Nodes |-> 0]
    BY DEF Init, UnderWay, Zero
  <2>2. Balance[c] = db[c] + Sum([n \in Nodes |-> UnderWay(n, c)]) BY DEF Balance
  <2>3. db[c] = 0 /\ lost[c] = 0 BY DEF Init, Zero
  <2> QED BY <2>1, <2>2, <2>3, SumZero
<1>2. posts = 0 BY DEF Init
<1> QED BY <1>1, <1>2 DEF AccountOf!Open

\* However calls, the batch updaters of the nodes, failing statements and crashes
\* interleave, every call is counted once or, if its own statement failed, never:
\* the storage implements the account. A batch may overwrite nothing it has not
\* written (NotTaken), which is what makes taking and writing it stutter.
THEOREM QuotaLedgerImplementsAccount == Spec => ImplementsAccount
<1>1. [Next]_vars /\ IInv /\ IInv'
        => [AccountOf!Failed \/ \E change \in Changes : AccountOf!Applied(change)]_
             <<posts, [c \in Counters |-> Balance[c] + lost[c]]>>
  BY NextStep DEF AccountStep
<1> QED BY InitOpen, Invariance, <1>1, PTL DEF Spec, ImplementsAccount, AccountOf!Account
=============================================================================
