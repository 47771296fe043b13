---------------------------- MODULE QuotaLedger -----------------------------
(***************************************************************************)
(* The counters of one user and his token: quota, used_quota and           *)
(* request_count of model/user.go, remain_quota of model/token.go, the     *)
(* batch updater of model/utils.go, and the quotas cached in Redis by      *)
(* model/user_cache.go, model/token_cache.go and common/redis.go.          *)
(*                                                                         *)
(* Every node has its own batch stores; the database and Redis are shared. *)
(* A step is one critical section, one SQL statement or one Redis round    *)
(* trip, so goroutines that refresh the cache run between any two of them. *)
(***************************************************************************)
EXTENDS Integers, FiniteSets

CONSTANTS
  Nodes,
  RedisEnabled,
  BatchUpdateEnabled,  \* the nodes that were started with it
  Amounts,       \* positive amounts of a call
  MaxPosts,      \* bound on the calls of a behaviour
  Readers,       \* bound: the nodes whose reads refresh the cache
  MaxReads,      \* bound on the reads whose refresh of the cache is under way
  MaxHashes,     \* bound on the hashes that exist or are about to at one time
  MaxFaults      \* bound on database errors and crashes

ASSUME QuotaLedgerAssumption ==
  /\ Nodes # {} /\ IsFiniteSet(Nodes)
  /\ RedisEnabled \in BOOLEAN /\ BatchUpdateEnabled \subseteq Nodes /\ Readers \subseteq Nodes
  /\ Amounts \subseteq Nat \ {0}
  /\ MaxPosts \in Nat /\ MaxReads \in Nat /\ MaxHashes \in Nat /\ MaxFaults \in Nat

VARIABLES
  db,            \* the columns of the user's and the token's row
  store,         \* batchUpdateStores of a node
  stores,        \* the stores batchUpdate took and has not written yet
  pc,            \* the type batchUpdate takes next, or the row it writes
  owed,          \* calls between their two addNewRecord
  cache,         \* the quota in a Redis hash, and whether the hash will expire
  jobs,          \* goroutines that are to change the cache
  posts, faults,
  lost           \* history: what failed batches and crashes dropped

vars == <<db, store, stores, pc, owed, cache, jobs, posts, faults, lost>>

\* The batch types, in the order of their constants.  The channel's is like
\* the token's, without a cache.
BatchUpdateType == <<"quota", "token", "used", "count">>

Counters == {"quota", "token", "used", "count"}

UserColumns == {"quota", "used", "count"}

Cached == {"quota", "token"}

NoHash == [val |-> 0, expires |-> FALSE, exists |-> FALSE]

Hash(v) == [val |-> v, expires |-> TRUE, exists |-> TRUE]

Zero == [c \in Counters |-> 0]

\* fill: RedisHSetObj; field: RedisHSetField; incr: RedisHIncrBy.  The last two
\* look at the key's TTL before they write.  id tells the calls apart; a node
\* has one fill and one field job at a time (id 0).
Job == [id : 0..MaxPosts, node : Nodes, key : Cached,
        op : {"fill", "field", "incr"}, val : Int, seen : BOOLEAN]

TypeOK ==
  /\ db \in [Counters -> Int]
  /\ store \in [Nodes -> [Counters -> Int]] /\ stores \in [Nodes -> [Counters -> Int]]
  /\ pc \in [Nodes -> 0..6]
  /\ owed \in [Nodes -> 0..MaxPosts]
  /\ cache \in [Cached -> [val : Int, expires : BOOLEAN, exists : BOOLEAN]]
  /\ jobs \subseteq Job
  /\ posts \in 0..MaxPosts /\ faults \in 0..MaxFaults
  /\ lost \in [Counters -> Int]

Init ==
  /\ db = Zero
  /\ store = [n \in Nodes |-> Zero] /\ stores = [n \in Nodes |-> Zero]
  /\ pc = [n \in Nodes |-> 0] /\ owed = [n \in Nodes |-> 0]
  /\ cache = [k \in Cached |-> NoHash]
  /\ jobs = {}
  /\ posts = 0 /\ faults = 0 /\ lost = Zero

-----------------------------------------------------------------------------
(* Calls *)

Fault == faults < MaxFaults /\ faults' = faults + 1

\* What a node has accepted and not written: recorded, in a batch, or owed by a
\* call that is between its two records.
UnderWay(n, c) ==
  store[n][c] + stores[n][c] + (IF c = "count" THEN owed[n] ELSE 0)

\* The amounts d are dropped.
Lose(d) == lost' = [c \in Counters |-> lost[c] + d[c]]

Call == posts < MaxPosts /\ posts' = posts + 1

\* The goroutine a call starts, whatever becomes of the database.
Go(id, n, k, op, val) ==
  jobs' = IF RedisEnabled
          THEN jobs \cup {[id |-> id, node |-> n, key |-> k, op |-> op,
                           val |-> val, seen |-> FALSE]}
          ELSE jobs

addNewRecord(n, c, d) == store' = [store EXCEPT ![n][c] = @ + d]

\* UPDATE ... SET c = c + d; an error is returned or logged, nothing is kept.
Write(c, d) == \/ db' = [db EXCEPT ![c] = @ + d] /\ UNCHANGED faults
               \/ Fault /\ UNCHANGED db

\* IncreaseUserQuota and DecreaseUserQuota (direct: their argument db), and
\* IncreaseTokenQuota and DecreaseTokenQuota, which have no such argument.
ChangeQuota(n, k, d, direct) ==
  /\ Call /\ (direct => k = "quota")
  /\ Go(posts', n, k, "incr", d)
  /\ IF n \in BatchUpdateEnabled /\ ~direct
       THEN addNewRecord(n, k, d) /\ UNCHANGED <<db, faults>>
       ELSE Write(k, d) /\ UNCHANGED store
  /\ UNCHANGED <<stores, pc, owed, cache, lost>>

\* UpdateUserUsedQuotaAndRequestCount: two records, or one statement.
AddUsed(n, d) ==
  /\ Call
  /\ IF n \in BatchUpdateEnabled
       THEN /\ addNewRecord(n, "used", d) /\ owed' = [owed EXCEPT ![n] = @ + 1]
            /\ UNCHANGED <<db, faults>>
       ELSE /\ UNCHANGED <<store, owed>>
            /\ \/ /\ db' = [db EXCEPT !["used"] = @ + d, !["count"] = @ + 1]
                  /\ UNCHANGED faults
               \/ Fault /\ UNCHANGED db
  /\ UNCHANGED <<stores, pc, cache, jobs, lost>>

AddCount(n) ==
  /\ owed[n] > 0
  /\ owed' = [owed EXCEPT ![n] = @ - 1]
  /\ addNewRecord(n, "count", 1)
  /\ UNCHANGED <<db, stores, pc, cache, jobs, posts, faults, lost>>

-----------------------------------------------------------------------------
(* batchUpdate.  pc = 1..4 takes the store of a type, 5 writes the token's  *)
(* row and 6 the user's.                                                    *)

BatchUpdateMissingLast(n) ==
  /\ n \in BatchUpdateEnabled /\ pc[n] = 0
  /\ \E c \in Counters \ {"count"} : store[n][c] # 0
  /\ pc' = [pc EXCEPT ![n] = 1]
  /\ UNCHANGED <<db, store, stores, owed, cache, jobs, posts, faults, lost>>

BatchUpdate(n) ==
  /\ n \in BatchUpdateEnabled /\ pc[n] = 0
  /\ \E c \in Counters : store[n][c] # 0
  /\ pc' = [pc EXCEPT ![n] = 1]
  /\ UNCHANGED <<db, store, stores, owed, cache, jobs, posts, faults, lost>>

TakeStoreKeepingIt(n) ==
  LET c == BatchUpdateType[pc[n]]
  IN  /\ pc[n] \in 1..4
      /\ stores' = [stores EXCEPT ![n][c] = store[n][c]]
      /\ pc' = [pc EXCEPT ![n] = @ + 1]
      /\ UNCHANGED <<db, store, owed, cache, jobs, posts, faults, lost>>

\* Under the lock of the type: take the map and leave an empty one.
TakeStore(n) ==
  LET c == BatchUpdateType[pc[n]]
  IN  /\ pc[n] \in 1..4
      /\ stores' = [stores EXCEPT ![n][c] = store[n][c]]
      /\ store' = [store EXCEPT ![n][c] = 0]
      /\ pc' = [pc EXCEPT ![n] = @ + 1]
      /\ UNCHANGED <<db, owed, cache, jobs, posts, faults, lost>>

\* One statement per row; an error is logged and the values are dropped.
WriteColumns(n, S, next) ==
  /\ \/ /\ db' = [c \in Counters |-> IF c \in S THEN db[c] + stores[n][c] ELSE db[c]]
        /\ UNCHANGED <<faults, lost>>
     \/ /\ \E c \in S : stores[n][c] # 0
        /\ Fault /\ UNCHANGED db
        /\ Lose([c \in Counters |-> IF c \in S THEN stores[n][c] ELSE 0])
  /\ stores' = [stores EXCEPT ![n] = [c \in Counters |-> IF c \in S THEN 0 ELSE @[c]]]
  /\ pc' = [pc EXCEPT ![n] = next]
  /\ UNCHANGED <<store, owed, cache, jobs, posts>>

WriteToken(n) == pc[n] = 5 /\ WriteColumns(n, {"token"}, 6)

WriteUserForever(n) == pc[n] = 6 /\ WriteColumns(n, UserColumns, 7)

WriteUser(n) == pc[n] = 6 /\ WriteColumns(n, UserColumns, 0)

\* A node stops: nothing flushes its stores.
Crash(n) ==
  /\ Fault
  /\ Lose([c \in Counters |-> UnderWay(n, c)])
  /\ store' = [store EXCEPT ![n] = Zero] /\ stores' = [stores EXCEPT ![n] = Zero]
  /\ pc' = [pc EXCEPT ![n] = 0] /\ owed' = [owed EXCEPT ![n] = 0]
  /\ jobs' = {j \in jobs : j.node # n}
  /\ UNCHANGED <<db, cache, posts>>

-----------------------------------------------------------------------------
(* The cache *)

\* The hashes that are there or will be when a refresh is written.
HashesWith(k) == {k} \cup {h \in Cached : cache[h].exists \/ \E j \in jobs : j.key = h /\ j.op # "incr"}

Reading(n, k, op) ==
  /\ RedisEnabled /\ n \in Readers
  /\ Cardinality({j \in jobs : j.op # "incr"}) < MaxReads
  /\ Cardinality(HashesWith(k)) <= MaxHashes
  /\ \A j \in jobs : ~(j.node = n /\ j.key = k /\ j.op = op)
  /\ Go(0, n, k, op, db[k])
  /\ UNCHANGED <<db, store, stores, pc, owed, cache, posts, faults, lost>>

\* GetUserCache and GetTokenByKey after a miss, GetTokenById always: the whole
\* hash is written later.
Refill(n, k) == (k = "quota" => ~cache[k].exists) /\ Reading(n, k, "fill")

\* GetUserQuota asked for the database's value: one field is written later.
ReadFromDB(n) == Reading(n, "quota", "field")

\* ttl > 0, in RedisHIncrBy and RedisHSetField.
HasTTL(k) == cache[k].exists /\ cache[k].expires

\* RedisHIncrBy, RedisHSetField: TTL, the first round trip.
LookTTL(j) ==
  /\ j.op # "fill" /\ ~j.seen
  /\ jobs' = (jobs \ {j}) \cup (IF HasTTL(j.key) THEN {[j EXCEPT !.seen = TRUE]} ELSE {})
  /\ UNCHANGED <<db, store, stores, pc, owed, cache, posts, faults, lost>>

\* What the hash holds after the write.  When it expired since the look, the
\* write creates it anew with this one field.
NewVal(j) == j.val + (IF j.op = "incr" THEN cache[j.key].val ELSE 0)

SetCacheKeepingTTL(j) ==
  /\ j.op = "fill" \/ j.seen
  /\ cache' = [cache EXCEPT ![j.key] =
                 [Hash(NewVal(j)) EXCEPT !.expires = j.op = "fill" \/ cache[j.key].exists]]
  /\ jobs' = jobs \ {j}
  /\ UNCHANGED <<db, store, stores, pc, owed, posts, faults, lost>>

\* The transaction: the write and EXPIRE.
SetCache(j) ==
  /\ j.op = "fill" \/ j.seen
  /\ cache' = [cache EXCEPT ![j.key] = Hash(NewVal(j))]
  /\ jobs' = jobs \ {j}
  /\ UNCHANGED <<db, store, stores, pc, owed, posts, faults, lost>>

\* The time to live of the hash ends.
Expire(k) ==
  /\ HasTTL(k)
  /\ cache' = [cache EXCEPT ![k] = NoHash]
  /\ UNCHANGED <<db, store, stores, pc, owed, jobs, posts, faults, lost>>

-----------------------------------------------------------------------------
RunJob(j) == LookTTL(j) \/ SetCache(j)

BatchStep(n) == BatchUpdate(n) \/ TakeStore(n) \/ WriteToken(n) \/ WriteUser(n)

Next ==
  \/ \E n \in Nodes :
       \/ \E a \in Amounts, k \in Cached, direct \in BOOLEAN :
            ChangeQuota(n, k, a, direct) \/ ChangeQuota(n, k, -a, direct)
       \/ \E a \in Amounts : AddUsed(n, a)
       \/ AddCount(n) \/ BatchStep(n) \/ Crash(n)
       \/ ReadFromDB(n) \/ \E k \in Cached : Refill(n, k)
  \/ \E j \in jobs : RunJob(j)
  \/ \E k \in Cached : Expire(k)

Spec == Init /\ [][Next]_vars

\* A job of this key writes the hash, and renews the time it has to live.
Renew(k) == \E j \in jobs : j.key = k /\ SetCache(j)

\* The updater's loop never ends, goroutines run, and a hash that is not written
\* again expires.  Reads go on for ever.
FairSpec ==
  /\ Spec
  /\ \A n \in BatchUpdateEnabled : WF_vars(BatchStep(n)) /\ WF_vars(AddCount(n))
  /\ \A id \in 1..MaxPosts : WF_vars(\E j \in jobs : j.id = id /\ RunJob(j))
  /\ \A k \in Cached : WF_vars(\E j \in jobs : j.key = k /\ j.op = "fill" /\ RunJob(j))
  /\ WF_vars(\E j \in jobs : j.op = "field" /\ RunJob(j))
  /\ \A k \in Cached : WF_vars(Expire(k) \/ Renew(k))

-----------------------------------------------------------------------------
(* Properties *)

\* The sum of f over the nodes, as a count of its units less that of its debts:
\* n contributes the pairs <<n, 1>>, ..., <<n, f[n]>>.
Units(f) == UNION {{n} \X (1..f[n]) : n \in Nodes}

Sum(f) == Cardinality(Units(f)) - Cardinality(Units([n \in Nodes |-> 0 - f[n]]))

\* What the database would hold once everything under way were written.
Balance == [c \in Counters |-> db[c] + Sum([n \in Nodes |-> UnderWay(n, c)])]

\* A quota is raised or lowered, or used_quota and request_count go up together.
Changes ==
  {[Zero EXCEPT ![k] = d] : k \in Cached, d \in Amounts \cup {-a : a \in Amounts}}
    \cup {[Zero EXCEPT !["used"] = a, !["count"] = 1] : a \in Amounts}

AccountOf ==
  INSTANCE QuotaAccount WITH
    Columns <- Counters, calls <- posts,
    total <- [c \in Counters |-> Balance[c] + lost[c]]

\* The stores, the batches under way, the database and what errors and crashes
\* dropped together implement the account: every call is in their sum once or,
\* if its statement failed, not at all. A batch that runs while calls come in or
\* that failed neither drops nor repeats a change, and used_quota is never
\* charged without its request being counted (addNewRecord, batchUpdate).
ImplementsAccount == AccountOf!Account

\* While nodes live, every posted change reaches the database (batchUpdate).
EventuallyWritten == <>[](db = Balance)

\* A stale quota does not stay in Redis.  While calls are made, a refill or a
\* single field that was read before a statement and written after it, or an
\* increment on top of a value that has it already, leaves a wrong quota in the
\* hash (cacheIncrUserQuota, updateUserCache, RedisHIncrBy, RedisHSetField).
\* Once the last call is written, the hash, which later reads go on to refill,
\* comes to hold the database's value whenever it is there, and keeps it.
CacheRecovers ==
  \A k \in Cached : <>[](cache[k].exists => cache[k].val = db[k])
=============================================================================
