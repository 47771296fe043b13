---------------------------- MODULE ChannelRetry ----------------------------
(***************************************************************************)
(* Selection of a channel for a request, the retries over priorities and   *)
(* groups, and what they read: the memory cache of channels, synchronised  *)
(* with the database while channels are disabled and enabled.              *)
(*                                                                         *)
(* One node with the memory cache, one model, channels with a single key.  *)
(* The requests of the node share the cache; an UpdateChannelStatus runs   *)
(* in an updater: the goroutine of a failed request, an administrator's    *)
(* request (which also reloads the cache) or the channel test task.        *)
(***************************************************************************)
EXTENDS Integers, Sequences, FiniteSets

CONSTANTS
    Channels,      \* channel ids
    AutoGroups,    \* setting.GetAutoGroups(), as the user may use them
    Members,       \* Members[g]: the channels whose group column names g
    Priority,      \* Priority[c]
    RetryTimes,    \* common.RetryTimes
    Requests,
    Updaters,      \* threads that run UpdateChannelStatus
    MaxUpdates,    \* bound on the status updates of a behaviour
    MaxFaults,     \* bound on failing writes
    None

Groups == {AutoGroups[i] : i \in DOMAIN AutoGroups}

ASSUME ChannelRetryAssumption ==
    /\ AutoGroups \in Seq(Groups) /\ AutoGroups # <<>>
    /\ "auto" \notin Groups          \* the name is reserved
    /\ Members \in [Groups -> SUBSET Channels]
    /\ Priority \in [Channels -> Int]
    /\ RetryTimes \in Nat /\ MaxUpdates \in Nat /\ MaxFaults \in Nat
    /\ None \notin Channels \cup Groups \cup Updaters
    /\ "sync" \notin Updaters       \* the goroutine SyncChannelCache

AutoGroup == "auto"                                     \* the token group "auto"
Statuses == {"enabled", "manual", "disabled"}      \* disabled: ChannelStatusAutoDisabled

VARIABLES
    row,        \* channels.status
    ability,    \* abilities.enabled of the channel's rows
    list,       \* group2model2channels[g][model]
    cached,     \* channelsIDM[c].Status
    snap,       \* what a running InitChannelCache has read, per thread
    lock,       \* holder of channelStatusLock
    upd,        \* the running UpdateChannelStatus of each updater
    tested,     \* statuses as the running channel test task listed them
    started,    \* number of updates so far
    faults,     \* number of failed writes so far
    req,        \* the requests
    snapshot    \* the group of a request's TieredBillingSnapshot, or None

store == <<row, ability>>
cache == <<list, cached>>
vars == <<row, ability, list, cached, snap, lock, upd, tested, started, faults, req, snapshot>>

Idle == [pc |-> "idle", ch |-> None, to |-> "enabled", manual |-> FALSE]

\* A request before the distributor has seen it. always and tried are history: the groups
\* that have had a channel in the cache since the request began, and those it tried.
Fresh == [pc |-> "new", group |-> AutoGroup, cross |-> FALSE, pinned |-> FALSE, skip |-> FALSE,
          retry |-> 0, reset |-> FALSE, idx |-> 1, autoGroup |-> None, using |-> None,
          ch |-> None, attempts |-> 0, result |-> None, tried |-> {}, always |-> {}]

\* newGroup2model2channels: the enabled channels of each group.
Lists(status) == [g \in Groups |-> {c \in Members[g] : status[c] = "enabled"}]

Init ==
    /\ row \in [Channels -> {"enabled", "disabled"}]
    /\ ability = [c \in Channels |-> row[c] = "enabled"]
    /\ list = Lists(row)
    /\ cached = row
    /\ snap = [s \in Updaters \cup {"sync"} |-> None]
    /\ lock = None
    /\ upd = [u \in Updaters |-> Idle]
    /\ tested = None
    /\ started = 0
    /\ faults = 0
    /\ req = [r \in Requests |-> Fresh]
    /\ snapshot = [r \in Requests |-> None]

\* The history of the requests when the cached lists become l.
Watched(l) == [r \in Requests |-> [req[r] EXCEPT !.always = {g \in @ : l[g] # {}}]]

-----------------------------------------------------------------------------
(* InitChannelCache, called by SyncChannelCache again and again and by the  *)
(* administrator's handlers: reads without a lock, then swaps the maps.     *)

SyncRead(s) ==
    /\ snap[s] = None
    /\ IF s = "sync" THEN TRUE ELSE upd[s].pc = "reload"
    /\ snap' = [snap EXCEPT ![s] = row]
    /\ UNCHANGED <<store, cache, lock, upd, tested, started, faults, req, snapshot>>

\* Mutant of SyncSwap: a reload removes channels from the lists and adds none.
SyncRemoves(s) ==
    /\ snap[s] # None
    /\ list' = [g \in Groups |-> list[g] \cap Lists(snap[s])[g]]
    /\ cached' = snap[s]
    /\ snap' = [snap EXCEPT ![s] = None]
    /\ upd' = IF s \in Updaters THEN [upd EXCEPT ![s] = Idle] ELSE upd
    /\ req' = Watched(list')
    /\ UNCHANGED <<store, lock, tested, started, faults, snapshot>>

SyncSwap(s) ==
    /\ snap[s] # None
    /\ list' = Lists(snap[s])
    /\ cached' = snap[s]
    /\ snap' = [snap EXCEPT ![s] = None]
    /\ upd' = IF s \in Updaters THEN [upd EXCEPT ![s] = Idle] ELSE upd
    /\ req' = Watched(list')
    /\ UNCHANGED <<store, lock, tested, started, faults, snapshot>>

-----------------------------------------------------------------------------
(* UpdateChannelStatus *)

\* An updater is given a new status for a channel.
Begins(c, status, manual) ==
    \E u \in Updaters :
        /\ upd[u].pc = "idle" /\ started < MaxUpdates
        /\ upd' = [upd EXCEPT ![u] = [pc |-> "lock", ch |-> c, to |-> status, manual |-> manual]]
        /\ started' = started + 1

Goto(u, pc) == upd' = [upd EXCEPT ![u] = IF pc = "idle" THEN Idle ELSE [@ EXCEPT !.pc = pc]]

CacheUpdateStatusOnly(c, status) ==
    /\ cached' = [cached EXCEPT ![c] = status]
    /\ list' = list
    /\ req' = req

\* CacheUpdateChannelStatus: enabling adds nothing to the lists.
CacheUpdateChannelStatus(c, status) ==
    /\ cached' = [cached EXCEPT ![c] = status]
    /\ list' = IF status = "enabled" THEN list ELSE [g \in Groups |-> list[g] \ {c}]
    /\ req' = Watched(list')

UpdateUnlocked(u) ==
    /\ upd[u].pc = "lock"
    /\ IF cached[upd[u].ch] = upd[u].to
         THEN /\ Goto(u, "idle")
              /\ UNCHANGED <<cache, req>>
         ELSE /\ CacheUpdateChannelStatus(upd[u].ch, upd[u].to)
              /\ Goto(u, "load")
    /\ lock' = lock
    /\ UNCHANGED <<store, snap, tested, started, faults, snapshot>>

UpdateCached(u) ==
    /\ upd[u].pc = "lock" /\ lock = None
    /\ IF cached[upd[u].ch] = upd[u].to
         THEN /\ Goto(u, "idle")
              /\ UNCHANGED <<cache, req, lock>>
         ELSE /\ lock' = u
              /\ CacheUpdateChannelStatus(upd[u].ch, upd[u].to)
              /\ Goto(u, "load")
    /\ UNCHANGED <<store, snap, tested, started, faults, snapshot>>

UpdateLoad(u) ==
    /\ upd[u].pc = "load"
    /\ IF row[upd[u].ch] = upd[u].to
         THEN Goto(u, "idle") /\ lock' = None
         ELSE Goto(u, "save") /\ UNCHANGED lock
    /\ UNCHANGED <<store, cache, snap, tested, started, faults, req, snapshot>>

\* SaveWithoutKey; when it fails the deferred ability update runs all the same.
UpdateSave(u) ==
    /\ upd[u].pc = "save"
    /\ \/ /\ row' = [row EXCEPT ![upd[u].ch] = upd[u].to]
          /\ Goto(u, "ability")
          /\ UNCHANGED faults
       \/ /\ faults < MaxFaults
          /\ faults' = faults + 1
          /\ Goto(u, "ability failed")
          /\ UNCHANGED row
    /\ UNCHANGED <<ability, cache, snap, lock, tested, started, req, snapshot>>

\* Mutant of UpdateAbility: only ChannelStatusAutoDisabled counts as disabled.
UpdateAbilityManual(u) ==
    /\ upd[u].pc \in {"ability", "ability failed"}
    /\ ability' = [ability EXCEPT ![upd[u].ch] = upd[u].to # "disabled"]
    /\ lock' = None
    /\ Goto(u, IF upd[u].manual /\ upd[u].pc = "ability" THEN "reload" ELSE "idle")
    /\ UNCHANGED <<row, cache, snap, tested, started, faults, req, snapshot>>

\* UpdateAbilityStatus, its failure only logged; then the lock is released.
UpdateAbility(u) ==
    /\ upd[u].pc \in {"ability", "ability failed"}
    /\ \/ /\ ability' = [ability EXCEPT ![upd[u].ch] = upd[u].to = "enabled"]
          /\ UNCHANGED faults
       \/ /\ faults < MaxFaults
          /\ faults' = faults + 1
          /\ UNCHANGED ability
    /\ lock' = None
    /\ Goto(u, IF upd[u].manual /\ upd[u].pc = "ability" THEN "reload" ELSE "idle")
    /\ UNCHANGED <<row, cache, snap, tested, started, req, snapshot>>

\* The status handlers of the administrator.
AdminUpdates ==
    /\ \E c \in Channels, s \in {"enabled", "manual"} : Begins(c, s, TRUE)
    /\ UNCHANGED <<store, cache, snap, lock, tested, faults, req, snapshot>>

\* runChannelTestTask lists the channels and decides by the statuses it listed.
TestList ==
    /\ tested = None /\ started < MaxUpdates
    /\ tested' = row
    /\ UNCHANGED <<store, cache, snap, lock, upd, started, faults, req, snapshot>>

TestChannel(c) ==
    /\ tested # None
    /\ \/ tested[c] = "enabled" /\ Begins(c, "disabled", FALSE)
       \/ tested[c] = "disabled" /\ Begins(c, "enabled", FALSE)
    /\ UNCHANGED <<store, cache, snap, lock, tested, faults, req, snapshot>>

TestEnd ==
    /\ tested # None
    /\ tested' = None
    /\ UNCHANGED <<store, cache, snap, lock, upd, started, faults, req, snapshot>>

-----------------------------------------------------------------------------
(* Requests *)

shared == <<store, cache, snap, lock, upd, tested, started, faults>>

\* GetRandomSatisfiedChannel: the n-th priority of the group's channels, or its last.
Satisfied(g, n) ==
    LET levels == {Priority[c] : c \in list[g]}
        level(c) == Cardinality({p \in levels : p > Priority[c]})
        last == Cardinality(levels) - 1
    IN  {c \in list[g] : level(c) = IF n > last THEN last ELSE n}

\* HandleGroupRatio: UsingGroup, whose ratio goes into PriceData.
HandleGroupRatio(q) == [q EXCEPT !.using = IF q.autoGroup # None THEN q.autoGroup ELSE @]

\* ModelPriceHelper, once, before the first attempt.  For a model billed by a
\* tiered expression it keeps the group's ratio in a snapshot, which the
\* HandleGroupRatio of a retry leaves as it is.
ModelPriceHelper(r) ==
    \/ UNCHANGED snapshot
    \/ /\ req[r].attempts = 0 /\ req'[r].attempts = 1
       /\ snapshot' = [snapshot EXCEPT ![r] = req'[r].using]

\* The group whose ratio the request is settled with: that of the snapshot
\* (ComputeTieredQuota), or the one in PriceData.
SettledGroup(r) == IF snapshot[r] # None THEN snapshot[r] ELSE req[r].using

\* addUsedChannel and the call of the channel.
Attempt(q, c, g) ==
    [q EXCEPT !.pc = "relay", !.ch = c, !.attempts = @ + 1,
              !.tried = IF g = None THEN @ ELSE @ \cup {g}]

\* The distributor hands over to the handler, which starts with a RetryParam of its own.
HandOver(q) == [q EXCEPT !.retry = IF q.pc = "distribute" THEN 0 ELSE @,
                         !.reset = IF q.pc = "distribute" THEN FALSE ELSE @]

Ended(q, result) == [q EXCEPT !.pc = "ended", !.result = result]

\* TokenAuth: the group and the choice of the token are known.
Begun(q, group, cross) ==
    [q EXCEPT !.pc = "distribute", !.group = group, !.cross = cross, !.using = group,
              !.always = {g \in Groups : list[g] # {}}]

\* The start of Distribute: the token's group, cross-group retry, a pinned
\* channel, or a channel preferred by affinity.
Begin(r) ==
    /\ req[r].pc = "new"
    /\ \E group \in Groups \cup {AutoGroup}, cross \in BOOLEAN :
         LET q == Begun(req[r], group, cross)
         IN  \/ req' = [req EXCEPT ![r] = q]
             \/ \E c \in Channels :                            \* specific_channel_id
                  /\ row[c] = "enabled"
                  /\ req' = [req EXCEPT ![r] = Attempt([q EXCEPT !.pinned = TRUE], c, None)]
             \/ \E c \in Channels, i \in DOMAIN AutoGroups, skip \in BOOLEAN :  \* affinity
                  LET g == IF group = AutoGroup THEN AutoGroups[i] ELSE group
                      p == [q EXCEPT !.autoGroup = IF group = AutoGroup THEN g ELSE None, !.skip = skip]
                  IN  /\ cached[c] = "enabled"
                      /\ c \in list[g]
                      /\ group = AutoGroup => \A j \in 1..(i - 1) : c \notin list[AutoGroups[j]]
                      /\ req' = [req EXCEPT ![r] = Attempt(HandleGroupRatio(HandOver(p)), c, g)]
    /\ ModelPriceHelper(r)
    /\ UNCHANGED shared

\* CacheGetRandomSatisfiedChannel for a named group.
SelectInGroup(r) ==
    /\ req[r].pc \in {"distribute", "select"} /\ req[r].group # AutoGroup
    /\ LET q == req[r] IN
         req' \in {[req EXCEPT ![r] = p] : p \in
             IF list[q.group] = {} THEN {Ended(q, "nochannel")}
             ELSE {Attempt(HandleGroupRatio(HandOver(q)), c, q.group) : c \in Satisfied(q.group, q.retry)}}
    /\ ModelPriceHelper(r)
    /\ UNCHANGED shared

\* One pass of its loop over the auto groups: no channel in this group.
SkipGroup(r) ==
    /\ req[r].pc \in {"distribute", "select"} /\ req[r].group = AutoGroup
    /\ req[r].idx <= Len(AutoGroups)
    /\ list[AutoGroups[req[r].idx]] = {}
    /\ req' = [req EXCEPT ![r].idx = @ + 1, ![r].retry = 0]
    /\ UNCHANGED <<shared, snapshot>>

ChosenNoReset(q, c) ==
    LET switch == q.cross /\ q.retry >= RetryTimes
        p == [q EXCEPT !.autoGroup = AutoGroups[q.idx],
                       !.idx = IF switch THEN @ + 1 ELSE @]
    IN  Attempt(HandleGroupRatio(HandOver(p)), c, p.autoGroup)

ChosenStays(q, c) ==
    LET switch == q.cross /\ q.retry >= RetryTimes
        p == [q EXCEPT !.autoGroup = AutoGroups[q.idx],
                       !.retry = IF switch THEN 0 ELSE @,
                       !.reset = @ \/ switch]
    IN  Attempt(HandleGroupRatio(HandOver(p)), c, p.autoGroup)

ChosenUnpriced(q, c) ==
    LET switch == q.cross /\ q.retry >= RetryTimes
        p == [q EXCEPT !.autoGroup = AutoGroups[q.idx],
                       !.idx = IF switch THEN @ + 1 ELSE @,
                       !.retry = IF switch THEN 0 ELSE @,
                       !.reset = @ \/ switch]
    IN  Attempt(HandOver(IF q.pc = "distribute" THEN HandleGroupRatio(p) ELSE p), c, p.autoGroup)

\* One pass of its loop: a channel, and the state for the next retry.
Chosen(q, c) ==
    LET switch == q.cross /\ q.retry >= RetryTimes
        p == [q EXCEPT !.autoGroup = AutoGroups[q.idx],
                       !.idx = IF switch THEN @ + 1 ELSE @,
                       !.retry = IF switch THEN 0 ELSE @,
                       !.reset = @ \/ switch]
    IN  Attempt(HandleGroupRatio(HandOver(p)), c, p.autoGroup)

SelectAuto(r) ==
    /\ req[r].pc \in {"distribute", "select"} /\ req[r].group = AutoGroup
    /\ req[r].idx <= Len(AutoGroups)
    /\ LET q == req[r] IN
         \E c \in Satisfied(AutoGroups[q.idx], q.retry) : req' = [req EXCEPT ![r] = Chosen(q, c)]
    /\ ModelPriceHelper(r)
    /\ UNCHANGED shared

NoGroupLeft(r) ==
    /\ req[r].pc \in {"distribute", "select"} /\ req[r].group = AutoGroup
    /\ req[r].idx > Len(AutoGroups)
    /\ req' = [req EXCEPT ![r] = Ended(req[r], "nochannel")]
    /\ UNCHANGED <<shared, snapshot>>

Succeed(r) ==
    /\ req[r].pc = "relay"
    /\ req' = [req EXCEPT ![r] = Ended(req[r], "success")]
    /\ UNCHANGED <<shared, snapshot>>

\* shouldRetry, for a channel error, an error worth a retry, and any other.
shouldRetry(q, error) ==
    /\ ~q.skip
    /\ \/ error = "channel"
       \/ /\ error = "retryable"
          /\ RetryTimes - q.retry > 0
          /\ ~q.pinned

\* IncreaseRetry, and the condition of the loop.
IncreaseRetry(q) ==
    LET p == IF q.reset THEN [q EXCEPT !.reset = FALSE] ELSE [q EXCEPT !.retry = @ + 1]
    IN  IF p.retry <= RetryTimes THEN [p EXCEPT !.pc = "select"] ELSE Ended(p, "exhausted")

\* The attempt failed: processChannelError, which may disable the channel, then a retry or not.
FailAttempt(r) ==
    /\ req[r].pc = "relay"
    /\ \E error \in {"channel", "retryable", "final"} :
         LET q == req[r]
             why == IF error = "final" \/ q.pinned \/ q.skip THEN "final" ELSE "exhausted"
         IN  req' = [req EXCEPT ![r] = IF shouldRetry(q, error) THEN IncreaseRetry(q)
                                       ELSE Ended(q, why)]
    /\ \/ UNCHANGED <<upd, started>>
       \/ Begins(req[r].ch, "disabled", FALSE)
    /\ UNCHANGED <<store, cache, snap, lock, tested, faults, snapshot>>

-----------------------------------------------------------------------------
Request(r) == Begin(r) \/ SelectInGroup(r) \/ SkipGroup(r) \/ SelectAuto(r) \/ NoGroupLeft(r)
              \/ Succeed(r) \/ FailAttempt(r)

Update(u) == UpdateCached(u) \/ UpdateLoad(u) \/ UpdateSave(u) \/ UpdateAbility(u)

Next ==
    \/ \E r \in Requests : Request(r)
    \/ \E u \in Updaters : Update(u)
    \/ \E s \in DOMAIN snap : SyncRead(s) \/ SyncSwap(s)
    \/ AdminUpdates \/ TestList \/ TestEnd
    \/ \E c \in Channels : TestChannel(c)

Spec == Init /\ [][Next]_vars

\* SyncChannelCache loops for ever; goroutines and handlers run to their end.
Fairness ==
    /\ \A s \in Updaters \cup {"sync"} : WF_vars(SyncRead(s)) /\ WF_vars(SyncSwap(s))
    /\ \A u \in Updaters : SF_vars(Update(u))

FairSpec == Spec /\ Fairness

-----------------------------------------------------------------------------
(* Properties *)

\* The types of the variables; an updater past its first step holds channelStatusLock.
TypeOK ==
    /\ row \in [Channels -> Statuses] /\ cached \in [Channels -> Statuses]
    /\ ability \in [Channels -> BOOLEAN]
    /\ \A g \in Groups : list[g] \subseteq Members[g]
    /\ lock \in Updaters \cup {None}
    /\ \A u \in Updaters : upd[u].pc \in {"load", "save", "ability", "ability failed"} <=> lock = u
    /\ \A r \in Requests : req[r].idx \in 1..(Len(AutoGroups) + 1) /\ req[r].retry \in 0..(RetryTimes + 1)

\* group2model2channels holds enabled channels only ("enabled channel", by its declaration):
\* whatever updates and reloads run beside each other, a listed channel is cached as enabled.
ListedIsEnabled == \A g \in Groups : \A c \in list[g] : cached[c] = "enabled"

\* A request is settled with the ratio of a group it tried, over all switches of group and all
\* reloads.  Priced by model ratio or price it is the ratio of a group of the channel in use, after
\* a retry in another group too; a tiered expression keeps the ratio of the group of the first
\* channel, also when another group answers (a pinned channel is chosen without regard to groups).
PricedByUsedGroup ==
    \A r \in Requests :
        req[r].pc = "relay" /\ ~req[r].pinned =>
            /\ SettledGroup(r) \in req[r].tried
            /\ snapshot[r] = None \/ req[r].attempts = 1 => req[r].ch \in Members[SettledGroup(r)]

\* Counters are reset on the way to another group, yet a request makes at most
\* RetryTimes + 1 attempts for each group it may use.
AttemptsBounded ==
    \A r \in Requests :
        req[r].attempts <= (RetryTimes + 1) * (IF req[r].group = AutoGroup THEN Len(AutoGroups) ELSE 1)

\* With cross-group retry and retries allowed at all, a request that gives up has tried
\* every group that had a channel all the time, however channels went and came in the
\* meantime. Errors that are not retried end a request earlier, so do pins and affinity rules.
EveryGroupTried ==
    RetryTimes > 0 => \A r \in Requests :
        /\ req[r].pc = "ended" /\ req[r].result \in {"nochannel", "exhausted"}
        /\ req[r].group = AutoGroup /\ req[r].cross
        => req[r].always \subseteq req[r].tried

\* While no update is running and none has failed, the two tables of the database agree on
\* which channels are enabled.
AbilitiesFollow ==
    faults = 0 /\ (\A u \in Updaters : upd[u].pc \in {"idle", "lock", "reload"})
        => \A c \in Channels : ability[c] <=> row[c] = "enabled"

\* Once no more updates come, the cache lists the enabled channels of the database and goes
\* on doing so, although reloads may still be under way with what they read before.
CacheConverges == <>[](list = Lists(row) /\ cached = row)
=============================================================================
