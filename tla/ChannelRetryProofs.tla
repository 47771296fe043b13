------------------------- MODULE ChannelRetryProofs -------------------------
(***************************************************************************)
(* The retries of a request, and the cache they read, for any channels,    *)
(* groups, priorities, number of retries, requests and updaters.           *)
(*                                                                         *)
(* The argument for the attempts: (RetryTimes + 1) * (idx - 1) + retry     *)
(* never falls, and an attempt raises it by one, unless it is the last one *)
(* in its group.  For the groups: a group that is left behind was tried or *)
(* was empty when it was passed.                                           *)
(***************************************************************************)
EXTENDS ChannelRetry, SequenceTheorems, TLAPS

RequestPcs == {"new", "distribute", "select", "relay", "ended"}
Results == {None, "success", "nochannel", "exhausted", "final"}
Holding == {"load", "save", "ability", "ability failed"}

RequestType ==
    [pc : RequestPcs, group : Groups \cup {AutoGroup}, cross : BOOLEAN, pinned : BOOLEAN,
     skip : BOOLEAN, retry : Nat, reset : BOOLEAN, idx : Nat,
     autoGroup : Groups \cup {None}, using : Groups \cup {AutoGroup, None},
     ch : Channels \cup {None}, attempts : Nat, result : Results,
     tried : SUBSET Groups, always : SUBSET Groups]

UpdateType == [pc : Holding \cup {"idle", "lock", "reload"}, ch : Channels \cup {None},
               to : Statuses, manual : BOOLEAN]

StatusMap == [Channels -> Statuses]

\* The types of everything but the requests; who holds channelStatusLock.
StoreInv ==
    /\ row \in StatusMap /\ cached \in StatusMap
    /\ ability \in [Channels -> BOOLEAN]
    /\ list \in [Groups -> SUBSET Channels]
    /\ snap \in [Updaters \cup {"sync"} -> StatusMap \cup {None}]
    /\ lock \in Updaters \cup {None}
    /\ upd \in [Updaters -> UpdateType]
    /\ started \in Nat /\ faults \in Nat
    /\ tested \in StatusMap \cup {None}

LockInv == \A u \in Updaters : upd[u].pc \in Holding <=> lock = u

ListInv == \A g \in Groups : \A c \in list[g] : c \in Members[g] /\ cached[c] = "enabled"

\* A saved status stays until the abilities follow it, and only then do they differ.
SavedInv ==
    /\ \A u \in Updaters : upd[u].pc = "ability" => row[upd[u].ch] = upd[u].to
    /\ \A u \in Updaters : upd[u].pc = "ability failed" => faults > 0
    /\ faults = 0 =>
         \A c \in Channels :
            \/ \E u \in Updaters : upd[u].pc = "ability" /\ upd[u].ch = c
            \/ ability[c] <=> row[c] = "enabled"

\* An update is of a channel; the cache is reloaded after it, when the lock is released.
UpdateInv ==
    \A u \in Updaters :
        /\ upd[u].pc # "idle" => upd[u].ch \in Channels
        /\ snap[u] # None => upd[u].pc = "reload"

SharedInv == StoreInv /\ LockInv /\ ListInv /\ SavedInv /\ UpdateInv

-----------------------------------------------------------------------------
(* The invariant of a request *)

\* Attempts accounted for by the groups left behind.
Base(q) == IF q.group = AutoGroup THEN (RetryTimes + 1) * (q.idx - 1) ELSE 0

Limit(q) == (RetryTimes + 1) * (IF q.group = AutoGroup THEN Len(AutoGroups) ELSE 1)

CountInv(q) ==
    /\ q.idx \in 1..(Len(AutoGroups) + 1)
    /\ q.group # AutoGroup => q.idx = 1
    /\ q.retry <= RetryTimes + 1
    /\ q.pc \in {"new", "distribute"} => q.attempts = 0 /\ q.retry = 0 /\ ~q.reset
    /\ q.pc = "new" => q.idx = 1 /\ q.autoGroup = None
    /\ q.pc = "select" => /\ q.retry <= RetryTimes /\ ~q.reset
                          /\ q.attempts <= Base(q) + q.retry
    /\ q.pc = "relay" => /\ q.retry <= RetryTimes
                         /\ q.reset => q.retry = 0 /\ q.attempts <= Base(q)
                         /\ q.attempts <= Base(q) + q.retry + 1
    /\ q.attempts <= Limit(q)

GroupInv(q) ==
    /\ q.pc # "new" /\ q.group # AutoGroup => q.autoGroup = None /\ q.using = q.group
    /\ q.pc = "relay" => q.ch \in Channels
    /\ q.pc = "relay" /\ ~q.pinned => /\ q.using \in Groups /\ q.using \in q.tried
                                      /\ q.ch \in Members[q.using]

\* The groups still to come.
Ahead(q) == {AutoGroups[i] : i \in q.idx..Len(AutoGroups)}

TriedInv(q) ==
    /\ \A g \in q.always : list[g] # {}
    /\ q.group = AutoGroup /\ q.pc \in {"distribute", "select", "relay"}
         => q.always \subseteq q.tried \cup Ahead(q)
    /\ RetryTimes > 0 /\ q.group = AutoGroup /\ q.cross =>
         /\ q.pc = "relay" => q.reset \/ q.retry < RetryTimes
         /\ q.pc = "ended" /\ q.result \in {"nochannel", "exhausted"} => q.always \subseteq q.tried

RequestInv(q) == q \in RequestType /\ CountInv(q) /\ GroupInv(q) /\ TriedInv(q)

RequestsInv == /\ req = [r \in Requests |-> req[r]]
               /\ \A r \in Requests : RequestInv(req[r])

\* A snapshot was made for the first attempt, with the group of its channel.
Frozen(q, group) ==
    group # None =>
        /\ q.attempts # 0
        /\ ~q.pinned => /\ group \in q.tried
                        /\ q.pc = "relay" /\ q.attempts = 1 => q.ch \in Members[group]

SnapshotInv == /\ snapshot = [r \in Requests |-> snapshot[r]]
               /\ \A r \in Requests : Frozen(req[r], snapshot[r])

IInv == SharedInv /\ RequestsInv

\* What a step may do to the fields that Frozen is about.
Moved(n, q) ==
    /\ n.attempts = q.attempts \/ (n.attempts = q.attempts + 1 /\ n.pc = "relay")
    /\ q.attempts # 0 => q.tried \subseteq n.tried /\ n.pinned = q.pinned
    /\ n.pc = "relay" /\ n.attempts = q.attempts => q.pc = "relay" /\ n.ch = q.ch

Follows(n, q) == RequestInv(n) /\ Moved(n, q)

-----------------------------------------------------------------------------
(* Arithmetic *)

LEMMA Facts ==
    /\ RetryTimes \in Nat /\ MaxFaults \in Nat /\ MaxUpdates \in Nat
    /\ Len(AutoGroups) \in Nat /\ Len(AutoGroups) >= 1
    /\ \A i \in 1..Len(AutoGroups) : AutoGroups[i] \in Groups
    /\ \A g \in Groups : \E i \in 1..Len(AutoGroups) : AutoGroups[i] = g
    /\ AutoGroup \notin Groups /\ None \notin Groups /\ None \notin Channels
    /\ Members \in [Groups -> SUBSET Channels]
<1>1. AutoGroups \in Seq(Groups) /\ AutoGroups # <<>> BY ChannelRetryAssumption
<1>2. Len(AutoGroups) \in Nat /\ DOMAIN AutoGroups = 1..Len(AutoGroups)
  BY <1>1, LenProperties
<1>3. Len(AutoGroups) >= 1
  BY <1>1, <1>2, EmptySeq
<1>4. /\ \A i \in 1..Len(AutoGroups) : AutoGroups[i] \in Groups
      /\ \A g \in Groups : \E i \in 1..Len(AutoGroups) : AutoGroups[i] = g
  BY <1>2 DEF Groups
<1>5. /\ AutoGroup \notin Groups /\ None \notin Groups /\ None \notin Channels
      /\ Members \in [Groups -> SUBSET Channels]
  BY ChannelRetryAssumption DEF AutoGroup
<1>6. RetryTimes \in Nat /\ MaxFaults \in Nat /\ MaxUpdates \in Nat
  BY ChannelRetryAssumption
<1> QED BY <1>2, <1>3, <1>4, <1>5, <1>6

\* One more group gives RetryTimes + 1 more attempts.
LEMMA OneMore ==
    ASSUME NEW i \in Nat
    PROVE  /\ (RetryTimes + 1) * i \in Nat
           /\ (RetryTimes + 1) * (i + 1) = (RetryTimes + 1) * i + RetryTimes + 1
BY Facts, SMT

\* More groups, no fewer attempts.
LEMMA Monotone ==
    ASSUME NEW i \in Nat, NEW j \in Nat, i <= j
    PROVE  (RetryTimes + 1) * i <= (RetryTimes + 1) * j
<1>1. PICK d \in Nat : j = i + d BY j - i \in Nat
<1>2. (RetryTimes + 1) * j = (RetryTimes + 1) * i + (RetryTimes + 1) * d BY <1>1, Facts, SMT
<1>3. (RetryTimes + 1) * d \in Nat BY OneMore
<1> QED BY <1>2, <1>3, OneMore, Facts

-----------------------------------------------------------------------------
(* The steps of a request *)

\* a is q after the call of a channel c of group g, seen from the fields it sets.
Called(a, q, c, g) ==
    /\ a \in RequestType
    /\ a.pc = "relay" /\ a.ch = c /\ a.attempts = q.attempts + 1
    /\ a.tried = q.tried \cup {g} /\ a.always = q.always
    /\ a.group = q.group /\ a.cross = q.cross /\ a.pinned = q.pinned /\ a.skip = q.skip
    /\ a.idx = q.idx /\ a.autoGroup = q.autoGroup /\ a.result = q.result
    /\ a.using = IF q.autoGroup # None THEN q.autoGroup ELSE q.using
    /\ q.pc # "distribute" => a.retry = q.retry /\ a.reset = q.reset
    /\ q.pc = "distribute" => a.retry = 0 /\ a.reset = FALSE

LEMMA AttemptFields ==
    ASSUME NEW q \in RequestType, NEW c \in Channels, NEW g \in Groups
    PROVE  Called(Attempt(HandleGroupRatio(HandOver(q)), c, g), q, c, g)
<1>0. PICK a : a = Attempt(HandleGroupRatio(HandOver(q)), c, g) OBVIOUS
<1> DEFINE h == HandOver(q)
           p == HandleGroupRatio(h)
<1>1. /\ h = [q EXCEPT !.retry = h.retry, !.reset = h.reset]
      /\ h.retry \in Nat /\ h.reset \in BOOLEAN
      /\ q.pc # "distribute" => h.retry = q.retry /\ h.reset = q.reset
      /\ q.pc = "distribute" => h.retry = 0 /\ h.reset = FALSE
  BY DEF HandOver, RequestType
<1>2. h \in RequestType /\ h.autoGroup = q.autoGroup /\ h.using = q.using
  <2> HIDE DEF h
  <2> QED BY <1>1 DEF RequestType
<1>3. p = [h EXCEPT !.using = IF q.autoGroup # None THEN q.autoGroup ELSE q.using]
  <2> HIDE DEF h
  <2> QED BY <1>2 DEF HandleGroupRatio, RequestType
<1>4. a = [p EXCEPT !.pc = "relay", !.ch = c, !.attempts = p.attempts + 1, !.tried = p.tried \cup {g}]
  <2>1. g # None BY Facts
  <2>2. a = Attempt(p, c, g) BY <1>0
  <2> HIDE DEF p
  <2> QED BY <2>1, <2>2 DEF Attempt
<1> HIDE DEF h, p
<1>5. p \in RequestType /\ p.pc = q.pc
  BY <1>1, <1>2, <1>3 DEF RequestType
<1>6. p.attempts + 1 \in Nat /\ p.tried \cup {g} \in SUBSET Groups /\ "relay" \in RequestPcs
  BY <1>5 DEF RequestType, RequestPcs
<1>7. a \in RequestType
  BY <1>4, <1>5, <1>6 DEF RequestType
<1>8. /\ p.attempts = q.attempts /\ p.tried = q.tried /\ p.always = q.always
      /\ p.group = q.group /\ p.cross = q.cross /\ p.pinned = q.pinned /\ p.skip = q.skip
      /\ p.idx = q.idx /\ p.autoGroup = q.autoGroup /\ p.result = q.result
      /\ p.using = IF q.autoGroup # None THEN q.autoGroup ELSE q.using
      /\ p.retry = h.retry /\ p.reset = h.reset
  BY <1>1, <1>2, <1>3 DEF RequestType
<1>9. Called(a, q, c, g) BY <1>1, <1>4, <1>5, <1>7, <1>8 DEF RequestType, Called
<1> QED BY <1>0, <1>9

\* A channel of the group is called: what the fields of the request must have been.
LEMMA CalledInGroup ==
    ASSUME IInv, NEW q, RequestInv(q), q.pc \in {"distribute", "select"}, q.group # AutoGroup,
           NEW c \in list[q.group]
    PROVE  Follows(Attempt(HandleGroupRatio(HandOver(q)), c, q.group), q)
<1>1. q \in RequestType /\ q.group \in Groups /\ c \in Channels /\ c \in Members[q.group]
  BY DEF RequestInv, RequestType, IInv, SharedInv, StoreInv, ListInv
<1>2. PICK b : b = Attempt(HandleGroupRatio(HandOver(q)), c, q.group) OBVIOUS
<1>3. Called(b, q, c, q.group) BY <1>1, <1>2, AttemptFields
<1>4. CountInv(b)
  <2>1. /\ q.idx = 1 /\ q.attempts \in Nat /\ q.retry \in Nat /\ q.attempts <= q.retry
        /\ q.retry <= RetryTimes /\ ~q.reset
    BY <1>1, Facts DEF RequestInv, CountInv, Base, RequestType
  <2>2. b.retry = q.retry /\ b.reset = FALSE
    BY <1>1, <1>3, <2>1 DEF RequestInv, CountInv, RequestType, Called
  <2> QED BY <1>3, <2>1, <2>2, Facts DEF CountInv, Base, Limit, Called
<1>5. GroupInv(b) BY <1>1, <1>3 DEF RequestInv, GroupInv, Called
<1>6. TriedInv(b) BY <1>3 DEF RequestInv, TriedInv, Called
<1>7. Moved(b, q)
  <2>1. q.attempts \in Nat BY <1>1 DEF RequestType
  <2> QED BY <1>3, <2>1 DEF Called, Moved
<1> QED BY <1>2, <1>3, <1>4, <1>5, <1>6, <1>7 DEF Follows, RequestInv, Called

\* A channel of an auto group is called, and the state for the next retry is set.
LEMMA CalledInAuto ==
    ASSUME IInv, NEW q, RequestInv(q), q.pc \in {"distribute", "select"}, q.group = AutoGroup,
           q.idx <= Len(AutoGroups), NEW c \in list[AutoGroups[q.idx]]
    PROVE  Follows(Chosen(q, c), q)
<1> DEFINE g == AutoGroups[q.idx]
           switch == q.cross /\ q.retry >= RetryTimes
           p == [q EXCEPT !.autoGroup = g, !.idx = IF switch THEN @ + 1 ELSE @,
                          !.retry = IF switch THEN 0 ELSE @, !.reset = @ \/ switch]
<1>1. /\ q \in RequestType /\ q.idx \in 1..Len(AutoGroups) /\ q.idx \in Nat /\ q.retry \in Nat
      /\ q.attempts \in Nat /\ q.retry <= RetryTimes /\ q.reset = FALSE
      /\ q.attempts <= Base(q) + q.retry /\ Base(q) \in Nat
  <2>1. q \in RequestType /\ q.idx \in 1..Len(AutoGroups) /\ q.idx - 1 \in Nat
    BY Facts DEF RequestInv, CountInv, RequestType
  <2>2. Base(q) \in Nat BY <2>1, OneMore DEF Base
  <2>3. q.idx \in Nat /\ q.retry \in Nat /\ q.attempts \in Nat /\ q.reset \in BOOLEAN
    BY <2>1 DEF RequestType
  <2>4. CASE q.pc = "distribute"
    BY <2>1, <2>2, <2>3, <2>4, Facts DEF RequestInv, CountInv
  <2>5. CASE q.pc = "select"
    BY <2>1, <2>2, <2>3, <2>5, Facts DEF RequestInv, CountInv
  <2> QED BY <2>4, <2>5
<1>2. g \in Groups /\ g # None /\ c \in Channels /\ c \in Members[g]
  BY <1>1, Facts DEF IInv, SharedInv, StoreInv, ListInv
<1>3. /\ p \in RequestType /\ p.autoGroup = g /\ p.pc = q.pc /\ p.attempts = q.attempts
      /\ p.tried = q.tried /\ p.always = q.always /\ p.group = q.group /\ p.cross = q.cross
      /\ p.pinned = q.pinned
      /\ p.idx = IF switch THEN q.idx + 1 ELSE q.idx
      /\ p.retry = IF switch THEN 0 ELSE q.retry
      /\ p.reset <=> switch
  <2>1. (q.reset \/ switch) \in BOOLEAN OBVIOUS
  <2> DEFINE i == IF switch THEN q.idx + 1 ELSE q.idx
             n == IF switch THEN 0 ELSE q.retry
             t == q.reset \/ switch
  <2>3. i \in Nat /\ n \in Nat BY <1>1
  <2>4. p = [q EXCEPT !.autoGroup = g, !.idx = i, !.retry = n, !.reset = t]
    BY <1>1 DEF RequestType
  <2> HIDE DEF i, n, t, p, g, switch
  <2>2. p \in RequestType BY <1>1, <1>2, <2>1, <2>3, <2>4, ZenonT(30) DEF RequestType, t
  <2>5. /\ p.autoGroup = g /\ p.pc = q.pc /\ p.attempts = q.attempts
        /\ p.tried = q.tried /\ p.always = q.always /\ p.group = q.group /\ p.cross = q.cross
        /\ p.pinned = q.pinned /\ p.idx = i /\ p.retry = n /\ p.reset = t
    BY <1>1, <2>4 DEF RequestType
  <2> QED BY <1>1, <2>2, <2>5 DEF i, n, t
<1>4. PICK b : b = Attempt(HandleGroupRatio(HandOver(p)), c, p.autoGroup) OBVIOUS
<1>5. b = Chosen(q, c) BY <1>4 DEF Chosen
<1> HIDE DEF p, switch
<1>6. Called(b, p, c, g) BY <1>2, <1>3, <1>4, AttemptFields
<1> HIDE DEF g
<1>7. /\ b.idx = p.idx /\ b.attempts = q.attempts + 1 /\ b.group = AutoGroup /\ b.pc = "relay"
      /\ q.pc # "distribute" => b.retry = p.retry /\ b.reset = p.reset
      /\ q.pc = "distribute" => b.retry = 0 /\ b.reset = FALSE
  BY <1>3, <1>6 DEF Called
<1>7a. /\ switch => p.idx = q.idx + 1 /\ p.retry = 0 /\ p.reset
       /\ ~switch => p.idx = q.idx /\ p.retry = q.retry /\ ~p.reset
  BY <1>3
<1>8. CountInv(b)
  <2> DEFINE W(i) == (RetryTimes + 1) * i
  <2>1. /\ W(q.idx - 1) \in Nat /\ W(q.idx) = W(q.idx - 1) + RetryTimes + 1
        /\ W(q.idx) \in Nat /\ W(Len(AutoGroups)) \in Nat /\ Base(q) = W(q.idx - 1)
        /\ W(q.idx) <= W(Len(AutoGroups))
    <3>1. q.idx - 1 \in Nat /\ (q.idx - 1) + 1 = q.idx BY <1>1
    <3>2. W(q.idx - 1) \in Nat BY <3>1, OneMore
    <3>3. W((q.idx - 1) + 1) = W(q.idx - 1) + RetryTimes + 1 BY <3>1, OneMore
    <3>4. W(q.idx) <= W(Len(AutoGroups)) BY <1>1, Facts, Monotone
    <3>5. W(q.idx) \in Nat /\ W(Len(AutoGroups)) \in Nat BY <1>1, Facts, OneMore
    <3>6. Base(q) = W(q.idx - 1) BY DEF Base
    <3> QED BY <3>1, <3>2, <3>3, <3>4, <3>5, <3>6
  <2> HIDE DEF W
  <2>2. b.idx \in 1..(Len(AutoGroups) + 1) /\ b.retry \in Nat /\ b.retry <= RetryTimes
    <3>1. p.idx \in 1..(Len(AutoGroups) + 1) /\ p.retry \in Nat /\ p.retry <= RetryTimes
      BY <1>1, <1>7a, Facts, SMTT(30)
    <3> QED BY <1>7, <3>1, Facts
  <2>3. Limit(b) = W(Len(AutoGroups)) BY <1>7 DEF Limit, W
  <2>4. b.attempts <= Limit(b)
    BY <1>1, <1>7, <2>1, <2>3, Facts
  <2>5. CASE switch
    <3>1. b.idx = q.idx + 1 /\ b.retry = 0 BY <2>5, <1>7a, <1>7
    <3>2. Base(b) = W(q.idx) BY <1>1, <1>7, <3>1 DEF Base, W
    <3>3. b.attempts <= Base(b) BY <1>1, <1>7, <2>1, <3>2, Facts
    <3>4. Base(b) \in Nat BY <2>1, <3>2, Facts
    <3> QED BY <1>1, <1>7, <2>2, <2>4, <3>1, <3>3, <3>4, Facts DEF CountInv
  <2>6. CASE ~switch
    <3>1. b.idx = q.idx /\ ~b.reset BY <2>6, <1>7a, <1>7
    <3>2. Base(b) = W(q.idx - 1) BY <1>1, <1>7, <3>1 DEF Base, W
    <3>3. b.attempts <= Base(b) + b.retry + 1
      <4>1. CASE q.pc = "distribute"
        BY <4>1, <1>7, <2>1, <2>2, <3>2, Facts, SMTT(30) DEF RequestInv, CountInv
      <4>2. CASE q.pc # "distribute"
        BY <4>2, <1>1, <1>7a, <1>7, <2>1, <2>6, <3>2, Facts
      <4> QED BY <4>1, <4>2
    <3> QED BY <1>1, <1>7, <2>2, <2>4, <3>1, <3>3, Facts DEF CountInv
  <2> QED BY <2>5, <2>6
<1>9. GroupInv(b) BY <1>2, <1>3, <1>6 DEF GroupInv, Called
<1>10. TriedInv(b)
  <2>1. b.always = q.always /\ b.tried = q.tried \cup {g} /\ b.cross = q.cross
    BY <1>3, <1>6 DEF Called
  <2>2. q.always \subseteq q.tried \cup Ahead(q) /\ \A h \in q.always : list[h] # {}
    BY DEF RequestInv, TriedInv
  <2>3. Ahead(q) \subseteq Ahead(b) \cup {g}
    <3>1. b.idx = q.idx \/ b.idx = q.idx + 1 BY <1>7, <1>7a
    <3>2. \A i \in q.idx..Len(AutoGroups) : i = q.idx \/ i \in b.idx..Len(AutoGroups)
      BY <1>1, <3>1, Facts
    <3> QED BY <3>2 DEF Ahead, g
  <2>4. RetryTimes > 0 /\ b.cross => b.reset \/ b.retry < RetryTimes
    BY <1>1, <1>3, <1>7, <2>1, Facts DEF switch
  <2> QED BY <1>7, <2>1, <2>2, <2>3, <2>4 DEF TriedInv
<1>11. Moved(b, q)
  <2>1. b.tried = q.tried \cup {g} /\ b.pinned = q.pinned BY <1>3, <1>6 DEF Called
  <2> QED BY <1>1, <1>7, <2>1 DEF Moved
<1> QED BY <1>5, <1>6, <1>8, <1>9, <1>10, <1>11 DEF Follows, RequestInv, Called

\* A request may end whenever it has tried what it must.
LEMMA EndedKeeps ==
    ASSUME NEW q, RequestInv(q), q.pc # "new", NEW result \in Results,
           result \in {"nochannel", "exhausted"} /\ RetryTimes > 0 /\ q.group = AutoGroup /\ q.cross
             => q.always \subseteq q.tried
    PROVE  Follows(Ended(q, result), q)
<1>1. PICK e : e = Ended(q, result) OBVIOUS
<1>2. /\ e \in RequestType
      /\ e.pc = "ended" /\ e.result = result /\ e.attempts = q.attempts /\ e.idx = q.idx
      /\ e.group = q.group /\ e.retry = q.retry /\ e.autoGroup = q.autoGroup /\ e.using = q.using
      /\ e.always = q.always /\ e.tried = q.tried /\ e.cross = q.cross /\ e.pinned = q.pinned
  BY <1>1 DEF Ended, RequestInv, RequestType, RequestPcs
<1>3. CountInv(e) BY <1>2 DEF RequestInv, CountInv, Limit
<1>4. GroupInv(e) BY <1>2 DEF RequestInv, GroupInv
<1>5. TriedInv(e) BY <1>2 DEF RequestInv, TriedInv
<1>6. Moved(e, q) BY <1>2 DEF Moved
<1> QED BY <1>1, <1>2, <1>3, <1>4, <1>5, <1>6 DEF Follows, RequestInv

LEMMA BaseNat ==
    ASSUME NEW q, RequestInv(q)
    PROVE  Base(q) \in Nat
<1>1. q.idx - 1 \in Nat BY Facts DEF RequestInv, CountInv
<1> QED BY <1>1, OneMore DEF Base

\* The loop goes on after a failed attempt, or ends.
LEMMA IncreaseKeeps ==
    ASSUME NEW q, RequestInv(q), q.pc = "relay"
    PROVE  Follows(IncreaseRetry(q), q)
<1> DEFINE p == IF q.reset THEN [q EXCEPT !.reset = FALSE] ELSE [q EXCEPT !.retry = @ + 1]
<1>0. q \in RequestType /\ q.retry \in Nat /\ q.reset \in BOOLEAN /\ q.attempts \in Nat
  BY DEF RequestInv, RequestType
<1>1. /\ p \in RequestType
      /\ p.pc = "relay" /\ p.attempts = q.attempts /\ p.idx = q.idx /\ p.group = q.group
      /\ p.autoGroup = q.autoGroup /\ p.using = q.using /\ p.always = q.always /\ p.tried = q.tried
      /\ p.cross = q.cross /\ p.reset = FALSE /\ p.pinned = q.pinned
      /\ q.reset => p.retry = q.retry
      /\ ~q.reset => p.retry = q.retry + 1
  <2>1. CASE q.reset
    <3>1. p = [q EXCEPT !.reset = FALSE] BY <2>1
    <3> HIDE DEF p
    <3> QED BY <1>0, <2>1, <3>1 DEF RequestType
  <2>2. CASE ~q.reset
    <3>1. p = [q EXCEPT !.retry = q.retry + 1] BY <2>2
    <3>2. q.retry + 1 \in Nat BY <1>0
    <3>3. q.reset = FALSE BY <1>0, <2>2
    <3> HIDE DEF p
    <3> QED BY <1>0, <2>2, <3>1, <3>2, <3>3 DEF RequestType
  <2> QED BY <2>1, <2>2
<1> HIDE DEF p
<1>2. CASE p.retry <= RetryTimes
  <2>1. PICK n : n = [p EXCEPT !.pc = "select"] OBVIOUS
  <2>2. IncreaseRetry(q) = n BY <1>2, <2>1 DEF IncreaseRetry, p
  <2>3. /\ n \in RequestType
        /\ n.pc = "select" /\ n.attempts = q.attempts /\ n.idx = q.idx /\ n.group = q.group
        /\ n.autoGroup = q.autoGroup /\ n.using = q.using /\ n.always = q.always
        /\ n.tried = q.tried /\ n.cross = q.cross /\ n.reset = FALSE /\ n.retry = p.retry
        /\ n.pinned = q.pinned
    BY <1>1, <2>1 DEF RequestType, RequestPcs
  <2>4. CountInv(n)
    <3>1. Base(n) = Base(q) /\ Limit(n) = Limit(q) BY <2>3 DEF Base, Limit
    <3>2. n.attempts <= Base(n) + n.retry
      <4>1. CASE q.reset BY <1>0, <1>1, <2>3, <3>1, <4>1, BaseNat DEF RequestInv, CountInv
      <4>2. CASE ~q.reset BY <1>0, <1>1, <2>3, <3>1, <4>2, BaseNat DEF RequestInv, CountInv
      <4> QED BY <4>1, <4>2
    <3> QED BY <1>0, <1>1, <1>2, <2>3, <3>1, <3>2, Facts DEF RequestInv, CountInv
  <2>5. GroupInv(n) BY <2>3 DEF RequestInv, GroupInv
  <2>6. Ahead(n) = Ahead(q) BY <2>3 DEF Ahead
  <2>7. TriedInv(n) BY <2>3, <2>6 DEF RequestInv, TriedInv
  <2>8. Moved(n, q) BY <2>3 DEF Moved
  <2> QED BY <2>2, <2>3, <2>4, <2>5, <2>7, <2>8 DEF Follows, RequestInv
<1>3. CASE ~(p.retry <= RetryTimes)
  <2>1. IncreaseRetry(q) = Ended(p, "exhausted") BY <1>3 DEF IncreaseRetry, p
  <2>2. ~q.reset /\ p.retry = RetryTimes + 1
    BY <1>0, <1>1, <1>3, Facts DEF RequestInv, CountInv
  <2>3. ~(RetryTimes > 0 /\ q.group = AutoGroup /\ q.cross)
    BY <1>0, <1>1, <2>2, Facts DEF RequestInv, TriedInv
  <2>4. PICK e : e = Ended(p, "exhausted") OBVIOUS
  <2>5. /\ e \in RequestType
        /\ e.pc = "ended" /\ e.attempts = q.attempts /\ e.idx = q.idx /\ e.group = q.group
        /\ e.retry = p.retry /\ e.autoGroup = q.autoGroup /\ e.using = q.using
        /\ e.always = q.always /\ e.tried = q.tried /\ e.cross = q.cross /\ e.pinned = q.pinned
    BY <1>1, <2>4 DEF Ended, RequestType, RequestPcs, Results
  <2>6. CountInv(e)
    <3>1. Limit(e) = Limit(q) BY <2>5 DEF Limit
    <3> QED BY <1>0, <2>2, <2>5, <3>1, Facts DEF RequestInv, CountInv
  <2>7. GroupInv(e) BY <2>5 DEF RequestInv, GroupInv
  <2>8. TriedInv(e) BY <2>3, <2>5 DEF RequestInv, TriedInv
  <2>9. Moved(e, q) BY <2>5 DEF Moved
  <2> QED BY <2>1, <2>4, <2>5, <2>6, <2>7, <2>8, <2>9 DEF Follows, RequestInv
<1> QED BY <1>2, <1>3

\* An auto group without a channel is passed.
LEMMA SkipKeeps ==
    ASSUME NEW q, RequestInv(q), q.pc \in {"distribute", "select"}, q.group = AutoGroup,
           q.idx <= Len(AutoGroups), list[AutoGroups[q.idx]] = {}
    PROVE  Follows([q EXCEPT !.idx = @ + 1, !.retry = 0], q)
<1>1. PICK n : n = [q EXCEPT !.idx = @ + 1, !.retry = 0] OBVIOUS
<1>0. q \in RequestType /\ q.idx \in Nat /\ q.idx + 1 \in Nat BY DEF RequestInv, RequestType
<1>2. /\ n \in RequestType /\ q \in RequestType
      /\ n.pc = q.pc /\ n.attempts = q.attempts /\ n.idx = q.idx + 1 /\ n.group = q.group
      /\ n.autoGroup = q.autoGroup /\ n.using = q.using /\ n.always = q.always
      /\ n.tried = q.tried /\ n.cross = q.cross /\ n.reset = q.reset /\ n.retry = 0
      /\ n.pinned = q.pinned
  BY <1>0, <1>1 DEF RequestType
<1>3. q.idx \in 1..Len(AutoGroups) /\ q.attempts \in Nat /\ q.retry \in Nat
  BY <1>2, Facts DEF RequestInv, CountInv, RequestType
<1>4. CountInv(n)
  <2>1. /\ Base(n) = Base(q) + RetryTimes + 1 /\ Base(q) \in Nat
    <3>1. q.idx - 1 \in Nat /\ (q.idx - 1) + 1 = q.idx BY <1>3
    <3>2. /\ (RetryTimes + 1) * (q.idx - 1) \in Nat
          /\ (RetryTimes + 1) * ((q.idx - 1) + 1) = (RetryTimes + 1) * (q.idx - 1) + RetryTimes + 1
      BY <3>1, OneMore
    <3>3. n.idx - 1 = q.idx BY <1>2, <1>3
    <3> QED BY <1>2, <3>1, <3>2, <3>3 DEF Base
  <2>2. Limit(n) = Limit(q) BY <1>2 DEF Limit
  <2>3. q.pc = "select" => n.attempts <= Base(n) + n.retry
    BY <1>2, <1>3, <2>1, Facts DEF RequestInv, CountInv
  <2> QED BY <1>2, <1>3, <2>2, <2>3, Facts DEF RequestInv, CountInv
<1>5. GroupInv(n) BY <1>2 DEF RequestInv, GroupInv
<1>6. TriedInv(n)
  <2>1. AutoGroups[q.idx] \notin q.always BY DEF RequestInv, TriedInv
  <2>2. \A i \in q.idx..Len(AutoGroups) : i = q.idx \/ i \in n.idx..Len(AutoGroups)
    BY <1>2, <1>3, Facts
  <2>3. q.always \subseteq q.tried \cup Ahead(q) BY DEF RequestInv, TriedInv
  <2>4. q.always \subseteq q.tried \cup Ahead(n)
    BY <2>1, <2>2, <2>3 DEF Ahead
  <2> QED BY <1>2, <2>4 DEF RequestInv, TriedInv
<1>7. Moved(n, q) BY <1>2 DEF Moved
<1> QED BY <1>1, <1>2, <1>4, <1>5, <1>6, <1>7 DEF Follows, RequestInv

\* What is known of a request once its token is.
JustBegun(b, group) ==
    /\ b \in RequestType
    /\ b.pc = "distribute" /\ b.group = group /\ b.using = group /\ b.autoGroup = None
    /\ b.attempts = 0 /\ b.retry = 0 /\ b.reset = FALSE /\ b.idx = 1
    /\ RequestInv(b)

LEMMA BegunFields ==
    ASSUME NEW q, RequestInv(q), q.pc = "new",
           NEW group \in Groups \cup {AutoGroup}, NEW cross \in BOOLEAN
    PROVE  JustBegun(Begun(q, group, cross), group)
<1>0. PICK b : b = Begun(q, group, cross) OBVIOUS
<1> DEFINE al == {g \in Groups : list[g] # {}}
<1>1. q \in RequestType /\ al \in SUBSET Groups /\ q.reset \in BOOLEAN BY DEF RequestInv, RequestType
<1>2. b = [q EXCEPT !.pc = "distribute", !.group = group, !.cross = cross, !.using = group,
                    !.always = al]
  BY <1>0 DEF Begun
<1> HIDE DEF al
<1>2a. /\ "distribute" \in RequestPcs /\ group \in Groups \cup {AutoGroup, None}
  BY DEF RequestPcs
<1>2b. b \in RequestType BY <1>1, <1>2, <1>2a DEF RequestType
<1>3. /\ b \in RequestType /\ b.pc = "distribute" /\ b.group = group /\ b.using = group
      /\ b.autoGroup = q.autoGroup /\ b.attempts = q.attempts /\ b.retry = q.retry
      /\ b.reset = q.reset /\ b.idx = q.idx /\ b.always = al
  BY <1>1, <1>2, <1>2b DEF RequestType
<1>4. /\ b.autoGroup = None /\ b.attempts = 0 /\ b.retry = 0 /\ b.reset = FALSE /\ b.idx = 1
  BY <1>1, <1>3 DEF RequestInv, CountInv
<1>5. CountInv(b)
  <2>1. Limit(b) \in Nat BY Facts, OneMore DEF Limit
  <2> QED BY <1>3, <1>4, <2>1, Facts DEF CountInv
<1>6. GroupInv(b) BY <1>3, <1>4 DEF GroupInv
<1>7. TriedInv(b)
  <2>1. Groups \subseteq Ahead(b) BY <1>4, Facts DEF Ahead
  <2> QED BY <1>1, <1>3, <2>1 DEF TriedInv, al
<1> QED BY <1>0, <1>3, <1>4, <1>5, <1>6, <1>7 DEF RequestInv, JustBegun

\* Every request may make an attempt.
LEMMA OneAllowed ==
    ASSUME NEW q
    PROVE  1 <= Limit(q)
<1>1. (RetryTimes + 1) * 1 <= (RetryTimes + 1) * Len(AutoGroups) BY Facts, Monotone
<1>2. (RetryTimes + 1) * 1 = RetryTimes + 1 BY Facts
<1>3. (RetryTimes + 1) * Len(AutoGroups) \in Nat BY Facts, OneMore
<1>4. 1 <= (RetryTimes + 1) * Len(AutoGroups) BY <1>1, <1>2, <1>3, Facts
<1>5. CASE q.group = AutoGroup BY <1>4, <1>5 DEF Limit
<1>6. CASE q.group # AutoGroup BY <1>2, <1>6, Facts DEF Limit
<1> QED BY <1>5, <1>6

\* a is a request in its first attempt.
First(a) == RequestInv(a) /\ a.pc = "relay" /\ a.attempts = 1

\* A pinned channel, or one preferred by affinity, is called first.
LEMMA PinnedKeeps ==
    ASSUME NEW b, RequestInv(b), b.pc = "distribute", b.idx = 1, NEW c \in Channels
    PROVE  First(Attempt([b EXCEPT !.pinned = TRUE], c, None))
<1>1. PICK a : a = Attempt([b EXCEPT !.pinned = TRUE], c, None) OBVIOUS
<1>2. b \in RequestType /\ b.attempts \in Nat /\ b.attempts = 0 /\ b.retry = 0 /\ b.reset = FALSE
  BY DEF RequestInv, RequestType, CountInv
<1> DEFINE d == [b EXCEPT !.pinned = TRUE]
<1>2c. d \in RequestType BY <1>2 DEF RequestType
<1>2a. /\ d \in RequestType /\ d.attempts = 0 /\ d.retry = 0 /\ d.reset = FALSE /\ d.pinned = TRUE
       /\ d.group = b.group /\ d.idx = b.idx /\ d.cross = b.cross /\ d.autoGroup = b.autoGroup
       /\ d.using = b.using /\ d.always = b.always /\ d.tried = b.tried
  BY <1>2, <1>2c DEF RequestType
<1>2b. a = Attempt(d, c, None) BY <1>1
<1> HIDE DEF d
<1>3. a = [d EXCEPT !.pc = "relay", !.ch = c, !.attempts = 1, !.tried = b.tried]
  BY <1>2a, <1>2b DEF Attempt
<1>4. /\ a \in RequestType /\ a.pc = "relay" /\ a.attempts = 1 /\ a.pinned = TRUE /\ a.ch = c
      /\ a.group = b.group /\ a.idx = b.idx /\ a.retry = 0 /\ a.reset = FALSE /\ a.cross = b.cross
      /\ a.autoGroup = b.autoGroup /\ a.using = b.using /\ a.always = b.always /\ a.tried = b.tried
  BY <1>2, <1>2a, <1>3 DEF RequestType, RequestPcs
<1>5. CountInv(a)
  <2>1. 1 <= Limit(a) BY OneAllowed
  <2>2. Base(a) = 0
    BY <1>4, Facts DEF Base
  <2> QED BY <1>4, <2>1, <2>2, Facts DEF RequestInv, CountInv
<1>6. GroupInv(a) BY <1>4 DEF RequestInv, GroupInv
<1>7. TriedInv(a)
  <2>1. Ahead(a) = Ahead(b) BY <1>4 DEF Ahead
  <2> QED BY <1>4, <2>1, Facts DEF RequestInv, TriedInv
<1> QED BY <1>1, <1>4, <1>5, <1>6, <1>7 DEF First, RequestInv

LEMMA AffinityKeeps ==
    ASSUME IInv, NEW b, RequestInv(b), b.pc = "distribute", b.idx = 1, b.using = b.group,
           NEW g \in Groups, b.group # AutoGroup => g = b.group, NEW c \in list[g],
           NEW skip \in BOOLEAN, NEW x, x = IF b.group = AutoGroup THEN g ELSE None
    PROVE  First(Attempt(HandleGroupRatio(HandOver(
                        [b EXCEPT !.autoGroup = x, !.skip = skip])), c, g))
<1> DEFINE p == [b EXCEPT !.autoGroup = x, !.skip = skip]
<1>1. b \in RequestType /\ b.attempts = 0 BY DEF RequestInv, CountInv
<1>2. x \in Groups \cup {None} /\ g # None /\ c \in Channels /\ c \in Members[g]
  BY Facts DEF IInv, SharedInv, StoreInv, ListInv
<1>3. p \in RequestType BY <1>1, <1>2, ZenonT(30) DEF RequestType
<1>4. /\ p.pc = "distribute" /\ p.attempts = 0 /\ p.idx = 1 /\ p.group = b.group /\ p.autoGroup = x
      /\ p.using = b.group /\ p.always = b.always /\ p.tried = b.tried /\ p.cross = b.cross
  BY <1>1, <1>3 DEF RequestType
<1>5. PICK a : a = Attempt(HandleGroupRatio(HandOver(p)), c, g) OBVIOUS
<1> HIDE DEF p
<1>6. Called(a, p, c, g) BY <1>2, <1>3, <1>5, AttemptFields
<1>7. /\ a \in RequestType /\ a.pc = "relay" /\ a.ch = c /\ a.attempts = 1 /\ a.retry = 0
      /\ a.reset = FALSE /\ a.idx = 1 /\ a.group = b.group /\ a.autoGroup = x /\ a.cross = b.cross
      /\ a.always = b.always /\ a.tried = b.tried \cup {g}
      /\ a.using = IF x # None THEN x ELSE b.group
  BY <1>4, <1>6 DEF Called
<1>8. CountInv(a)
  <2>1. 1 <= Limit(a) BY OneAllowed
  <2>2. Base(a) = 0 BY <1>7, Facts DEF Base
  <2> QED BY <1>7, <2>1, <2>2, Facts DEF RequestInv, CountInv
<1>9. GroupInv(a) BY <1>2, <1>7, Facts DEF RequestInv, GroupInv
<1>10. TriedInv(a)
  <2>1. Ahead(a) = Ahead(b) BY <1>7 DEF Ahead
  <2> QED BY <1>7, <2>1, Facts DEF RequestInv, TriedInv
<1> QED BY <1>5, <1>7, <1>8, <1>9, <1>10 DEF First, RequestInv, p

\* Replacing one request keeps the invariant of all.
LEMMA OneRequest ==
    ASSUME IInv, NEW r \in Requests, NEW n, RequestInv(n),
           req' = [req EXCEPT ![r] = n], UNCHANGED list
    PROVE  RequestsInv' /\ req'[r] = n /\ \A s \in Requests \ {r} : req'[s] = req[s]
<1>1. req' = [s \in Requests |-> IF s = r THEN n ELSE req[s]]
  BY DEF IInv, RequestsInv
<1>2. ASSUME NEW s \in Requests PROVE RequestInv(req[s])'
  <2>1. RequestInv(req'[s]) BY <1>1, <1>2 DEF IInv, RequestsInv
  <2> QED BY <2>1 DEF RequestInv, TriedInv, CountInv, GroupInv, Base, Limit, Ahead, RequestType
<1> QED BY <1>1, <1>2 DEF RequestsInv

LEMMA BeginStep ==
    ASSUME IInv, NEW r \in Requests, Begin(r)
    PROVE  \E n : Follows(n, req[r]) /\ req' = [req EXCEPT ![r] = n]
<1> DEFINE q == req[r]
<1>1. RequestInv(q) /\ q.pc = "new" /\ q.attempts = 0
  BY DEF IInv, RequestsInv, Begin, RequestInv, CountInv
<1>2. PICK group \in Groups \cup {AutoGroup}, cross \in BOOLEAN :
         LET p == Begun(req[r], group, cross)
         IN  \/ req' = [req EXCEPT ![r] = p]
             \/ \E c \in Channels :
                  /\ row[c] = "enabled"
                  /\ req' = [req EXCEPT ![r] = Attempt([p EXCEPT !.pinned = TRUE], c, None)]
             \/ \E c \in Channels, i \in DOMAIN AutoGroups, skip \in BOOLEAN :
                  LET g == IF group = AutoGroup THEN AutoGroups[i] ELSE group
                      o == [p EXCEPT !.autoGroup = IF group = AutoGroup THEN g ELSE None, !.skip = skip]
                  IN  /\ cached[c] = "enabled"
                      /\ c \in list[g]
                      /\ group = AutoGroup => \A j \in 1..(i - 1) : c \notin list[AutoGroups[j]]
                      /\ req' = [req EXCEPT ![r] = Attempt(HandleGroupRatio(HandOver(o)), c, g)]
  BY Zenon DEF Begin
<1>3. PICK b : b = Begun(req[r], group, cross) OBVIOUS
<1>4. /\ b \in RequestType /\ RequestInv(b)
      /\ b.pc = "distribute" /\ b.group = group /\ b.using = group /\ b.idx = 1
  <2>1. JustBegun(Begun(q, group, cross), group)
    <3> HIDE DEF q
    <3> QED BY <1>1, BegunFields
  <2> QED BY <1>3, <2>1 DEF JustBegun
<1>4a. Follows(b, q)
  <2>1. b.attempts = 0 BY <1>4 DEF RequestInv, CountInv
  <2> QED BY <1>1, <1>4, <2>1 DEF Follows, Moved
<1>4b. ASSUME NEW a, First(a) PROVE Follows(a, q)
  BY <1>1, <1>4b DEF First, Follows, Moved
<1> DEFINE Goal == \E n : Follows(n, req[r]) /\ req' = [req EXCEPT ![r] = n]
<1>4c. ASSUME NEW n, Follows(n, q), req' = [req EXCEPT ![r] = n] PROVE Goal BY <1>4c
<1> SUFFICES Goal OBVIOUS
<1> HIDE DEF q, Goal
<1>5. CASE req' = [req EXCEPT ![r] = b] BY <1>4a, <1>4c, <1>5
<1>6. CASE \E c \in Channels : req' = [req EXCEPT ![r] = Attempt([b EXCEPT !.pinned = TRUE], c, None)]
  <2>1. PICK c \in Channels : req' = [req EXCEPT ![r] = Attempt([b EXCEPT !.pinned = TRUE], c, None)]
    BY <1>6
  <2>2. First(Attempt([b EXCEPT !.pinned = TRUE], c, None)) BY <1>4, PinnedKeeps
  <2> QED BY <1>4b, <1>4c, <2>1, <2>2
<1>7. CASE \E c \in Channels, i \in DOMAIN AutoGroups, skip \in BOOLEAN :
              LET g == IF group = AutoGroup THEN AutoGroups[i] ELSE group
                  p == [b EXCEPT !.autoGroup = IF group = AutoGroup THEN g ELSE None, !.skip = skip]
              IN  /\ c \in list[g]
                  /\ req' = [req EXCEPT ![r] = Attempt(HandleGroupRatio(HandOver(p)), c, g)]
  <2>1. PICK c \in Channels, i \in DOMAIN AutoGroups, skip \in BOOLEAN :
              LET g == IF group = AutoGroup THEN AutoGroups[i] ELSE group
                  p == [b EXCEPT !.autoGroup = IF group = AutoGroup THEN g ELSE None, !.skip = skip]
              IN  /\ c \in list[g]
                  /\ req' = [req EXCEPT ![r] = Attempt(HandleGroupRatio(HandOver(p)), c, g)]
    BY <1>7
  <2>2. PICK g : g = IF group = AutoGroup THEN AutoGroups[i] ELSE group OBVIOUS
  <2>3. PICK x : x = IF group = AutoGroup THEN g ELSE None OBVIOUS
  <2>4. /\ c \in list[g]
        /\ req' = [req EXCEPT ![r] =
                     Attempt(HandleGroupRatio(HandOver([b EXCEPT !.autoGroup = x, !.skip = skip])), c, g)]
    BY <2>1, <2>2, <2>3
  <2>5. g \in Groups /\ (b.group # AutoGroup => g = b.group)
    BY <1>4, <2>2 DEF Groups
  <2>6. First(Attempt(HandleGroupRatio(HandOver([b EXCEPT !.autoGroup = x, !.skip = skip])), c, g))
    BY <1>4, <2>3, <2>4, <2>5, AffinityKeeps
  <2> QED BY <1>4b, <1>4c, <2>4, <2>6
<1> QED BY <1>2, <1>3, <1>5, <1>6, <1>7, ZenonT(30)

-----------------------------------------------------------------------------
(* The cache and the database *)

LEMMA SharedFrame ==
    ASSUME SharedInv, UNCHANGED shared
    PROVE  SharedInv'
BY DEF SharedInv, StoreInv, LockInv, ListInv, SavedInv, UpdateInv, shared, store, cache, StatusMap

\* The invariant of the requests does not depend on anything but them and the lists.
LEMMA RequestsFrame ==
    ASSUME RequestsInv, UNCHANGED <<req, list>>
    PROVE  RequestsInv'
<1>1. ASSUME NEW r \in Requests PROVE RequestInv(req[r])'
  <2>1. RequestInv(req'[r]) BY <1>1 DEF RequestsInv
  <2> QED BY <2>1 DEF RequestInv, TriedInv, CountInv, GroupInv, Base, Limit, Ahead, RequestType
<1> QED BY <1>1 DEF RequestsInv

\* Only updates about to write the abilities matter to the saved statuses.
LEMMA SavedFrame ==
    ASSUME SavedInv, UNCHANGED <<row, ability, faults>>,
           \A u \in Updaters : upd[u].pc = "ability" => upd'[u] = upd[u],
           \A u \in Updaters : upd'[u].pc \in {"ability", "ability failed"} => upd'[u] = upd[u]
    PROVE  SavedInv'
<1>1. \A u \in Updaters : upd'[u].pc = "ability" => row'[upd'[u].ch] = upd'[u].to BY DEF SavedInv
<1>2. \A u \in Updaters : upd'[u].pc = "ability failed" => faults' > 0 BY DEF SavedInv
<1>3. ASSUME faults' = 0, NEW c \in Channels,
             ~\E u \in Updaters : upd'[u].pc = "ability" /\ upd'[u].ch = c
      PROVE  ability'[c] <=> row'[c] = "enabled"
  <2>1. ~\E u \in Updaters : upd[u].pc = "ability" /\ upd[u].ch = c BY <1>3
  <2> QED BY <1>3, <2>1 DEF SavedInv
<1> QED BY <1>1, <1>2, <1>3 DEF SavedInv

\* An update that begins disturbs nothing.
LEMMA BeginsKeeps ==
    ASSUME SharedInv, NEW c \in Channels, NEW status \in Statuses, NEW manual \in BOOLEAN,
           Begins(c, status, manual), UNCHANGED <<store, cache, snap, lock, tested, faults>>
    PROVE  SharedInv'
<1>1. PICK u \in Updaters :
        /\ upd[u].pc = "idle"
        /\ upd' = [upd EXCEPT ![u] = [pc |-> "lock", ch |-> c, to |-> status, manual |-> manual]]
        /\ started' = started + 1
  BY DEF Begins
<1>2. upd \in [Updaters -> UpdateType] BY DEF SharedInv, StoreInv
<1>3. upd' \in [Updaters -> UpdateType] BY <1>1, <1>2 DEF UpdateType
<1>4. /\ upd'[u].pc = "lock" /\ upd'[u].ch = c
      /\ \A v \in Updaters : v # u => upd'[v] = upd[v]
  BY <1>1, <1>2
<1>5. StoreInv' BY <1>1, <1>3 DEF SharedInv, StoreInv, store, cache, StatusMap
<1>6. LockInv' BY <1>1, <1>4 DEF SharedInv, LockInv, Holding
<1>7. ListInv' BY DEF SharedInv, ListInv, cache
<1>8. SavedInv' BY <1>1, <1>4, SavedFrame DEF SharedInv, store
<1>9. UpdateInv' BY <1>1, <1>4 DEF SharedInv, UpdateInv
<1> QED BY <1>5, <1>6, <1>7, <1>8, <1>9 DEF SharedInv

\* When the lists change the requests' history follows them.
LEMMA WatchedKeeps ==
    ASSUME RequestsInv, req' = Watched(list')
    PROVE  RequestsInv'
<1>1. ASSUME NEW r \in Requests PROVE RequestInv(req[r])'
  <2>1. PICK q : q = req[r] OBVIOUS
  <2>2. PICK n : n = req'[r] OBVIOUS
  <2> DEFINE al == {g \in q.always : list'[g] # {}}
  <2>3. RequestInv(q) /\ q \in RequestType BY <1>1, <2>1 DEF RequestsInv, RequestInv
  <2>4. n = [q EXCEPT !.always = al] BY <1>1, <2>1, <2>2, <2>3 DEF Watched, RequestType
  <2>5. al \in SUBSET Groups /\ al \subseteq q.always BY <2>3 DEF RequestType
  <2>6. \A g \in al : list'[g] # {} OBVIOUS
  <2> HIDE DEF al
  <2>7. n \in RequestType BY <2>3, <2>4, <2>5 DEF RequestType
  <2>8. /\ n.pc = q.pc /\ n.group = q.group /\ n.cross = q.cross /\ n.pinned = q.pinned
        /\ n.retry = q.retry /\ n.reset = q.reset /\ n.idx = q.idx /\ n.autoGroup = q.autoGroup
        /\ n.using = q.using /\ n.ch = q.ch /\ n.attempts = q.attempts /\ n.result = q.result
        /\ n.tried = q.tried /\ n.always = al
    BY <2>3, <2>4 DEF RequestType
  <2>9. CountInv(n) BY <2>3, <2>8 DEF RequestInv, CountInv, Base, Limit
  <2>10. GroupInv(n) BY <2>3, <2>8 DEF RequestInv, GroupInv
  <2>11. Ahead(n) = Ahead(q) BY <2>8 DEF Ahead
  <2>12. /\ \A g \in n.always : list'[g] # {}
         /\ n.group = AutoGroup /\ n.pc \in {"distribute", "select", "relay"}
              => n.always \subseteq n.tried \cup Ahead(n)
         /\ RetryTimes > 0 /\ n.group = AutoGroup /\ n.cross =>
              /\ n.pc = "relay" => n.reset \/ n.retry < RetryTimes
              /\ n.pc = "ended" /\ n.result \in {"nochannel", "exhausted"} => n.always \subseteq n.tried
    BY <2>3, <2>5, <2>6, <2>8, <2>11 DEF RequestInv, TriedInv
  <2> QED BY <2>2, <2>7, <2>9, <2>10, <2>12
          DEF RequestInv, TriedInv, CountInv, GroupInv, Base, Limit, Ahead, RequestType
<1> QED BY <1>1 DEF RequestsInv, Watched

LEMMA SyncReadStep ==
    ASSUME IInv, NEW s \in Updaters \cup {"sync"}, SyncRead(s)
    PROVE  IInv'
<1>1. StoreInv' BY DEF IInv, SharedInv, StoreInv, SyncRead, store, cache, StatusMap
<1>2. LockInv' /\ ListInv' /\ SavedInv'
  BY DEF IInv, SharedInv, LockInv, ListInv, SavedInv, SyncRead, store, cache
<1>3. UpdateInv'
  <2>1. "sync" \notin Updaters BY ChannelRetryAssumption
  <2>2. \A u \in Updaters : u # s => snap'[u] = snap[u]
    BY DEF IInv, SharedInv, StoreInv, SyncRead
  <2> QED BY <2>1, <2>2 DEF IInv, SharedInv, UpdateInv, SyncRead
<1>4. RequestsInv' BY RequestsFrame DEF IInv, SyncRead, cache
<1> QED BY <1>1, <1>2, <1>3, <1>4 DEF IInv, SharedInv

LEMMA ListsTyped ==
    ASSUME NEW m \in StatusMap
    PROVE  /\ Lists(m) \in [Groups -> SUBSET Channels]
           /\ \A g \in Groups : \A c \in Lists(m)[g] : c \in Members[g] /\ m[c] = "enabled"
BY Facts DEF Lists

LEMMA SyncSwapStep ==
    ASSUME IInv, NEW s \in Updaters \cup {"sync"}, SyncSwap(s)
    PROVE  IInv'
<1>1. snap[s] \in StatusMap BY DEF IInv, SharedInv, StoreInv, SyncSwap
<1>2. upd' \in [Updaters -> UpdateType]
  BY DEF IInv, SharedInv, StoreInv, SyncSwap, UpdateType, Idle, Statuses
<1>3. StoreInv'
  BY <1>1, <1>2, ListsTyped DEF IInv, SharedInv, StoreInv, SyncSwap, store, StatusMap
<1>4. \A u \in Updaters : upd'[u] = upd[u] \/ (upd[u].pc = "reload" /\ upd'[u].pc = "idle")
  BY DEF IInv, SharedInv, StoreInv, UpdateInv, SyncSwap, Idle
<1>5. LockInv' BY <1>4 DEF IInv, SharedInv, LockInv, Holding, SyncSwap
<1>6. ListInv' BY <1>1, ListsTyped DEF ListInv, SyncSwap
<1>7. SavedInv'
  <2>1. \A u \in Updaters : upd[u].pc = "ability" => upd'[u] = upd[u] BY <1>4
  <2>2. \A u \in Updaters : upd'[u].pc \in {"ability", "ability failed"} => upd'[u] = upd[u] BY <1>4
  <2> QED BY <2>1, <2>2, SavedFrame DEF IInv, SharedInv, SyncSwap, store
<1>8. UpdateInv'
  <2>1. \A u \in Updaters : u # s => snap'[u] = snap[u] /\ upd'[u] = upd[u]
    BY DEF IInv, SharedInv, StoreInv, SyncSwap
  <2>2. snap'[s] = None /\ (s \in Updaters => upd'[s].pc = "idle")
    BY DEF IInv, SharedInv, StoreInv, SyncSwap, Idle
  <2> QED BY <2>1, <2>2 DEF IInv, SharedInv, UpdateInv
<1>9. RequestsInv' BY WatchedKeeps DEF IInv, SyncSwap
<1> QED BY <1>3, <1>5, <1>6, <1>7, <1>8, <1>9 DEF IInv, SharedInv

-----------------------------------------------------------------------------
(* UpdateChannelStatus *)

\* The updater u moves to pc with the record of its update, or becomes idle.
LEMMA GotoFields ==
    ASSUME SharedInv, NEW u \in Updaters, NEW pc \in Holding \cup {"idle", "lock", "reload"}, Goto(u, pc)
    PROVE  /\ upd' \in [Updaters -> UpdateType]
           /\ upd'[u].pc = pc
           /\ pc # "idle" => upd'[u].ch = upd[u].ch /\ upd'[u].to = upd[u].to
           /\ \A v \in Updaters : v # u => upd'[v] = upd[v]
<1>1. upd \in [Updaters -> UpdateType] BY DEF SharedInv, StoreInv
<1>2. CASE pc = "idle"
  BY <1>1, <1>2 DEF Goto, Idle, UpdateType, Statuses
<1>3. CASE pc # "idle"
  <2>1. upd' = [upd EXCEPT ![u] = [upd[u] EXCEPT !.pc = pc]] BY <1>1, <1>3 DEF Goto
  <2>2. [upd[u] EXCEPT !.pc = pc] \in UpdateType BY <1>1 DEF UpdateType
  <2>3. /\ [upd[u] EXCEPT !.pc = pc].pc = pc /\ [upd[u] EXCEPT !.pc = pc].ch = upd[u].ch
        /\ [upd[u] EXCEPT !.pc = pc].to = upd[u].to
    BY <1>1 DEF UpdateType
  <2> QED BY <1>1, <1>3, <2>1, <2>2, <2>3
<1> QED BY <1>2, <1>3

\* Only the holder of the lock is between its first step and its last.
LEMMA OtherOutside ==
    ASSUME SharedInv, NEW u \in Updaters, lock = u \/ lock = None
    PROVE  \A v \in Updaters : v # u => upd[v].pc \notin Holding
<1>1. None \notin Updaters BY ChannelRetryAssumption
<1> QED BY <1>1 DEF SharedInv, LockInv

LEMMA UpdateCachedStep ==
    ASSUME IInv, NEW u \in Updaters, UpdateCached(u)
    PROVE  IInv'
<1> DEFINE c == upd[u].ch
           to == upd[u].to
<1>1. SharedInv /\ RequestsInv /\ upd[u].pc = "lock" /\ lock = None BY DEF IInv, UpdateCached
<1>2. c \in Channels /\ to \in Statuses /\ snap[u] = None
  BY <1>1 DEF SharedInv, StoreInv, UpdateInv, UpdateType
<1>3. \A v \in Updaters : v # u => upd[v].pc \notin Holding BY <1>1, OtherOutside
<1>4. CASE cached[c] = to
  <2>1. Goto(u, "idle") /\ UNCHANGED <<cache, req, lock, store, snap, tested, started, faults>>
    BY <1>4 DEF UpdateCached
  <2>2. /\ upd' \in [Updaters -> UpdateType] /\ upd'[u].pc = "idle"
        /\ \A v \in Updaters : v # u => upd'[v] = upd[v]
    BY <1>1, <2>1, GotoFields
  <2>3. StoreInv' BY <1>1, <2>1, <2>2 DEF SharedInv, StoreInv, store, cache, StatusMap
  <2>4. LockInv' BY <1>1, <2>1, <2>2 DEF SharedInv, LockInv, Holding
  <2>5. ListInv' BY <1>1, <2>1 DEF SharedInv, ListInv, cache
  <2>6. SavedInv' BY <1>1, <2>1, <2>2, SavedFrame DEF SharedInv, store
  <2>7. UpdateInv' BY <1>1, <1>2, <2>1, <2>2 DEF SharedInv, UpdateInv
  <2>8. RequestsInv' BY <1>1, <2>1, RequestsFrame DEF cache
  <2> QED BY <2>3, <2>4, <2>5, <2>6, <2>7, <2>8 DEF IInv, SharedInv
<1>5. CASE cached[c] # to
  <2>1. /\ Goto(u, "load") /\ lock' = u /\ CacheUpdateChannelStatus(c, to)
        /\ UNCHANGED <<store, snap, tested, started, faults>>
    BY <1>5 DEF UpdateCached
  <2>2. /\ upd' \in [Updaters -> UpdateType] /\ upd'[u].pc = "load" /\ upd'[u].ch = c
        /\ \A v \in Updaters : v # u => upd'[v] = upd[v]
    <3>1. "load" \in Holding \cup {"idle", "lock", "reload"} BY DEF Holding
    <3> QED BY <1>1, <2>1, <3>1, GotoFields
  <2> HIDE DEF c, to
  <2>3. cached' = [cached EXCEPT ![c] = to] /\ cached' \in StatusMap
    BY <1>1, <1>2, <2>1 DEF CacheUpdateChannelStatus, SharedInv, StoreInv, StatusMap
  <2>4. list' \in [Groups -> SUBSET Channels]
    BY <1>1, <2>1 DEF CacheUpdateChannelStatus, SharedInv, StoreInv
  <2>5. ListInv'
    <3>1. CASE to = "enabled"
      BY <1>1, <1>2, <2>1, <2>3, <3>1 DEF CacheUpdateChannelStatus, SharedInv, StoreInv, StatusMap, ListInv
    <3>2. CASE to # "enabled"
      <4>1. \A g \in Groups : list'[g] = list[g] \ {c} BY <2>1, <3>2 DEF CacheUpdateChannelStatus
      <4>2. \A d \in Channels : d # c => cached'[d] = cached[d]
        BY <1>1, <2>3 DEF SharedInv, StoreInv, StatusMap
      <4> QED BY <1>1, <4>1, <4>2 DEF SharedInv, StoreInv, ListInv
    <3> QED BY <3>1, <3>2
  <2>6. StoreInv' BY <1>1, <2>1, <2>2, <2>3, <2>4 DEF SharedInv, StoreInv, store, StatusMap
  <2>7. LockInv' BY <1>3, <2>1, <2>2 DEF LockInv, Holding
  <2>8. SavedInv' BY <1>1, <2>1, <2>2, SavedFrame DEF SharedInv, store
  <2>9. UpdateInv' BY <1>1, <1>2, <2>1, <2>2 DEF SharedInv, UpdateInv
  <2>10. RequestsInv' BY <1>1, <2>1, WatchedKeeps DEF CacheUpdateChannelStatus
  <2> QED BY <2>5, <2>6, <2>7, <2>8, <2>9, <2>10 DEF IInv, SharedInv
<1> QED BY <1>4, <1>5

LEMMA UpdateLoadStep ==
    ASSUME IInv, NEW u \in Updaters, UpdateLoad(u)
    PROVE  IInv'
<1>1. /\ SharedInv /\ RequestsInv /\ upd[u].pc = "load"
      /\ UNCHANGED <<store, cache, snap, tested, started, faults, req>>
  BY DEF IInv, UpdateLoad
<1>2. lock = u BY <1>1 DEF SharedInv, LockInv, Holding
<1>3. \A v \in Updaters : v # u => upd[v].pc \notin Holding BY <1>1, <1>2, OtherOutside
<1>4. snap[u] = None /\ upd[u].ch \in Channels BY <1>1 DEF SharedInv, UpdateInv
<1>5. PICK pc \in {"idle", "save"} : Goto(u, pc) /\ lock' = IF pc = "idle" THEN None ELSE lock
  BY DEF UpdateLoad
<1>6. /\ upd' \in [Updaters -> UpdateType] /\ upd'[u].pc = pc
      /\ pc # "idle" => upd'[u].ch = upd[u].ch
      /\ \A v \in Updaters : v # u => upd'[v] = upd[v]
  <2>1. pc \in Holding \cup {"idle", "lock", "reload"} BY DEF Holding
  <2> QED BY <1>1, <1>5, <2>1, GotoFields
<1>7. StoreInv' BY <1>1, <1>5, <1>6 DEF SharedInv, StoreInv, store, cache, StatusMap
<1>8. LockInv'
  <2>1. None \notin Updaters BY ChannelRetryAssumption
  <2> QED BY <1>2, <1>3, <1>5, <1>6, <2>1 DEF LockInv, Holding
<1>9. ListInv' BY <1>1 DEF SharedInv, ListInv, cache
<1>10. SavedInv' BY <1>1, <1>6, SavedFrame DEF SharedInv, store
<1>11. UpdateInv' BY <1>1, <1>4, <1>6 DEF SharedInv, UpdateInv
<1>12. RequestsInv' BY <1>1, RequestsFrame DEF cache
<1> QED BY <1>7, <1>8, <1>9, <1>10, <1>11, <1>12 DEF IInv, SharedInv

LEMMA Successor ==
    ASSUME NEW m \in Nat, NEW n, n = m + 1
    PROVE  n \in Nat /\ n > 0 /\ n # 0
OBVIOUS

\* The row is saved, or the write fails.
LEMMA UpdateSaveStep ==
    ASSUME IInv, NEW u \in Updaters, UpdateSave(u)
    PROVE  IInv'
<1> DEFINE c == upd[u].ch
           to == upd[u].to
<1>1. /\ SharedInv /\ RequestsInv /\ upd[u].pc = "save"
      /\ UNCHANGED <<ability, cache, snap, lock, tested, started, req>>
  BY DEF IInv, UpdateSave
<1>2. lock = u BY <1>1 DEF SharedInv, LockInv, Holding
<1>3. \A v \in Updaters : v # u => upd[v].pc \notin Holding BY <1>1, <1>2, OtherOutside
<1>4. snap[u] = None /\ c \in Channels /\ to \in Statuses
  BY <1>1 DEF SharedInv, UpdateInv, StoreInv, UpdateType
<1>5. PICK pc \in {"ability", "ability failed"} :
        /\ Goto(u, pc)
        /\ pc = "ability" => row' = [row EXCEPT ![c] = to] /\ faults' = faults
        /\ pc = "ability failed" => row' = row /\ faults' = faults + 1
  BY DEF UpdateSave
<1>6. /\ upd' \in [Updaters -> UpdateType] /\ upd'[u].pc = pc
      /\ upd'[u].ch = c /\ upd'[u].to = to
      /\ \A v \in Updaters : v # u => upd'[v] = upd[v]
  <2>1. pc \in Holding \cup {"idle", "lock", "reload"} BY DEF Holding
  <2> QED BY <1>1, <1>5, <2>1, GotoFields
<1>6a. row \in StatusMap /\ faults \in Nat BY <1>1 DEF SharedInv, StoreInv
<1>6b. ASSUME pc = "ability failed" PROVE row' = row /\ faults' \in Nat /\ faults' > 0 /\ faults' # 0
  <2>1. row' = row BY <1>5, <1>6b, Zenon
  <2>2. faults' = faults + 1 BY <1>5, <1>6b, Zenon
  <2>3. faults \in Nat BY <1>6a
  <2> QED BY <2>1, <2>2, <2>3, Successor
<1> HIDE DEF c, to
<1>7. row' \in StatusMap /\ faults' \in Nat
  <2>1. CASE pc = "ability" BY <1>4, <1>5, <1>6a, <2>1 DEF StatusMap
  <2>2. CASE pc = "ability failed" BY <1>6a, <1>6b, <2>2
  <2> QED BY <2>1, <2>2
<1>8. StoreInv' BY <1>1, <1>6, <1>7 DEF SharedInv, StoreInv, cache, StatusMap
<1>9. LockInv' BY <1>1, <1>2, <1>3, <1>6 DEF LockInv, Holding
<1>10. ListInv' BY <1>1 DEF SharedInv, ListInv, cache
<1>11. SavedInv'
  <2>0. \A v \in Updaters : v # u => upd'[v].pc \notin {"ability", "ability failed"}
    BY <1>3, <1>6 DEF Holding
  <2>1. CASE pc = "ability"
    <3>1. row'[c] = to /\ \A d \in Channels : d # c => row'[d] = row[d]
      BY <1>4, <1>5, <1>6a, <2>1 DEF StatusMap
    <3>2. \A v \in Updaters : upd[v].pc # "ability" BY <1>1, <1>3 DEF Holding
    <3>3. faults = 0 => \A d \in Channels : ability[d] <=> row[d] = "enabled"
      BY <1>1, <3>2 DEF SharedInv, SavedInv
    <3> QED BY <1>1, <1>5, <1>6, <2>0, <2>1, <3>1, <3>3 DEF SavedInv
  <2>2. CASE pc = "ability failed"
    <3>1. faults' > 0 /\ faults' # 0 BY <1>6b, <2>2
    <3>2. \A v \in Updaters : upd'[v].pc # "ability" BY <1>6, <2>0, <2>2
    <3> QED BY <3>1, <3>2 DEF SavedInv
  <2> QED BY <2>1, <2>2
<1>12. UpdateInv' BY <1>1, <1>4, <1>6 DEF SharedInv, UpdateInv
<1>13. RequestsInv' BY <1>1, RequestsFrame DEF cache
<1> QED BY <1>8, <1>9, <1>10, <1>11, <1>12, <1>13 DEF IInv, SharedInv

\* The abilities follow the row, or the write fails; the lock is released.
LEMMA UpdateAbilityStep ==
    ASSUME IInv, NEW u \in Updaters, UpdateAbility(u)
    PROVE  IInv'
<1> DEFINE c == upd[u].ch
           to == upd[u].to
<1>1. /\ SharedInv /\ RequestsInv /\ upd[u].pc \in {"ability", "ability failed"} /\ lock' = None
      /\ UNCHANGED <<row, cache, snap, tested, started, req>>
  BY DEF IInv, UpdateAbility
<1>2. lock = u BY <1>1 DEF SharedInv, LockInv, Holding
<1>3. \A v \in Updaters : v # u => upd[v].pc \notin Holding BY <1>1, <1>2, OtherOutside
<1>4. /\ snap[u] = None /\ c \in Channels /\ ability \in [Channels -> BOOLEAN] /\ faults \in Nat
  BY <1>1 DEF SharedInv, UpdateInv, StoreInv
<1>5. PICK pc \in {"idle", "reload"} : Goto(u, pc)
  BY DEF UpdateAbility
<1>6. /\ upd' \in [Updaters -> UpdateType] /\ upd'[u].pc = pc
      /\ pc # "idle" => upd'[u].ch = c
      /\ \A v \in Updaters : v # u => upd'[v] = upd[v]
  <2>1. pc \in Holding \cup {"idle", "lock", "reload"} OBVIOUS
  <2> QED BY <1>1, <1>5, <2>1, GotoFields
<1>7. \/ ability' = [ability EXCEPT ![c] = to = "enabled"] /\ faults' = faults
      \/ ability' = ability /\ faults' = faults + 1
  BY DEF UpdateAbility
<1>7a. \A v \in Updaters : upd'[v].pc \notin Holding BY <1>3, <1>6 DEF Holding
<1> HIDE DEF c
<1>8. ability' \in [Channels -> BOOLEAN] /\ faults' \in Nat
  <2>1. (to = "enabled") \in BOOLEAN OBVIOUS
  <2> HIDE DEF to
  <2>2. CASE ability' = ability BY <1>4, <1>7, <2>2
  <2>3. CASE ability' = [ability EXCEPT ![c] = to = "enabled"] BY <1>4, <1>7, <2>1, <2>3
  <2> QED BY <1>7, <2>2, <2>3
<1>9. StoreInv' BY <1>1, <1>6, <1>8 DEF SharedInv, StoreInv, cache, StatusMap
<1>10. LockInv'
  <2>1. None \notin Updaters BY ChannelRetryAssumption
  <2> QED BY <1>1, <1>7a, <2>1 DEF LockInv
<1>11. ListInv' BY <1>1 DEF SharedInv, ListInv, cache
<1>12. SavedInv'
  <2>0. \A v \in Updaters : upd'[v].pc \notin {"ability", "ability failed"}
    BY <1>7a DEF Holding
  <2>1. CASE faults' = 0
    <3>1. ability' = [ability EXCEPT ![c] = to = "enabled"] /\ faults = 0
      BY <1>4, <1>7, <2>1
    <3>2. upd[u].pc = "ability" /\ row[c] = to
      <4>1. ~(faults > 0) BY <3>1
      <4>2. upd[u].pc = "ability" BY <1>1, <4>1 DEF SharedInv, SavedInv
      <4> QED BY <1>1, <4>2 DEF SharedInv, SavedInv, c
    <3>3. ASSUME NEW d \in Channels PROVE ability'[d] <=> row[d] = "enabled"
      <4>1. CASE d = c BY <1>4, <3>1, <3>2, <4>1
      <4>2. CASE d # c
        <5>1. ~\E v \in Updaters : upd[v].pc = "ability" /\ upd[v].ch = d
          BY <1>3, <4>2 DEF c, Holding
        <5>2. ability[d] <=> row[d] = "enabled"
          BY <1>1, <3>1, <5>1 DEF SharedInv, SavedInv
        <5> QED BY <1>4, <3>1, <4>2, <5>2
      <4> QED BY <4>1, <4>2
    <3> QED BY <1>1, <2>0, <3>3 DEF SavedInv
  <2>2. CASE faults' # 0 BY <2>0, <2>2 DEF SavedInv
  <2> QED BY <2>1, <2>2
<1>13. UpdateInv' BY <1>1, <1>4, <1>6 DEF SharedInv, UpdateInv, c
<1>14. RequestsInv' BY <1>1, RequestsFrame DEF cache
<1> QED BY <1>9, <1>10, <1>11, <1>12, <1>13, <1>14 DEF IInv, SharedInv

LEMMA BeginningStep ==
    ASSUME IInv, AdminUpdates \/ TestList \/ TestEnd \/ \E c \in Channels : TestChannel(c)
    PROVE  IInv'
<1>1. SharedInv /\ RequestsInv BY DEF IInv
<1>2. CASE AdminUpdates
  <2>1. PICK c \in Channels, s \in {"enabled", "manual"} : Begins(c, s, TRUE)
    BY <1>2 DEF AdminUpdates
  <2>2. s \in Statuses BY DEF Statuses
  <2>3. SharedInv' BY <1>1, <1>2, <2>1, <2>2, BeginsKeeps DEF AdminUpdates
  <2> QED BY <1>1, <1>2, <2>3, RequestsFrame DEF AdminUpdates, IInv, cache
<1>3. CASE TestList \/ TestEnd
  <2>1. /\ UNCHANGED <<store, cache, snap, lock, upd, started, faults, req>>
        /\ tested' = row \/ tested' = None
    BY <1>3 DEF TestList, TestEnd
  <2>2. StoreInv' BY <1>1, <2>1 DEF SharedInv, StoreInv, store, cache, StatusMap
  <2>3. LockInv' /\ ListInv' /\ UpdateInv'
    BY <1>1, <2>1 DEF SharedInv, LockInv, ListInv, UpdateInv, cache
  <2>4. SavedInv' BY <1>1, <2>1, SavedFrame DEF SharedInv, store
  <2>5. RequestsInv' BY <1>1, <2>1, RequestsFrame DEF cache
  <2> QED BY <2>2, <2>3, <2>4, <2>5 DEF IInv, SharedInv
<1>4. CASE \E c \in Channels : TestChannel(c)
  <2>1. PICK c \in Channels : TestChannel(c) BY <1>4
  <2>2. PICK s \in {"disabled", "enabled"} : Begins(c, s, FALSE) BY <2>1 DEF TestChannel
  <2>3. s \in Statuses BY DEF Statuses
  <2>4. SharedInv' BY <1>1, <2>1, <2>2, <2>3, BeginsKeeps DEF TestChannel
  <2> QED BY <1>1, <2>1, <2>4, RequestsFrame DEF TestChannel, IInv, cache
<1> QED BY <1>2, <1>3, <1>4

-----------------------------------------------------------------------------
(* The requests, continued *)

\* A request ends, or does something of its own.
LEMMA RequestStep ==
    ASSUME IInv, NEW r \in Requests, Request(r)
    PROVE  /\ IInv' /\ Moved(req'[r], req[r])
           /\ \A s \in Requests \ {r} : req'[s] = req[s]
<1> DEFINE q == req[r]
<1>1. RequestInv(q) /\ SharedInv /\ RequestsInv BY DEF IInv, RequestsInv
<1> DEFINE Goal == /\ IInv' /\ Moved(req'[r], req[r])
                   /\ \A s \in Requests \ {r} : req'[s] = req[s]
<1>0. ASSUME NEW n, Follows(n, q), req' = [req EXCEPT ![r] = n], SharedInv', UNCHANGED list
      PROVE  Goal
  BY <1>0, OneRequest DEF Follows, IInv
<1> SUFFICES Goal OBVIOUS
<1> HIDE DEF q, Goal
<1>2. CASE Begin(r)
  <2>1. PICK n : Follows(n, q) /\ req' = [req EXCEPT ![r] = n] BY <1>2, BeginStep DEF q
  <2>2. SharedInv' BY <1>1, <1>2, SharedFrame DEF Begin
  <2>3. UNCHANGED list BY <1>2 DEF Begin, shared, cache
  <2> QED BY <1>0, <2>1, <2>2, <2>3
<1>3. CASE SelectInGroup(r)
  <2>1. /\ q.pc \in {"distribute", "select"} /\ q.group # AutoGroup /\ UNCHANGED shared
    BY <1>3 DEF SelectInGroup, q
  <2>2. PICK n : Follows(n, q) /\ req' = [req EXCEPT ![r] = n]
    <3>1. CASE list[q.group] = {}
      <4>1. req' = [req EXCEPT ![r] = Ended(q, "nochannel")]
        BY <1>3, <3>1 DEF SelectInGroup, q
      <4>2. Follows(Ended(q, "nochannel"), q)
        BY <1>1, <2>1, EndedKeeps DEF Results
      <4> QED BY <4>1, <4>2
    <3>2. CASE list[q.group] # {}
      <4>1. PICK c \in Satisfied(q.group, q.retry) :
              req' = [req EXCEPT ![r] = Attempt(HandleGroupRatio(HandOver(q)), c, q.group)]
        BY <1>3, <3>2 DEF SelectInGroup, q
      <4>2. c \in list[q.group] BY <4>1 DEF Satisfied
      <4>3. Follows(Attempt(HandleGroupRatio(HandOver(q)), c, q.group), q)
        BY <1>1, <2>1, <4>2, CalledInGroup
      <4> QED BY <4>1, <4>3
    <3> QED BY <3>1, <3>2
  <2> QED BY <1>0, <1>1, <2>1, <2>2, SharedFrame DEF shared, cache
<1>4. CASE SkipGroup(r)
  <2>1. /\ q.pc \in {"distribute", "select"} /\ q.group = AutoGroup /\ q.idx <= Len(AutoGroups)
        /\ list[AutoGroups[q.idx]] = {} /\ UNCHANGED shared
    BY <1>4 DEF SkipGroup, q
  <2>2. req' = [req EXCEPT ![r] = [q EXCEPT !.idx = @ + 1, !.retry = 0]]
    BY <1>4 DEF SkipGroup, q, IInv, RequestsInv
  <2>3. Follows([q EXCEPT !.idx = @ + 1, !.retry = 0], q) BY <1>1, <2>1, SkipKeeps
  <2> QED BY <1>0, <1>1, <2>1, <2>2, <2>3, SharedFrame DEF shared, cache
<1>5. CASE SelectAuto(r)
  <2>1. /\ q.pc \in {"distribute", "select"} /\ q.group = AutoGroup /\ q.idx <= Len(AutoGroups)
        /\ UNCHANGED shared
    BY <1>5 DEF SelectAuto, q
  <2>2. PICK c \in Satisfied(AutoGroups[q.idx], q.retry) : req' = [req EXCEPT ![r] = Chosen(q, c)]
    BY <1>5 DEF SelectAuto, q
  <2>3. c \in list[AutoGroups[q.idx]] BY <2>2 DEF Satisfied
  <2>4. Follows(Chosen(q, c), q) BY <1>1, <2>1, <2>3, CalledInAuto
  <2> QED BY <1>0, <1>1, <2>1, <2>2, <2>4, SharedFrame DEF shared, cache
<1>6. CASE NoGroupLeft(r)
  <2>1. /\ q.pc \in {"distribute", "select"} /\ q.group = AutoGroup /\ q.idx > Len(AutoGroups)
        /\ UNCHANGED shared /\ req' = [req EXCEPT ![r] = Ended(q, "nochannel")]
    BY <1>6 DEF NoGroupLeft, q
  <2>2. Ahead(q) = {}
    <3>1. q.idx \in Nat BY <1>1 DEF RequestInv, RequestType
    <3>2. \A i \in q.idx..Len(AutoGroups) : FALSE BY <2>1, <3>1, Facts
    <3> QED BY <3>2 DEF Ahead
  <2>3. q.always \subseteq q.tried BY <1>1, <2>1, <2>2 DEF RequestInv, TriedInv
  <2>4. Follows(Ended(q, "nochannel"), q) BY <1>1, <2>1, <2>3, EndedKeeps DEF Results
  <2> QED BY <1>0, <1>1, <2>1, <2>4, SharedFrame DEF shared, cache
<1>7. CASE Succeed(r)
  <2>1. /\ q.pc = "relay" /\ UNCHANGED shared /\ req' = [req EXCEPT ![r] = Ended(q, "success")]
    BY <1>7 DEF Succeed, q
  <2>2. Follows(Ended(q, "success"), q) BY <1>1, <2>1, EndedKeeps DEF Results
  <2> QED BY <1>0, <1>1, <2>1, <2>2, SharedFrame DEF shared, cache
<1>8. CASE FailAttempt(r)
  <2>1. q.pc = "relay" /\ UNCHANGED <<store, cache, snap, lock, tested, faults>>
    BY <1>8 DEF FailAttempt, q
  <2>2. PICK error \in {"channel", "retryable", "final"} :
          req' = [req EXCEPT ![r] =
                    IF shouldRetry(q, error) THEN IncreaseRetry(q)
                    ELSE Ended(q, IF error = "final" \/ q.pinned \/ q.skip THEN "final" ELSE "exhausted")]
    BY <1>8 DEF FailAttempt, q
  <2>3. PICK n : Follows(n, q) /\ req' = [req EXCEPT ![r] = n]
    <3>1. CASE shouldRetry(q, error)
      <4>1. Follows(IncreaseRetry(q), q) BY <1>1, <2>1, IncreaseKeeps
      <4> QED BY <2>2, <3>1, <4>1
    <3>2. CASE ~shouldRetry(q, error)
      <4> DEFINE why == IF error = "final" \/ q.pinned \/ q.skip THEN "final" ELSE "exhausted"
      <4>1. q.retry \in Nat BY <1>1 DEF RequestInv, RequestType
      <4>2. why = "exhausted" => ~(RetryTimes > 0 /\ q.group = AutoGroup /\ q.cross)
        BY <1>1, <2>1, <3>2, <4>1, Facts DEF shouldRetry, RequestInv, TriedInv, CountInv
      <4>3. why \in Results /\ why # "nochannel" BY DEF Results
      <4>4. req' = [req EXCEPT ![r] = Ended(q, why)] BY <2>2, <3>2
      <4> HIDE DEF why
      <4>5. Follows(Ended(q, why), q) BY <1>1, <2>1, <4>2, <4>3, EndedKeeps
      <4> QED BY <4>4, <4>5
    <3> QED BY <3>1, <3>2
  <2>5. SharedInv'
    <3>1. CASE UNCHANGED <<upd, started>>
      BY <1>1, <2>1, <3>1, SharedFrame DEF shared
    <3>2. CASE Begins(q.ch, "disabled", FALSE)
      <4>1. q.ch \in Channels BY <1>1, <2>1 DEF RequestInv, GroupInv
      <4>2. "disabled" \in Statuses BY DEF Statuses
      <4> QED BY <1>1, <2>1, <3>2, <4>1, <4>2, BeginsKeeps
    <3> QED BY <1>8, <3>1, <3>2 DEF FailAttempt, q
  <2> QED BY <1>0, <2>1, <2>3, <2>5 DEF cache
<1> QED BY <1>2, <1>3, <1>4, <1>5, <1>6, <1>7, <1>8 DEF Request

-----------------------------------------------------------------------------
(* The invariant *)

LEMMA InitInv == Init => IInv
<1> SUFFICES ASSUME Init PROVE IInv OBVIOUS
<1>1. row \in StatusMap /\ cached = row BY DEF Init, StatusMap, Statuses
<1>2. Idle \in UpdateType /\ Idle.pc = "idle" BY DEF Idle, UpdateType, Statuses
<1>3. list = Lists(row) BY DEF Init
<1>4. StoreInv BY <1>1, <1>2, <1>3, ListsTyped DEF Init, StoreInv
<1>5. LockInv
  <2>1. None \notin Updaters BY ChannelRetryAssumption
  <2> QED BY <1>2, <2>1 DEF Init, LockInv, Holding
<1>6. ListInv BY <1>1, <1>3, ListsTyped DEF ListInv
<1>7. SavedInv BY <1>2 DEF Init, SavedInv
<1>8. UpdateInv BY <1>2 DEF Init, UpdateInv
<1>9. RequestInv(Fresh)
  <2>1. /\ Fresh \in RequestType
        /\ Fresh.pc = "new" /\ Fresh.group = AutoGroup /\ Fresh.retry = 0 /\ Fresh.reset = FALSE
        /\ Fresh.idx = 1 /\ Fresh.autoGroup = None /\ Fresh.attempts = 0 /\ Fresh.always = {}
    BY DEF Fresh, RequestType, RequestPcs, Results
  <2>2. Limit(Fresh) \in Nat BY Facts, OneMore DEF Limit
  <2>3. CountInv(Fresh)
    <3> HIDE DEF Fresh
    <3> QED BY <2>1, <2>2, Facts DEF CountInv
  <2>4. GroupInv(Fresh) /\ TriedInv(Fresh) BY <2>1 DEF GroupInv, TriedInv
  <2> QED BY <2>1, <2>3, <2>4 DEF RequestInv
<1>10. RequestsInv BY <1>9 DEF Init, RequestsInv
<1> QED BY <1>4, <1>5, <1>6, <1>7, <1>8, <1>10 DEF IInv, SharedInv

LEMMA NextInv == IInv /\ [Next]_vars => IInv'
<1> SUFFICES ASSUME IInv, [Next]_vars PROVE IInv' OBVIOUS
<1>1. ASSUME NEW r \in Requests, Request(r) PROVE IInv' BY <1>1, RequestStep
<1>2. ASSUME NEW u \in Updaters, Update(u) PROVE IInv'
  BY <1>2, UpdateCachedStep, UpdateLoadStep, UpdateSaveStep, UpdateAbilityStep DEF Update
<1>3. ASSUME NEW s \in DOMAIN snap, SyncRead(s) \/ SyncSwap(s) PROVE IInv'
  <2>1. DOMAIN snap = Updaters \cup {"sync"} BY DEF IInv, SharedInv, StoreInv
  <2> QED BY <1>3, <2>1, SyncReadStep, SyncSwapStep
<1>4. CASE AdminUpdates \/ TestList \/ TestEnd \/ \E c \in Channels : TestChannel(c)
  BY <1>4, BeginningStep
<1>5. CASE UNCHANGED vars
  <2>1. SharedInv' BY <1>5, SharedFrame DEF IInv, vars, shared, store, cache
  <2>2. RequestsInv' BY <1>5, RequestsFrame DEF IInv, vars
  <2> QED BY <2>1, <2>2 DEF IInv
<1> QED BY <1>1, <1>2, <1>3, <1>4, <1>5 DEF Next

LEMMA Invariant == Spec => []IInv
<1>1. Init => IInv BY InitInv
<1>2. IInv /\ [Next]_vars => IInv' BY NextInv
<1> QED BY <1>1, <1>2, PTL DEF Spec

-----------------------------------------------------------------------------
(* The snapshots *)

\* The steps of the others change nothing of a request but the history of its groups.
LEMMA OthersMove ==
    ASSUME IInv, UNCHANGED req \/ req' = Watched(list'), NEW r \in Requests
    PROVE  Moved(req'[r], req[r])
<1>1. CASE UNCHANGED req BY <1>1 DEF Moved
<1>2. CASE req' = Watched(list')
  <2>1. PICK q : q = req[r] OBVIOUS
  <2>2. PICK al : al = {g \in q.always : list'[g] # {}} OBVIOUS
  <2>3. q \in RequestType BY <2>1 DEF IInv, RequestsInv, RequestInv
  <2>4. req'[r] = [q EXCEPT !.always = al] BY <1>2, <2>1, <2>2, <2>3 DEF Watched, RequestType
  <2> QED BY <2>1, <2>3, <2>4 DEF Moved, RequestType
<1> QED BY <1>1, <1>2

\* A request that moves keeps the snapshot it has.
LEMMA FrozenKeeps ==
    ASSUME NEW q, NEW n, NEW group, Moved(n, q), Frozen(q, group), q.attempts \in Nat
    PROVE  Frozen(n, group)
BY DEF Moved, Frozen

\* The snapshot made for the first attempt is of the group of its channel.
LEMMA FrozenFirst ==
    ASSUME NEW q, NEW n, Moved(n, q), RequestInv(n), q.attempts = 0, n.attempts = 1
    PROVE  Frozen(n, n.using)
BY DEF Moved, Frozen, RequestInv, GroupInv

LEMMA SnapshotStep ==
    ASSUME IInv, SnapshotInv, [Next]_vars
    PROVE  SnapshotInv'
<1>1. \A r \in Requests : req[r].attempts \in Nat
  BY DEF IInv, RequestsInv, RequestInv, RequestType
<1>2. ASSUME UNCHANGED snapshot, \A r \in Requests : Moved(req'[r], req[r]) PROVE SnapshotInv'
  <2>1. ASSUME NEW r \in Requests PROVE Frozen(req'[r], snapshot[r])
    BY <1>1, <1>2, <2>1, FrozenKeeps DEF SnapshotInv
  <2> QED BY <1>2, <2>1 DEF SnapshotInv, Frozen
<1>3. ASSUME NEW r \in Requests, Request(r) PROVE SnapshotInv'
  <2>1. /\ IInv' /\ Moved(req'[r], req[r])
        /\ \A s \in Requests \ {r} : req'[s] = req[s]
    BY <1>3, RequestStep
  <2>2. \A s \in Requests : Moved(req'[s], req[s]) BY <2>1 DEF Moved
  <2>3. UNCHANGED snapshot \/ ModelPriceHelper(r)
    BY <1>3 DEF Request, Begin, SelectInGroup, SkipGroup, SelectAuto, NoGroupLeft, Succeed, FailAttempt
  <2>4. CASE UNCHANGED snapshot BY <1>2, <2>2, <2>4
  <2>5. CASE /\ req[r].attempts = 0 /\ req'[r].attempts = 1
             /\ snapshot' = [snapshot EXCEPT ![r] = req'[r].using]
    <3>1. snapshot' = [s \in Requests |-> IF s = r THEN req'[r].using ELSE snapshot[s]]
      BY <2>5 DEF SnapshotInv
    <3>2. RequestInv(req'[r])
      <4>1. RequestInv(req[r])' BY <2>1 DEF IInv, RequestsInv
      <4>2. UNCHANGED list
        BY <1>3 DEF Request, Begin, SelectInGroup, SkipGroup, SelectAuto, NoGroupLeft, Succeed,
                    FailAttempt, shared, cache
      <4> QED BY <4>1, <4>2 DEF RequestInv, TriedInv, CountInv, GroupInv, Base, Limit, Ahead, RequestType
    <3>3. Frozen(req'[r], req'[r].using) BY <2>1, <2>5, <3>2, FrozenFirst
    <3>4. ASSUME NEW s \in Requests PROVE Frozen(req'[s], snapshot'[s])
      <4>1. CASE s = r BY <3>1, <3>3, <4>1
      <4>2. CASE s # r BY <1>1, <2>2, <3>1, <4>2, FrozenKeeps DEF SnapshotInv
      <4> QED BY <4>1, <4>2
    <3> QED BY <3>1, <3>4 DEF SnapshotInv, Frozen
  <2> QED BY <2>3, <2>4, <2>5 DEF ModelPriceHelper
<1>4. ASSUME UNCHANGED snapshot, UNCHANGED req \/ req' = Watched(list') PROVE SnapshotInv'
  BY <1>2, <1>4, OthersMove
<1>5. ASSUME NEW u \in Updaters, Update(u) PROVE SnapshotInv'
  BY <1>4, <1>5 DEF Update, UpdateCached, UpdateLoad, UpdateSave, UpdateAbility, CacheUpdateChannelStatus
<1>6. ASSUME NEW s \in DOMAIN snap, SyncRead(s) \/ SyncSwap(s) PROVE SnapshotInv'
  BY <1>4, <1>6 DEF SyncRead, SyncSwap
<1>7. CASE AdminUpdates \/ TestList \/ TestEnd \/ \E c \in Channels : TestChannel(c)
  BY <1>4, <1>7 DEF AdminUpdates, TestList, TestEnd, TestChannel
<1>8. CASE UNCHANGED vars BY <1>4, <1>8 DEF vars
<1> QED BY <1>3, <1>5, <1>6, <1>7, <1>8 DEF Next

LEMMA Snapshots == Spec => []SnapshotInv
<1>1. Init => SnapshotInv BY DEF Init, SnapshotInv, Frozen
<1>2. IInv /\ SnapshotInv /\ [Next]_vars => SnapshotInv' BY SnapshotStep
<1> QED BY <1>1, <1>2, Invariant, PTL DEF Spec

-----------------------------------------------------------------------------
(* The properties *)

\* The variables keep their types, and channelStatusLock is held by exactly the update that is
\* between the cache update and the end of UpdateChannelStatus.
THEOREM ChannelRetryTypeOK == Spec => []TypeOK
<1>1. IInv => TypeOK
  <2> SUFFICES ASSUME IInv PROVE TypeOK OBVIOUS
  <2>1. \A u \in Updaters : upd[u].pc \in {"load", "save", "ability", "ability failed"} <=> lock = u
    BY DEF IInv, SharedInv, LockInv, Holding
  <2>2. \A g \in Groups : list[g] \subseteq Members[g]
    BY DEF IInv, SharedInv, ListInv
  <2>3. ASSUME NEW r \in Requests
        PROVE  req[r].idx \in 1..(Len(AutoGroups) + 1) /\ req[r].retry \in 0..(RetryTimes + 1)
    <3>1. RequestInv(req[r]) BY DEF IInv, RequestsInv
    <3> QED BY <3>1, Facts DEF RequestInv, RequestType, CountInv
  <2> QED BY <2>1, <2>2, <2>3 DEF TypeOK, IInv, SharedInv, StoreInv, StatusMap
<1> QED BY <1>1, Invariant, PTL

\* Whatever updates of statuses and reloads of the cache run beside each other, a channel listed
\* in group2model2channels is cached as enabled.
THEOREM ListedAreEnabled == Spec => []ListedIsEnabled
<1>1. IInv => ListedIsEnabled BY DEF IInv, SharedInv, ListInv, ListedIsEnabled
<1> QED BY <1>1, Invariant, PTL

\* A request is settled with the ratio of a group it tried: of the channel in use, or, for a
\* tiered expression, of the first channel it used.
THEOREM PricedByGroup == Spec => []PricedByUsedGroup
<1>1. IInv /\ SnapshotInv => PricedByUsedGroup
  <2> SUFFICES ASSUME IInv, SnapshotInv, NEW r \in Requests, req[r].pc = "relay", ~req[r].pinned
               PROVE  /\ SettledGroup(r) \in req[r].tried
                      /\ snapshot[r] = None \/ req[r].attempts = 1 =>
                           req[r].ch \in Members[SettledGroup(r)]
    BY DEF PricedByUsedGroup
  <2>1. CASE snapshot[r] = None
    BY <2>1 DEF IInv, RequestsInv, RequestInv, GroupInv, SettledGroup
  <2>2. CASE snapshot[r] # None
    BY <2>2 DEF SnapshotInv, Frozen, SettledGroup
  <2> QED BY <2>1, <2>2
<1> QED BY <1>1, Invariant, Snapshots, PTL

\* A request makes at most RetryTimes + 1 attempts for each group it may use, although the
\* retry counter is reset whenever it moves to another group.
THEOREM AttemptsAreBounded == Spec => []AttemptsBounded
<1>1. IInv => AttemptsBounded
  BY DEF IInv, RequestsInv, RequestInv, CountInv, Limit, AttemptsBounded
<1> QED BY <1>1, Invariant, PTL

\* With cross-group retry a request that gives up has tried every auto group that had a
\* channel all the time.
THEOREM AllGroupsTried == Spec => []EveryGroupTried
<1>1. IInv => EveryGroupTried
  BY DEF IInv, RequestsInv, RequestInv, TriedInv, EveryGroupTried
<1> QED BY <1>1, Invariant, PTL

\* While no update runs and no write has failed, the abilities agree with the statuses.
THEOREM AbilitiesAgree == Spec => []AbilitiesFollow
<1>1. IInv => AbilitiesFollow BY DEF IInv, SharedInv, SavedInv, AbilitiesFollow
<1> QED BY <1>1, Invariant, PTL
=============================================================================
