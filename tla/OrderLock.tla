----------------------------- MODULE OrderLock ------------------------------
(***************************************************************************)
(* LockOrder and UnlockOrder of controller/topup.go, for one trade number: *)
(* a mutex that is created on demand, found through a concurrent map, and  *)
(* deleted by its last user, who is told by a reference count.             *)
(*                                                                         *)
(* createLock guards the count and the changes of the map; UnlockOrder     *)
(* looks the mutex up without it.                                          *)
(***************************************************************************)
EXTENDS Naturals, FiniteSets

CONSTANTS
  Threads,     \* the goroutines that handle notifications and completions
  Mutexes,     \* refCountedMutex objects
  None

\* What the theorems assume of the constants.
OrderLockAssumption ==
  /\ IsFiniteSet(Threads)
  /\ None \notin Threads /\ None \notin Mutexes

VARIABLES
  pc,
  rcm,         \* the object a goroutine locked, or is about to
  entry,       \* orderLocks[tradeNo]
  refCount,
  holder,      \* who holds the mu of an object
  createLock,
  found        \* what UnlockOrder loaded

vars == <<pc, rcm, entry, refCount, holder, createLock, found>>

Locking == {"lock", "load", "count"}       \* in LockOrder, before mu.Lock
Unlocking == {"unlock", "uncreate", "uncount"}

TypeOK ==
  /\ pc \in [Threads -> {"idle", "wait", "held"} \cup Locking \cup Unlocking]
  /\ rcm \in [Threads -> Mutexes \cup {None}]
  /\ entry \in Mutexes \cup {None}
  /\ refCount \in [Mutexes -> Nat]
  /\ holder \in [Mutexes -> Threads \cup {None}]
  /\ createLock \in Threads \cup {None}
  /\ found \in [Threads -> Mutexes \cup {None}]

Init ==
  /\ pc = [t \in Threads |-> "idle"]
  /\ rcm = [t \in Threads |-> None]
  /\ entry = None
  /\ refCount = [m \in Mutexes |-> 0]
  /\ holder = [m \in Mutexes |-> None]
  /\ createLock = None
  /\ found = [t \in Threads |-> None]

Goto(t, l) == pc' = [pc EXCEPT ![t] = l]

\* &refCountedMutex{}: an object nobody refers to.
Fresh(m) == m # entry /\ \A t \in Threads : rcm[t] # m

-----------------------------------------------------------------------------
LockOrder(t) ==
  /\ pc[t] = "idle" /\ Goto(t, "lock")
  /\ UNCHANGED <<rcm, entry, refCount, holder, createLock, found>>

TakeCreateLock(t, from, to) ==
  /\ pc[t] = from /\ createLock = None
  /\ createLock' = t /\ Goto(t, to)
  /\ UNCHANGED <<rcm, entry, refCount, holder, found>>

LoadOrStore(t) ==
  /\ pc[t] = "load" /\ Goto(t, "count")
  /\ \/ /\ entry # None
        /\ rcm' = [rcm EXCEPT ![t] = entry]
        /\ UNCHANGED <<entry, refCount, holder>>
     \/ /\ entry = None
        /\ \E m \in Mutexes :
             /\ Fresh(m)
             /\ rcm' = [rcm EXCEPT ![t] = m]
             /\ entry' = m
             /\ refCount' = [refCount EXCEPT ![m] = 0]
             /\ holder' = [holder EXCEPT ![m] = None]
  /\ UNCHANGED <<createLock, found>>

CountUp(t) ==
  /\ pc[t] = "count" /\ Goto(t, "wait")
  /\ refCount' = [refCount EXCEPT ![rcm[t]] = @ + 1]
  /\ createLock' = None
  /\ UNCHANGED <<rcm, entry, holder, found>>

\* rcm.mu.Lock()
Acquire(t) ==
  /\ pc[t] = "wait" /\ holder[rcm[t]] = None
  /\ holder' = [holder EXCEPT ![rcm[t]] = t]
  /\ Goto(t, "held")
  /\ UNCHANGED <<rcm, entry, refCount, createLock, found>>

\* UnlockOrder: Load, which returns early when there is no entry.
UnlockOrder(t) ==
  /\ pc[t] = "held"
  /\ found' = [found EXCEPT ![t] = entry]
  /\ IF entry = None THEN Goto(t, "idle") /\ rcm' = [rcm EXCEPT ![t] = None]
                     ELSE Goto(t, "unlock") /\ UNCHANGED rcm
  /\ UNCHANGED <<entry, refCount, holder, createLock>>

Release(t) ==
  /\ pc[t] = "unlock" /\ Goto(t, "uncreate")
  /\ holder' = [holder EXCEPT ![found[t]] = None]
  /\ UNCHANGED <<rcm, entry, refCount, createLock, found>>

\* The last user deletes the entry.
CountDown(t) ==
  /\ pc[t] = "uncount" /\ Goto(t, "idle")
  /\ refCount' = [refCount EXCEPT ![found[t]] = @ - 1]
  /\ entry' = IF refCount[found[t]] = 1 THEN None ELSE entry
  /\ createLock' = None
  /\ rcm' = [rcm EXCEPT ![t] = None] /\ found' = [found EXCEPT ![t] = None]
  /\ UNCHANGED holder

Step(t) ==
  \/ TakeCreateLock(t, "lock", "load") \/ LoadOrStore(t) \/ CountUp(t)
  \/ UnlockOrder(t) \/ Release(t)
  \/ TakeCreateLock(t, "uncreate", "uncount") \/ CountDown(t)

Next == \E t \in Threads : LockOrder(t) \/ Step(t) \/ Acquire(t)

Spec == Init /\ [][Next]_vars

-----------------------------------------------------------------------------
(* Properties *)

\* Between LockOrder and UnlockOrder a goroutine is alone, although the mutex
\* it waits for may be deleted and created again by others.
MutualExclusion ==
  \A s, t \in Threads : pc[s] = "held" /\ pc[t] = "held" => s = t

\* UnlockOrder never misses the entry (its early return), and what it unlocks is
\* what its goroutine locked.
UnlocksItsOwn ==
  \A t \in Threads :
    /\ pc[t] = "held" => entry = rcm[t]
    /\ pc[t] = "unlock" => found[t] = rcm[t] /\ holder[found[t]] = t

\* orderLocks does not grow: an entry without users is deleted.
NoEntryLeft == (\A t \in Threads : pc[t] = "idle") => entry = None
=============================================================================
