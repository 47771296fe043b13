----------------------------- MODULE RateWindow -----------------------------
(***************************************************************************)
(* InMemoryRateLimiter for one key: the queue of the latest admissions,    *)
(* and the goroutine that deletes keys which have not been used for a      *)
(* while. It runs at times of its own, under the limiter's mutex.          *)
(***************************************************************************)
EXTENDS Integers, Sequences

CONSTANTS
  MaxRequestNum,   \* maxRequestNum
  Duration,        \* duration, in seconds
  Expiration       \* expirationDuration, in seconds

\* What the theorems assume of the constants. The configured windows must not
\* exceed the expiration: "Shouldn't larger then RateLimitKeyExpirationDuration".
RateWindowAssumption ==
  /\ MaxRequestNum \in Nat \ {0}
  /\ Duration \in Nat
  /\ Expiration \in Nat /\ Duration <= Expiration

VARIABLES
  now,      \* the time in seconds
  queue,    \* store[key], oldest first; a key that is not stored has none
  log,      \* history: the times of all admissions
  answer    \* what the last request was told

vars == <<now, queue, log, answer>>

Init == now = 0 /\ queue = <<>> /\ log = <<>> /\ answer = "none"

Tick == now' = now + 1 /\ UNCHANGED <<queue, log, answer>>

Room == Len(queue) < MaxRequestNum

OldestLeft == now - Head(queue) >= Duration

\* The queue with the new request; it never holds more than the latest ones.
Pushed == IF Room THEN Append(queue, now) ELSE Append(Tail(queue), now)

Request ==
  IF Room \/ OldestLeft
  THEN /\ queue' = Pushed
       /\ log' = Append(log, now)
       /\ answer' = "admitted"
       /\ UNCHANGED now
  ELSE /\ answer' = "refused"
       /\ UNCHANGED <<now, queue, log>>

Unused == queue # <<>> /\ now - queue[Len(queue)] > Expiration

clearExpiredItems == Unused /\ queue' = <<>> /\ UNCHANGED <<now, log, answer>>

Next == Tick \/ Request \/ clearExpiredItems

Spec == Init /\ [][Next]_vars

-----------------------------------------------------------------------------
(* Properties *)

\* Times are times of admissions, and the queue never outgrows the limit
\* whatever is appended to it.
TypeOK ==
  /\ now \in Nat
  /\ queue \in Seq(Nat) /\ Len(queue) <= MaxRequestNum
  /\ log \in Seq(Nat)
  /\ answer \in {"none", "admitted", "refused"}

\* Of any MaxRequestNum + 1 admissions in a row the first and the last are at
\* least Duration seconds apart, also when the key was deleted between them.
AtMostMax ==
  \A i \in 1..Len(log) : i + MaxRequestNum <= Len(log) =>
    log[i + MaxRequestNum] - log[i] >= Duration

Promise == INSTANCE SlidingWindow

\* Every answer is the one the sliding window over all admissions gives: what
\* the limiter forgets never matters, and no request is refused without need.
ImplementsWindow == Promise!Spec

-----------------------------------------------------------------------------
(* Why it works *)

\* Admissions are in the order of time.
Sorted == \A i, j \in 1..Len(log) : i <= j => log[i] <= log[j] /\ log[j] <= now

\* The queue is the end of the log.
QueueIsRecent ==
  /\ Len(queue) <= Len(log)
  /\ \A i \in 1..Len(queue) : queue[i] = log[Len(log) - Len(queue) + i]

\* What the limiter forgot without a full queue has left the window.
ForgottenIsOld ==
  Len(queue) < MaxRequestNum =>
    \A i \in 1..Len(log) - Len(queue) : now - log[i] >= Duration

IInv ==
  RateWindowAssumption /\ TypeOK /\ Sorted /\ QueueIsRecent /\ ForgottenIsOld /\ AtMostMax
=============================================================================
