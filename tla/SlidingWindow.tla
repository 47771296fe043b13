--------------------------- MODULE SlidingWindow ---------------------------
(***************************************************************************)
(* What a rate limiter promises for one key: a request is admitted unless  *)
(* MaxRequestNum others were admitted less than Duration seconds ago, and  *)
(* is refused only then.                                                   *)
(***************************************************************************)
EXTENDS Integers, Sequences

CONSTANTS MaxRequestNum, Duration

VARIABLES
  now,      \* the time in seconds
  log,      \* the times at which requests were admitted, oldest first
  answer    \* the answer to the last request

\* MaxRequestNum requests were admitted within the last Duration seconds.
Full ==
  /\ Len(log) >= MaxRequestNum
  /\ now - log[Len(log) - MaxRequestNum + 1] < Duration

Init == now = 0 /\ log = <<>> /\ answer = "none"

Tick == now' = now + 1 /\ UNCHANGED <<log, answer>>

Admit == ~Full /\ log' = Append(log, now) /\ answer' = "admitted" /\ UNCHANGED now

Refuse == Full /\ answer' = "refused" /\ UNCHANGED <<now, log>>

Next == Tick \/ Admit \/ Refuse

Spec == Init /\ [][Next]_<<now, log, answer>>

=============================================================================
