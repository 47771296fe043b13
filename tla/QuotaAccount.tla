---------------------------- MODULE QuotaAccount ----------------------------
(***************************************************************************)
(* The promise behind IncreaseUserQuota, DecreaseUserQuota, their token    *)
(* twins and UpdateUserUsedQuotaAndRequestCount, as their callers see it:  *)
(* a call is applied, once and whole, or it fails and changes nothing.     *)
(* Whether its change waits in a batch or is in the database already is    *)
(* invisible here.                                                         *)
(***************************************************************************)
EXTENDS Integers

CONSTANT Columns, Changes    \* what one call may add to each column

VARIABLE calls, total        \* the calls made, and what they added up to

Open == calls = 0 /\ total = [x \in Columns |-> 0]

Applied(change) ==
  /\ calls' = calls + 1
  /\ total' = [x \in Columns |-> total[x] + change[x]]

Failed == calls' = calls + 1 /\ UNCHANGED total

Account == Open /\ [][Failed \/ \E change \in Changes : Applied(change)]_<<calls, total>>
=============================================================================
