----------------------------- MODULE Redemption -----------------------------
(***************************************************************************)
(* Redemption codes: Redeem of model/redemption.go, and the administrator's*)
(* edits and deletions in controller/redemption.go.  A step is one SQL     *)
(* statement, or the part of a transaction from its claim to its commit.   *)
(* The row lock Redeem asks for is left out: the claim does not rely on it.*)
(***************************************************************************)
EXTENDS Naturals

CONSTANTS Codes, Users

VARIABLES
  status, expired,   \* a code's row; expired: ExpiredTime is past
  planEnabled,       \* the plan of a subscription code can be used
  redeeming,         \* <<user, code>> whose transaction passed its checks
  copies,            \* rows UpdateRedemption read and has not written back
  grants,            \* history: how often the code's quota or plan was given out
  enablings          \* history: writes that made a used code usable again

vars == <<status, expired, planEnabled, redeeming, copies, grants, enablings>>

Status == {"enabled", "disabled", "used", "deleted"}

\* "status": a request with status_only; "fields": one without.
Copy == [code : Codes, how : {"fields", "status"}, status : Status \ {"deleted"},
         expired : BOOLEAN]

TypeOK ==
  /\ status \in [Codes -> Status] /\ expired \in [Codes -> BOOLEAN]
  /\ planEnabled \in [Codes -> BOOLEAN]
  /\ redeeming \subseteq Users \X Codes
  /\ copies \subseteq Copy
  /\ grants \in [Codes -> Nat] /\ enablings \in [Codes -> Nat]

Init ==
  /\ status = [c \in Codes |-> "enabled"] /\ expired = [c \in Codes |-> FALSE]
  /\ planEnabled \in [Codes -> BOOLEAN]
  /\ redeeming = {} /\ copies = {}
  /\ grants = [c \in Codes |-> 0] /\ enablings = [c \in Codes |-> 0]

-----------------------------------------------------------------------------
Usable(c) == status[c] = "enabled" /\ ~expired[c]

\* The transaction reads the row.
RedeemRead(u, c) ==
  /\ Usable(c) /\ <<u, c>> \notin redeeming
  /\ redeeming' = redeeming \cup {<<u, c>>}
  /\ UNCHANGED <<status, expired, planEnabled, copies, grants, enablings>>

\* The conditional update that affects one row, and what the code is worth.  The
\* expiration is compared with the time of the read, so that a code which expired
\* since then is still claimed.  A disabled plan or an error rolls both back.
RedeemClaim(u, c) ==
  /\ <<u, c>> \in redeeming
  /\ redeeming' = redeeming \ {<<u, c>>}
  /\ \/ /\ status[c] = "enabled" /\ planEnabled[c]
        /\ status' = [status EXCEPT ![c] = "used"]
        /\ grants' = [grants EXCEPT ![c] = @ + 1]
     \/ UNCHANGED <<status, grants>>
  /\ UNCHANGED <<expired, planEnabled, copies, enablings>>

-----------------------------------------------------------------------------
\* GetRedemptionById.
EditRead(c, how) ==
  /\ status[c] # "deleted"
  /\ copies' = copies \cup {[code |-> c, how |-> how, status |-> status[c],
                             expired |-> expired[c]]}
  /\ UNCHANGED <<status, expired, planEnabled, redeeming, grants, enablings>>

\* Update writes status and expiration of the copy back: the status it read or, with
\* status_only, the one requested; the expiration requested, which is not past, or
\* the one it read, which may be past by now.  A deleted row is not found.
EditWrite(k, s, e) ==
  /\ k \in copies
  /\ s = k.status \/ k.how = "status"
  /\ IF k.how = "fields" THEN ~e ELSE k.expired => e
  /\ copies' = copies \ {k}
  /\ IF status[k.code] = "deleted"
       THEN UNCHANGED <<status, expired, enablings>>
       ELSE /\ status' = [status EXCEPT ![k.code] = s]
            /\ expired' = [expired EXCEPT ![k.code] = e]
            /\ enablings' = IF status[k.code] = "used" /\ s # "used"
                              THEN [enablings EXCEPT ![k.code] = @ + 1] ELSE enablings
  /\ UNCHANGED <<planEnabled, redeeming, grants>>

\* DeleteRedemption.
Delete(c) ==
  /\ status[c] # "deleted"
  /\ status' = [status EXCEPT ![c] = "deleted"]
  /\ UNCHANGED <<expired, planEnabled, redeeming, copies, grants, enablings>>

\* Used, disabled and expired codes are deleted.
DeleteInvalid ==
  /\ status' = [c \in Codes |-> IF Usable(c) THEN status[c] ELSE "deleted"]
  /\ UNCHANGED <<expired, planEnabled, redeeming, copies, grants, enablings>>

\* Time passes; the plan is disabled or enabled.
Expire(c) ==
  /\ ~expired[c] /\ expired' = [expired EXCEPT ![c] = TRUE]
  /\ UNCHANGED <<status, planEnabled, redeeming, copies, grants, enablings>>

TogglePlan(c) ==
  /\ planEnabled' = [planEnabled EXCEPT ![c] = ~@]
  /\ UNCHANGED <<status, expired, redeeming, copies, grants, enablings>>

Next ==
  \/ \E u \in Users, c \in Codes : RedeemRead(u, c) \/ RedeemClaim(u, c)
  \/ \E c \in Codes, how \in {"fields", "status"} : EditRead(c, how)
  \/ \E k \in copies, s \in {"enabled", "disabled", "used"}, e \in BOOLEAN : EditWrite(k, s, e)
  \/ \E c \in Codes : Delete(c) \/ Expire(c) \/ TogglePlan(c)
  \/ DeleteInvalid

Spec == Init /\ [][Next]_vars

-----------------------------------------------------------------------------
(* Properties *)

\* Each grant uses up one enabling of the code, however many users redeem it at once
\* and whatever administrators do meanwhile (the conditional claim of Redeem); an
\* edit that writes a stale status over a redemption counts as an enabling.
OneGrantPerEnabling ==
  \A c \in Codes :
    grants[c] + (IF status[c] \in {"enabled", "disabled"} THEN 1 ELSE 0) <= 1 + enablings[c]

\* A code that nobody enables again is granted at most once.
SingleUse == \A c \in Codes : enablings[c] = 0 => grants[c] <= 1
=============================================================================
