-------------------------- MODULE MCBillingSession --------------------------
(* Instances of BillingSession for TLC.                                    *)
EXTENDS BillingSession, TLC

Profile(kind, pref, quota) == [kind |-> kind, pref |-> pref, quota |-> quota]

\* Every kind and every preference: both fallbacks, and an estimate of zero.
MCProfiles ==
  {Profile("relay", "subscription_first", 0), Profile("relay", "wallet_first", 2),
   Profile("task", "subscription_only", 2), Profile("playground", "subscription_first", 2),
   Profile("free", "wallet_only", 0)}

OneProfile == {Profile("relay", "subscription_only", 2)}

\* Requests are interchangeable: they share every row and differ in nothing else.
RequestSymmetry == Permutations(Requests)
=============================================================================
