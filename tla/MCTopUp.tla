------------------------------ MODULE MCTopUp -------------------------------
(* The instance of TopUp that TLC explores. *)
EXTENDS TopUp
CONSTANTS n1, n2, x1, x2, o1
=============================================================================
