---------------------------- MODULE MCSystemTask ----------------------------
(* The instance of SystemTask that TLC explores.                           *)
EXTENDS SystemTask, TLC

\* Runners are interchangeable.
RunnerSymmetry == Permutations(Runners)
=============================================================================
