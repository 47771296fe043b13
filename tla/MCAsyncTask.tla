---------------------------- MODULE MCAsyncTask -----------------------------
(* The instance of AsyncTask that TLC explores.                            *)
EXTENDS AsyncTask, TLC

CONSTANTS Suno, Gemini, Video

MCKind == Suno :> "suno" @@ Gemini :> "gemini" @@ Video :> "video"
MCChannelOf == 1 :> Suno @@ 2 :> Gemini @@ 3 :> Video @@ 4 :> Video @@ 5 :> Video
Two == [t \in Tasks |-> 2]
\* The submissions of tasks 1 and 3 cost more than was pre-consumed.
MCPreConsumed == [t \in Tasks |-> IF t \in {1, 3} THEN 1 ELSE 2]
\* Task 1 was left by the old system.
OneLegacy == [t \in Tasks |-> IF t = 1 THEN 1700000000 ELSE 1800000000]

PassSymmetry == Permutations(Passes)
=============================================================================
