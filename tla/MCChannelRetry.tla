--------------------------- MODULE MCChannelRetry ---------------------------
(* The instance of ChannelRetry that TLC explores. *)
EXTENDS ChannelRetry, TLC

CONSTANTS a, b, c1, c2

MCAutoGroups == <<a, b>>

\* A group with one channel, and one with two priorities of which the first is that channel.
PairMembers == (a :> {c1}) @@ (b :> {c1, c2})
PairPriority == (c1 :> 10) @@ (c2 :> 0)
=============================================================================
