---------------------------- MODULE MCPlayground ----------------------------
(* The instance of Playground that TLC explores.                           *)
EXTENDS Playground

Content(text) == [type |-> "content", text |-> text]
Reasoning(text) == [type |-> "reasoning", text |-> text]

\* Increments; snapshots, with the reasoning in tags; and the same token twice, which
\* the page cannot tell from a snapshot.
Increasing == <<Content(<<"a">>), Content(<<"b">>)>>
Snapshot   == <<Content(<<"<think>", "r", "</think>", "a">>),
                Content(<<"<think>", "r", "</think>", "a", "b">>)>>
Repeated   == <<Content(<<"a">>), Content(<<"a">>)>>

\* The second request is answered with reasoning only, or with nothing but [DONE].
MCAnswers == {<<Increasing, <<Reasoning(<<"r">>)>>>>, <<Snapshot, <<>>>>, <<Repeated, <<>>>>}
=============================================================================
