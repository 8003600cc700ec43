---------------------------- MODULE MCAiScoring ----------------------------
(* Instance of AiScoring: two events, two versions of the model. *)
EXTENDS AiScoring

MCJob == {<<"e1", "e2">>, <<"e2">>}
\* A score that is rounded up to the threshold, and one of a neutral vector.
MCRaw == [v \in Version |-> [f \in Vector |->
           [e \in {"e1", "e2"} |-> CASE f = "neutral" -> 10
                                     [] v = "v2" -> 1
                                     [] e = "e1" -> 5
                                     [] OTHER -> -7]]]
============================================================================
