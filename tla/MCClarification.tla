--------------------------- MODULE MCClarification ---------------------------
(* Queries with everything the questions are about, in lengths round the limits of the window. *)
EXTENDS Clarification

AllQueries ==
    [exact : BOOLEAN, compares : BOOLEAN, named : BOOLEAN,
     place : {"mainland", "unclear", "abroad"}, chars : {6, 80, 140}]

Lengths ==
    [t \in Texts |-> CASE t = "same" -> 3 [] t = "compare_same" -> 33 [] t = "different" -> 6
                       [] t = "model" -> 78 [] OTHER -> 140]
Questions == [f \in Fields |-> IF f = "destination" THEN 22 ELSE 38]
Sizes == {20, 33, 90, 300}
=============================================================================
