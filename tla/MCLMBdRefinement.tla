-------------------------- MODULE MCLMBdRefinement --------------------------
(* Constants for checking that LMBd implements MessageBoard.               *)
EXTENDS LMBdRefinement

NoStartup  == {[p \in Slots |-> Empty]}
OneStartup == NoStartup \cup {[p \in Slots |-> IF p = 1 THEN m ELSE Empty] : m \in Text}
ValidPositions == 1..(Messages + 1)
=============================================================================
