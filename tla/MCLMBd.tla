------------------------------- MODULE MCLMBd -------------------------------
(* Constants for model checking LMBd.                                      *)
EXTENDS LMBdInvariant, FiniteSets

(* No start-up messages; or either none or one for the first slot.         *)
NoStartup  == {[p \in Slots |-> Empty]}
OneStartup == NoStartup \cup {[p \in Slots |-> IF p = 1 THEN m ELSE Empty] : m \in Text}

AllPositions   == 0..(Messages + 1)
ValidPositions == 1..(Messages + 1)
=============================================================================
