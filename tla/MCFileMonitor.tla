--------------------------- MODULE MCFileMonitor ----------------------------
(* Constants for model checking FileMonitor.                               *)
EXTENDS FileMonitor

CONSTANTS a, b

OneText  == {a}
TwoTexts == {a, b}
=============================================================================
