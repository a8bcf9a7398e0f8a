---------------------------- MODULE MCSerialPort ----------------------------
(* Constants for model checking SerialPort: one thread reads and writes,   *)
(* the owner does too, and opens, closes and configures.                   *)
EXTENDS SerialPort

CONSTANTS o, u

Calls(kinds, n) == [kind : kinds, size : {n}]

AsksOf == [t \in {o, u} |-> IF t = o
             THEN Calls({"readlines", "write"}, 1)
             ELSE Calls({"read", "readline", "write"}, 2) \cup Calls(OtherCalls, 0)]
=============================================================================
