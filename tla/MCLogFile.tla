----------------------------- MODULE MCLogFile ------------------------------
(* The daemon's log with two threads, in two lives.                        *)
EXTENDS LogFile

(* What mSize may be by chance: less than any file, right, and too much.   *)
AnyGarbage == {-2, 0, 4}
=============================================================================
