------------------------------ MODULE MCPackets -----------------------------
(* Constants for model checking Packets: a text of every length from 0 to  *)
(* 260, its characters told apart by their place.                          *)
EXTENDS Packets

Bytes    == 0..255
Texts    == {[c \in 1..n |-> (c * 7) % 256] : n \in 0..260}
TwoSlots == {1, 6}
Wrap     == 1000000
=============================================================================
