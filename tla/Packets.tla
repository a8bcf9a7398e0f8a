------------------------------- MODULE Packets ------------------------------
(***************************************************************************)
(* What setMessage puts on the line for a text: four packets of 69 bytes,  *)
(* built by insertMessage, setMessageNumber and doChkSum.  Bytes are       *)
(* numbered from 0 as in the code, the characters of a text from 1.        *)
(*                                                                         *)
(* insertMessage works with 8-bit positions and with size_t differences    *)
(* that wrap below zero; SizeT is the modulus of the latter.               *)
(***************************************************************************)
EXTENDS Integers, Sequences

CONSTANTS
  Byte,     (* The values of a byte.                                       *)
  Inputs,   (* The texts setMessage may be given.                          *)
  Slots,    (* The positions they may be given for.                        *)
  SizeT     (* 2^64 in the build.                                          *)

MaxText == 250
Last    == 68
Parts   == 1..4

ASSUME PacketsAssumption ==
  /\ Byte = 0..255
  /\ Inputs \subseteq Seq(Byte)
  /\ Slots \subseteq 1..6
  /\ SizeT \in Nat /\ SizeT > 2 * MaxText

VARIABLES
  message,  (* The text, trimmed before the first packet is built.         *)
  pos,      (* The slot.                                                   *)
  packets,  (* The packets built so far.                                   *)
  thrown    (* message.at was asked for a character that is not there.     *)

vars == <<message, pos, packets, thrown>>

(* Mutant: no limit on the text.                                           *)
NoTrim(m) == m

Trim(m) == IF Len(m) > MaxText THEN SubSeq(m, 1, MaxText) ELSE m

(* The packets as they are declared, before anything is put into them.     *)
Header(part) ==
  [i \in 0..Last |->
     CASE i = 0 -> 2 [] i = 1 -> 49 [] i = 2 -> 6 [] i = 3 -> 64 * (part - 1)
       [] i = 4 -> (IF part = 1 THEN 53 ELSE 0)
       [] i = 6 -> (IF part = 1 THEN 66 ELSE 0)
       [] OTHER -> 0]

(* Mutant: one character of the third packet is skipped.                   *)
MessageStartOff(part) == CASE part = 1 -> 0 [] part = 2 -> 60 [] part = 3 -> 125 [] part = 4 -> 188

StartPos(part)     == IF part = 1 THEN 8 ELSE 4
MessageStart(part) == CASE part = 1 -> 0 [] part = 2 -> 60 [] part = 3 -> 124 [] part = 4 -> 188
MaxSize(part)      == IF part = 1 THEN 60 ELSE 65

Minus(a, b) == IF a >= b THEN a - b ELSE SizeT + a - b

Size(part, len) ==
  LET rest == Minus(len, MessageStart(part))
  IN  IF rest < MaxSize(part) THEN rest ELSE MaxSize(part)

(* Mutant: the second early return is missing.                             *)
ReadsWithoutStartCheck(part, len) ==
  IF Size(part, len) > len
    THEN {}
    ELSE (MessageStart(part) + 1)..(MessageStart(part) + Size(part, len))

(* The characters insertMessage reads, after its two early returns.        *)
Reads(part, len) ==
  IF Size(part, len) > len \/ MessageStart(part) > len
    THEN {}
    ELSE (MessageStart(part) + 1)..(MessageStart(part) + Size(part, len))

insertMessage(part, data, m) ==
  [i \in 0..Last |->
     LET c == i - StartPos(part) + MessageStart(part) + 1
     IN  IF c \in Reads(part, Len(m)) /\ i >= StartPos(part) THEN m[c]
         ELSE IF part = 1 /\ i = 7 THEN Len(m) % 256
         ELSE data[i]]

setMessageNumber(data, p) == [data EXCEPT ![2] = (5 + p) % 256]

(* The sum of bytes 1 to 67 in an 8-bit counter, put into byte 68.         *)
doChkSum(data) ==
  LET csum[i \in 0..(Last - 1)] == IF i = 0 THEN 0 ELSE (csum[i - 1] + data[i]) % 256
  IN  [data EXCEPT ![Last] = csum[Last - 1]]

(* Mutant: the slot number is put in after the checksum.                   *)
PacketSummedEarly(part, m, p) ==
  setMessageNumber(doChkSum(insertMessage(part, Header(part), m)), p)

Packet(part, m, p) ==
  doChkSum(setMessageNumber(insertMessage(part, Header(part), m), p))

Init ==
  /\ \E m \in Inputs : message = Trim(m)
  /\ message # << >>
  /\ pos \in Slots
  /\ packets = << >>
  /\ thrown = FALSE

Build ==
  /\ Len(packets) < 4 /\ ~thrown
  /\ LET part == Len(packets) + 1
     IN  IF Reads(part, Len(message)) \subseteq 1..Len(message)
           THEN packets' = Append(packets, Packet(part, message, pos)) /\ UNCHANGED thrown
           ELSE thrown' = TRUE /\ UNCHANGED packets
  /\ UNCHANGED <<message, pos>>

Next == Build

Spec == Init /\ [][Next]_vars

(***************************************************************************)
(* How the sign puts a text together again: 60 characters of the first     *)
(* packet, 64 of each other one, as many as byte 7 says.                   *)
(***************************************************************************)
PartOf(c)   == IF c <= 60 THEN 1 ELSE 2 + (c - 61) \div 64
OffsetOf(c) == IF c <= 60 THEN 7 + c ELSE 4 + ((c - 61) % 64)

TypeOK ==
  /\ message \in Seq(Byte) /\ Len(message) \in 1..MaxText
  /\ pos \in Slots
  /\ packets \in Seq([0..Last -> Byte]) /\ Len(packets) <= 4
  /\ thrown \in BOOLEAN

(* insertMessage never asks for a character the text does not have (and    *)
(* std::string::at never throws), although its size is computed by a       *)
(* subtraction that wraps when the text ends before the packet begins.     *)
NeverThrows == ~thrown

(* The sign finds the length and every character of the text in the packet *)
(* and at the place it looks for it, for every length up to 250: the       *)
(* character that insertMessage puts where the checksum goes is the first  *)
(* of the next packet, so nothing is lost.                                 *)
Reassembled ==
  Len(packets) = 4 =>
    /\ packets[1][7] = Len(message)
    /\ \A c \in 1..Len(message) : packets[PartOf(c)][OffsetOf(c)] = message[c]

(* Every packet carries its slot, its place in the text and a checksum     *)
(* that accounts for both.                                                 *)
Addressed ==
  \A part \in 1..Len(packets) :
    LET d == packets[part]
        sum[i \in 0..(Last - 1)] == IF i = 0 THEN 0 ELSE sum[i - 1] + d[i]
    IN  /\ d[2] = 5 + pos /\ d[3] = 64 * (part - 1)
        /\ d[Last] = sum[Last - 1] % 256
=============================================================================
