---------------------------- MODULE PacketsProofs ---------------------------
(***************************************************************************)
(* The four packets carry every text: for every set of inputs and every    *)
(* width of size_t that exceeds twice the longest text.                    *)
(***************************************************************************)
EXTENDS Packets, SequenceTheorems, WellFoundedInduction, TLAPS

(* The packets built so far are the packets of the text.                   *)
Built ==
  /\ message \in Seq(Byte) /\ Len(message) \in 1..MaxText
  /\ packets \in Seq({Packet(part, message, pos) : part \in Parts})
  /\ Len(packets) <= 4
  /\ \A part \in 1..Len(packets) : packets[part] = Packet(part, message, pos)
  /\ ~thrown

(* insertMessage reads only characters the text has: the subtraction wraps *)
(* exactly when the packet begins after the end of the text, and then one  *)
(* of the two early returns is taken.                                      *)
LEMMA ReadsInRange ==
  ASSUME NEW part \in Parts, NEW len \in 1..MaxText
  PROVE  Reads(part, len) \subseteq 1..len
<1> USE DEF Parts, MaxText
<1>1. MessageStart(part) \in Nat /\ MaxSize(part) \in Nat
  BY DEF MessageStart, MaxSize
<1>2. CASE MessageStart(part) <= len
  <2>1. Minus(len, MessageStart(part)) = len - MessageStart(part)
    BY <1>1, <1>2 DEF Minus
  <2>2. Size(part, len) \in Nat /\ MessageStart(part) + Size(part, len) <= len
    BY <1>1, <1>2, <2>1 DEF Size
  <2> QED
    BY <1>1, <2>2 DEF Reads
<1>3. CASE MessageStart(part) > len
  BY <1>3 DEF Reads
<1> QED
  BY <1>1, <1>2, <1>3

(* The slot number and the checksum change two bytes only.                 *)
LEMMA OtherBytes ==
  ASSUME NEW part, NEW m, NEW p, NEW i \in (0..Last) \ {2, Last}
  PROVE  Packet(part, m, p)[i] = insertMessage(part, Header(part), m)[i]
<1> DEFINE d == insertMessage(part, Header(part), m)
           e == setMessageNumber(d, p)
<1>1. DOMAIN d = 0..Last
  BY DEF insertMessage
<1>2. e[i] = d[i] /\ DOMAIN e = 0..Last
  BY <1>1 DEF setMessageNumber
<1> HIDE DEF e
<1>3. doChkSum(e)[i] = e[i]
  BY <1>2 DEF doChkSum
<1> QED
  BY <1>2, <1>3 DEF Packet, e

(* Division by the 64 characters of a packet.                              *)
LEMMA Div64 ==
  ASSUME NEW q \in 0..3, NEW r \in 0..63, NEW x \in Int, x = 64 * q + r
  PROVE  x \div 64 = q /\ x % 64 = r
<1>1. CASE q = 0
  BY <1>1
<1>2. CASE q = 1
  BY <1>2
<1>3. CASE q = 2
  BY <1>3
<1>4. CASE q = 3
  BY <1>4
<1> QED
  BY <1>1, <1>2, <1>3, <1>4

(* The place where the sign looks for a character is where insertMessage   *)
(* puts it: the character is read, and into that byte.                     *)
LEMMA Placed ==
  ASSUME NEW len \in 1..MaxText, NEW c \in 1..len
  PROVE  /\ PartOf(c) \in Parts
         /\ OffsetOf(c) \in 4..67
         /\ OffsetOf(c) >= StartPos(PartOf(c))
         /\ OffsetOf(c) - StartPos(PartOf(c)) + MessageStart(PartOf(c)) + 1 = c
         /\ c \in Reads(PartOf(c), len)
<1> USE DEF Parts, MaxText, Last
<1> DEFINE part == PartOf(c)
           i    == OffsetOf(c)
           from == MessageStart(part)
<1>0. c \in 1..250
  OBVIOUS
<1>1. /\ part \in Parts /\ i \in 4..67 /\ i >= StartPos(part)
      /\ i - StartPos(part) + from + 1 = c
      /\ from < c /\ c <= from + MaxSize(part)
  <2>1. CASE c \in 1..60
    <3>1. PartOf(c) = 1 /\ OffsetOf(c) = 7 + c
      BY <2>1 DEF PartOf, OffsetOf
    <3>2. StartPos(1) = 8 /\ MessageStart(1) = 0 /\ MaxSize(1) = 60
      BY DEF StartPos, MessageStart, MaxSize
    <3> QED
      BY <2>1, <3>1, <3>2
  <2>2. CASE c \in 61..124
    <3>0. (c - 61) \div 64 = 0 /\ (c - 61) % 64 = c - 61
      <4>1. c - 61 \in 0..63 /\ c - 61 \in Int /\ c - 61 = 64 * 0 + (c - 61)
        BY <2>2
      <4> QED
        BY <4>1, Div64
    <3>1. PartOf(c) = 2 /\ OffsetOf(c) = c - 57
      BY <2>2, <3>0 DEF PartOf, OffsetOf
    <3>2. StartPos(2) = 4 /\ MessageStart(2) = 60 /\ MaxSize(2) = 65
      BY DEF StartPos, MessageStart, MaxSize
    <3> QED
      BY <2>2, <3>1, <3>2
  <2>3. CASE c \in 125..188
    <3>0. (c - 61) \div 64 = 1 /\ (c - 61) % 64 = c - 125
      <4>1. c - 125 \in 0..63 /\ c - 61 \in Int /\ c - 61 = 64 * 1 + (c - 125)
        BY <2>3
      <4> QED
        BY <4>1, Div64
    <3>1. PartOf(c) = 3 /\ OffsetOf(c) = c - 121
      BY <2>3, <3>0 DEF PartOf, OffsetOf
    <3>2. StartPos(3) = 4 /\ MessageStart(3) = 124 /\ MaxSize(3) = 65
      BY DEF StartPos, MessageStart, MaxSize
    <3> QED
      BY <2>3, <3>1, <3>2
  <2>4. CASE c \in 189..250
    <3>0. (c - 61) \div 64 = 2 /\ (c - 61) % 64 = c - 189
      <4>1. c - 189 \in 0..63 /\ c - 61 \in Int /\ c - 61 = 64 * 2 + (c - 189)
        BY <2>4
      <4> QED
        BY <4>1, Div64
    <3>1. PartOf(c) = 4 /\ OffsetOf(c) = c - 185
      BY <2>4, <3>0 DEF PartOf, OffsetOf
    <3>2. StartPos(4) = 4 /\ MessageStart(4) = 188 /\ MaxSize(4) = 65
      BY DEF StartPos, MessageStart, MaxSize
    <3> QED
      BY <2>4, <3>1, <3>2
  <2> QED
    BY <1>0, <2>1, <2>2, <2>3, <2>4
<1>2. from \in Nat /\ MaxSize(part) \in Nat
  BY <1>1 DEF MessageStart, MaxSize
<1>3. c \in Reads(part, len)
  <2>1. Minus(len, from) = len - from
    BY <1>1, <1>2 DEF Minus
  <2>2. Size(part, len) <= len /\ c <= from + Size(part, len)
        /\ Size(part, len) \in Nat
    BY <1>1, <1>2, <2>1 DEF Size
  <2> QED
    BY <1>1, <1>2, <2>2 DEF Reads
<1> QED
  BY <1>1, <1>3

(* A character of the text is at the place the sign looks for it.          *)
LEMMA Carried ==
  ASSUME NEW m \in Seq(Byte), Len(m) \in 1..MaxText, NEW c \in 1..Len(m)
  PROVE  /\ PartOf(c) \in Parts
         /\ OffsetOf(c) \in (0..Last) \ {2, Last}
         /\ insertMessage(PartOf(c), Header(PartOf(c)), m)[OffsetOf(c)] = m[c]
<1>1. /\ PartOf(c) \in Parts
      /\ OffsetOf(c) \in 4..67
      /\ OffsetOf(c) >= StartPos(PartOf(c))
      /\ OffsetOf(c) - StartPos(PartOf(c)) + MessageStart(PartOf(c)) + 1 = c
      /\ c \in Reads(PartOf(c), Len(m))
  BY Placed
<1>2. OffsetOf(c) \in (0..Last) \ {2, Last}
  <2>1. ASSUME NEW i \in 4..67 PROVE i \in (0..Last) \ {2, Last}
    BY DEF Last
  <2> QED
    BY <1>1, <2>1
<1>3. insertMessage(PartOf(c), Header(PartOf(c)), m)[OffsetOf(c)] = m[c]
  BY <1>1, <1>2 DEF insertMessage
<1> QED
  BY <1>1, <1>2, <1>3

(* Byte 7 of the first packet is the length.                               *)
LEMMA LengthByte ==
  ASSUME NEW m \in Seq(Byte), Len(m) \in 1..MaxText
  PROVE  insertMessage(1, Header(1), m)[7] = Len(m)
<1> USE DEF MaxText, Last
<1>1. ~(7 >= StartPos(1)) /\ 7 \in 0..Last
  BY DEF StartPos
<1>2. ASSUME NEW n \in 1..250 PROVE n % 256 = n
  OBVIOUS
<1>3. insertMessage(1, Header(1), m)[7] = Len(m) % 256
  BY <1>1 DEF insertMessage
<1>4. Len(m) \in 1..250
  OBVIOUS
<1> QED
  BY <1>2, <1>3, <1>4

(* Every packet that was built is the one the operators describe.          *)
LEMMA BuiltInv == Spec => []Built
<1> USE PacketsAssumption DEF Built
<1>1. Init => Built
  <2> SUFFICES ASSUME Init PROVE Built
    OBVIOUS
  <2>1. PICK m \in Inputs : message = Trim(m)
    BY DEF Init
  <2>0. m \in Seq(Byte)
    BY <2>1
  <2>2. message \in Seq(Byte) /\ Len(message) <= MaxText
    <3>1. CASE Len(m) > MaxText
      <4>1. \A c \in 1..MaxText : m[c] \in Byte
        <5> HIDE PacketsAssumption
        <5> QED
          BY <2>0, <3>1 DEF MaxText
      <4>2. message = SubSeq(m, 1, MaxText)
        BY <2>1, <3>1 DEF Trim
      <4> QED
        <5>1. 1 \in Int /\ MaxText \in Int /\ 1 <= MaxText /\ MaxText - 1 + 1 = MaxText
          BY DEF MaxText
        <5> HIDE PacketsAssumption
        <5>2. SubSeq(m, 1, MaxText) \in Seq(Byte) /\ Len(SubSeq(m, 1, MaxText)) = MaxText
          BY <4>1, <5>1, SubSeqProperties
        <5> QED
          BY <4>2, <5>1, <5>2
    <3>2. CASE ~(Len(m) > MaxText)
      BY <2>0, <2>1, <3>2 DEF Trim, MaxText
    <3> QED
      BY <3>1, <3>2
  <2>3. Len(message) \in 1..MaxText
    <3>1. message # << >>
      BY DEF Init
    <3>2. Len(message) \in Nat \ {0}
      BY <2>2, <3>1, EmptySeq
    <3>3. ASSUME NEW n \in Nat \ {0}, n <= MaxText PROVE n \in 1..MaxText
      BY <3>3 DEF MaxText
    <3> QED
      BY <2>2, <3>2, <3>3
  <2> QED
    BY <2>2, <2>3 DEF Init
<1>2. Built /\ [Next]_vars => Built'
  <2> SUFFICES ASSUME Built, Next PROVE Built'
    BY DEF vars
  <2> DEFINE part == Len(packets) + 1
  <2>1. part \in Parts
    BY DEF Next, Build, Parts
  <2>2. Reads(part, Len(message)) \subseteq 1..Len(message)
    BY <2>1, ReadsInRange
  <2>3. packets' = Append(packets, Packet(part, message, pos)) /\ UNCHANGED <<message, pos, thrown>>
    BY <2>2 DEF Next, Build
  <2> HIDE DEF part
  <2>4. packets' \in Seq({Packet(k, message, pos) : k \in Parts}) /\ Len(packets') = Len(packets) + 1
    BY <2>1, <2>3
  <2>5. ASSUME NEW k \in 1..Len(packets')
        PROVE  packets'[k] = Packet(k, message, pos)
    BY <2>3, <2>4 DEF part
  <2>6. Len(packets') <= 4
    BY <2>4 DEF Next, Build
  <2> QED
    BY <2>3, <2>4, <2>5, <2>6
<1> QED
  BY <1>1, <1>2, PTL DEF Spec

(* insertMessage never asks std::string::at for a character that is not    *)
(* there, whatever the text.                                               *)
THEOREM AtNeverThrows == Spec => []NeverThrows
<1>1. Built => NeverThrows
  BY DEF Built, NeverThrows
<1> QED
  BY <1>1, BuiltInv, PTL

(* The sign gets the length and every character of every text.             *)
THEOREM EveryTextArrives == Spec => []Reassembled
<1>1. Built => Reassembled
  <2> SUFFICES ASSUME Built, Len(packets) = 4 PROVE Reassembled
    BY DEF Reassembled
  <2> USE PacketsAssumption
  <2>1. packets[1][7] = Len(message)
    <3>1. packets[1] = Packet(1, message, pos)
      BY DEF Built
    <3> QED
      BY <3>1, OtherBytes, LengthByte DEF Built, Last
  <2>2. ASSUME NEW c \in 1..Len(message)
        PROVE  packets[PartOf(c)][OffsetOf(c)] = message[c]
    <3>1. PartOf(c) \in 1..4 /\ OffsetOf(c) \in (0..Last) \ {2, Last}
      BY Carried DEF Built, Parts
    <3>2. packets[PartOf(c)] = Packet(PartOf(c), message, pos)
      BY <3>1 DEF Built
    <3> QED
      BY <3>1, <3>2, Carried, OtherBytes DEF Built
  <2> QED
    BY <2>1, <2>2 DEF Reassembled
<1> QED
  BY <1>1, BuiltInv, PTL

-----------------------------------------------------------------------------
(***************************************************************************)
(* The checksum.                                                           *)
(***************************************************************************)
(* A sum in 8 bits is the sum, in 8 bits.                                  *)
LEMMA ModSum ==
  ASSUME NEW a \in Nat, NEW b \in Nat
  PROVE  /\ ((a % 256) + b) % 256 = (a + b) % 256
         /\ a % 256 \in 0..255
OBVIOUS

(* One turn of the sum of the bytes, and of the sum doChkSum keeps.        *)
SumTurn(f, data, i)  == IF i = 0 THEN 0 ELSE f[i - 1] + data[i]
CsumTurn(f, data, i) == IF i = 0 THEN 0 ELSE (f[i - 1] + data[i]) % 256

IsSum(f, data, last)  == f = [i \in 0..last |-> SumTurn(f, data, i)]
IsCsum(f, data, last) == f = [i \in 0..last |-> CsumTurn(f, data, i)]

(* A number of turns that is too many has a smallest one.                  *)
LEMMA Smallest ==
  ASSUME NEW S, S \subseteq Nat, S # {}
  PROVE  \E x \in S : \A y \in S : ~(y < x)
<1>1. PICK x \in S : \A y \in S : <<y, x>> \notin OpToRel(<, Nat)
  BY NatLessThanWellFounded, WFMin, Zenon
<1>2. ASSUME NEW y \in S PROVE ~(y < x)
  <2>1. <<y, x>> \notin {ss \in Nat \X Nat : ss[1] < ss[2]}
    BY <1>1 DEF OpToRel
  <2> QED
    BY <2>1
<1> QED
  BY <1>2

(* Both sums exist, for as many bytes as there are.                        *)
LEMMA SumExists ==
  ASSUME NEW data
  PROVE  \A last \in Nat : \E f : IsSum(f, data, last)
<1> DEFINE S == {n \in Nat : ~\E f : IsSum(f, data, n)}
<1> SUFFICES ASSUME S # {} PROVE FALSE
  OBVIOUS
<1>1. PICK n \in S : \A m \in S : ~(m < n)
  BY Smallest
<1>2. CASE n = 0
  <2> DEFINE f == [k \in 0..0 |-> 0]
  <2>1. f = [k \in 0..0 |-> SumTurn(f, data, k)]
    BY DEF SumTurn
  <2> QED
    BY <1>1, <1>2, <2>1 DEF IsSum
<1>3. CASE n # 0
  <2>1. n - 1 \in Nat /\ n - 1 < n /\ n \in Nat
    BY <1>1, <1>3
  <2>2. PICK f : IsSum(f, data, n - 1)
    BY <1>1, <2>1
  <2> DEFINE g == [k \in 0..n |-> IF k = n THEN SumTurn(f, data, n) ELSE f[k]]
  <2>3. ASSUME NEW k \in 0..n PROVE g[k] = SumTurn(g, data, k)
    <3>1. k - 1 \in 0..(n - 1) => g[k - 1] = f[k - 1]
      BY <2>1
    <3>2. SumTurn(g, data, k) = SumTurn(f, data, k)
      BY <3>1, <2>1 DEF SumTurn
    <3>3. k # n => f[k] = SumTurn(f, data, k)
      BY <2>1, <2>2 DEF IsSum
    <3> QED
      BY <3>2, <3>3
  <2>4. IsSum(g, data, n)
    BY <2>3 DEF IsSum
  <2> QED
    BY <1>1, <2>4
<1> QED
  BY <1>2, <1>3

(* A sum of numbers is one.                                                *)
LEMMA SumIsNat ==
  ASSUME NEW last \in Nat, NEW data, \A i \in 1..last : data[i] \in Nat,
         NEW f, IsSum(f, data, last)
  PROVE  \A i \in 0..last : f[i] \in Nat
<1> DEFINE S == {n \in 0..last : f[n] \notin Nat}
<1> SUFFICES ASSUME S # {} PROVE FALSE
  OBVIOUS
<1>1. PICK n \in S : \A m \in S : ~(m < n)
  <2>1. S \subseteq Nat
    OBVIOUS
  <2> HIDE DEF S
  <2> QED
    BY <2>1, Smallest
<1>2. n \in 0..last /\ f[n] \notin Nat /\ f[n] = SumTurn(f, data, n)
  BY <1>1 DEF IsSum
<1>3. n # 0
  BY <1>2 DEF SumTurn
<1>4. n - 1 \in 0..last /\ n - 1 < n /\ n \in 1..last
  BY <1>2, <1>3
<1>5. f[n - 1] \in Nat
  BY <1>1, <1>4
<1> QED
  BY <1>2, <1>3, <1>4, <1>5 DEF SumTurn

(* The 8-bit sum is the sum in 8 bits, and exists because that does.       *)
LEMMA CsumExists ==
  ASSUME NEW last \in Nat, NEW data, \A i \in 1..last : data[i] \in Nat
  PROVE  \E f : IsCsum(f, data, last)
<1>1. PICK s : IsSum(s, data, last)
  BY SumExists
<1>2. \A i \in 0..last : s[i] \in Nat
  BY <1>1, SumIsNat
<1> DEFINE f == [i \in 0..last |-> s[i] % 256]
<1>3. ASSUME NEW i \in 0..last PROVE f[i] = CsumTurn(f, data, i)
  <2>1. s[i] = SumTurn(s, data, i)
    BY <1>1 DEF IsSum
  <2>2. CASE i = 0
    BY <2>1, <2>2 DEF SumTurn, CsumTurn
  <2>3. CASE i # 0
    <3>1. i - 1 \in 0..last /\ i \in 1..last
      BY <2>3
    <3>2. s[i] = s[i - 1] + data[i] /\ s[i - 1] \in Nat /\ data[i] \in Nat
      BY <1>2, <2>1, <2>3, <3>1 DEF SumTurn
    <3>3. ((s[i - 1] % 256) + data[i]) % 256 = (s[i - 1] + data[i]) % 256
      BY <3>2, ModSum
    <3> QED
      BY <2>3, <3>1, <3>2, <3>3 DEF CsumTurn
  <2> QED
    BY <2>2, <2>3
<1>4. IsCsum(f, data, last)
  BY <1>3 DEF IsCsum
<1> QED
  BY <1>4

(* And it is that sum, in 8 bits.                                          *)
LEMMA CsumIsSum ==
  ASSUME NEW last \in Nat, NEW data, \A i \in 1..last : data[i] \in Nat,
         NEW s, IsSum(s, data, last), NEW c, IsCsum(c, data, last)
  PROVE  \A i \in 0..last : c[i] = s[i] % 256
<1> DEFINE S == {n \in 0..last : c[n] # s[n] % 256}
<1>0. \A i \in 0..last : s[i] \in Nat
  BY SumIsNat
<1> SUFFICES ASSUME S # {} PROVE FALSE
  OBVIOUS
<1>1. PICK n \in S : \A m \in S : ~(m < n)
  <2>1. S \subseteq Nat
    OBVIOUS
  <2> HIDE DEF S
  <2> QED
    BY <2>1, Smallest
<1>2. /\ n \in 0..last /\ c[n] # s[n] % 256
      /\ s[n] = SumTurn(s, data, n) /\ c[n] = CsumTurn(c, data, n)
  BY <1>1 DEF IsSum, IsCsum
<1>3. n # 0
  <2> SUFFICES ASSUME n = 0 PROVE FALSE
    OBVIOUS
  <2>1. s[n] = 0 /\ c[n] = 0
    BY <1>2 DEF SumTurn, CsumTurn
  <2> QED
    BY <1>2, <2>1
<1>4. n - 1 \in 0..last /\ n - 1 < n /\ n \in 1..last
  BY <1>2, <1>3
<1>5. c[n - 1] = s[n - 1] % 256
  BY <1>1, <1>4
<1>6. /\ s[n] = s[n - 1] + data[n] /\ s[n - 1] \in Nat /\ data[n] \in Nat
      /\ c[n] = (c[n - 1] + data[n]) % 256
  BY <1>0, <1>2, <1>3, <1>4 DEF SumTurn, CsumTurn
<1>7. ((s[n - 1] % 256) + data[n]) % 256 = (s[n - 1] + data[n]) % 256
  BY <1>6, ModSum
<1> QED
  BY <1>2, <1>5, <1>6, <1>7

(* Two packets with the same first bytes have the same sum.                *)
LEMMA SameBytes ==
  ASSUME NEW last \in Nat, NEW d, NEW e, \A i \in 1..last : d[i] = e[i],
         NEW f, IsSum(f, d, last)
  PROVE  IsSum(f, e, last)
<1>1. ASSUME NEW i \in 0..last PROVE SumTurn(f, d, i) = SumTurn(f, e, i)
  BY DEF SumTurn
<1> QED
  BY <1>1 DEF IsSum

-----------------------------------------------------------------------------
(* What a byte is, without the set of inputs.                              *)
LEMMA ByteIsNat ==
  /\ \A x \in Byte : x \in Nat /\ x \in 0..255
  /\ \A x \in 0..255 : x \in Byte
<1>1. Byte = 0..255
  BY PacketsAssumption
<1>2. \A x \in 0..255 : x \in Nat
  OBVIOUS
<1> QED
  BY <1>1, <1>2, Zenon

(* A packet starts out as bytes.                                           *)
LEMMA HeaderIsBytes ==
  ASSUME NEW part \in Parts, NEW i \in 0..Last
  PROVE  Header(part)[i] \in Byte
<1>1. part \in 1..4
  BY DEF Parts
<1>2. 64 * (part - 1) \in 0..255
  BY <1>1
<1>3. Header(part)[i] \in {0, 2, 49, 6, 53, 66, 64 * (part - 1)}
  BY DEF Header
<1>4. Header(part)[i] \in 0..255
  BY <1>2, <1>3
<1> QED
  BY <1>4, ByteIsNat

(* A packet is 69 bytes.                                                   *)
LEMMA InsertIsBytes ==
  ASSUME NEW part \in Parts, NEW m \in Seq(Byte), Len(m) \in 1..MaxText
  PROVE  insertMessage(part, Header(part), m) \in [0..Last -> Byte]
<1>1. Reads(part, Len(m)) \subseteq 1..Len(m)
  BY ReadsInRange
<1>2. Len(m) % 256 \in Byte
  <2>1. Len(m) \in 0..255
    BY DEF MaxText
  <2>2. \A n \in 0..255 : n % 256 = n
    OBVIOUS
  <2>3. Len(m) % 256 = Len(m)
    BY <2>1, <2>2, Zenon
  <2> QED
    BY <2>1, <2>3, ByteIsNat, Zenon
<1>3. \A c \in 1..Len(m) : m[c] \in Byte
  OBVIOUS
<1>4. ASSUME NEW i \in 0..Last PROVE insertMessage(part, Header(part), m)[i] \in Byte
  BY <1>1, <1>2, <1>3, HeaderIsBytes DEF insertMessage
<1> QED
  BY <1>4 DEF insertMessage

(* The slot is put in as a byte.                                           *)
LEMMA NumberIsByte ==
  ASSUME NEW d \in [0..Last -> Byte], NEW p \in Slots
  PROVE  setMessageNumber(d, p) \in [0..Last -> Byte]
<1> USE PacketsAssumption
<1>1. p \in 1..6
  OBVIOUS
<1>2. (5 + p) % 256 \in Byte
  BY <1>1
<1> QED
  BY <1>2 DEF setMessageNumber

(* doChkSum puts the sum of bytes 1 to 67 into byte 68, in 8 bits.         *)
LEMMA ChkSum ==
  ASSUME NEW d \in [0..Last -> Byte]
  PROVE  /\ doChkSum(d) \in [0..Last -> Byte]
         /\ \A i \in 0..(Last - 1) : doChkSum(d)[i] = d[i]
         /\ \A s : IsSum(s, d, Last - 1) => doChkSum(d)[Last] = s[Last - 1] % 256
<1> DEFINE csum == CHOOSE f : IsCsum(f, d, Last - 1)
<1>1. Last - 1 \in Nat /\ \A i \in 1..(Last - 1) : d[i] \in Nat
  <2>1. Last = 68
    BY DEF Last
  <2>2. ASSUME NEW i \in 1..(Last - 1) PROVE d[i] \in Nat
    <3>1. i \in 0..Last
      BY <2>1
    <3>2. d[i] \in Byte
      BY <3>1
    <3> QED
      BY <3>2, ByteIsNat
  <2> QED
    BY <2>1, <2>2
<1>2. IsCsum(csum, d, Last - 1)
  BY <1>1, CsumExists
<1>3. doChkSum(d) = [d EXCEPT ![Last] = csum[Last - 1]]
  BY DEF doChkSum, IsCsum, CsumTurn
<1> HIDE DEF csum
<1>4. Last - 1 \in 0..(Last - 1) /\ Last \in 0..Last
  BY DEF Last
<1>5. \A s : IsSum(s, d, Last - 1) => s[Last - 1] \in Nat /\ csum[Last - 1] = s[Last - 1] % 256
  BY <1>1, <1>2, <1>4, SumIsNat, CsumIsSum
<1>6. PICK s : IsSum(s, d, Last - 1)
  BY <1>1, SumExists
<1>7. csum[Last - 1] \in Byte
  <2>1. s[Last - 1] \in Nat /\ csum[Last - 1] = s[Last - 1] % 256
    BY <1>5, <1>6
  <2>2. s[Last - 1] % 256 \in 0..255
    BY <2>1, ModSum
  <2> QED
    BY <2>1, <2>2, ByteIsNat
<1>8. \A i \in 0..(Last - 1) : i # Last /\ i \in 0..Last
  BY DEF Last
<1> QED
  BY <1>3, <1>4, <1>5, <1>7, <1>8

(* So a packet is 69 bytes, with its slot, its place and its checksum.     *)
LEMMA PacketBytes ==
  ASSUME NEW part \in Parts, NEW m \in Seq(Byte), Len(m) \in 1..MaxText,
         NEW p \in Slots
  PROVE  Packet(part, m, p) \in [0..Last -> Byte]
BY InsertIsBytes, NumberIsByte, ChkSum DEF Packet

(* setMessageNumber and the part of the header that no text reaches, then  *)
(* the sum of both.                                                        *)
LEMMA PacketIsAddressed ==
  ASSUME NEW part \in Parts, NEW m \in Seq(Byte), Len(m) \in 1..MaxText,
         NEW p \in Slots, NEW d, d = Packet(part, m, p)
  PROVE  /\ d[2] = 5 + p /\ d[3] = 64 * (part - 1)
         /\ \A s : IsSum(s, d, Last - 1) => d[Last] = s[Last - 1] % 256
<1> DEFINE h == insertMessage(part, Header(part), m)
           e == setMessageNumber(h, p)
<1>1. h \in [0..Last -> Byte] /\ e \in [0..Last -> Byte]
  BY InsertIsBytes, NumberIsByte
<1>2. Last = 68 /\ part \in 1..4 /\ p \in 1..6
  BY PacketsAssumption DEF Last, Parts
<1>3. e[2] = 5 + p
  <2>1. e[2] = (5 + p) % 256
    BY <1>1, <1>2 DEF setMessageNumber
  <2>2. (5 + p) % 256 = 5 + p
    BY <1>2
  <2> QED
    BY <2>1, <2>2
<1>4. e[3] = 64 * (part - 1)
  <2>1. 3 \in 0..Last /\ ~(3 >= StartPos(part)) /\ ~(3 = 7)
    BY <1>2 DEF StartPos
  <2>2. Header(part)[3] = 64 * (part - 1)
    BY <2>1 DEF Header
  <2>3. h[3] = Header(part)[3]
    BY <2>1 DEF insertMessage
  <2> QED
    BY <1>1, <2>1, <2>2, <2>3 DEF setMessageNumber
<1> HIDE DEF e
<1>5. d = doChkSum(e)
  BY DEF Packet, e
<1>6. /\ \A i \in 0..(Last - 1) : d[i] = e[i]
      /\ \A s : IsSum(s, e, Last - 1) => d[Last] = s[Last - 1] % 256
  <2>1. e \in [0..Last -> Byte]
    BY <1>1
  <2>2. /\ \A i \in 0..(Last - 1) : doChkSum(e)[i] = e[i]
        /\ \A s : IsSum(s, e, Last - 1) => doChkSum(e)[Last] = s[Last - 1] % 256
    BY <2>1, ChkSum, Zenon
  <2> QED
    BY <1>5, <2>2, Zenon
<1>7. d[2] = e[2] /\ d[3] = e[3]
  BY <1>2, <1>6
<1>8. ASSUME NEW s, IsSum(s, d, Last - 1) PROVE d[Last] = s[Last - 1] % 256
  <2>1. Last - 1 \in Nat /\ \A i \in 1..(Last - 1) : d[i] = e[i]
    BY <1>2, <1>6
  <2>2. IsSum(s, e, Last - 1)
    BY <1>8, <2>1, SameBytes
  <2> QED
    BY <1>6, <2>2
<1> QED
  BY <1>3, <1>4, <1>7, <1>8

SlotOK == pos \in Slots /\ thrown \in BOOLEAN

(* The position is one setMessage may be given, at every step.             *)
LEMMA SlotInv == Spec => []SlotOK
<1>1. Init => SlotOK
  BY DEF Init, SlotOK
<1>2. SlotOK /\ [Next]_vars => SlotOK'
  BY DEF Next, Build, vars, SlotOK
<1> QED
  BY <1>1, <1>2, PTL DEF Spec

(* Type correctness: a text of 1 to 250 bytes, and packets of 69 bytes.    *)
THEOREM TypeCorrect == Spec => []TypeOK
<1>1. Built /\ SlotOK => TypeOK
  <2> SUFFICES ASSUME Built, SlotOK PROVE TypeOK
    OBVIOUS
  <2>1. \A part \in Parts : Packet(part, message, pos) \in [0..Last -> Byte]
    BY PacketBytes DEF Built, SlotOK
  <2>2. packets \in Seq({Packet(part, message, pos) : part \in Parts})
    BY DEF Built
  <2>3. packets \in Seq([0..Last -> Byte])
    <3>1. {Packet(part, message, pos) : part \in Parts} \subseteq [0..Last -> Byte]
      BY <2>1
    <3> DEFINE P == {Packet(part, message, pos) : part \in Parts}
               B == [0..Last -> Byte]
    <3>2. packets \in Seq(P) /\ P \subseteq B
      BY <2>2, <3>1
    <3> HIDE DEF P, B
    <3>3. packets \in Seq(B)
      BY <3>2
    <3> QED
      BY <3>3 DEF B
  <2> QED
    BY <2>3 DEF Built, SlotOK, TypeOK
<1> QED
  BY <1>1, BuiltInv, SlotInv, PTL

(* Every packet built carries its slot, its place in the text and the      *)
(* checksum of its bytes, the slot's among them: setMessageNumber comes    *)
(* before doChkSum, which the sum in 8 bits is enough for.                 *)
THEOREM EveryPacketIsAddressed == Spec => []Addressed
<1>1. Built /\ SlotOK => Addressed
  <2> SUFFICES ASSUME Built, SlotOK, NEW part \in 1..Len(packets)
               PROVE  LET d == packets[part]
                          sum[i \in 0..(Last - 1)] ==
                            IF i = 0 THEN 0 ELSE sum[i - 1] + d[i]
                      IN  /\ d[2] = 5 + pos /\ d[3] = 64 * (part - 1)
                          /\ d[Last] = sum[Last - 1] % 256
    BY DEF Addressed
  <2> DEFINE d == packets[part]
             sum == CHOOSE f : IsSum(f, d, Last - 1)
  <2>1. part \in Parts /\ d = Packet(part, message, pos)
    BY DEF Built, Parts
  <2>2. /\ d[2] = 5 + pos /\ d[3] = 64 * (part - 1)
        /\ \A s : IsSum(s, d, Last - 1) => d[Last] = s[Last - 1] % 256
    BY <2>1, PacketIsAddressed DEF Built, SlotOK
  <2>3. IsSum(sum, d, Last - 1)
    <3>1. Last - 1 \in Nat
      BY DEF Last
    <3> QED
      BY <3>1, SumExists
  <2>4. d[Last] = sum[Last - 1] % 256
    BY <2>2, <2>3
  <2> QED
    BY <2>2, <2>4 DEF IsSum, SumTurn
<1> QED
  BY <1>1, BuiltInv, SlotInv, PTL
=============================================================================
