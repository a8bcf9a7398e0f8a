-------------------------- MODULE CliSessionProofs --------------------------
(***************************************************************************)
(* What holds of a session for every account, every line, every history    *)
(* and every length of them: the prompt tells what the session may do, the *)
(* array is the line that the keys mean, what is typed at a password       *)
(* prompt stays there, and only filters are ever installed.                *)
(*                                                                         *)
(* The lemmas come in the order of the model: the command tree, the array  *)
(* and its keys, the history and completion, and running a line.           *)
(***************************************************************************)
EXTENDS CliSession, WellFoundedInduction, SequenceTheorems, FiniteSetTheorems, TLAPS

CONSTANT
  Echoed      (* The chunks that a prompt which echoes may show: those     *)
              (* typed at one, and the lines that completion makes.        *)

(* StateMatchesPrivilege, with the values its variables can have.          *)
IInv ==
  /\ privilege \in {UNPRIVILEGED, PRIVILEGED}
  /\ mode \in {EXEC, CONFIG}
  /\ StateMatchesPrivilege

-----------------------------------------------------------------------------
(* The command tree.                                                       *)

(* A set of numbers has a smallest one.                                    *)
LEMMA Smallest ==
  ASSUME NEW S, S \subseteq Nat, S # {}
  PROVE  \E x \in S : \A y \in S : x <= y
<1>1. PICK x \in S : \A y \in S : <<y, x>> \notin OpToRel(<, Nat)
  BY NatLessThanWellFounded, WFMin, Zenon
<1>2. ASSUME NEW y \in S PROVE x <= y
  <2>1. <<y, x>> \notin {ss \in Nat \X Nat : ss[1] < ss[2]}
    BY <1>1 DEF OpToRel
  <2>2. ~(y < x) /\ x \in Nat /\ y \in Nat
    BY <2>1
  <2> QED
    BY <2>2
<1> QED
  BY <1>2

(* And Min is it.                                                          *)
LEMMA MinIsMember ==
  ASSUME NEW S, S \subseteq Nat, S # {}
  PROVE  Min(S) \in S
  BY Smallest DEF Min

(* What matters here of a command, wherever it is in the tree.             *)
Guarded(c) == c.name = "terminal" => c.privilege = PRIVILEGED

(* The commands of libcli's own.                                           *)
LEMMA LibcliIsGuarded ==
  Len(OfLibcli) = 9 /\ \A i \in 1 .. 9 : Guarded(OfLibcli[i])
<1>1. Len(OfLibcli) = 9
  BY DEF OfLibcli
<1>2. ASSUME NEW i \in 1 .. 9 PROVE Guarded(OfLibcli[i])
  BY DEF OfLibcli, Command, Guarded, PRIVILEGED
<1> QED
  BY <1>1, <1>2

(* The commands of the daemon.                                             *)
LEMMA DaemonIsGuarded ==
  Len(OfDaemon) = 15 /\ \A i \in 1 .. 15 : Guarded(OfDaemon[i])
<1>1. Len(OfDaemon) = 15
  BY DEF OfDaemon
<1>2. ASSUME NEW i \in 1 .. 15 PROVE Guarded(OfDaemon[i])
  BY DEF OfDaemon, Command, Guarded, PRIVILEGED
<1> QED
  BY <1>1, <1>2

(* Only a privileged session is offered the command that enters the        *)
(* configuration mode.                                                     *)
LEMMA TreeIsGuarded == Ids \subseteq Nat /\ \A i \in Ids : Guarded(Tree[i])
<1> DEFINE C == {OfLibcli[i] : i \in 1 .. 9} \cup {OfDaemon[i] : i \in 1 .. 15}
<1>1. OfLibcli \in Seq(C)
  <2>1. OfLibcli = [i \in 1 .. 9 |-> OfLibcli[i]]
    BY DEF OfLibcli
  <2> QED
    BY <2>1
<1>2. OfDaemon \in Seq(C)
  <2>1. OfDaemon = [i \in 1 .. 15 |-> OfDaemon[i]]
    BY DEF OfDaemon
  <2> QED
    BY <2>1
<1> HIDE DEF C
<1>3. /\ Len(Tree) = 24
      /\ Tree \in Seq(C)
      /\ \A i \in 1 .. 24 : Tree[i] = IF i <= 9 THEN OfLibcli[i] ELSE OfDaemon[i - 9]
  <2> DEFINE both == OfLibcli \o OfDaemon
  <2>1. /\ both \in Seq(C)
        /\ Len(both) = Len(OfLibcli) + Len(OfDaemon)
        /\ \A i \in 1 .. Len(OfLibcli) + Len(OfDaemon) :
             both[i] = IF i <= Len(OfLibcli) THEN OfLibcli[i] ELSE OfDaemon[i - Len(OfLibcli)]
    BY <1>1, <1>2, ConcatProperties, Zenon
  <2>2. Tree = both
    BY DEF Tree
  <2> HIDE DEF both
  <2>3. Len(OfLibcli) = 9 /\ Len(OfDaemon) = 15 /\ 9 + 15 = 24
    BY LibcliIsGuarded, DaemonIsGuarded
  <2> QED
    BY <2>1, <2>2, <2>3, Zenon
<1>4. Ids = 1 .. 24
  BY <1>3 DEF Ids
<1>5. ASSUME NEW i \in 1 .. 24 PROVE Guarded(Tree[i])
  <2>1. CASE i <= 9
    <3>1. i \in 1 .. 9
      BY <2>1
    <3>2. Tree[i] = OfLibcli[i]
      BY <1>3, <2>1, Zenon
    <3> QED
      BY <3>1, <3>2, LibcliIsGuarded, Zenon
  <2>2. CASE i > 9
    <3>1. i - 9 \in 1 .. 15 /\ ~(i <= 9)
      BY <2>2
    <3>2. Tree[i] = OfDaemon[i - 9]
      BY <1>3, <3>1, Zenon
    <3> QED
      BY <3>1, <3>2, DaemonIsGuarded, Zenon
  <2> QED
    BY <2>1, <2>2
<1> QED
  BY <1>4, <1>5

(* The commands the session may use, or none.                              *)
Usable == {0} \cup {i \in Ids : Tree[i].privilege <= privilege}

(* Looking a word up leads to a command that the session may use.          *)
LEMMA ChosenIsUsable == ASSUME NEW parent, NEW word PROVE Chosen(parent, word) \in Usable
<1> DEFINE S == {i \in Children(parent) : Matches(i, word) /\ Tree[i].mode \in {mode, ANY}}
           any == {i \in S : Tree[i].mode = ANY}
           direct == {i \in S : Tree[i].mode = mode \/ \E j \in any : i \in any /\ j < i}
<1>1. S \subseteq Usable /\ S \subseteq Nat
  BY TreeIsGuarded DEF Children, Matches, Usable
<1>2. direct # {} => Min(direct) \in S
  <2>1. direct \subseteq Nat
    BY <1>1
  <2> QED
    BY <2>1, MinIsMember
<1>3. any # {} => Min(any) \in S
  <2>1. any \subseteq Nat
    BY <1>1
  <2> QED
    BY <2>1, MinIsMember
<1>4. Chosen(parent, word) =
        IF direct # {} THEN Min(direct) ELSE IF any # {} THEN Min(any) ELSE 0
  BY DEF Chosen, Preferred
<1> HIDE DEF S, any, direct
<1>5. 0 \in Usable
  BY DEF Usable
<1> QED
  BY <1>1, <1>2, <1>3, <1>4, <1>5

(* And so does a line.                                                     *)
LEMMA FoundIsUsable == ASSUME NEW words PROVE Found(words) \in Usable
<1> DEFINE top == Chosen(0, words[1])
<1>1. top \in Usable /\ Chosen(top, words[2]) \in Usable /\ 0 \in Usable
  BY ChosenIsUsable DEF Usable
<1>2. Own(top) \in Usable
  BY <1>1 DEF Own
<1> HIDE DEF top
<1>3. Under(top, words) \in Usable
  BY <1>1, <1>2 DEF Under
<1> QED
  BY <1>1, <1>3 DEF Found, top

-----------------------------------------------------------------------------
(* The steps.                                                              *)

(* A session begins at the login.                                          *)
LEMMA InitInv == Init => IInv
<1> SUFFICES ASSUME Init PROVE IInv
  OBVIOUS
<1>1. state = "LOGIN" /\ privilege = UNPRIVILEGED /\ mode = EXEC
  BY Zenon DEF Init, CommandsInit
<1> QED
  BY <1>1 DEF IInv, StateMatchesPrivilege, UNPRIVILEGED, PRIVILEGED, EXEC, CONFIG

(* What a command does to the session.  The mode is entered by a command   *)
(* only the privileged may use, and every loss of the privilege leaves it. *)
LEMMA EffectInv ==
  ASSUME IInv, state \in {"NORMAL", "ENABLE"},
         NEW id \in Usable, id # 0, Effect(Tree[id].name)
  PROVE  IInv'
<1> DEFINE name == Tree[id].name
<1> USE DEF IInv, StateMatchesPrivilege, Become, UNPRIVILEGED, PRIVILEGED, EXEC, CONFIG
<1>1. CASE name = "enable" /\ state' = Asked /\ UNCHANGED <<privilege, mode, unique>>
  BY <1>1 DEF Asked
<1>2. CASE name = "disable" /\ Become(UNPRIVILEGED, EXEC) /\ UNCHANGED state
  BY <1>2
<1>3. CASE name = "terminal" /\ Become(privilege, CONFIG) /\ UNCHANGED state
  <2>1. id \in Ids /\ Tree[id].privilege <= privilege
    BY DEF Usable
  <2>2. Tree[id].privilege = 15
    BY <1>3, <2>1, TreeIsGuarded DEF Guarded
  <2>3. privilege = 15
    BY <2>1, <2>2
  <2> QED
    BY <1>3, <2>3
<1>4. CASE name = "exit" /\ mode = CONFIG /\ Become(privilege, EXEC) /\ UNCHANGED state
  BY <1>4
<1>5. CASE Quit
  BY <1>5 DEF Quit
<1>6. CASE UNCHANGED <<state, privilege, mode, unique>>
  BY <1>6
<1> QED
  BY <1>1, <1>2, <1>3, <1>4, <1>5, <1>6 DEF Effect

(* A line does to the session what its command does, or nothing.           *)
LEMMA RunInv ==
  ASSUME IInv, state \in {"NORMAL", "ENABLE"}, NEW words, Run(words)
  PROVE  IInv'
<1>1. CASE UNCHANGED <<state, privilege, mode, unique>>
  BY <1>1 DEF IInv, StateMatchesPrivilege, UNPRIVILEGED, PRIVILEGED, EXEC, CONFIG
<1>2. CASE Found(words) # 0 /\ Effect(Tree[Found(words)].name)
  BY <1>2, FoundIsUsable, EffectInv
<1> QED
  BY <1>1, <1>2 DEF Run, Carry, Answer, Refuse, Call

(* The end of a line: the login, a password, a command.                    *)
LEMMA LineEndsInv ==
  ASSUME IInv, NEW e, NEW again, LineEnds(e, again)
  PROVE  IInv'
<1> PICK line :
      \/ Quietly /\ UNCHANGED <<state, username>>
      \/ state = "LOGIN" /\ state' = "PASSWORD" /\ Quietly
      \/ Login(line)
      \/ AnswerEnable(line = EnablePass)
      \/ state \in {"NORMAL", "ENABLE"} /\ \E words \in {Words(line)} : Run(words)
  BY DEF LineEnds
<1> USE DEF IInv, StateMatchesPrivilege, UNPRIVILEGED, PRIVILEGED, EXEC, CONFIG
<1>1. CASE Quietly /\ UNCHANGED <<state, username>>
  BY <1>1 DEF Quietly
<1>2. CASE state = "LOGIN" /\ state' = "PASSWORD" /\ Quietly
  BY <1>2 DEF Quietly
<1>3. CASE Login(line)
  BY <1>3 DEF Login, Quietly
<1>4. CASE AnswerEnable(line = EnablePass)
  BY <1>4 DEF AnswerEnable, Become
<1>5. CASE state \in {"NORMAL", "ENABLE"} /\ \E words \in {Words(line)} : Run(words)
  BY <1>5, RunInv
<1> QED
  BY <1>1, <1>2, <1>3, <1>4, <1>5

(* The keys that edit a line leave the prompt and the privilege alone.     *)
LEMMA EditInv ==
  ASSUME IInv, UNCHANGED <<state, privilege, mode>>
  PROVE  IInv'
  BY DEF IInv, StateMatchesPrivilege, UNPRIVILEGED, PRIVILEGED, EXEC, CONFIG

(* Every key and every end of the session.                                 *)
LEMMA NextInv == IInv /\ [Next]_vars => IInv'
<1> SUFFICES ASSUME IInv, [Next]_vars PROVE IInv'
  OBVIOUS
<1> USE DEF Edit, Renew, Same
<1>1. CASE Type
  BY <1>1, EditInv DEF Type
<1>2. CASE Enter
  BY <1>2, LineEndsInv DEF Enter
<1>3. CASE QuestionMark
  BY <1>3, LineEndsInv DEF QuestionMark
<1>4. CASE Over
  BY <1>4 DEF Over, Quietly, IInv, StateMatchesPrivilege, UNPRIVILEGED, PRIVILEGED, EXEC, CONFIG
<1>5. CASE Backspace
  BY <1>5, EditInv DEF Backspace
<1>6. CASE EraseWord
  BY <1>6, EditInv DEF EraseWord
<1>7. CASE KillToEnd
  BY <1>7, EditInv DEF KillToEnd
<1>8. CASE ClearLine
  BY <1>8, EditInv DEF ClearLine
<1>9. CASE Left
  BY <1>9, EditInv DEF Left
<1>10. CASE Right
  BY <1>10, EditInv DEF Right
<1>11. CASE Home
  BY <1>11, EditInv DEF Home
<1>12. CASE ToEnd
  BY <1>12, EditInv DEF ToEnd
<1>13. CASE ControlZ
  BY <1>13 DEF ControlZ, LeaveConfig, Become, IInv, StateMatchesPrivilege,
               UNPRIVILEGED, PRIVILEGED, EXEC, CONFIG
<1>14. CASE Up
  BY <1>14, EditInv DEF Up, Recall
<1>15. CASE Down
  BY <1>15, EditInv DEF Down, Recall
<1>16. CASE Complete
  BY <1>16, EditInv DEF Complete
<1>17. CASE UNCHANGED vars
  BY <1>17, EditInv DEF vars, cli
<1> QED
  BY <1>1, <1>2, <1>3, <1>4, <1>5, <1>6, <1>7, <1>8, <1>9, <1>10, <1>11, <1>12, <1>13,
     <1>14, <1>15, <1>16, <1>17 DEF Next

-----------------------------------------------------------------------------

(* The values and the invariant hold in every reachable state.             *)
THEOREM Invariance == Spec => []IInv
  BY InitInv, NextInv, PTL DEF Spec

(* The prompt tells the privilege, and only a privileged session is in the *)
(* configuration mode: nothing typed, repeated, abbreviated, completed or  *)
(* asked about with a question mark gets around it.                        *)
THEOREM PromptTellsPrivilege == Spec => []StateMatchesPrivilege
<1>1. IInv => StateMatchesPrivilege
  BY DEF IInv
<1> QED
  BY <1>1, Invariance, PTL
-----------------------------------------------------------------------------
(* The line editor.                                                        *)

Longest == Max({MaxLine, MaxEntry})

(* The array with its length and its cursor, whatever its cells hold.      *)
Array(e, S) ==
  /\ e = Line(e.cmd, e.l, e.cursor)
  /\ e.cmd \in [1 .. Size -> S] /\ e.cmd[Size] = NUL
  /\ e.l \in 0 .. Longest /\ e.cursor \in 0 .. e.l

(* Nothing is left behind the line.                                        *)
Tidy(e) == \A i \in (e.l + 1) .. Size : e.cmd[i] = NUL

(* A cell of the line that w means.                                        *)
Meaning(w, i) ==
  IF i <= Len(w.before) THEN w.before[i]
  ELSE IF i <= Len(w.before) + Len(w.after) THEN w.after[i - Len(w.before)]
  ELSE NUL

(* The array holds the line that w means, made of the chunks of E.         *)
Shows(e, w, E) ==
  /\ w = Pair(w.before, w.after)
  /\ w.before \in Seq(E) /\ w.after \in Seq(E)
  /\ e.cursor = Len(w.before) /\ e.l = Len(w.before) + Len(w.after)
  /\ \A i \in 1 .. Size : e.cmd[i] = Meaning(w, i)

(* Sequences with the same cells are the same.                             *)
LEMMA SameSeq ==
  ASSUME NEW E, NEW s \in Seq(E), NEW t \in Seq(E), Len(s) = Len(t),
         \A i \in 1 .. Len(t) : s[i] = t[i]
  PROVE  s = t
OBVIOUS

(* No line is longer than the longer of the two bounds.                    *)
LEMMA LongestIsMax ==
  /\ Longest \in Nat /\ Longest >= 1 /\ Longest + 2 <= Size /\ Size \in Nat
  /\ MaxLine <= Longest /\ MaxEntry <= Longest
<1> USE LineEditorAssumption
<1> DEFINE S == {MaxLine, MaxEntry}
<1>1. \E x \in S : \A y \in S : x >= y
  <2>1. CASE MaxLine >= MaxEntry
    BY <2>1
  <2>2. CASE MaxEntry >= MaxLine
    BY <2>2
  <2> QED
    BY <2>1, <2>2
<1>2. Longest \in S /\ \A y \in S : Longest >= y
  <2> HIDE LineEditorAssumption
  <2> HIDE DEF S
  <2>1. Max(S) \in S /\ \A y \in S : Max(S) >= y
    BY <1>1 DEF Max
  <2> QED
    BY <2>1 DEF Longest, S
<1> QED
  BY <1>2

(* The array has a last cell behind every line.                            *)
LEMMA SizeFacts == Size \in Nat /\ Size \in 1 .. Size /\ Longest \in Nat /\ Longest + 2 <= Size
  BY LongestIsMax

(* The cells of a sequence.                                                *)
LEMMA Elements ==
  ASSUME NEW E, NEW s \in Seq(E)
  PROVE  Len(s) \in Nat /\ \A i \in 1 .. Len(s) : s[i] \in E
OBVIOUS

(* The first NUL ends the text.                                            *)
LEMMA TextEnds ==
  ASSUME NEW S, NEW e, Array(e, S)
  PROVE  \E n \in 0 .. (Size - 1) :
           /\ Text(e) = SubSeq(e.cmd, 1, n) /\ Text(e) \in Seq(S \ {NUL}) /\ Len(Text(e)) = n
           /\ \A i \in 1 .. n : Text(e)[i] = e.cmd[i] /\ e.cmd[i] # NUL
           /\ e.cmd[n + 1] = NUL
<1> DEFINE Z == {i \in 1 .. Size : e.cmd[i] = NUL}
<1>1. Size \in Z /\ Z \subseteq Nat
  BY SizeFacts DEF Array
<1> DEFINE m == Min(Z)
<1>2. m \in Z /\ \A i \in Z : m <= i
  <2>1. PICK x \in Z : \A y \in Z : x <= y
    <3> HIDE DEF Z
    <3> QED
      BY <1>1, Smallest, Zenon
  <2> HIDE DEF Z
  <2> QED
    BY <2>1 DEF Min
<1> HIDE DEF m
<1>3. m \in 1 .. Size /\ e.cmd[m] = NUL
  BY <1>2
<1>4. \A i \in 1 .. (m - 1) : e.cmd[i] # NUL /\ e.cmd[i] \in S
  BY <1>2, <1>3, SizeFacts DEF Array
<1>5. Text(e) = SubSeq(e.cmd, 1, m - 1)
  BY DEF Text, m
<1>6. /\ Text(e) \in Seq(S \ {NUL}) /\ Len(Text(e)) = m - 1
      /\ \A i \in 1 .. (m - 1) : Text(e)[i] = e.cmd[i]
  <2>1. \A i \in 1 .. (m - 1) : e.cmd[i] \in S \ {NUL}
    BY <1>4
  <2>2. 1 \in Int /\ m - 1 \in Int /\ m - 1 >= 0
    BY <1>3, SizeFacts
  <2>3. /\ SubSeq(e.cmd, 1, m - 1) \in Seq(S \ {NUL})
        /\ Len(SubSeq(e.cmd, 1, m - 1)) = IF 1 <= m - 1 THEN (m - 1) - 1 + 1 ELSE 0
        /\ \A i \in 1 .. ((m - 1) - 1 + 1) : SubSeq(e.cmd, 1, m - 1)[i] = e.cmd[1 + i - 1]
    BY <2>1, <2>2, SubSeqProperties
  <2> QED
    BY <1>5, <2>2, <2>3
<1>7. m - 1 \in 0 .. (Size - 1) /\ (m - 1) + 1 = m
  BY <1>3, SizeFacts
<1> QED
  BY <1>3, <1>4, <1>5, <1>6, <1>7

(* The text of a tidy line holds no NUL and is not longer than the line.   *)
LEMMA TidyText ==
  ASSUME NEW S, NEW e, Array(e, S), Tidy(e)
  PROVE  Text(e) \in Seq(S \ {NUL}) /\ Len(Text(e)) \in 0 .. e.l
<1>1. PICK n \in 0 .. (Size - 1) :
           /\ Text(e) = SubSeq(e.cmd, 1, n) /\ Text(e) \in Seq(S \ {NUL}) /\ Len(Text(e)) = n
           /\ \A i \in 1 .. n : Text(e)[i] = e.cmd[i] /\ e.cmd[i] # NUL
           /\ e.cmd[n + 1] = NUL
  BY TextEnds
<1>2. n <= e.l
  <2> SUFFICES ASSUME n > e.l PROVE FALSE
    BY DEF Array
  <2>1. n \in 1 .. n /\ n \in (e.l + 1) .. Size
    BY SizeFacts DEF Array
  <2> QED
    BY <1>1, <2>1 DEF Tidy
<1> QED
  BY <1>1, <1>2

(* The text is the line that is meant, and nothing is left behind it.      *)
LEMMA ShownText ==
  ASSUME NEW S, NEW E, NUL \notin E, NEW e, NEW w, Array(e, S), Shows(e, w, E)
  PROVE  Text(e) = w.before \o w.after /\ Len(Text(e)) = e.l /\ Tidy(e)
<1>1. PICK n \in 0 .. (Size - 1) :
           /\ Text(e) = SubSeq(e.cmd, 1, n) /\ Text(e) \in Seq(S \ {NUL}) /\ Len(Text(e)) = n
           /\ \A i \in 1 .. n : Text(e)[i] = e.cmd[i] /\ e.cmd[i] # NUL
           /\ e.cmd[n + 1] = NUL
  BY TextEnds
<1> DEFINE b == Len(w.before)
           a == Len(w.after)
<1>2. /\ b \in Nat /\ a \in Nat /\ e.l = b + a /\ e.l \in 0 .. Longest
      /\ \A i \in 1 .. b : w.before[i] \in E
      /\ \A i \in 1 .. a : w.after[i] \in E
  <2>1. w.before \in Seq(E) /\ w.after \in Seq(E) /\ e.l = b + a
    BY DEF Shows
  <2>2. e.l \in 0 .. Longest
    BY DEF Array
  <2> QED
    BY <2>1, <2>2, Elements, Zenon
<1> HIDE DEF a, b
<1>3. \A i \in 1 .. Size :
        e.cmd[i] = IF i <= b THEN w.before[i] ELSE IF i <= b + a THEN w.after[i - b] ELSE NUL
  BY DEF Shows, Meaning, a, b
<1>4. \A i \in 1 .. e.l : e.cmd[i] # NUL
  <2> TAKE i \in 1 .. e.l
  <2>1. i \in 1 .. Size
    BY <1>2, SizeFacts
  <2>2. CASE i <= b
    <3>1. i \in 1 .. b
      BY <1>2, <2>2
    <3> QED
      BY <1>2, <1>3, <2>1, <2>2, <3>1
  <2>3. CASE ~(i <= b)
    <3>1. i - b \in 1 .. a /\ i <= b + a
      BY <1>2, <2>3
    <3> QED
      BY <1>2, <1>3, <2>1, <2>3, <3>1
  <2> QED
    BY <2>2, <2>3
<1>5. Tidy(e)
  <2> SUFFICES ASSUME NEW i \in (e.l + 1) .. Size PROVE e.cmd[i] = NUL
    BY DEF Tidy
  <2>1. i \in 1 .. Size /\ ~(i <= b) /\ ~(i <= b + a)
    BY <1>2, SizeFacts
  <2> QED
    BY <1>3, <2>1
<1>6. n = e.l
  <2>1. CASE n < e.l
    <3>1. n + 1 \in 1 .. e.l
      BY <1>2, <2>1
    <3> QED
      BY <1>1, <1>4, <3>1
  <2>2. CASE n > e.l
    <3>1. n \in 1 .. n /\ n \in (e.l + 1) .. Size
      BY <1>2, <2>2, SizeFacts
    <3> QED
      BY <1>1, <1>5, <3>1 DEF Tidy
  <2> QED
    BY <1>2, <2>1, <2>2
<1>7. Text(e) = w.before \o w.after
  <2> DEFINE both == w.before \o w.after
  <2>1. /\ both \in Seq(E) /\ Len(both) = b + a
        /\ \A i \in 1 .. (b + a) : both[i] = IF i <= b THEN w.before[i] ELSE w.after[i - b]
    BY ConcatProperties DEF Shows, a, b
  <2> HIDE DEF both
  <2>2. \A i \in 1 .. e.l : Text(e)[i] = both[i]
    <3> TAKE i \in 1 .. e.l
    <3>1. i \in 1 .. n /\ i \in 1 .. Size /\ i \in 1 .. (b + a) /\ i <= b + a
      BY <1>2, <1>6, SizeFacts
    <3> QED
      BY <1>1, <1>3, <2>1, <3>1
  <2>3. Text(e) \in Seq(S \ {NUL}) /\ Len(Text(e)) = Len(both)
    BY <1>1, <1>2, <1>6, <2>1
  <2>4. \A i \in 1 .. Len(both) : Text(e)[i] = both[i]
    BY <1>2, <2>1, <2>2
  <2>5. Text(e) = both
    <3> DEFINE t == Text(e)
    <3>1. /\ t \in Seq(S \ {NUL}) /\ both \in Seq(E) /\ Len(t) = Len(both)
          /\ \A i \in 1 .. Len(both) : t[i] = both[i]
      BY <2>1, <2>3, <2>4
    <3> HIDE DEF t
    <3>2. t = both
      BY <3>1
    <3> QED
      BY <3>2 DEF t
  <2> QED
    BY <2>5 DEF both
<1> QED
  BY <1>1, <1>5, <1>6, <1>7

(* What the array being shown means, cell by cell.                         *)
LEMMA ShownCells ==
  ASSUME NEW S, NEW E, NEW e, NEW w, Array(e, S), Shows(e, w, E)
  PROVE  /\ Len(w.before) \in Nat /\ Len(w.after) \in Nat
         /\ w.before \in Seq(E) /\ w.after \in Seq(E)
         /\ e.cursor = Len(w.before) /\ e.l = Len(w.before) + Len(w.after)
         /\ \A i \in 1 .. Len(w.before) : w.before[i] \in E
         /\ \A i \in 1 .. Len(w.after) : w.after[i] \in E
         /\ \A i \in 1 .. Size :
              e.cmd[i] = IF i <= e.cursor THEN w.before[i]
                         ELSE IF i <= e.l THEN w.after[i - e.cursor] ELSE NUL
<1>1. w.before \in Seq(E) /\ w.after \in Seq(E)
  BY DEF Shows
<1>2. /\ e.cursor = Len(w.before) /\ e.l = Len(w.before) + Len(w.after)
      /\ \A i \in 1 .. Size : e.cmd[i] = Meaning(w, i)
  BY DEF Shows
<1>3. /\ Len(w.before) \in Nat /\ Len(w.after) \in Nat
      /\ \A i \in 1 .. Len(w.before) : w.before[i] \in E
      /\ \A i \in 1 .. Len(w.after) : w.after[i] \in E
  BY <1>1, Elements, Zenon
<1>4. \A i \in 1 .. Size :
              e.cmd[i] = IF i <= e.cursor THEN w.before[i]
                         ELSE IF i <= e.l THEN w.after[i - e.cursor] ELSE NUL
  BY <1>2, Zenon DEF Meaning
<1> QED
  BY <1>1, <1>2, <1>3, <1>4, Zenon

(* And the other way round.                                                *)
LEMMA CellsShow ==
  ASSUME NEW E, NEW e, NEW b \in Seq(E), NEW a \in Seq(E),
         e.cursor = Len(b), e.l = Len(b) + Len(a),
         \A i \in 1 .. Size :
           e.cmd[i] = IF i <= e.cursor THEN b[i] ELSE IF i <= e.l THEN a[i - e.cursor] ELSE NUL
  PROVE  Shows(e, Pair(b, a), E)
<1> DEFINE w == Pair(b, a)
<1>1. w.before = b /\ w.after = a /\ w = Pair(w.before, w.after)
  BY DEF Pair
<1> HIDE DEF w
<1>2. \A i \in 1 .. Size : e.cmd[i] = Meaning(w, i)
  BY <1>1, Zenon DEF Meaning
<1>3. Shows(e, w, E)
  BY <1>1, <1>2, Zenon DEF Shows
<1> QED
  BY <1>3 DEF w

(* A typed character: the array keeps its shape,                           *)
LEMMA PutCells ==
  ASSUME NEW S, NUL \in S, NEW e, Array(e, S), e.l < Longest, NEW c \in S
  PROVE  /\ Array(Put(e, c), S)
         /\ Put(e, c).l = e.l + 1 /\ Put(e, c).cursor = e.cursor + 1
         /\ \A i \in 1 .. Size :
              Put(e, c).cmd[i] = IF i = e.cursor + 1 THEN c
                                 ELSE IF ~AtEnd(e) /\ i \in (e.cursor + 2) .. (e.l + 2) THEN e.cmd[i - 1]
                                 ELSE e.cmd[i]
<1> DEFINE p == Put(e, c)
<1>1. /\ e.cmd \in [1 .. Size -> S] /\ e.cmd[Size] = NUL
      /\ e.l \in Nat /\ e.cursor \in Nat /\ e.cursor <= e.l /\ e.l + 1 <= Longest
  BY LongestIsMax DEF Array
<1>2. e.l + 3 <= Size /\ Size \in Nat /\ Longest \in Nat
  BY <1>1, LongestIsMax
<1>3. \A i \in 1 .. Size :
              p.cmd[i] = IF i = e.cursor + 1 THEN c
                                 ELSE IF ~AtEnd(e) /\ i \in (e.cursor + 2) .. (e.l + 2) THEN e.cmd[i - 1]
                                 ELSE e.cmd[i]
  BY <1>1, <1>2 DEF Put, Line
<1>4. p.l = e.l + 1 /\ p.cursor = e.cursor + 1 /\ p = Line(p.cmd, p.l, p.cursor)
  BY DEF Put, Line
<1>5. DOMAIN p.cmd = 1 .. Size
  BY <1>1 DEF Put, Line
<1>6. p.cmd = [i \in 1 .. Size |-> p.cmd[i]]
  BY <1>1, <1>5 DEF Put, Line
<1> HIDE DEF p
<1>7. ASSUME NEW i \in 1 .. Size PROVE p.cmd[i] \in S
  <2>1. e.cmd[i] \in S
    BY <1>1
  <2>2. i \in (e.cursor + 2) .. (e.l + 2) => e.cmd[i - 1] \in S
    <3> SUFFICES ASSUME i \in (e.cursor + 2) .. (e.l + 2) PROVE e.cmd[i - 1] \in S
      OBVIOUS
    <3>1. i - 1 \in 1 .. Size
      BY <1>1, <1>2
    <3> QED
      BY <1>1, <3>1
  <2> QED
    BY <1>3, <2>1, <2>2, Zenon
<1>8. p.cmd[Size] = NUL
  <2>1. Size \in 1 .. Size /\ Size # e.cursor + 1 /\ Size \notin (e.cursor + 2) .. (e.l + 2)
    BY <1>1, <1>2
  <2>2. p.cmd[Size] = e.cmd[Size]
    BY <1>3, <2>1, Zenon
  <2> QED
    BY <1>1, <2>2
<1>9. p.cmd \in [1 .. Size -> S]
  BY <1>6, <1>7
<1>10. Array(p, S)
  BY <1>1, <1>2, <1>4, <1>8, <1>9 DEF Array
<1> QED
  BY <1>3, <1>4, <1>10 DEF p

(* nothing is left behind the line,                                        *)
LEMMA PutKeeps ==
  ASSUME NEW S, NUL \in S, NEW e, Array(e, S), e.l < Longest, NEW c \in S, Tidy(e)
  PROVE  Tidy(Put(e, c))
<1> DEFINE p == Put(e, c)
<1>1. /\ p.l = e.l + 1
      /\ \A i \in 1 .. Size :
              p.cmd[i] = IF i = e.cursor + 1 THEN c
                                 ELSE IF ~AtEnd(e) /\ i \in (e.cursor + 2) .. (e.l + 2) THEN e.cmd[i - 1]
                                 ELSE e.cmd[i]
  BY PutCells
<1> HIDE DEF p
<1>2. /\ e.l \in Nat /\ e.cursor \in Nat /\ e.cursor <= e.l /\ Size \in Nat
  BY SizeFacts DEF Array
<1>3. ASSUME NEW i \in (e.l + 2) .. Size PROVE p.cmd[i] = NUL
  <2>1. i \in 1 .. Size /\ i \in (e.l + 1) .. Size /\ i - 1 \in (e.l + 1) .. Size /\ i # e.cursor + 1
    BY <1>2
  <2> QED
    BY <1>1, <2>1 DEF Tidy
<1>4. Tidy(p)
  BY <1>1, <1>2, <1>3 DEF Tidy
<1> QED
  BY <1>4 DEF p

(* and the line is the one meant, with the character at the cursor.        *)
LEMMA PutShows ==
  ASSUME NEW S, NUL \in S, NEW E, E \subseteq S, NEW e, NEW w, Array(e, S), e.l < Longest,
         Shows(e, w, E), NEW c \in E
  PROVE  Shows(Put(e, c), Pair(Append(w.before, c), w.after), E)
<1> DEFINE p == Put(e, c)
           b == w.before
           a == w.after
           n == Append(b, c)
<1>1. /\ p.l = e.l + 1 /\ p.cursor = e.cursor + 1
      /\ \A i \in 1 .. Size :
              p.cmd[i] = IF i = e.cursor + 1 THEN c
                                 ELSE IF ~AtEnd(e) /\ i \in (e.cursor + 2) .. (e.l + 2) THEN e.cmd[i - 1]
                                 ELSE e.cmd[i]
  BY PutCells
<1> HIDE DEF p
<1>2. /\ e.l \in Nat /\ e.cursor \in Nat /\ e.cursor <= e.l
      /\ Size \in Nat /\ Longest \in Nat /\ Longest + 2 <= Size
  BY SizeFacts DEF Array
<1>3. /\ Len(b) \in Nat /\ Len(a) \in Nat
      /\ b \in Seq(E) /\ a \in Seq(E)
      /\ e.cursor = Len(b) /\ e.l = Len(b) + Len(a)
      /\ \A i \in 1 .. Size :
              e.cmd[i] = IF i <= e.cursor THEN b[i]
                         ELSE IF i <= e.l THEN a[i - e.cursor] ELSE NUL
  BY ShownCells, Zenon
<1> HIDE DEF b, a
<1>4. /\ n \in Seq(E) /\ Len(n) = e.cursor + 1 /\ n[e.cursor + 1] = c
      /\ \A i \in 1 .. e.cursor : n[i] = b[i]
  <2>1. b \in Seq(E) /\ c \in E
    BY <1>3
  <2>2. /\ Append(b, c) \in Seq(E) /\ Len(Append(b, c)) = Len(b) + 1
        /\ \A i \in 1 .. Len(b) : Append(b, c)[i] = b[i]
        /\ Append(b, c)[Len(b) + 1] = c
    BY <2>1, AppendProperties
  <2> QED
    BY <1>3, <2>2, Zenon
<1> HIDE DEF n
<1>5. ASSUME NEW i \in 1 .. Size
      PROVE  p.cmd[i] = IF i <= p.cursor THEN n[i] ELSE IF i <= p.l THEN a[i - p.cursor] ELSE NUL
  <2>1. CASE i <= e.cursor
    <3>1. i \in 1 .. e.cursor
      BY <1>2, <2>1
    <3> QED
      BY <1>1, <1>2, <1>3, <1>4, <2>1, <3>1
  <2>2. CASE i = e.cursor + 1
    BY <1>1, <1>2, <1>4, <2>2
  <2>3. CASE i > e.cursor + 1 /\ i <= e.l + 1
    <3>1. ~AtEnd(e) /\ i \in (e.cursor + 2) .. (e.l + 2)
      BY <1>2, <2>3 DEF AtEnd
    <3>2. p.cmd[i] = e.cmd[i - 1]
      BY <1>1, <1>2, <2>3, <3>1
    <3>3. i - 1 \in 1 .. Size /\ ~(i - 1 <= e.cursor) /\ i - 1 <= e.l
      BY <1>2, <2>3
    <3>4. e.cmd[i - 1] = a[(i - 1) - e.cursor]
      BY <1>3, <3>3
    <3>5. (i - 1) - e.cursor = i - (e.cursor + 1)
      BY <1>2
    <3> QED
      BY <1>1, <1>2, <2>3, <3>2, <3>4, <3>5
  <2>4. CASE i > e.l + 1
    <3>1. /\ ~(i <= e.cursor) /\ ~(i <= e.l) /\ i # e.cursor + 1
          /\ i - 1 \in 1 .. Size /\ ~(i - 1 <= e.cursor) /\ ~(i - 1 <= e.l)
      BY <1>2, <2>4
    <3>2. e.cmd[i] = NUL /\ e.cmd[i - 1] = NUL
      BY <1>3, <3>1
    <3> QED
      BY <1>1, <1>2, <2>4, <3>1, <3>2
  <2> QED
    BY <1>2, <2>1, <2>2, <2>3, <2>4
<1>6. p.cursor = Len(n) /\ p.l = Len(n) + Len(a)
  BY <1>1, <1>3, <1>4
<1>7. Shows(p, Pair(n, a), E)
  BY <1>3, <1>4, <1>5, <1>6, CellsShow
<1> QED
  BY <1>7 DEF p, n, a, b

(* One character back.                                                     *)
LEMMA BackCells ==
  ASSUME NEW S, NUL \in S, NEW e, Array(e, S), e.cursor > 0, NEW secret \in BOOLEAN
  PROVE  /\ Array(BackOne(e, secret), S)
         /\ BackOne(e, secret).l = e.l - 1 /\ BackOne(e, secret).cursor = e.cursor - 1
         /\ \A i \in 1 .. Size :
              BackOne(e, secret).cmd[i] =
                IF AtEnd(e) THEN IF i = e.cursor THEN NUL ELSE e.cmd[i]
                ELSE IF ~secret /\ i \in e.cursor .. (e.l + 1) THEN e.cmd[i + 1] ELSE e.cmd[i]
<1> DEFINE p == BackOne(e, secret)
<1>1. /\ e.cmd \in [1 .. Size -> S] /\ e.cmd[Size] = NUL
      /\ e.l \in Nat /\ e.cursor \in Nat /\ e.cursor <= e.l /\ e.l <= Longest
  BY LongestIsMax DEF Array
<1>2. e.l + 2 <= Size /\ Size \in Nat /\ Longest \in Nat
  BY <1>1, LongestIsMax
<1>3. \A i \in 1 .. Size :
        p.cmd[i] = IF AtEnd(e) THEN IF i = e.cursor THEN NUL ELSE e.cmd[i]
                ELSE IF ~secret /\ i \in e.cursor .. (e.l + 1) THEN e.cmd[i + 1] ELSE e.cmd[i]
  BY <1>1, <1>2 DEF BackOne, Line
<1>4. p.l = e.l - 1 /\ p.cursor = e.cursor - 1 /\ p = Line(p.cmd, p.l, p.cursor)
  BY DEF BackOne, Line
<1>5. p.cmd = [i \in 1 .. Size |-> p.cmd[i]]
  BY <1>1 DEF BackOne, Line
<1> HIDE DEF p
<1>7. ASSUME NEW i \in 1 .. Size PROVE p.cmd[i] \in S
  <2>1. e.cmd[i] \in S
    BY <1>1
  <2>2. i \in e.cursor .. (e.l + 1) => e.cmd[i + 1] \in S
    <3> SUFFICES ASSUME i \in e.cursor .. (e.l + 1) PROVE e.cmd[i + 1] \in S
      OBVIOUS
    <3>1. i + 1 \in 1 .. Size
      BY <1>1, <1>2
    <3> QED
      BY <1>1, <3>1
  <2> QED
    BY <1>3, <2>1, <2>2, Zenon
<1>8. p.cmd[Size] = NUL
  <2>1. Size \in 1 .. Size /\ Size # e.cursor /\ Size \notin e.cursor .. (e.l + 1)
    BY <1>1, <1>2
  <2> QED
    BY <1>1, <1>3, <2>1, Zenon
<1>9. p.cmd \in [1 .. Size -> S]
  BY <1>5, <1>7
<1>10. p.l \in 0 .. Longest /\ p.cursor \in 0 .. p.l
  BY <1>1, <1>2, <1>4
<1>11. Array(p, S)
  BY <1>4, <1>8, <1>9, <1>10 DEF Array
<1> QED
  BY <1>3, <1>4, <1>11 DEF p

(* Where the prompt echoes nothing is left behind the line,                *)
LEMMA BackKeeps ==
  ASSUME NEW S, NUL \in S, NEW e, Array(e, S), e.cursor > 0, Tidy(e)
  PROVE  Tidy(BackOne(e, FALSE))
<1> DEFINE p == BackOne(e, FALSE)
<1>1. /\ p.l = e.l - 1
      /\ \A i \in 1 .. Size :
           p.cmd[i] = IF AtEnd(e) THEN IF i = e.cursor THEN NUL ELSE e.cmd[i]
                ELSE IF ~FALSE /\ i \in e.cursor .. (e.l + 1) THEN e.cmd[i + 1] ELSE e.cmd[i]
  BY BackCells
<1> HIDE DEF p
<1>2. /\ e.l \in Nat /\ e.cursor \in Nat /\ e.cursor <= e.l /\ Size \in Nat /\ e.l + 2 <= Size
  BY SizeFacts DEF Array
<1>3. ASSUME NEW i \in e.l .. Size PROVE p.cmd[i] = NUL
  <2>1. i \in 1 .. Size /\ (i # e.l => i \in (e.l + 1) .. Size)
    BY <1>2
  <2>2. i # e.l => e.cmd[i] = NUL
    BY <2>1 DEF Tidy
  <2>3. i \in e.cursor .. (e.l + 1) => e.cmd[i + 1] = NUL
    <3> SUFFICES ASSUME i \in e.cursor .. (e.l + 1) PROVE i + 1 \in (e.l + 1) .. Size
      BY DEF Tidy
    <3> QED
      BY <1>2
  <2>4. i = e.l => i \in e.cursor .. (e.l + 1)
    BY <1>2
  <2> QED
    BY <1>1, <2>1, <2>2, <2>3, <2>4 DEF AtEnd
<1>4. Tidy(p)
  BY <1>1, <1>2, <1>3 DEF Tidy
<1> QED
  BY <1>4 DEF p

(* The first n cells of a sequence.                                        *)
LEMMA Beginning ==
  ASSUME NEW E, NEW s \in Seq(E), NEW k \in 0 .. Len(s)
  PROVE  /\ SubSeq(s, 1, k) \in Seq(E) /\ Len(SubSeq(s, 1, k)) = k
         /\ \A i \in 1 .. k : SubSeq(s, 1, k)[i] = s[i]
<1>1. \A i \in 1 .. k : s[i] \in E
  OBVIOUS
<1>2. 1 \in Int /\ k \in Int /\ k >= 0
  OBVIOUS
<1>3. /\ SubSeq(s, 1, k) \in Seq(E)
      /\ Len(SubSeq(s, 1, k)) = IF 1 <= k THEN k - 1 + 1 ELSE 0
      /\ \A i \in 1 .. (k - 1 + 1) : SubSeq(s, 1, k)[i] = s[1 + i - 1]
  BY <1>1, <1>2, SubSeqProperties
<1> QED
  BY <1>2, <1>3

(* and the line is the one meant, without the character.                   *)
LEMMA BackShows ==
  ASSUME NEW S, NUL \in S, NEW E, E \subseteq S, NEW e, NEW w, Array(e, S), e.cursor > 0,
         Shows(e, w, E)
  PROVE  Shows(BackOne(e, FALSE), Pair(Front(w.before), w.after), E)
<1> DEFINE p == BackOne(e, FALSE)
           b == w.before
           a == w.after
           n == Front(b)
<1>1. /\ p.l = e.l - 1 /\ p.cursor = e.cursor - 1
      /\ \A i \in 1 .. Size :
           p.cmd[i] = IF AtEnd(e) THEN IF i = e.cursor THEN NUL ELSE e.cmd[i]
                ELSE IF ~FALSE /\ i \in e.cursor .. (e.l + 1) THEN e.cmd[i + 1] ELSE e.cmd[i]
  BY BackCells
<1> HIDE DEF p
<1>2. /\ e.l \in Nat /\ e.cursor \in Nat /\ e.cursor <= e.l /\ Size \in Nat /\ e.l + 2 <= Size
  BY SizeFacts DEF Array
<1>3. /\ Len(b) \in Nat /\ Len(a) \in Nat
      /\ b \in Seq(E) /\ a \in Seq(E)
      /\ e.cursor = Len(b) /\ e.l = Len(b) + Len(a)
      /\ \A i \in 1 .. Len(b) : b[i] \in E
      /\ \A i \in 1 .. Size :
              e.cmd[i] = IF i <= e.cursor THEN b[i]
                         ELSE IF i <= e.l THEN a[i - e.cursor] ELSE NUL
  BY ShownCells, Zenon
<1> HIDE DEF b, a
<1>4. /\ n \in Seq(E) /\ Len(n) = e.cursor - 1
      /\ \A i \in 1 .. (e.cursor - 1) : n[i] = b[i]
  <2>1. b \in Seq(E) /\ Len(b) - 1 \in 0 .. Len(b)
    BY <1>2, <1>3
  <2>2. /\ SubSeq(b, 1, Len(b) - 1) \in Seq(E)
        /\ Len(SubSeq(b, 1, Len(b) - 1)) = Len(b) - 1
        /\ \A i \in 1 .. (Len(b) - 1) : SubSeq(b, 1, Len(b) - 1)[i] = b[i]
    BY <2>1, Beginning, Zenon
  <2> QED
    BY <1>3, <2>2, Zenon DEF Front
<1> HIDE DEF n
<1>5. ASSUME NEW i \in 1 .. Size
      PROVE  p.cmd[i] = IF i <= p.cursor THEN n[i] ELSE IF i <= p.l THEN a[i - p.cursor] ELSE NUL
  <2>1. CASE i < e.cursor
    <3>1. i \in 1 .. (e.cursor - 1) /\ i # e.cursor /\ i \notin e.cursor .. (e.l + 1) /\ i <= e.cursor
      BY <1>2, <2>1
    <3>2. p.cmd[i] = b[i]
      BY <1>1, <1>3, <3>1
    <3> QED
      BY <1>1, <1>2, <1>4, <2>1, <3>1, <3>2
  <2>2. CASE i >= e.cursor /\ i <= e.l + 1 /\ ~AtEnd(e)
    <3>1. p.cmd[i] = e.cmd[i + 1]
      BY <1>1, <1>2, <2>2
    <3>2. i + 1 \in 1 .. Size /\ ~(i + 1 <= e.cursor) /\ ~(i <= e.cursor - 1)
      BY <1>2, <2>2
    <3>3. e.cmd[i + 1] = IF i + 1 <= e.l THEN a[(i + 1) - e.cursor] ELSE NUL
      BY <1>3, <3>2
    <3>4. (i + 1 <= e.l <=> i <= e.l - 1) /\ (i + 1) - e.cursor = i - (e.cursor - 1)
      BY <1>2
    <3> QED
      BY <1>1, <3>1, <3>2, <3>3, <3>4
  <2>3. CASE i >= e.cursor /\ i <= e.l + 1 /\ AtEnd(e)
    <3>1. e.cursor = e.l /\ (i = e.l \/ i = e.l + 1)
      BY <1>2, <2>3 DEF AtEnd
    <3>2. i = e.l + 1 => e.cmd[i] = NUL
      BY <1>2, <1>3, <3>1
    <3> QED
      BY <1>1, <1>2, <2>3, <3>1, <3>2
  <2>4. CASE i > e.l + 1
    <3>1. /\ ~(i <= e.cursor) /\ ~(i <= e.l) /\ i # e.cursor /\ i \notin e.cursor .. (e.l + 1)
          /\ ~(i <= e.cursor - 1) /\ ~(i <= e.l - 1)
      BY <1>2, <2>4
    <3> QED
      BY <1>1, <1>3, <3>1
  <2> QED
    BY <1>2, <2>1, <2>2, <2>3, <2>4
<1>6. p.cursor = Len(n) /\ p.l = Len(n) + Len(a)
  BY <1>1, <1>3, <1>4
<1>7. Shows(p, Pair(n, a), E)
  BY <1>3, <1>4, <1>5, <1>6, CellsShow
<1> QED
  BY <1>7 DEF p, n, a, b

(* Several characters back: the array after each of them exists.           *)
IsBack(f, e, n, secret) ==
  f = [k \in 0 .. n |-> IF k = 0 THEN e ELSE BackOne(f[k - 1], secret)]

(* Going back n times is defined, one step after the other.                *)
LEMMA BackExists ==
  ASSUME NEW e, NEW secret
  PROVE  \A n \in Nat : \E f : IsBack(f, e, n, secret)
<1> DEFINE S == {n \in Nat : ~\E f : IsBack(f, e, n, secret)}
<1> SUFFICES ASSUME S # {} PROVE FALSE
  OBVIOUS
<1>1. PICK n \in S : \A m \in S : n <= m
  <2>1. S \subseteq Nat
    OBVIOUS
  <2> HIDE DEF S
  <2> QED
    BY <2>1, Smallest
<1>2. CASE n = 0
  <2> DEFINE f == [k \in 0 .. 0 |-> e]
  <2>1. f = [k \in 0 .. 0 |-> IF k = 0 THEN e ELSE BackOne(f[k - 1], secret)]
    OBVIOUS
  <2> QED
    BY <1>1, <1>2, <2>1 DEF IsBack
<1>3. CASE n # 0
  <2>1. n - 1 \in Nat /\ n - 1 < n /\ n \in Nat
    BY <1>1, <1>3
  <2>2. PICK f : IsBack(f, e, n - 1, secret)
    BY <1>1, <2>1
  <2> DEFINE Turn(h, k) == IF k = 0 THEN e ELSE BackOne(h[k - 1], secret)
             g == [k \in 0 .. n |-> IF k = n THEN Turn(f, n) ELSE f[k]]
  <2>3. ASSUME NEW k \in 0 .. n PROVE g[k] = Turn(g, k)
    <3>1. k - 1 \in 0 .. (n - 1) => g[k - 1] = f[k - 1]
      BY <2>1
    <3>2. Turn(g, k) = Turn(f, k)
      BY <3>1, <2>1
    <3>3. k # n => f[k] = Turn(f, k)
      BY <2>1, <2>2 DEF IsBack
    <3> QED
      BY <3>2, <3>3
  <2>4. IsBack(g, e, n, secret)
    BY <2>3 DEF IsBack
  <2> QED
    BY <1>1, <2>4
<1> QED
  BY <1>2, <1>3

(* Whatever a character back keeps, several keep, and what they undo adds  *)
(* up.                                                                     *)
Plain(secret) == secret = FALSE

(* What one step back keeps, n of them keep.                               *)
LEMMA BackMany ==
  ASSUME NEW S, NUL \in S, NEW E, E \subseteq S, NEW e, Array(e, S), NEW n \in 0 .. e.cursor,
         NEW secret \in BOOLEAN
  PROVE  /\ Array(Back(e, n, secret), S)
         /\ Plain(secret) /\ Tidy(e) => Tidy(Back(e, n, secret))
         /\ \A w : Plain(secret) /\ Shows(e, w, E) =>
              Shows(Back(e, n, secret), Pair(SubSeq(w.before, 1, Len(w.before) - n), w.after), E)
<1> DEFINE f == CHOOSE g : IsBack(g, e, n, secret)
<1>1. n \in Nat /\ e.cursor \in Nat /\ n <= e.cursor
  BY SizeFacts DEF Array
<1>2. IsBack(f, e, n, secret)
  BY <1>1, BackExists
<1>3. Back(e, n, secret) = f[n]
  BY DEF Back, IsBack
<1> HIDE DEF f
<1>4. f[0] = e /\ \A k \in 1 .. n : f[k] = BackOne(f[k - 1], secret)
  <2>1. f = [k \in 0 .. n |-> IF k = 0 THEN e ELSE BackOne(f[k - 1], secret)]
    BY <1>2 DEF IsBack
  <2> QED
    BY <1>1, <2>1
<1> DEFINE Cut(w, k) == Pair(SubSeq(w.before, 1, Len(w.before) - k), w.after)
           Good(k) ==
             /\ Array(f[k], S) /\ f[k].cursor = e.cursor - k
             /\ Plain(secret) /\ Tidy(e) => Tidy(f[k])
             /\ \A w : Plain(secret) /\ Shows(e, w, E) => Shows(f[k], Cut(w, k), E)
<1>5. Good(0)
  <2>1. ASSUME NEW w, Shows(e, w, E) PROVE Cut(w, 0) = w
    <3> DEFINE b == w.before
    <3>1. b \in Seq(E) /\ w = Pair(b, w.after)
      BY <2>1 DEF Shows
    <3> HIDE DEF b
    <3>2. SubSeq(b, 1, Len(b) - 0) = b
      <4>1. Len(b) - 0 = Len(b)
        BY <3>1
      <4> QED
        BY <3>1, <4>1
    <3> QED
      BY <3>1, <3>2 DEF b
  <2> QED
    BY <1>1, <1>4, <2>1
<1>6. ASSUME NEW k \in 1 .. n, Good(k - 1) PROVE Good(k)
  <2> DEFINE d == f[k - 1]
  <2>1. /\ Array(d, S) /\ d.cursor > 0 /\ d.cursor = e.cursor - (k - 1)
        /\ f[k] = BackOne(d, secret) /\ k - 1 \in Nat /\ k \in Nat /\ k <= e.cursor
    BY <1>1, <1>4, <1>6
  <2>2. Array(f[k], S) /\ f[k].cursor = e.cursor - k
    <3>1. Array(BackOne(d, secret), S) /\ BackOne(d, secret).cursor = d.cursor - 1
      BY <2>1, BackCells
    <3> QED
      BY <1>1, <2>1, <3>1
  <2>3. Plain(secret) /\ Tidy(e) => Tidy(f[k])
    BY <1>6, <2>1, BackKeeps DEF Plain
  <2>4. ASSUME NEW w, Plain(secret), Shows(e, w, E) PROVE Shows(f[k], Cut(w, k), E)
    <3> DEFINE b == w.before
               a == w.after
    <3>1. b \in Seq(E) /\ Len(b) \in Nat /\ Len(b) = e.cursor
      BY <2>4, Elements DEF Shows
    <3>2. Shows(d, Pair(SubSeq(b, 1, Len(b) - (k - 1)), a), E)
      BY <1>6, <2>4
    <3> HIDE DEF a, b
    <3> DEFINE v == Pair(SubSeq(b, 1, Len(b) - (k - 1)), a)
    <3>3. Shows(BackOne(d, FALSE), Pair(Front(v.before), v.after), E)
      BY <2>1, <3>2, BackShows
    <3>4. Front(v.before) = SubSeq(b, 1, Len(b) - k) /\ v.after = a
      <4> DEFINE c == SubSeq(b, 1, Len(b) - (k - 1))
      <4>1. v.before = c /\ v.after = a
        BY DEF Pair
      <4>2. Len(b) - (k - 1) \in 0 .. Len(b) /\ Len(b) - k \in 0 .. Len(b)
        BY <2>1, <3>1
      <4>3. /\ c \in Seq(E) /\ Len(c) = Len(b) - (k - 1)
            /\ \A i \in 1 .. (Len(b) - (k - 1)) : c[i] = b[i]
        BY <3>1, <4>2, Beginning, Zenon
      <4> HIDE DEF c
      <4>4. Len(c) - 1 \in 0 .. Len(c) /\ Len(c) - 1 = Len(b) - k
        BY <2>1, <3>1, <4>3
      <4> DEFINE l == SubSeq(c, 1, Len(c) - 1)
                 r == SubSeq(b, 1, Len(b) - k)
      <4>5. /\ l \in Seq(E) /\ Len(l) = Len(c) - 1
            /\ \A i \in 1 .. (Len(c) - 1) : l[i] = c[i]
        BY <4>3, <4>4, Beginning, Zenon
      <4>6. /\ r \in Seq(E) /\ Len(r) = Len(b) - k
            /\ \A i \in 1 .. (Len(b) - k) : r[i] = b[i]
        BY <3>1, <4>2, Beginning, Zenon
      <4> HIDE DEF l, r
      <4>7. ASSUME NEW i \in 1 .. Len(r) PROVE l[i] = r[i]
        <5>1. k \in Nat /\ Len(b) \in Nat /\ i \in 1 .. (Len(b) - k)
          BY <2>1, <3>1, <4>6
        <5>2. i \in 1 .. (Len(b) - (k - 1))
          BY <5>1
        <5>3. i \in 1 .. (Len(c) - 1)
          BY <4>4, <5>1
        <5>4. l[i] = c[i]
          BY <4>5, <5>3, Zenon
        <5>5. c[i] = b[i]
          BY <4>3, <5>2, Zenon
        <5>6. r[i] = b[i]
          BY <4>6, <5>1, Zenon
        <5> QED
          BY <5>4, <5>5, <5>6
      <4>8. l = r
        BY <4>4, <4>5, <4>6, <4>7, SameSeq
      <4> QED
        BY <4>1, <4>8 DEF l, r, Front
    <3> QED
      BY <2>1, <2>4, <3>3, <3>4 DEF a, b, Plain
  <2> QED
    BY <2>2, <2>3, <2>4
<1> HIDE DEF Good
<1>7. \A k \in 0 .. n : Good(k)
  <2> DEFINE B == {k \in 0 .. n : ~Good(k)}
  <2> SUFFICES ASSUME B # {} PROVE FALSE
    OBVIOUS
  <2>1. B \subseteq Nat
    BY <1>1
  <2>2. PICK x \in B : \A y \in B : x <= y
    <3> HIDE DEF B
    <3> QED
      BY <2>1, Smallest, Zenon
  <2>3. x \in 0 .. n /\ ~Good(x) /\ x # 0
    BY <1>5
  <2>4. x \in 1 .. n /\ x - 1 \in 0 .. n /\ ~(x <= x - 1)
    BY <1>1, <2>3
  <2>5. x - 1 \notin B
    BY <2>2, <2>4
  <2> QED
    BY <1>6, <2>3, <2>4, <2>5
<1>8. Good(n)
  BY <1>1, <1>7
<1> QED
  BY <1>3, <1>8 DEF Good

(* A set of numbers up to a bound has a largest one, and Max is in it.     *)
LEMMA MaxIsMember ==
  ASSUME NEW n \in Nat, NEW S, S \subseteq 0 .. n, S # {}
  PROVE  Max(S) \in S /\ \A y \in S : Max(S) >= y
<1> DEFINE T == {k \in 0 .. n : n - k \in S}
<1>1. T \subseteq Nat /\ T # {}
  <2>1. PICK x \in S : TRUE
    OBVIOUS
  <2>2. x \in 0 .. n /\ n - x \in 0 .. n /\ n - (n - x) = x
    BY <2>1
  <2>3. n - x \in T
    BY <2>1, <2>2
  <2>4. T \subseteq Nat
    OBVIOUS
  <2> HIDE DEF T
  <2> QED
    BY <2>3, <2>4
<1>2. PICK k \in T : \A j \in T : k <= j
  <2> HIDE DEF T
  <2> QED
    BY <1>1, Smallest
<1>3. n - k \in S /\ k \in 0 .. n
  BY <1>2
<1>4. ASSUME NEW y \in S PROVE n - k >= y
  <2>1. y \in 0 .. n /\ n - y \in 0 .. n /\ n - (n - y) = y
    OBVIOUS
  <2>2. n - y \in T
    BY <2>1
  <2>3. k <= n - y
    BY <1>2, <2>2
  <2> QED
    BY <1>3, <2>1, <2>3
<1>5. \E x \in S : \A y \in S : x >= y
  BY <1>3, <1>4
<1> QED
  BY <1>5 DEF Max

(* A word begins in its line.                                              *)
LEMMA WordStartInLine ==
  ASSUME NEW E, NEW s \in Seq(E)
  PROVE  WordStart(s) \in 0 .. Len(s)
<1> DEFINE letters == {i \in DOMAIN s : s[i] # " "}
           S == {0} \cup {i \in DOMAIN s : s[i] = " " /\ \E j \in letters : i < j}
<1>1. Len(s) \in Nat /\ DOMAIN s = 1 .. Len(s)
  OBVIOUS
<1>2. S \subseteq 0 .. Len(s) /\ S # {}
  <2>1. DOMAIN s \subseteq 0 .. Len(s) /\ 0 \in 0 .. Len(s)
    BY <1>1
  <2> HIDE DEF letters
  <2> QED
    BY <2>1, Zenon
<1>3. WordStart(s) = Max(S)
  BY DEF WordStart
<1> HIDE DEF S
<1>4. Max(S) \in S
  BY <1>1, <1>2, MaxIsMember
<1> QED
  BY <1>2, <1>3, <1>4

(* Control-W is a number of steps back.                                    *)
LEMMA EraseKeeps ==
  ASSUME NEW S, NUL \in S, NEW E, E \subseteq S, NEW e, Array(e, S), NEW secret \in BOOLEAN
  PROVE  /\ Array(EraseBack(e, secret), S)
         /\ Plain(secret) /\ Tidy(e) => Tidy(EraseBack(e, secret))
         /\ \A w : Plain(secret) /\ Shows(e, w, E) =>
              Shows(EraseBack(e, secret), Pair(SubSeq(w.before, 1, WordStart(w.before)), w.after), E)
<1> DEFINE t == SubSeq(e.cmd, 1, e.cursor)
           n == e.cursor - WordStart(t)
<1>1. /\ e.cmd \in [1 .. Size -> S] /\ Size \in Nat
      /\ e.l \in Nat /\ e.cursor \in Nat /\ e.cursor <= e.l /\ e.l + 2 <= Size
  BY SizeFacts DEF Array
<1>2. /\ t \in Seq(S) /\ Len(t) = e.cursor
      /\ \A i \in 1 .. e.cursor : t[i] = e.cmd[i]
  <2>1. e.cmd \in Seq(S) /\ Len(e.cmd) = Size
    BY <1>1
  <2>2. e.cursor \in 0 .. Len(e.cmd)
    BY <1>1, <2>1
  <2> QED
    BY <2>1, <2>2, Beginning, Zenon
<1> HIDE DEF t
<1>3. WordStart(t) \in 0 .. e.cursor
  BY <1>2, WordStartInLine
<1>4. n \in 0 .. e.cursor /\ e.cursor - n = WordStart(t)
  BY <1>1, <1>3
<1>5. EraseBack(e, secret) = Back(e, n, secret)
  BY DEF EraseBack, n, t
<1>6. ASSUME NEW w, Shows(e, w, E)
      PROVE  SubSeq(w.before, 1, Len(w.before) - n) = SubSeq(w.before, 1, WordStart(w.before))
  <2> DEFINE b == w.before
  <2>1. b \in Seq(E) /\ e.cursor = Len(b)
    BY <1>6, ShownCells
  <2>2. \A i \in 1 .. e.cursor : e.cmd[i] = b[i]
    <3>1. \A i \in 1 .. Size :
              e.cmd[i] = IF i <= e.cursor THEN b[i]
                         ELSE IF i <= e.l THEN w.after[i - e.cursor] ELSE NUL
      BY <1>6, ShownCells, Zenon
    <3>2. \A i \in 1 .. e.cursor : i \in 1 .. Size /\ i <= e.cursor
      BY <1>1
    <3> QED
      BY <3>1, <3>2, Zenon
  <2> HIDE DEF b
  <2>3. t \in Seq(S) /\ b \in Seq(S)
    BY <1>2, <2>1
  <2>4. t = b
    BY <1>2, <2>1, <2>2, <2>3, SameSeq
  <2> QED
    BY <1>4, <2>1, <2>4 DEF b
<1> HIDE DEF n
<1>7. /\ Array(Back(e, n, secret), S)
      /\ Plain(secret) /\ Tidy(e) => Tidy(Back(e, n, secret))
      /\ \A w : Plain(secret) /\ Shows(e, w, E) =>
              Shows(Back(e, n, secret), Pair(SubSeq(w.before, 1, Len(w.before) - n), w.after), E)
  BY <1>4, BackMany
<1>8. ASSUME NEW w, Plain(secret), Shows(e, w, E)
      PROVE  Shows(EraseBack(e, secret), Pair(SubSeq(w.before, 1, WordStart(w.before)), w.after), E)
  <2>1. Shows(Back(e, n, secret), Pair(SubSeq(w.before, 1, Len(w.before) - n), w.after), E)
    BY <1>7, <1>8, Zenon
  <2> QED
    BY <1>5, <1>6, <1>8, <2>1, Zenon
<1> QED
  BY <1>5, <1>7, <1>8, Zenon

-----------------------------------------------------------------------------
(* Control-K.                                                              *)
LEMMA KillKeeps ==
  ASSUME NEW S, NUL \in S, NEW E, E \subseteq S, NEW e, Array(e, S)
  PROVE  /\ Array(Kill(e), S)
         /\ Tidy(e) => Tidy(Kill(e))
         /\ \A w : Shows(e, w, E) => Shows(Kill(e), Pair(w.before, <<>>), E)
<1> DEFINE p == Kill(e)
<1>1. /\ e.cmd \in [1 .. Size -> S] /\ e.cmd[Size] = NUL /\ Size \in 1 .. Size /\ Size \in Nat
      /\ e.l \in Nat /\ e.cursor \in Nat /\ e.cursor <= e.l /\ e.l <= Longest /\ e.l + 2 <= Size
      /\ Longest \in Nat
  BY SizeFacts DEF Array
<1>2. /\ p.cmd = [i \in 1 .. Size |-> IF i \in e.cursor + 1 .. e.l THEN NUL ELSE e.cmd[i]]
      /\ p.l = e.cursor /\ p.cursor = e.cursor /\ p = Line(p.cmd, p.l, p.cursor)
  BY DEF Kill, Line
<1> HIDE DEF p
<1>3. \A i \in 1 .. Size : p.cmd[i] = IF i \in e.cursor + 1 .. e.l THEN NUL ELSE e.cmd[i]
  BY <1>2
<1>4. p.cmd \in [1 .. Size -> S]
  BY <1>1, <1>2
<1>5. Array(p, S)
  <2>1. p.cmd[Size] = NUL
    BY <1>1, <1>3
  <2> QED
    BY <1>1, <1>2, <1>4, <2>1 DEF Array
<1>6. Tidy(e) => Tidy(p)
  <2> SUFFICES ASSUME Tidy(e), NEW i \in (p.l + 1) .. Size PROVE p.cmd[i] = NUL
    BY DEF Tidy
  <2>1. i \in 1 .. Size /\ (i \notin e.cursor + 1 .. e.l => i \in (e.l + 1) .. Size)
    BY <1>1, <1>2
  <2> QED
    BY <1>3, <2>1 DEF Tidy
<1>7. ASSUME NEW w, Shows(e, w, E) PROVE Shows(p, Pair(w.before, <<>>), E)
  <2> DEFINE b == w.before
             a == w.after
  <2>1. b \in Seq(E) /\ e.cursor = Len(b) /\ Len(b) \in Nat
      /\ \A i \in 1 .. Size :
              e.cmd[i] = IF i <= e.cursor THEN b[i]
                         ELSE IF i <= e.l THEN a[i - e.cursor] ELSE NUL
    BY <1>7, ShownCells, Zenon
  <2> HIDE DEF b, a
  <2> DEFINE none == <<>>
  <2>2. none \in Seq(E) /\ Len(none) = 0
    OBVIOUS
  <2> HIDE DEF none
  <2>3. ASSUME NEW i \in 1 .. Size
        PROVE  p.cmd[i] = IF i <= p.cursor THEN b[i] ELSE IF i <= p.l THEN none[i - p.cursor] ELSE NUL
    BY <1>1, <1>2, <1>3, <2>1
  <2>4. p.cursor = Len(b) /\ p.l = Len(b) + Len(none)
    BY <1>1, <1>2, <2>1, <2>2
  <2>5. Shows(p, Pair(b, none), E)
    BY <2>1, <2>2, <2>3, <2>4, CellsShow
  <2> QED
    BY <2>5 DEF b, none
<1> QED
  BY <1>5, <1>6, <1>7 DEF p

(* A line without anything on it.                                          *)
LEMMA NothingShows ==
  ASSUME NEW S, NUL \in S, NEW E, NEW e, Array(e, S), e.l = 0, Tidy(e)
  PROVE  Shows(e, Empty, E) /\ e.cursor = 0
<1> DEFINE none == <<>>
<1>1. none \in Seq(E) /\ Len(none) = 0
  OBVIOUS
<1>2. e.cursor = 0 /\ Size \in Nat
  BY SizeFacts DEF Array
<1>3. \A i \in 1 .. Size : e.cmd[i] = NUL
  BY <1>2 DEF Tidy
<1> HIDE DEF none
<1>4. \A i \in 1 .. Size :
        e.cmd[i] = IF i <= e.cursor THEN none[i] ELSE IF i <= e.l THEN none[i - e.cursor] ELSE NUL
  BY <1>2, <1>3
<1>5. e.cursor = Len(none) /\ e.l = Len(none) + Len(none)
  BY <1>1, <1>2
<1>6. Shows(e, Pair(none, none), E)
  BY <1>1, <1>4, <1>5, CellsShow
<1> QED
  BY <1>2, <1>6 DEF Empty, none

(* Control-U.                                                              *)
LEMMA ClearKeeps ==
  ASSUME NEW S, NUL \in S, NEW E, E \subseteq S, NEW e, Array(e, S), NEW secret \in BOOLEAN
  PROVE  /\ Array(Clear(e, secret), S)
         /\ Tidy(e) => Tidy(Clear(e, secret)) /\ Shows(Clear(e, secret), Empty, E)
<1> DEFINE p == Clear(e, secret)
           n == IF secret THEN e.l ELSE 3 * e.l
<1>1. /\ e.cmd \in [1 .. Size -> S] /\ e.cmd[Size] = NUL /\ Size \in 1 .. Size /\ Size \in Nat
      /\ e.l \in Nat /\ Longest \in Nat
  BY SizeFacts DEF Array
<1>2. /\ p.cmd = [i \in 1 .. Size |-> IF i <= n THEN NUL ELSE e.cmd[i]]
      /\ p.l = 0 /\ p.cursor = 0 /\ p = Line(p.cmd, p.l, p.cursor)
  BY DEF Clear, Line
<1>3. n \in Nat /\ n >= e.l
  BY <1>1
<1> HIDE DEF p, n
<1>4. \A i \in 1 .. Size : p.cmd[i] = IF i <= n THEN NUL ELSE e.cmd[i]
  BY <1>2
<1>5. p.cmd \in [1 .. Size -> S]
  BY <1>1, <1>2
<1>6. p.cmd[Size] = NUL
  BY <1>1, <1>4
<1>7. Array(p, S)
  BY <1>1, <1>2, <1>5, <1>6 DEF Array
<1>8. ASSUME Tidy(e) PROVE Tidy(p)
  <2>1. ASSUME NEW i \in (p.l + 1) .. Size PROVE p.cmd[i] = NUL
    <3>1. i \in 1 .. Size /\ (i > n => i \in (e.l + 1) .. Size)
      BY <1>1, <1>2, <1>3
    <3> QED
      BY <1>3, <1>4, <1>8, <3>1 DEF Tidy
  <2> QED
    BY <2>1 DEF Tidy
<1>9. Tidy(e) => Shows(p, Empty, E)
  BY <1>2, <1>7, <1>8, NothingShows
<1> QED
  BY <1>7, <1>8, <1>9 DEF p

(* A line that is put in place whole, from the history or by completion.   *)
LEMMA FilledShows ==
  ASSUME NEW S, NUL \in S, NEW E, E \subseteq S, NEW cells \in Seq(E), Len(cells) <= Longest
  PROVE  /\ Array(Filled(cells), S)
         /\ Tidy(Filled(cells))
         /\ Shows(Filled(cells), Pair(cells, <<>>), E)
<1> DEFINE p == Filled(cells)
           n == Len(cells)
           none == <<>>
<1>1. /\ n \in Nat /\ n <= Longest /\ \A i \in 1 .. n : cells[i] \in S
      /\ Size \in Nat /\ Longest \in Nat /\ Longest + 2 <= Size
  BY SizeFacts, Elements
<1>2. /\ p.cmd = [i \in 1 .. Size |-> IF i <= n THEN cells[i] ELSE NUL]
      /\ p.l = n /\ p.cursor = n /\ p = Line(p.cmd, p.l, p.cursor)
  BY DEF Filled, Line
<1>3. none \in Seq(E) /\ Len(none) = 0
  OBVIOUS
<1> HIDE DEF p, n, none
<1>4. \A i \in 1 .. Size : p.cmd[i] = IF i <= n THEN cells[i] ELSE NUL
  BY <1>2
<1>5. ASSUME NEW i \in 1 .. Size PROVE p.cmd[i] \in S
  <2>1. i <= n => i \in 1 .. n
    BY <1>1
  <2> QED
    BY <1>1, <1>4, <2>1
<1>6. p.cmd \in [1 .. Size -> S]
  BY <1>2, <1>5
<1>7. Array(p, S)
  <2>1. p.cmd[Size] = NUL
    BY <1>1, <1>4
  <2> QED
    BY <1>1, <1>2, <1>6, <2>1 DEF Array
<1>8. Tidy(p)
  BY <1>1, <1>2, <1>4 DEF Tidy
<1>9. Shows(p, Pair(cells, none), E)
  <2>1. ASSUME NEW i \in 1 .. Size
        PROVE  p.cmd[i] = IF i <= p.cursor THEN cells[i]
                          ELSE IF i <= p.l THEN none[i - p.cursor] ELSE NUL
    BY <1>1, <1>2, <1>4
  <2>2. p.cursor = Len(cells) /\ p.l = Len(cells) + Len(none)
    BY <1>1, <1>2, <1>3 DEF n
  <2> QED
    BY <1>3, <2>1, <2>2, CellsShow
<1> QED
  BY <1>7, <1>8, <1>9 DEF p, none

(* The line a prompt begins with.                                          *)
LEMMA BlankShows ==
  ASSUME NEW S, NUL \in S, NEW E
  PROVE  Array(Blank, S) /\ Tidy(Blank) /\ Shows(Blank, Empty, E) /\ Blank.l = 0
<1> DEFINE p == Blank
<1>1. /\ p.cmd = [i \in 1 .. Size |-> NUL]
      /\ p.l = 0 /\ p.cursor = 0 /\ p = Line(p.cmd, p.l, p.cursor)
  BY DEF Blank, Line
<1> HIDE DEF p
<1>2. Array(p, S) /\ Tidy(p)
  BY <1>1, SizeFacts DEF Array, Tidy
<1>3. Shows(p, Empty, E)
  BY <1>1, <1>2, NothingShows
<1> QED
  BY <1>1, <1>2, <1>3 DEF p

(* The question mark that ended a line is taken away again, and the line   *)
(* is the one it was typed at.                                             *)
LEMMA GivenBack ==
  ASSUME NEW S, NEW e, Array(e, S), Tidy(e), AtEnd(e), NEW c
  PROVE  WithoutLast(Put(e, c)) = e
<1>1. /\ e.cmd \in [1 .. Size -> S] /\ Size \in Nat
      /\ e.l \in Nat /\ e.cursor = e.l /\ e.l + 2 <= Size /\ e = Line(e.cmd, e.l, e.cursor)
  BY SizeFacts DEF Array, AtEnd
<1> DEFINE p == Put(e, c)
           k == e.l + 1
           r == WithoutLast(p)
<1>2. p.cmd = [e.cmd EXCEPT ![k] = c] /\ p.l = k
  BY <1>1 DEF Put, Line, AtEnd
<1>3. r = Line([p.cmd EXCEPT ![p.l] = NUL], p.l - 1, p.l - 1)
  BY DEF WithoutLast
<1>4. k \in 1 .. Size /\ k \in (e.l + 1) .. Size /\ k - 1 = e.l
  BY <1>1
<1>5. e.cmd[k] = NUL
  BY <1>4 DEF Tidy
<1> HIDE DEF p, k, r
<1>6. [p.cmd EXCEPT ![p.l] = NUL] = e.cmd
  BY <1>1, <1>2, <1>4, <1>5
<1> QED
  BY <1>1, <1>2, <1>3, <1>4, <1>6 DEF r, p

(* What the line holds is what it means, with the cursor behind it.        *)
LEMMA TextShows ==
  ASSUME NEW E, NUL \notin E, NEW e, Array(e, E \cup {NUL}), Tidy(e), AtEnd(e), Len(Text(e)) = e.l
  PROVE  Shows(e, Pair(Text(e), <<>>), E)
<1> DEFINE S == E \cup {NUL}
           t == Text(e)
           none == <<>>
<1>1. S \ {NUL} = E
  OBVIOUS
<1>2. PICK n \in 0 .. (Size - 1) :
           /\ Text(e) = SubSeq(e.cmd, 1, n) /\ Text(e) \in Seq(S \ {NUL}) /\ Len(Text(e)) = n
           /\ \A i \in 1 .. n : Text(e)[i] = e.cmd[i] /\ e.cmd[i] # NUL
           /\ e.cmd[n + 1] = NUL
  BY TextEnds
<1>3. t \in Seq(E) /\ Len(t) = n /\ n = e.l /\ \A i \in 1 .. n : t[i] = e.cmd[i]
  BY <1>1, <1>2
<1>4. none \in Seq(E) /\ Len(none) = 0
  OBVIOUS
<1>5. e.cursor = e.l /\ e.l \in Nat /\ Size \in Nat
  BY SizeFacts DEF Array, AtEnd
<1> HIDE DEF t, none
<1>6. ASSUME NEW i \in 1 .. Size
      PROVE  e.cmd[i] = IF i <= e.cursor THEN t[i] ELSE IF i <= e.l THEN none[i - e.cursor] ELSE NUL
  <2>1. CASE i <= e.l
    BY <1>3, <1>5, <2>1
  <2>2. CASE ~(i <= e.l)
    <3>1. i \in (e.l + 1) .. Size
      BY <1>5, <2>2
    <3> QED
      BY <1>5, <2>2, <3>1 DEF Tidy
  <2> QED
    BY <2>1, <2>2
<1>7. e.cursor = Len(t) /\ e.l = Len(t) + Len(none)
  BY <1>3, <1>4, <1>5
<1>8. Shows(e, Pair(t, none), E)
  BY <1>3, <1>4, <1>6, <1>7, CellsShow
<1> QED
  BY <1>8 DEF t, none

(* Control-Z.                                                              *)
LEMMA ZappedKeeps ==
  ASSUME NEW S, NUL \in S, NEW E, E \subseteq S, NEW e, Array(e, S), Tidy(e)
  PROVE  /\ Array(Zapped(e), S) /\ Tidy(Zapped(e))
         /\ e.l = 0 => Shows(Zapped(e), Empty, E)
<1> DEFINE c == Clear(e, FALSE)
           p == Zapped(e)
<1>1. Array(c, S) /\ Tidy(c) /\ c.l = 0
  <2>1. FALSE \in BOOLEAN
    OBVIOUS
  <2>2. Array(c, S) /\ (Tidy(e) => Tidy(c) /\ Shows(c, Empty, E))
    BY <2>1, ClearKeeps
  <2> QED
    BY <2>2 DEF Clear, Line
<1>3. p = [c EXCEPT !.l = e.l, !.cursor = e.cursor]
  BY DEF Zapped
<1> HIDE DEF c, p
<1>2. /\ c = Line(c.cmd, c.l, c.cursor) /\ c.cmd \in [1 .. Size -> S] /\ c.cmd[Size] = NUL
      /\ e.l \in 0 .. Longest /\ e.cursor \in 0 .. e.l /\ e.l \in Nat /\ Size \in Nat
  BY <1>1, SizeFacts DEF Array
<1>4. p.cmd = c.cmd /\ p.l = e.l /\ p.cursor = e.cursor /\ p = Line(p.cmd, p.l, p.cursor)
  BY <1>2, <1>3 DEF Line
<1>5. Array(p, S)
  BY <1>2, <1>4 DEF Array
<1>6. Tidy(p)
  <2> SUFFICES ASSUME NEW i \in (p.l + 1) .. Size PROVE p.cmd[i] = NUL
    BY DEF Tidy
  <2>1. i \in (c.l + 1) .. Size
    BY <1>1, <1>2, <1>4
  <2> QED
    BY <1>1, <1>4, <2>1 DEF Tidy
<1>7. e.l = 0 => Shows(p, Empty, E)
  BY <1>4, <1>5, <1>6, NothingShows
<1> QED
  BY <1>5, <1>6, <1>7 DEF p

(* The cursor moves, the line stays.                                       *)
MovedTo(e, k) == [e EXCEPT !.cursor = k]

(* A moved cursor changes no cell.                                         *)
LEMMA Moved ==
  ASSUME NEW S, NEW e, Array(e, S), NEW k \in 0 .. e.l
  PROVE  /\ Array(MovedTo(e, k), S)
         /\ Tidy(e) => Tidy(MovedTo(e, k))
<1> DEFINE p == MovedTo(e, k)
<1>1. e = Line(e.cmd, e.l, e.cursor)
  BY DEF Array
<1>2. p.cmd = e.cmd /\ p.l = e.l /\ p.cursor = k /\ p = Line(p.cmd, p.l, p.cursor)
  BY <1>1 DEF Line, MovedTo
<1> HIDE DEF p
<1>3. Array(p, S) /\ (Tidy(e) => Tidy(p))
  BY <1>2 DEF Array, Tidy
<1> QED
  BY <1>3 DEF p

(* A cell of two halves, k cells in the first.                             *)
At(before, after, k, i) == IF i <= k THEN before[i] ELSE after[i - k]

(* Two halves that are the line w again, with the cursor at k.             *)
Divides(e, w, b, a, k) ==
  /\ Len(b) = k /\ Len(b) + Len(a) = e.l
  /\ \A i \in 1 .. e.l : At(b, a, k, i) = At(w.before, w.after, e.cursor, i)

(* The line is meant with the cursor in its new place.                     *)
LEMMA MovedShows ==
  ASSUME NEW S, NEW E, NEW e, NEW w, Array(e, S), Shows(e, w, E),
         NEW k \in 0 .. e.l, NEW b \in Seq(E), NEW a \in Seq(E), Divides(e, w, b, a, k)
  PROVE  Shows(MovedTo(e, k), Pair(b, a), E)
<1> DEFINE p == MovedTo(e, k)
           v == w.before
           u == w.after
<1>1. e = Line(e.cmd, e.l, e.cursor) /\ e.l \in Nat /\ Size \in Nat /\ e.cursor \in 0 .. e.l
  BY SizeFacts DEF Array
<1>2. p.cmd = e.cmd /\ p.l = e.l /\ p.cursor = k
  BY <1>1 DEF Line, MovedTo
<1> HIDE DEF p
<1>3. \A i \in 1 .. Size :
         e.cmd[i] = IF i <= e.cursor THEN v[i] ELSE IF i <= e.l THEN u[i - e.cursor] ELSE NUL
  BY ShownCells, Zenon
<1>4. \A i \in 1 .. e.l : (IF i <= k THEN b[i] ELSE a[i - k])
                             = (IF i <= e.cursor THEN v[i] ELSE u[i - e.cursor])
  BY DEF Divides, At
<1> HIDE DEF v, u
<1>5. ASSUME NEW i \in 1 .. Size
      PROVE  p.cmd[i] = IF i <= p.cursor THEN b[i] ELSE IF i <= p.l THEN a[i - p.cursor] ELSE NUL
  <2>1. CASE i <= e.l
    <3>1. i \in 1 .. e.l
      BY <1>1, <2>1
    <3> QED
      BY <1>2, <1>3, <1>4, <2>1, <3>1
  <2>2. CASE ~(i <= e.l)
    <3>1. ~(i <= k) /\ ~(i <= e.cursor)
      BY <1>1, <2>2
    <3> QED
      BY <1>2, <1>3, <2>2, <3>1
  <2> QED
    BY <2>1, <2>2
<1>6. Shows(p, Pair(b, a), E)
  BY <1>2, <1>5, CellsShow DEF Divides
<1> QED
  BY <1>6 DEF p

(* The names of the commands.                                              *)
Names == {Tree[i].name : i \in Ids}

(* The names that completion may choose from on the line s: those that its *)
(* last word abbreviates, or all of them behind a blank; none behind a bar. *)
Offered(s) ==
  LET words == Words(s)
      more  == s = "" \/ SubSeq(s, Len(s), Len(s)) = " "
      n     == Len(words) + IF more THEN 1 ELSE 0
      word  == IF n > Len(words) THEN "" ELSE words[n]
  IN  IF Contains(words, "|") THEN {} ELSE {x \in Names : Abbreviates(word, x)}

(* What a cell of the array may hold at a prompt that echoes, and at any.  *)
Plainly  == Echoed \cup {NUL}
Typeable == Plainly \cup Secrets

(* The chunks of an echoing line: those that are typed, and the lines that *)
(* completion makes of them.  None of them is a secret.                    *)
Echoes ==
  /\ Cells \subseteq Echoed
  /\ NUL \notin Echoed /\ Echoed \cap Secrets = {}
  /\ \A cells \in Seq(Echoed) : \A names \in SUBSET Offered(Joined(cells)) :
       names # {} => Completed(Joined(cells), names) \in Echoed \cup {Joined(cells)}

(* The lines a history may hold.                                           *)
Entries == {h \in Seq(Echoed) : Len(h) <= Longest}

(* At a prompt that echoes the array holds nothing else than its line, and *)
(* this is the line meant, until Control-Z has lost it.                    *)
LineInv ==
  /\ Array(ed, Typeable)
  /\ ~Secret => /\ Array(ed, Plainly) /\ Tidy(ed)
                /\ want = Lost \/ Shows(ed, want, Echoed)

(* The history holds lines that have echoed.                               *)
HistoryInv ==
  /\ history \in Seq(Entries)
  /\ Len(history) <= HistoryMax
  /\ inHistory \in -1 .. HistoryMax

SessionInv == IInv /\ LineInv /\ HistoryInv

(* What echoes may be typed at some prompt.                                *)
LEMMA PlainIsAny == ASSUME NEW e, Array(e, Plainly) PROVE Array(e, Typeable)
<1>1. \A cmd \in [1 .. Size -> Plainly] : cmd \in [1 .. Size -> Typeable]
  BY DEF Typeable
<1> QED
  BY <1>1 DEF Array

(* The chunks and the NUL that may be in the array.                        *)
LEMMA Chunks ==
  NUL \in Plainly /\ NUL \in Typeable /\ Echoed \subseteq Plainly /\ Echoed \subseteq Typeable
  BY DEF Plainly, Typeable

(* A key that edits the line.                                              *)
LEMMA EditStep ==
  ASSUME LineInv, HistoryInv, NEW e, NEW w, Edit(e, w), Array(e, Typeable),
         ~Secret => Array(e, Plainly) /\ Tidy(e),
         ~Secret /\ Shows(ed, want, Echoed) => Shows(e, w, Echoed)
  PROVE  LineInv' /\ HistoryInv'
<1>1. /\ ed' = e /\ state' = state /\ history' = history /\ inHistory' = inHistory
      /\ want' = IF want = Lost \/ Secret THEN want ELSE w
  BY DEF Edit, Same
<1>2. Secret' <=> Secret
  BY <1>1 DEF Secret
<1>3. HistoryInv'
  BY <1>1 DEF HistoryInv
<1>4. ~Secret' => want' = Lost \/ Shows(ed', want', Echoed)
  BY <1>1, <1>2 DEF LineInv
<1>5. LineInv'
  BY <1>1, <1>2, <1>4 DEF LineInv
<1> QED
  BY <1>3, <1>5

(* A key that makes the array and its length agree again.                  *)
LEMMA RenewStep ==
  ASSUME LineInv, HistoryInv, NEW e, NEW w, Renew(e, w), Array(e, Typeable),
         inHistory' \in -1 .. HistoryMax,
         ~Secret => Array(e, Plainly) /\ Tidy(e) /\ Shows(e, w, Echoed)
  PROVE  LineInv' /\ HistoryInv'
<1>1. ed' = e /\ state' = state /\ history' = history /\ want' = w
  BY DEF Renew, Same
<1>2. Secret' <=> Secret
  BY <1>1 DEF Secret
<1>3. HistoryInv'
  BY <1>1 DEF HistoryInv
<1>4. LineInv'
  BY <1>1, <1>2 DEF LineInv
<1> QED
  BY <1>3, <1>4

(* A line with room is shorter than the longest.                           *)
LEMMA RoomIsShort == ASSUME LineInv, Room PROVE ed.l < Longest
<1>1. ed.l < IF state \in {"NORMAL", "ENABLE"} THEN MaxLine ELSE MaxEntry
  BY DEF Room
<1>2. ed.l \in Nat
  BY SizeFacts DEF LineInv, Array
<1> QED
  BY <1>1, <1>2, LongestIsMax, LineEditorAssumption

(* A character is one of the prompt's own.                                 *)
LEMMA TypeStep == ASSUME Echoes, LineInv, HistoryInv, Type PROVE LineInv' /\ HistoryInv'
<1>1. PICK c \in Keys : Edit(Put(ed, c), Pair(Append(want.before, c), want.after))
  BY DEF Type
<1>2. ed.l < Longest
  BY RoomIsShort DEF Type
<1>3. Array(ed, Typeable) /\ c \in Typeable
  BY <1>1 DEF Keys, Echoes, Plainly, Typeable, LineInv
<1>4. Array(Put(ed, c), Typeable)
  BY <1>2, <1>3, Chunks, PutCells
<1>5. ASSUME ~Secret PROVE Array(Put(ed, c), Plainly) /\ Tidy(Put(ed, c))
  <2>1. Array(ed, Plainly) /\ Tidy(ed) /\ c \in Plainly
    BY <1>1, <1>5 DEF Keys, Echoes, Plainly, LineInv
  <2> QED
    BY <1>2, <2>1, Chunks, PutCells, PutKeeps
<1>6. ASSUME ~Secret, Shows(ed, want, Echoed)
      PROVE  Shows(Put(ed, c), Pair(Append(want.before, c), want.after), Echoed)
  <2>1. c \in Echoed
    BY <1>1, <1>6 DEF Keys, Echoes
  <2> QED
    BY <1>2, <1>3, <1>6, <2>1, Chunks, PutShows
<1> QED
  BY <1>1, <1>4, <1>5, <1>6, EditStep

(* Backspace.                                                              *)
LEMMA BackspaceStep == ASSUME LineInv, HistoryInv, Backspace PROVE LineInv' /\ HistoryInv'
<1>1. ed.cursor > 0 /\ Edit(BackOne(ed, Secret), Pair(Front(want.before), want.after))
  BY DEF Backspace
<1>2. Array(ed, Typeable) /\ Secret \in BOOLEAN
  BY DEF LineInv, Secret
<1>3. Array(BackOne(ed, Secret), Typeable)
  BY <1>1, <1>2, Chunks, BackCells
<1>4. ASSUME ~Secret PROVE Array(BackOne(ed, Secret), Plainly) /\ Tidy(BackOne(ed, Secret))
  <2>1. Array(ed, Plainly) /\ Tidy(ed) /\ Secret = FALSE
    BY <1>2, <1>4 DEF LineInv
  <2> QED
    BY <1>1, <1>2, <2>1, Chunks, BackCells, BackKeeps
<1>5. ASSUME ~Secret, Shows(ed, want, Echoed)
      PROVE  Shows(BackOne(ed, Secret), Pair(Front(want.before), want.after), Echoed)
  <2>1. Secret = FALSE
    BY <1>2, <1>5
  <2>2. Shows(BackOne(ed, FALSE), Pair(Front(want.before), want.after), Echoed)
    BY <1>1, <1>2, <1>5, Chunks, BackShows
  <2> QED
    BY <2>1, <2>2
<1> QED
  BY <1>1, <1>3, <1>4, <1>5, EditStep

(* Control-W.                                                              *)
LEMMA EraseStep == ASSUME LineInv, HistoryInv, EraseWord PROVE LineInv' /\ HistoryInv'
<1> DEFINE v == Pair(SubSeq(want.before, 1, WordStart(want.before)), want.after)
           p == EraseBack(ed, Secret)
<1>1. Edit(p, v)
  BY DEF EraseWord
<1>2. Array(ed, Typeable) /\ Secret \in BOOLEAN /\ (~Secret => Plain(Secret))
  BY DEF LineInv, Secret, Plain
<1>3. Array(p, Typeable)
  BY <1>2, Chunks, EraseKeeps
<1>4. ASSUME ~Secret PROVE Array(p, Plainly) /\ Tidy(p)
  <2>1. Array(ed, Plainly) /\ Tidy(ed)
    BY <1>4 DEF LineInv
  <2> QED
    BY <1>2, <1>4, <2>1, Chunks, EraseKeeps
<1>5. ASSUME ~Secret, Shows(ed, want, Echoed) PROVE Shows(p, v, Echoed)
  BY <1>2, <1>5, Chunks, EraseKeeps
<1> HIDE DEF p, v
<1> QED
  BY <1>1, <1>3, <1>4, <1>5, EditStep

(* Control-K.                                                              *)
LEMMA KillStep == ASSUME LineInv, HistoryInv, KillToEnd PROVE LineInv' /\ HistoryInv'
<1> DEFINE v == Pair(want.before, <<>>)
           p == Kill(ed)
<1>1. Edit(p, v)
  BY DEF KillToEnd
<1>2. Array(ed, Typeable)
  BY DEF LineInv
<1>3. Array(p, Typeable)
  BY <1>2, Chunks, KillKeeps
<1>4. ASSUME ~Secret PROVE Array(p, Plainly) /\ Tidy(p)
  <2>1. Array(ed, Plainly) /\ Tidy(ed)
    BY <1>4 DEF LineInv
  <2> QED
    BY <2>1, Chunks, KillKeeps
<1>5. ASSUME ~Secret, Shows(ed, want, Echoed) PROVE Shows(p, v, Echoed)
  BY <1>2, <1>5, Chunks, KillKeeps
<1> HIDE DEF p, v
<1> QED
  BY <1>1, <1>3, <1>4, <1>5, EditStep

(* Control-U.                                                              *)
LEMMA ClearStep == ASSUME LineInv, HistoryInv, ClearLine PROVE LineInv' /\ HistoryInv'
<1> DEFINE v == IF Secret THEN want ELSE Empty
           p == Clear(ed, Secret)
<1>1. Renew(p, v) /\ inHistory' = inHistory
  BY DEF ClearLine
<1>2. Array(ed, Typeable) /\ Secret \in BOOLEAN
  BY DEF LineInv, Secret
<1>3. Array(p, Typeable)
  BY <1>2, Chunks, ClearKeeps
<1>4. ASSUME ~Secret PROVE Array(p, Plainly) /\ Tidy(p) /\ Shows(p, v, Echoed)
  <2>1. Array(ed, Plainly) /\ Tidy(ed) /\ v = Empty
    BY <1>4 DEF LineInv
  <2> QED
    BY <1>2, <2>1, Chunks, ClearKeeps
<1>5. inHistory' \in -1 .. HistoryMax
  BY <1>1 DEF HistoryInv
<1> HIDE DEF p, v
<1> QED
  BY <1>1, <1>3, <1>4, <1>5, RenewStep

(* Keys that move the cursor.                                              *)
LEMMA MoveStep ==
  ASSUME LineInv, HistoryInv, NEW k \in 0 .. ed.l, NEW w,
         Edit(MovedTo(ed, k), w),
         ~Secret /\ Shows(ed, want, Echoed) => Shows(MovedTo(ed, k), w, Echoed)
  PROVE  LineInv' /\ HistoryInv'
<1> DEFINE p == MovedTo(ed, k)
<1>1. Array(p, Typeable)
  BY Moved DEF LineInv
<1>2. ~Secret => Array(p, Plainly) /\ Tidy(p)
  BY Moved DEF LineInv
<1>3. Edit(p, w) /\ (~Secret /\ Shows(ed, want, Echoed) => Shows(p, w, Echoed))
  OBVIOUS
<1> HIDE DEF p
<1> QED
  BY <1>1, <1>2, <1>3, EditStep

(* The arrow to the left: the last cell before the cursor is behind it.    *)
LEMMA LeftStep == ASSUME LineInv, HistoryInv, Left PROVE LineInv' /\ HistoryInv'
<1> DEFINE b == want.before
           a == want.after
           l == Last(b)
           w == Pair(Front(b), <<l>> \o a)
           k == ed.cursor - 1
<1>1. Array(ed, Typeable) /\ ed.cursor \in Nat /\ ed.l \in Nat /\ ed.cursor <= ed.l /\ ed.cursor > 0
  BY SizeFacts DEF LineInv, Array, Left
<1>2. k \in 0 .. ed.l /\ Edit(MovedTo(ed, k), w)
  BY <1>1 DEF Left, MovedTo
<1>3. ASSUME Shows(ed, want, Echoed) PROVE Shows(MovedTo(ed, k), w, Echoed)
  <2>1. /\ Len(b) \in Nat /\ Len(a) \in Nat
        /\ b \in Seq(Echoed) /\ a \in Seq(Echoed)
        /\ ed.cursor = Len(b) /\ ed.l = Len(b) + Len(a)
        /\ \A i \in 1 .. Len(b) : b[i] \in Echoed
    <3>1. Array(ed, Typeable) /\ Shows(ed, want, Echoed)
      BY <1>1, <1>3
    <3> QED
      BY <3>1, ShownCells, Zenon
  <2> HIDE DEF a, b
  <2>2. Len(b) - 1 \in 0 .. Len(b) /\ Len(b) \in 1 .. Len(b)
    BY <1>1, <2>1
  <2> DEFINE f == SubSeq(b, 1, Len(b) - 1)
             one == <<l>>
             m == one \o a
  <2>3. f \in Seq(Echoed) /\ Len(f) = Len(b) - 1 /\ \A i \in 1 .. (Len(b) - 1) : f[i] = b[i]
    BY <2>1, <2>2, Beginning, Zenon
  <2>4. l = b[Len(b)] /\ l \in Echoed
    BY <2>1, <2>2 DEF Last
  <2> HIDE DEF l, f
  <2>5. one \in Seq(Echoed) /\ Len(one) = 1 /\ one[1] = l
    BY <2>4
  <2> HIDE DEF one
  <2>6. /\ m \in Seq(Echoed) /\ Len(m) = 1 + Len(a)
        /\ \A i \in 1 .. (1 + Len(a)) : m[i] = IF i <= 1 THEN one[i] ELSE a[i - 1]
    <3>1. one \in Seq(Echoed) /\ a \in Seq(Echoed)
      BY <2>1, <2>5
    <3>2. /\ m \in Seq(Echoed)
          /\ Len(m) = Len(one) + Len(a)
          /\ \A i \in 1 .. (Len(one) + Len(a)) : m[i] =
                     IF i <= Len(one) THEN one[i] ELSE a[i - Len(one)]
      BY <3>1, ConcatProperties
    <3> QED
      BY <2>5, <3>2, Zenon
  <2> HIDE DEF m
  <2>7. ASSUME NEW i \in 1 .. ed.l
        PROVE  (IF i <= k THEN f[i] ELSE m[i - k]) = (IF i <= ed.cursor THEN b[i] ELSE a[i - ed.cursor])
    <3>1. CASE i <= k
      <4>1. i \in 1 .. (Len(b) - 1) /\ i <= ed.cursor
        BY <1>1, <2>1, <3>1
      <4> QED
        BY <2>3, <3>1, <4>1
    <3>2. CASE i = ed.cursor
      <4>1. i - k = 1 /\ ~(i <= k) /\ 1 \in 1 .. (1 + Len(a))
        BY <1>1, <2>1, <3>2
      <4>2. m[1] = b[Len(b)]
        BY <2>4, <2>5, <2>6, <4>1
      <4> QED
        BY <1>1, <2>1, <3>2, <4>1, <4>2
    <3>3. CASE i > ed.cursor
      <4>1. /\ i - k \in 1 .. (1 + Len(a)) /\ ~(i - k <= 1) /\ (i - k) - 1 = i - ed.cursor
            /\ ~(i <= k) /\ ~(i <= ed.cursor)
        BY <1>1, <2>1, <3>3
      <4> QED
        BY <2>6, <4>1
    <3> QED
      BY <1>1, <3>1, <3>2, <3>3
  <2>8. Len(f) = k /\ Len(f) + Len(m) = ed.l
    BY <1>1, <2>1, <2>3, <2>6
  <2>9. w = Pair(f, m)
    BY DEF Front, f, m, one
  <2>10. \A i \in 1 .. ed.l : At(f, m, k, i) = At(want.before, want.after, ed.cursor, i)
    BY <2>7, Zenon DEF a, b, At
  <2> HIDE DEF w, k
  <2>11. Shows(MovedTo(ed, k), Pair(f, m), Echoed)
    <3>1. Divides(ed, want, f, m, k)
      BY <2>8, <2>10 DEF Divides
    <3>2. k \in 0 .. ed.l /\ f \in Seq(Echoed) /\ m \in Seq(Echoed)
      BY <1>2, <2>3, <2>6
    <3> QED
      BY <1>1, <1>3, <3>1, <3>2, MovedShows, Zenon
  <2> QED
    BY <2>9, <2>11
<1> HIDE DEF w, k
<1> QED
  BY <1>2, <1>3, MoveStep, Zenon

(* The arrow to the right: the first cell behind the cursor is before it.  *)
LEMMA RightStep == ASSUME LineInv, HistoryInv, Right PROVE LineInv' /\ HistoryInv'
<1> DEFINE b == want.before
           a == want.after
           w == Pair(Append(b, Head(a)), Tail(a))
           k == ed.cursor + 1
<1>1. Array(ed, Typeable) /\ ed.cursor \in Nat /\ ed.l \in Nat /\ ed.cursor <= ed.l /\ ed.cursor # ed.l
  BY SizeFacts DEF LineInv, Array, Right, AtEnd
<1>2. k \in 0 .. ed.l /\ Edit(MovedTo(ed, k), w)
  BY <1>1 DEF Right, MovedTo
<1>3. ASSUME Shows(ed, want, Echoed) PROVE Shows(MovedTo(ed, k), w, Echoed)
  <2>1. /\ Len(b) \in Nat /\ Len(a) \in Nat
        /\ b \in Seq(Echoed) /\ a \in Seq(Echoed)
        /\ ed.cursor = Len(b) /\ ed.l = Len(b) + Len(a)
        /\ \A i \in 1 .. Len(a) : a[i] \in Echoed
    <3>1. Array(ed, Typeable) /\ Shows(ed, want, Echoed)
      BY <1>1, <1>3
    <3> QED
      BY <3>1, ShownCells, Zenon
  <2> HIDE DEF a, b
  <2>2. Len(a) >= 1 /\ 1 \in 1 .. Len(a) /\ a # <<>>
    BY <1>1, <2>1
  <2> DEFINE h == Head(a)
             t == Tail(a)
             n == Append(b, h)
  <2>3. h = a[1] /\ h \in Echoed
    BY <2>1, <2>2
  <2>4. t \in Seq(Echoed) /\ Len(t) = Len(a) - 1 /\ \A i \in 1 .. Len(t) : t[i] = a[i + 1]
    BY <2>1, <2>2, HeadTailProperties
  <2> HIDE DEF h, t
  <2>5. /\ n \in Seq(Echoed) /\ Len(n) = Len(b) + 1 /\ n[Len(b) + 1] = h
        /\ \A i \in 1 .. Len(b) : n[i] = b[i]
    BY <2>1, <2>3, AppendProperties
  <2> HIDE DEF n
  <2>6. ASSUME NEW i \in 1 .. ed.l
        PROVE  (IF i <= k THEN n[i] ELSE t[i - k]) = (IF i <= ed.cursor THEN b[i] ELSE a[i - ed.cursor])
    <3>1. CASE i <= ed.cursor
      <4>1. i \in 1 .. Len(b) /\ i <= k
        BY <1>1, <2>1, <3>1
      <4> QED
        BY <2>5, <3>1, <4>1
    <3>2. CASE i = k
      <4>1. i - ed.cursor = 1 /\ ~(i <= ed.cursor) /\ i = Len(b) + 1 /\ i <= k
        BY <1>1, <2>1, <3>2
      <4> QED
        BY <2>3, <2>5, <4>1
    <3>3. CASE i > k
      <4>1. i - k \in 1 .. Len(t) /\ (i - k) + 1 = i - ed.cursor /\ ~(i <= k) /\ ~(i <= ed.cursor)
        BY <1>1, <2>1, <2>4, <3>3
      <4> QED
        BY <2>4, <4>1
    <3> QED
      BY <1>1, <3>1, <3>2, <3>3
  <2>7. Len(n) = k /\ Len(n) + Len(t) = ed.l
    BY <1>1, <2>1, <2>4, <2>5
  <2>8. w = Pair(n, t)
    BY DEF n, h, t
  <2>9. \A i \in 1 .. ed.l : At(n, t, k, i) = At(want.before, want.after, ed.cursor, i)
    BY <2>6, Zenon DEF a, b, At
  <2> HIDE DEF w, k
  <2>10. Shows(MovedTo(ed, k), Pair(n, t), Echoed)
    <3>1. Array(ed, Typeable) /\ Shows(ed, want, Echoed) /\ k \in 0 .. ed.l
      BY <1>1, <1>2, <1>3
    <3>2. n \in Seq(Echoed) /\ t \in Seq(Echoed)
      BY <2>4, <2>5
    <3>3. Divides(ed, want, n, t, k)
      BY <2>7, <2>9 DEF Divides
    <3> QED
      BY <3>1, <3>2, <3>3, MovedShows, Zenon
  <2> QED
    BY <2>8, <2>10
<1> HIDE DEF w, k
<1> QED
  BY <1>2, <1>3, MoveStep, Zenon

(* The two halves of the line, as one.                                     *)
LEMMA Halves ==
  ASSUME Array(ed, Typeable), Shows(ed, want, Echoed)
  PROVE  /\ want.before \o want.after \in Seq(Echoed) /\ Len(want.before \o want.after) = ed.l
         /\ \A i \in 1 .. ed.l : (want.before \o want.after)[i]
                  = IF i <= ed.cursor THEN want.before[i] ELSE want.after[i - ed.cursor]
<1> DEFINE b == want.before
           a == want.after
<1>1. /\ b \in Seq(Echoed) /\ a \in Seq(Echoed)
      /\ ed.cursor = Len(b) /\ ed.l = Len(b) + Len(a)
  BY ShownCells, Zenon
<1> HIDE DEF a, b
<1>2. /\ b \o a \in Seq(Echoed) /\ Len(b \o a) = Len(b) + Len(a)
      /\ \A i \in 1 .. Len(b) + Len(a) : (b \o a)[i] = IF i <= Len(b) THEN b[i] ELSE a[i - Len(b)]
  BY <1>1, ConcatProperties, Zenon
<1>3. /\ b \o a \in Seq(Echoed) /\ Len(b \o a) = ed.l
      /\ \A i \in 1 .. ed.l : (b \o a)[i] = IF i <= ed.cursor THEN b[i] ELSE a[i - ed.cursor]
  BY <1>1, <1>2, Zenon
<1> QED
  BY <1>3 DEF a, b

(* Control-A.                                                              *)
LEMMA HomeStep == ASSUME LineInv, HistoryInv, Home PROVE LineInv' /\ HistoryInv'
<1> DEFINE none == <<>>
           both == want.before \o want.after
<1>1. Array(ed, Typeable) /\ ed.l \in Nat /\ 0 \in 0 .. ed.l
  BY SizeFacts DEF LineInv, Array
<1>2. Edit(MovedTo(ed, 0), Pair(none, both))
  BY DEF Home, MovedTo
<1>3. none \in Seq(Echoed) /\ Len(none) = 0
  OBVIOUS
<1>4. ASSUME Shows(ed, want, Echoed) PROVE Shows(MovedTo(ed, 0), Pair(none, both), Echoed)
  <2>1. /\ both \in Seq(Echoed) /\ Len(both) = ed.l
        /\ \A i \in 1 .. ed.l :
             both[i] = IF i <= ed.cursor THEN want.before[i] ELSE want.after[i - ed.cursor]
    <3>1. Array(ed, Typeable) /\ Shows(ed, want, Echoed)
      BY <1>1, <1>4
    <3> QED
      BY <3>1, Halves, Zenon
  <2> HIDE DEF both, none
  <2>2. \A i \in 1 .. ed.l : At(none, both, 0, i) = At(want.before, want.after, ed.cursor, i)
    <3> TAKE i \in 1 .. ed.l
    <3>1. ~(i <= 0) /\ i - 0 = i
      BY <1>1
    <3> QED
      BY <2>1, <3>1 DEF At
  <2>3. Len(none) = 0 /\ Len(none) + Len(both) = ed.l
    BY <1>1, <1>3, <2>1
  <2>4. Divides(ed, want, none, both, 0)
    BY <2>2, <2>3 DEF Divides
  <2> QED
    BY <1>1, <1>3, <1>4, <2>1, <2>4, MovedShows, Zenon
<1> HIDE DEF both, none
<1> QED
  BY <1>1, <1>2, <1>4, MoveStep, Zenon

(* Control-E.                                                              *)
LEMMA ToEndStep == ASSUME LineInv, HistoryInv, ToEnd PROVE LineInv' /\ HistoryInv'
<1> DEFINE none == <<>>
           both == want.before \o want.after
<1>1. Array(ed, Typeable) /\ ed.l \in Nat /\ ed.l \in 0 .. ed.l
  BY SizeFacts DEF LineInv, Array
<1>2. Edit(MovedTo(ed, ed.l), Pair(both, none))
  BY DEF ToEnd, MovedTo
<1>3. none \in Seq(Echoed) /\ Len(none) = 0
  OBVIOUS
<1>4. ASSUME Shows(ed, want, Echoed) PROVE Shows(MovedTo(ed, ed.l), Pair(both, none), Echoed)
  <2>1. /\ both \in Seq(Echoed) /\ Len(both) = ed.l
        /\ \A i \in 1 .. ed.l :
             both[i] = IF i <= ed.cursor THEN want.before[i] ELSE want.after[i - ed.cursor]
    <3>1. Array(ed, Typeable) /\ Shows(ed, want, Echoed)
      BY <1>1, <1>4
    <3> QED
      BY <3>1, Halves, Zenon
  <2> HIDE DEF both, none
  <2>2. \A i \in 1 .. ed.l : At(both, none, ed.l, i) = At(want.before, want.after, ed.cursor, i)
    <3> TAKE i \in 1 .. ed.l
    <3>1. i <= ed.l
      BY <1>1
    <3> QED
      BY <2>1, <3>1 DEF At
  <2>3. Len(both) = ed.l /\ Len(both) + Len(none) = ed.l
    BY <1>1, <1>3, <2>1
  <2>4. Divides(ed, want, both, none, ed.l)
    BY <2>2, <2>3 DEF Divides
  <2> QED
    BY <1>1, <1>3, <1>4, <2>1, <2>4, MovedShows, Zenon
<1> HIDE DEF both, none
<1> QED
  BY <1>1, <1>2, <1>4, MoveStep, Zenon

(* Control-Z is for the configuration mode, whose prompt echoes.           *)
LEMMA ControlZStep ==
  ASSUME IInv, LineInv, HistoryInv, ControlZ
  PROVE  LineInv' /\ HistoryInv'
<1>1. /\ state # "ended" /\ mode # EXEC /\ state' = state /\ ed' = Zapped(ed)
      /\ want' = IF ed.l = 0 THEN Empty ELSE Lost
      /\ history' = history /\ inHistory' = inHistory
  BY DEF ControlZ, LeaveConfig, Open
<1>2. state = "ENABLE"
  BY <1>1 DEF IInv, StateMatchesPrivilege
<1>3. ~Secret /\ ~Secret'
  BY <1>1, <1>2 DEF Secret
<1>4. Array(ed, Plainly) /\ Tidy(ed)
  BY <1>3 DEF LineInv
<1>5. /\ Array(Zapped(ed), Plainly) /\ Tidy(Zapped(ed))
      /\ ed.l = 0 => Shows(Zapped(ed), Empty, Echoed)
  BY <1>4, Chunks, ZappedKeeps
<1>6. Array(Zapped(ed), Typeable)
  BY <1>5, PlainIsAny
<1>7. HistoryInv'
  BY <1>1 DEF HistoryInv
<1>8. want' = Lost \/ Shows(ed', want', Echoed)
  BY <1>1, <1>5
<1>9. LineInv'
  BY <1>1, <1>5, <1>6, <1>8 DEF LineInv
<1> QED
  BY <1>7, <1>9

(* An arrow key: the entry of the history is one of the lines that echo.   *)
LEMMA RecallStep ==
  ASSUME LineInv, HistoryInv, ~Secret, NEW h \in -1 .. HistoryMax, Recall(h)
  PROVE  LineInv' /\ HistoryInv'
<1>1. inHistory' \in -1 .. HistoryMax
  BY DEF Recall
<1>2. CASE h + 1 \in DOMAIN history
  <2> DEFINE cells == history[h + 1]
  <2>1. Renew(Filled(cells), Pair(cells, <<>>))
    BY <1>2 DEF Recall
  <2>2. cells \in Entries
    BY <1>2 DEF HistoryInv
  <2>3. cells \in Seq(Echoed) /\ Len(cells) <= Longest
    BY <2>2 DEF Entries
  <2> HIDE DEF cells
  <2>4. /\ Array(Filled(cells), Plainly) /\ Tidy(Filled(cells))
        /\ Shows(Filled(cells), Pair(cells, <<>>), Echoed)
    BY <2>3, Chunks, FilledShows
  <2>5. Array(Filled(cells), Typeable)
    BY <2>4, PlainIsAny
  <2> QED
    BY <1>1, <2>1, <2>4, <2>5, RenewStep
<1>3. CASE h + 1 \notin DOMAIN history
  <2>1. ed' = ed /\ want' = want /\ state' = state /\ history' = history
    BY <1>3 DEF Recall, Same
  <2>2. Secret' <=> Secret
    BY <2>1 DEF Secret
  <2>3. HistoryInv'
    BY <1>1, <2>1 DEF HistoryInv
  <2>4. LineInv'
    BY <2>1, <2>2 DEF LineInv
  <2> QED
    BY <2>3, <2>4
<1> QED
  BY <1>2, <1>3

(* The arrow up.                                                           *)
LEMMA UpStep == ASSUME LineInv, HistoryInv, Up PROVE LineInv' /\ HistoryInv'
<1> DEFINE h == IF inHistory > 0 THEN inHistory - 1 ELSE Len(history) - 1
<1>1. ~Secret /\ Recall(h)
  BY DEF Up, Secret
<1>2. /\ HistoryMax \in Nat /\ Len(history) \in Nat
      /\ Len(history) <= HistoryMax /\ inHistory \in -1 .. HistoryMax
  BY SessionAssumption DEF HistoryInv
<1>3. h \in -1 .. HistoryMax
  BY <1>2
<1> HIDE DEF h
<1> QED
  BY <1>1, <1>3, RecallStep

(* The arrow down.                                                         *)
LEMMA DownStep == ASSUME LineInv, HistoryInv, Down PROVE LineInv' /\ HistoryInv'
<1> DEFINE h == IF inHistory + 1 >= Len(history) /\ history # <<>> THEN 0 ELSE inHistory + 1
<1>1. ~Secret /\ Recall(h) /\ inHistory < HistoryMax
  BY DEF Down, Secret
<1>2. HistoryMax \in Nat /\ inHistory \in -1 .. HistoryMax
  BY SessionAssumption DEF HistoryInv
<1>3. h \in -1 .. HistoryMax
  BY <1>1, <1>2
<1> HIDE DEF h
<1> QED
  BY <1>1, <1>3, RecallStep

(* Completion.                                                             *)
LEMMA CompletionsAreNames ==
  ASSUME NEW words, NEW n
  PROVE  /\ Contains(words, "|") => Completions(words, n) = {}
         /\ \A x \in Completions(words, n) :
              x \in Names /\ Abbreviates(IF n > Len(words) THEN "" ELSE words[n], x)
<1> DEFINE word == IF n > Len(words) THEN "" ELSE words[n]
           tops == {i \in Completing(0, words[1]) : unique[i] <= Len(words[1])}
           into == CASE n = 1              -> Completing(0, word)
                     [] n = 2 /\ tops # {} -> Completing(Min(tops), word)
                     [] OTHER              -> {}
<1>1. Completions(words, n) = IF Contains(words, "|") THEN {} ELSE {Tree[i].name : i \in into}
  BY DEF Completions
<1> HIDE DEF word, tops
<1>2. into = {} \/ \E parent : into = Completing(parent, word)
  <2>1. CASE n = 1
    BY <2>1
  <2>2. CASE n # 1 /\ n = 2 /\ tops # {}
    BY <2>2
  <2>3. CASE ~(n = 1) /\ ~(n = 2 /\ tops # {})
    BY <2>3
  <2> QED
    BY <2>1, <2>2, <2>3
<1> HIDE DEF into
<1>3. \A i \in into : i \in Ids /\ Abbreviates(word, Tree[i].name)
  BY <1>2 DEF Completing, Children
<1> QED
  BY <1>1, <1>3 DEF Names, word

(* The tab: the new line is one that may be shown.                         *)
LEMMA CompleteStep ==
  ASSUME Echoes, LineInv, HistoryInv, Complete
  PROVE  LineInv' /\ HistoryInv'
<1>1. PICK s, words, n :
        LET names == Completions(words, n)
        IN  /\ s = Joined(Text(ed)) /\ words = Words(s) /\ names # {}
            /\ n = Len(words) + IF s = "" \/ SubSeq(s, Len(s), Len(s)) = " " THEN 1 ELSE 0
            /\ \E line \in {Completed(s, names)} :
                 Edit(IF line = s THEN ed ELSE Filled(<<line>>),
                      IF line = s THEN want ELSE Pair(<<line>>, <<>>))
  BY DEF Complete
<1> DEFINE names == Completions(words, n)
           line == Completed(s, names)
           e == IF line = s THEN ed ELSE Filled(<<line>>)
           w == IF line = s THEN want ELSE Pair(<<line>>, <<>>)
<1>2. s = Joined(Text(ed)) /\ names # {} /\ Edit(e, w)
  BY <1>1
<1>3. ~Secret
  BY DEF Complete, Secret
<1>4. Array(ed, Plainly) /\ Array(ed, Typeable) /\ Tidy(ed)
  BY <1>3 DEF LineInv
<1>5. Text(ed) \in Seq(Echoed)
  <2>1. Plainly \ {NUL} = Echoed
    BY DEF Echoes, Plainly
  <2>2. Text(ed) \in Seq(Plainly \ {NUL})
    BY <1>4, TidyText
  <2> QED
    BY <2>1, <2>2
<1>6. names \in SUBSET Offered(s)
  BY <1>1, CompletionsAreNames DEF Offered
<1> HIDE DEF names
<1>7. line \in Echoed \cup {s}
  BY <1>2, <1>5, <1>6 DEF Echoes
<1> HIDE DEF line
<1>8. CASE line = s
  <2>1. e = ed /\ w = want
    BY <1>8
  <2> HIDE DEF e, w
  <2> QED
    BY <1>2, <1>3, <1>4, <2>1, EditStep
<1>9. CASE line # s
  <2>1. line \in Echoed
    BY <1>7, <1>9
  <2> DEFINE one == <<line>>
  <2>2. one \in Seq(Echoed) /\ Len(one) <= Longest
    BY <2>1, LongestIsMax
  <2>3. e = Filled(one) /\ w = Pair(one, <<>>)
    BY <1>9
  <2> HIDE DEF one, e, w
  <2>4. Array(e, Plainly) /\ Tidy(e) /\ Shows(e, w, Echoed)
    BY <2>2, <2>3, Chunks, FilledShows
  <2>5. Array(e, Typeable)
    BY <2>4, PlainIsAny
  <2> QED
    BY <1>2, <2>4, <2>5, EditStep
<1> QED
  BY <1>8, <1>9

(* The end of a line.                                                      *)
LEMMA HistoryKept ==
  ASSUME HistoryInv, NEW cells \in Entries
  PROVE  AddHistory(cells) \in Seq(Entries) /\ Len(AddHistory(cells)) <= HistoryMax
<1> DEFINE t == Tail(history)
<1>1. /\ history \in Seq(Entries) /\ Len(history) \in Nat /\ Len(history) <= HistoryMax
      /\ HistoryMax \in Nat /\ HistoryMax >= 1
  BY SessionAssumption DEF HistoryInv
<1>2. CASE Len(history) = HistoryMax
  <2>1. history # <<>>
    BY <1>1, <1>2
  <2>2. t \in Seq(Entries) /\ Len(t) = Len(history) - 1
    BY <1>1, <2>1, HeadTailProperties
  <2>3. AddHistory(cells) = Append(t, cells)
    BY <1>2 DEF AddHistory
  <2> HIDE DEF t
  <2>4. Append(t, cells) \in Seq(Entries) /\ Len(Append(t, cells)) = Len(t) + 1
    BY <2>2, AppendProperties
  <2> QED
    BY <1>1, <1>2, <2>2, <2>3, <2>4
<1>3. CASE Len(history) # HistoryMax
  <2>1. AddHistory(cells) = history \/ AddHistory(cells) = Append(history, cells)
    BY <1>3 DEF AddHistory
  <2>2. Append(history, cells) \in Seq(Entries) /\ Len(Append(history, cells)) = Len(history) + 1
    BY <1>1, AppendProperties
  <2> QED
    BY <1>1, <1>3, <2>1, <2>2
<1> QED
  BY <1>2, <1>3

(* The line that ends goes into the history only from a prompt that        *)
(* echoes.                                                                 *)
LEMMA LineEndsStep ==
  ASSUME Echoes, LineInv, HistoryInv, NEW e, NEW again, LineEnds(e, again),
         ~Secret => Array(e, Plainly) /\ Tidy(e),
         again => ~Secret /\ AtEnd(ed) /\ WithoutLast(e) = ed
  PROVE  LineInv' /\ HistoryInv'
<1>1. /\ history' = IF state' = "ended" THEN <<>> ELSE IF e.l = 0 THEN history ELSE Remembered(e)
      /\ ed' = IF again /\ state' # "ended" THEN WithoutLast(e) ELSE Blank
      /\ want' = IF want = Lost /\ ed'.l > 0 THEN Lost ELSE Pair(Text(ed'), <<>>)
      /\ inHistory' = 0
  BY DEF LineEnds
<1>2. NUL \notin Echoed /\ Plainly \ {NUL} = Echoed /\ Plainly = Echoed \cup {NUL}
  BY DEF Echoes, Plainly
<1>3. HistoryInv'
  <2>1. ASSUME ~Secret PROVE Text(e) \in Entries
    <3>1. Text(e) \in Seq(Echoed) /\ Len(Text(e)) \in 0 .. e.l
      BY <1>2, <2>1, TidyText
    <3>2. e.l \in 0 .. Longest /\ Longest \in Nat
      BY <2>1, SizeFacts DEF Array
    <3> QED
      BY <3>1, <3>2 DEF Entries
  <2>2. Remembered(e) = history \/ (~Secret /\ Remembered(e) = AddHistory(Text(e)))
    BY DEF Remembered
  <2>3. Remembered(e) \in Seq(Entries) /\ Len(Remembered(e)) <= HistoryMax
    BY <2>1, <2>2, HistoryKept DEF HistoryInv
  <2>4. 0 \in -1 .. HistoryMax /\ Len(<<>>) <= HistoryMax /\ <<>> \in Seq(Entries)
    BY SessionAssumption
  <2> DEFINE x == history'
             y == Remembered(e)
  <2>5. x = <<>> \/ x = history \/ x = y
    BY <1>1
  <2> HIDE DEF x, y
  <2>6. x \in Seq(Entries) /\ Len(x) <= HistoryMax
    BY <2>3, <2>4, <2>5 DEF HistoryInv, y
  <2> QED
    BY <1>1, <2>4, <2>6 DEF HistoryInv, x
<1>4. Array(Blank, Plainly) /\ Tidy(Blank) /\ AtEnd(Blank) /\ Blank.l = 0
  BY Chunks, BlankShows DEF AtEnd, Blank, Line
<1>5. ASSUME again PROVE Array(ed, Plainly) /\ Tidy(ed) /\ AtEnd(ed)
  BY <1>5 DEF LineInv
<1>6. ed' = Blank \/ (again /\ ed' = ed)
  BY <1>1
<1>7. Array(ed', Plainly) /\ Tidy(ed') /\ AtEnd(ed')
  BY <1>4, <1>5, <1>6
<1>8. want' = Lost \/ Shows(ed', want', Echoed)
  <2> SUFFICES ASSUME ~(want = Lost /\ ed'.l > 0) PROVE Shows(ed', Pair(Text(ed'), <<>>), Echoed)
    BY <1>1
  <2>1. Len(Text(ed')) = ed'.l
    <3>1. CASE ed'.l = 0
      <4>1. Len(Text(ed')) \in 0 .. ed'.l
        BY <1>7, TidyText
      <4> QED
        BY <3>1, <4>1
    <3>2. CASE ed'.l # 0
      <4>1. again /\ ed' = ed
        BY <1>4, <1>6, <3>2
      <4>2. ed.l > 0
        BY <3>2, <4>1, SizeFacts DEF LineInv, Array
      <4>3. Shows(ed, want, Echoed)
        BY <4>1, <4>2 DEF LineInv
      <4> QED
        BY <1>2, <1>5, <4>1, <4>3, ShownText
    <3> QED
      BY <3>1, <3>2
  <2> DEFINE d == ed'
  <2>2. Array(d, Echoed \cup {NUL}) /\ Tidy(d) /\ AtEnd(d) /\ Len(Text(d)) = d.l
    BY <1>2, <1>7, <2>1
  <2> HIDE DEF d
  <2>3. Shows(d, Pair(Text(d), <<>>), Echoed)
    BY <1>2, <2>2, TextShows
  <2> QED
    BY <2>3 DEF d
<1>9. Array(ed', Typeable)
  BY <1>7, PlainIsAny
<1>10. LineInv'
  BY <1>7, <1>8, <1>9 DEF LineInv
<1> QED
  BY <1>3, <1>10

(* The carriage return.                                                    *)
LEMMA EnterStep == ASSUME Echoes, LineInv, HistoryInv, Enter PROVE LineInv' /\ HistoryInv'
  BY LineEndsStep DEF Enter, LineInv

(* The line that a question mark ends is one that echoes.                  *)
LEMMA MarkedLine ==
  ASSUME Echoes, LineInv, QuestionMark
  PROVE  ~Secret /\ Array(Put(ed, "?"), Plainly) /\ Tidy(Put(ed, "?"))
<1>1. Room /\ ~Secret /\ "?" \in Keys /\ AtEnd(ed)
  BY DEF QuestionMark
<1>2. ~Secret /\ "?" \in Plainly
  BY <1>1 DEF Keys, Echoes, Plainly
<1>3. Array(ed, Plainly) /\ Tidy(ed)
  BY <1>2 DEF LineInv
<1>4. ed.l < Longest
  BY <1>1, RoomIsShort
<1> QED
  BY <1>2, <1>3, <1>4, Chunks, PutCells, PutKeeps

(* The question mark, which gives the line back.                           *)
LEMMA QuestionMarkStep ==
  ASSUME Echoes, LineInv, HistoryInv, QuestionMark
  PROVE  LineInv' /\ HistoryInv'
<1> DEFINE e == Put(ed, "?")
<1>1. AtEnd(ed) /\ LineEnds(e, TRUE)
  BY DEF QuestionMark
<1>2. ~Secret /\ Array(ed, Plainly) /\ Tidy(ed) /\ Array(e, Plainly) /\ Tidy(e)
  BY MarkedLine DEF LineInv
<1>3. WithoutLast(e) = ed
  BY <1>1, <1>2, GivenBack
<1> HIDE DEF e
<1> QED
  BY <1>1, <1>2, <1>3, LineEndsStep

(* The end of the session.                                                 *)
LEMMA OverStep == ASSUME Echoes, LineInv, HistoryInv, Over PROVE LineInv' /\ HistoryInv'
<1>1. ed' = Blank /\ history' = <<>> /\ want' = Empty /\ inHistory' = 0
  BY DEF Over
<1>2. Array(Blank, Plainly) /\ Tidy(Blank) /\ Shows(Blank, Empty, Echoed)
  BY Chunks, BlankShows
<1>3. Array(Blank, Typeable)
  BY <1>2, PlainIsAny
<1>4. LineInv'
  BY <1>1, <1>2, <1>3 DEF LineInv
<1>5. HistoryInv'
  BY <1>1, SessionAssumption DEF HistoryInv
<1> QED
  BY <1>4, <1>5

-----------------------------------------------------------------------------
(* What a command leaves behind.                                           *)

(* The letters a command needs are a number.                               *)
LEMMA LettersNeeded ==
  ASSUME NEW p, NEW m, NEW old \in [Ids -> Nat]
  PROVE  BuildShortest(p, m, old) \in [Ids -> Nat]
<1> DEFINE Letters(i) ==
             LET parent   == Tree[i].parent
                 siblings == {j \in Children(parent) \ {i} : Visible(j, p, m)}
             IN  IF parent # 0 /\ ~Visible(parent, p, m) THEN old[i]
                 ELSE IF ~Visible(i, p, m) THEN Len(Tree[i].name)
                 ELSE Max({1} \cup {Shared(Tree[i].name, Tree[j].name) + 1 : j \in siblings})
<1>1. ASSUME NEW i \in Ids PROVE Letters(i) \in Nat
  <2> DEFINE siblings == {j \in Children(Tree[i].parent) \ {i} : Visible(j, p, m)}
             L == Len(Tree[i].name)
             N == {Shared(Tree[i].name, Tree[j].name) + 1 : j \in siblings}
             S == {1} \cup N
  <2>1. siblings \subseteq Ids
    BY DEF Children
  <2>2. L \in Nat /\ \A j \in Ids : Shared(Tree[i].name, Tree[j].name) \in 0 .. L
    BY LettersAssumption
  <2> HIDE DEF siblings, L
  <2>3. ASSUME NEW x \in N PROVE x \in 0 .. (L + 1)
    <3>1. PICK j \in siblings : x = Shared(Tree[i].name, Tree[j].name) + 1
      BY <2>3
    <3> DEFINE n == Shared(Tree[i].name, Tree[j].name)
    <3>2. n \in 0 .. L /\ x = n + 1
      BY <2>1, <2>2, <3>1
    <3> HIDE DEF n
    <3> QED
      BY <2>2, <3>2
  <2> HIDE DEF N
  <2>4. S \subseteq 0 .. (L + 1) /\ S # {} /\ L + 1 \in Nat
    BY <2>2, <2>3
  <2> HIDE DEF S
  <2>5. Max(S) \in Nat
    <3>1. Max(S) \in S
      BY <2>4, MaxIsMember
    <3>2. Max(S) \in 0 .. (L + 1)
      BY <2>4, <3>1, Zenon
    <3>3. \A x \in 0 .. (L + 1) : x \in Nat
      OBVIOUS
    <3> QED
      BY <3>2, <3>3, Zenon
  <2>6. \/ Letters(i) = old[i] \/ Letters(i) = L \/ Letters(i) = Max(S)
    BY Zenon DEF siblings, L, N, S
  <2> HIDE DEF Letters
  <2> QED
    BY <2>2, <2>5, <2>6
<1>2. BuildShortest(p, m, old) = [i \in Ids |-> Letters(i)]
  BY DEF BuildShortest
<1> HIDE DEF Letters
<1> QED
  BY <1>1, <1>2

(* A new privilege or mode.                                                *)
LEMMA BecomeStep ==
  ASSUME unique \in [Ids -> Nat], NEW p, NEW m, Become(p, m)
  PROVE  unique' \in [Ids -> Nat]
<1>1. unique' = Rebuilt(p, m)
  BY DEF Become
<1> DEFINE first == IF p = privilege THEN unique ELSE BuildShortest(p, mode, unique)
<1>2. first \in [Ids -> Nat]
  BY LettersNeeded
<1>3. Rebuilt(p, m) = IF m = mode THEN first ELSE BuildShortest(p, m, first)
  BY DEF Rebuilt
<1> HIDE DEF first
<1>4. BuildShortest(p, m, first) \in [Ids -> Nat]
  BY <1>2, LettersNeeded
<1> QED
  BY <1>1, <1>2, <1>3, <1>4

-----------------------------------------------------------------------------
(* A list of filters that are installed.                                   *)
AllIn(list) == \A i \in DOMAIN list : list[i].kind \in Installed

Reasons == {"missing", "help", "ambiguous", "invalid"}

(* A filter's words make a filter, or give a reason why not.               *)
LEMMA VerdictKinds == ASSUME NEW args PROVE Verdict(args).kind \in Installed \cup Reasons
<1>1. Grep(args).kind \in Installed \cup Reasons
  BY DEF Grep, Match, Bad, Installed, Reasons
<1>2. MatchInit(args).kind \in Installed \cup Reasons
  BY <1>1 DEF MatchInit, Match, Bad, Installed, Reasons
<1>3. RangeInit(args).kind \in Installed \cup Reasons
  BY DEF RangeInit, Span, Bad, Installed, Reasons
<1>4. CountInit(args).kind \in Installed \cup Reasons
  BY DEF CountInit, Count, Bad, Installed, Reasons
<1>5. \A why \in Reasons : Bad(why).kind \in Installed \cup Reasons
  BY DEF Bad
<1>6. \/ \E why \in Reasons : Verdict(args) = Bad(why)
      \/ Verdict(args) = MatchInit(args)
      \/ Verdict(args) = RangeInit(args)
      \/ Verdict(args) = CountInit(args)
  BY Zenon DEF Verdict, Reasons
<1> QED
  BY <1>2, <1>3, <1>4, <1>5, <1>6

(* The verdicts on a line: only the last may be no filter.                 *)
LEMMA VerdictsShape ==
  ASSUME NEW m \in Nat, NEW words, DOMAIN words = 1 .. m
  PROVE  \E n \in Nat :
           /\ Len(Verdicts(words)) = n /\ DOMAIN Verdicts(words) = 1 .. n
           /\ \E K : Verdicts(words) \in Seq(K)
           /\ \A i \in 1 .. (n - 1) : Verdicts(words)[i].kind \in Installed
           /\ n # 0 => Verdicts(words)[n].kind \in Installed \cup Reasons
<1> DEFINE k == Cardinality(Bars(words))
           bar == InOrder(Bars(words))
           all == Judged(words, bar)
           bad == {f \in DOMAIN all : all[f].kind \notin Installed}
           v == Verdicts(words)
<1>1. k \in Nat
  <2>1. Bars(words) \subseteq 1 .. m
    BY DEF Bars
  <2>2. IsFiniteSet(Bars(words))
    BY <2>1, FS_Interval, FS_Subset
  <2> QED
    BY <2>2, FS_CardinalityType
<1>2. DOMAIN bar = 1 .. k
  BY DEF InOrder
<1>3. v = UpToFirst(all, bad)
  BY DEF Verdicts
<1> HIDE DEF bar, k
<1>4. /\ all = [f \in 1 .. k |-> all[f]]
      /\ \A f \in 1 .. k : all[f].kind \in Installed \cup Reasons
  <2>1. all = [f \in 1 .. k |->
           Verdict(SubSeq(words, bar[f] + 1, IF f < Len(bar) THEN bar[f + 1] - 1 ELSE Len(words)))]
    BY <1>2 DEF Judged
  <2> HIDE DEF all
  <2>2. \A f \in 1 .. k : \E args : all[f] = Verdict(args)
    BY <2>1
  <2> QED
    BY <2>1, <2>2, VerdictKinds
<1> HIDE DEF all, v
<1> DEFINE K == {all[f] : f \in 1 .. k}
<1>5. all \in Seq(K) /\ Len(all) = k /\ DOMAIN all = 1 .. k
  BY <1>1, <1>4
<1> HIDE DEF K
<1>6. CASE bad = {}
  <2>1. v = all
    BY <1>3, <1>6 DEF UpToFirst
  <2>2. \A f \in 1 .. k : all[f].kind \in Installed
    BY <1>5, <1>6
  <2>3. \A i \in 1 .. (k - 1) : i \in 1 .. k
    BY <1>1
  <2>4. k # 0 => k \in 1 .. k
    BY <1>1
  <2> QED
    BY <1>1, <1>5, <2>1, <2>2, <2>3, <2>4 DEF v
<1>7. CASE bad # {}
  <2>1. bad \subseteq Nat /\ bad \subseteq 1 .. k
    BY <1>1, <1>5
  <2> DEFINE n == Min(bad)
  <2>2. PICK x \in bad : \A y \in bad : x <= y
    <3> HIDE DEF bad
    <3> QED
      BY <1>7, <2>1, Smallest
  <2>3. n \in bad /\ \A y \in bad : n <= y
    <3> HIDE DEF bad
    <3> QED
      BY <2>2 DEF Min
  <2>4. v = SubSeq(all, 1, n)
    BY <1>3, <1>7 DEF UpToFirst
  <2> HIDE DEF n
  <2>5. n \in 1 .. k /\ n \in 0 .. Len(all) /\ n \in Nat
    BY <1>1, <1>5, <2>1, <2>3
  <2>6. v \in Seq(K) /\ Len(v) = n /\ \A i \in 1 .. n : v[i] = all[i]
    BY <1>5, <2>4, <2>5, Beginning
  <2>7. ASSUME NEW i \in 1 .. (n - 1) PROVE v[i].kind \in Installed
    <3>1. i \in 1 .. n /\ i \in 1 .. k /\ ~(n <= i)
      BY <1>1, <2>5
    <3>2. i \notin bad
      BY <2>3, <3>1
    <3> QED
      BY <1>5, <2>6, <3>1, <3>2
  <2>8. v[n].kind \in Installed \cup Reasons
    <3>1. n \in 1 .. n
      BY <2>5
    <3>2. v[n] = all[n]
      BY <2>6, <3>1, Zenon
    <3> QED
      BY <1>4, <2>5, <3>2, Zenon
  <2>9. DOMAIN v = 1 .. n
    BY <2>6
  <2> QED
    BY <2>5, <2>6, <2>7, <2>8, <2>9 DEF v
<1> QED
  BY <1>6, <1>7

-----------------------------------------------------------------------------
(* The filters that are installed, and those a command has run through.    *)

Prompts == {"LOGIN", "PASSWORD", "NORMAL", "ENABLE_PASSWORD", "ENABLE", "ended"}

PromptInv  == state \in Prompts /\ unique \in [Ids -> Nat]
FiltersInv == AllIn(filters) /\ AllIn(ran.through) /\ ran.id \in Ids \cup {0}

(* A command is called with filters that are installed, or not at all.     *)
FiltersLeft(id, through, left) == id \in Ids \cup {0} /\ AllIn(through) /\ AllIn(left)

(* Where no command ran there is no filter.                                *)
LEMMA NothingRan == Nothing.through = <<>> /\ Nothing.id = 0 /\ AllIn(<<>>)
  BY DEF Nothing, Did, AllIn

(* A step that says what ran and what is left in the list.                 *)
LEMMA FiltersNext ==
  ASSUME NEW id, NEW through, NEW left, NEW output,
         FiltersLeft(id, through, left), ran' = Did(id, through, output), filters' = left
  PROVE  FiltersInv'
<1>1. ran'.id = id /\ ran'.through = through
  BY DEF Did
<1>2. AllIn(ran'.through) /\ AllIn(filters') /\ ran'.id \in Ids \cup {0}
  BY <1>1 DEF FiltersLeft
<1> QED
  BY <1>2 DEF FiltersInv

(* A step without a command.                                               *)
LEMMA FiltersSame ==
  ASSUME FiltersInv, filters' = filters, ran' = Nothing
  PROVE  FiltersInv'
<1>1. FiltersLeft(0, <<>>, filters)
  BY NothingRan DEF FiltersInv, FiltersLeft
<1>2. ran' = Did(0, <<>>, <<>>)
  BY DEF Nothing
<1> QED
  BY <1>1, <1>2, FiltersNext

(* cli_run_command, on all of its ways out.                                *)
LEMMA CarryStep ==
  ASSUME FiltersInv, NEW id \in Ids \cup {0}, NEW words, NEW m \in Nat, DOMAIN words = 1 .. m,
         Carry(id, Verdicts(words))
  PROVE  FiltersInv'
<1> DEFINE v == Verdicts(words)
<1>1. PICK n \in Nat : /\ Len(v) = n /\ DOMAIN v = 1 .. n
                       /\ \E K : v \in Seq(K)
                       /\ \A i \in 1 .. (n - 1) : v[i].kind \in Installed
                       /\ n # 0 => v[n].kind \in Installed \cup Reasons
  BY VerdictsShape
<1>2. PICK K : v \in Seq(K)
  BY <1>1
<1>3. Carry(id, v)
  OBVIOUS
<1> HIDE DEF v
<1> DEFINE front == Front(v)
<1>4. AllIn(filters) /\ AllIn(<<>>) /\ 0 \in Ids \cup {0}
  BY NothingRan DEF FiltersInv
<1>5. v # <<>> => n # 0 /\ AllIn(front)
  <2> SUFFICES ASSUME v # <<>> PROVE n # 0 /\ AllIn(front)
    OBVIOUS
  <2>1. n # 0 /\ n - 1 \in 0 .. Len(v)
    BY <1>1, <1>2
  <2>2. front = SubSeq(v, 1, n - 1)
    BY <1>1 DEF Front
  <2>3. front \in Seq(K) /\ Len(front) = n - 1 /\ \A i \in 1 .. (n - 1) : front[i] = v[i]
    BY <1>2, <2>1, <2>2, Beginning
  <2> HIDE DEF front
  <2>4. DOMAIN front = 1 .. (n - 1)
    BY <2>3
  <2> QED
    BY <1>1, <2>1, <2>3, <2>4 DEF AllIn
<1>6. ASSUME NEW left, AllIn(left), Answer(left) PROVE FiltersInv'
  <2>1. ran' = Did(0, <<>>, <<>>) /\ filters' = left
    BY <1>6 DEF Answer, Nothing
  <2>2. FiltersLeft(0, <<>>, left)
    BY <1>4, <1>6 DEF FiltersLeft
  <2> QED
    BY <2>1, <2>2, FiltersNext
<1>7. ASSUME NEW through, AllIn(through), Refuse(through) PROVE FiltersInv'
  <2>1. ran' = Did(0, through, <<>>) /\ filters' = <<>>
    BY <1>7 DEF Refuse
  <2>2. FiltersLeft(0, through, <<>>)
    BY <1>4, <1>7 DEF FiltersLeft
  <2> QED
    BY <2>1, <2>2, FiltersNext
<1>8. ASSUME NEW through, AllIn(through), Call(id, through) PROVE FiltersInv'
  <2>1. PICK output : ran' = Did(id, through, output) /\ filters' = <<>>
    BY <1>8 DEF Call
  <2>2. FiltersLeft(id, through, <<>>)
    BY <1>4, <1>8 DEF FiltersLeft
  <2> QED
    BY <2>1, <2>2, FiltersNext
<1> HIDE DEF front
<1>9. CASE id = 0
  BY <1>3, <1>4, <1>6, <1>9 DEF Carry
<1>10. CASE id # 0 /\ CutShort(v)
  <2>1. v # <<>>
    BY <1>10 DEF CutShort
  <2>2. AllIn(Remaining(v))
    BY <1>4, <1>5, <2>1 DEF Remaining, front
  <2> QED
    BY <1>3, <1>6, <1>10, <2>2 DEF Carry
<1>11. CASE id # 0 /\ ~CutShort(v) /\ Refused(v)
  <2>1. v # <<>>
    BY <1>11 DEF Refused
  <2> QED
    BY <1>3, <1>5, <1>7, <1>11, <2>1 DEF Carry, front
<1>12. CASE id # 0 /\ ~CutShort(v) /\ ~Refused(v)
  <2> DEFINE through == IF v = <<>> THEN filters ELSE v
  <2>1. Call(id, through)
    BY <1>3, <1>12 DEF Carry
  <2>2. ASSUME v # <<>> PROVE AllIn(v)
    <3>1. Last(v) = v[n] /\ n # 0
      BY <1>1, <1>5, <2>2 DEF Last
    <3>2. v[n].kind \notin Reasons
      BY <1>12, <2>2, <3>1 DEF CutShort, Refused, Reasons
    <3>3. v[n].kind \in Installed
      BY <1>1, <3>1, <3>2
    <3>4. \A i \in 1 .. n : i = n \/ i \in 1 .. (n - 1)
      BY <1>1
    <3> QED
      BY <1>1, <3>3, <3>4 DEF AllIn
  <2>3. AllIn(through)
    BY <1>4, <2>2
  <2> HIDE DEF through
  <2> QED
    BY <1>8, <2>1, <2>3
<1> QED
  BY <1>9, <1>10, <1>11, <1>12

(* A whole line.                                                           *)
LEMMA RunFilters ==
  ASSUME FiltersInv, NEW words, NEW m \in Nat, DOMAIN words = 1 .. m, Run(words)
  PROVE  FiltersInv'
<1>1. CASE words = <<>>
  BY <1>1, FiltersSame DEF Run, Answer
<1>2. CASE words # <<>>
  <2>1. Carry(Found(words), Verdicts(words))
    BY <1>2 DEF Run
  <2>2. Found(words) \in Ids \cup {0}
    BY FoundIsUsable DEF Usable
  <2> QED
    BY <2>1, <2>2, CarryStep
<1> QED
  BY <1>1, <1>2

(* The words of a line are as many as it has places where one begins.      *)
LEMMA WordsAreCounted ==
  ASSUME NEW s, Len(s) \in Nat
  PROVE  \E m \in Nat : DOMAIN Words(s) = 1 .. m /\ Len(Words(s)) = m
<1> DEFINE at(i)   == SubSeq(s, i, i)
           ends(i) == at(i) \in {" ", "|"}
           starts  == {i \in 1 .. Len(s) : at(i) # " " /\ (at(i) = "|" \/ i = 1 \/ ends(i - 1))}
           last(i) == Max({i} \cup {j \in i .. Len(s) : \A k \in i .. j : ~ends(k)})
           start == InOrder(starts)
           word(n) == SubSeq(s, start[n], last(start[n]))
<1>2. Words(s) = [n \in DOMAIN start |-> word(n)]
  BY DEF Words
<1>1. starts \subseteq 1 .. Len(s)
  OBVIOUS
<1> HIDE DEF starts, word
<1>3. Cardinality(starts) \in Nat
  <2>1. IsFiniteSet(1 .. Len(s))
    BY FS_Interval
  <2>2. IsFiniteSet(starts)
    BY <1>1, <2>1, FS_Subset
  <2> QED
    BY <2>2, FS_CardinalityType
<1>4. DOMAIN start = 1 .. Cardinality(starts)
  BY DEF InOrder
<1> HIDE DEF start
<1> QED
  BY <1>2, <1>3, <1>4

-----------------------------------------------------------------------------
(* The prompt and the letters.                                             *)

CommandsInv == PromptInv /\ FiltersInv

(* A line has a length, as TLC takes for granted of a string.              *)
Measured == \A cells \in Seq(Echoed) : Len(Joined(cells)) \in Nat

(* A command leads to a prompt.                                            *)
LEMMA EffectPrompt == ASSUME PromptInv, NEW name, Effect(name) PROVE PromptInv'
<1>1. ASSUME NEW p, NEW m, Become(p, m) PROVE unique' \in [Ids -> Nat]
  BY <1>1, BecomeStep DEF PromptInv
<1>2. \/ unique' = unique \/ \E p, m : Become(p, m)
  BY DEF Effect, Quit
<1>3. unique' \in [Ids -> Nat]
  BY <1>1, <1>2 DEF PromptInv
<1>4. \/ state' = state \/ state' = Asked \/ state' = "ended"
  BY DEF Effect, Quit
<1>5. state' \in Prompts
  BY <1>4 DEF PromptInv, Asked, Prompts
<1> QED
  BY <1>3, <1>5 DEF PromptInv

(* And so does a line.                                                     *)
LEMMA RunPrompt == ASSUME PromptInv, NEW words, Run(words) PROVE PromptInv'
<1>1. ASSUME NEW left, Answer(left) PROVE PromptInv'
  BY <1>1 DEF Answer, PromptInv
<1>2. ASSUME NEW through, Refuse(through) PROVE PromptInv'
  BY <1>2 DEF Refuse, PromptInv
<1>3. ASSUME NEW id, NEW through, Call(id, through) PROVE PromptInv'
  BY <1>3, EffectPrompt DEF Call
<1>4. ASSUME NEW id, NEW verdicts, Carry(id, verdicts) PROVE PromptInv'
  BY <1>1, <1>2, <1>3, <1>4, Zenon DEF Carry
<1> QED
  BY <1>1, <1>4, Zenon DEF Run

(* A step that runs nothing leaves the list alone.                         *)
LEMMA QuietFilters == ASSUME FiltersInv, Quietly PROVE FiltersInv'
  BY FiltersSame DEF Quietly

(* And one that leaves the prompt alone as well.                           *)
LEMMA SameCommands == ASSUME CommandsInv, Same PROVE CommandsInv'
<1>1. FiltersInv'
  BY FiltersSame DEF Same, CommandsInv
<1>2. PromptInv'
  BY DEF Same, CommandsInv, PromptInv
<1> QED
  BY <1>1, <1>2 DEF CommandsInv

(* The end of a line.                                                      *)
LEMMA LineEndsCommands ==
  ASSUME Echoes, Measured, CommandsInv, NEW e, NEW again, LineEnds(e, again),
         ~Secret => Array(e, Plainly) /\ Tidy(e)
  PROVE  CommandsInv'
<1> DEFINE line == Joined(Text(e))
<1>1. \/ Quietly /\ UNCHANGED state
      \/ Quietly /\ state' = "PASSWORD"
      \/ Login(line)
      \/ AnswerEnable(line = EnablePass)
      \/ state \in {"NORMAL", "ENABLE"} /\ Run(Words(line))
  BY DEF LineEnds
<1>2. ASSUME Quietly, state' \in Prompts PROVE CommandsInv'
  <2>1. FiltersInv'
    BY <1>2, QuietFilters DEF CommandsInv
  <2>2. PromptInv'
    BY <1>2 DEF Quietly, CommandsInv, PromptInv
  <2> QED
    BY <2>1, <2>2 DEF CommandsInv
<1>3. CASE Login(line)
  <2>1. Quietly /\ state' \in Prompts
    BY <1>3 DEF Login, Prompts
  <2> QED
    BY <1>2, <2>1
<1>4. CASE AnswerEnable(line = EnablePass)
  <2>1. ran' = Nothing /\ filters' = filters
    BY <1>4 DEF AnswerEnable
  <2>2. FiltersInv'
    BY <2>1, FiltersSame DEF CommandsInv
  <2>3. state' \in Prompts
    BY <1>4 DEF AnswerEnable, Prompts
  <2>4. unique' = unique \/ Become(PRIVILEGED, mode)
    BY <1>4 DEF AnswerEnable
  <2>5. unique' \in [Ids -> Nat]
    BY <2>4, BecomeStep DEF CommandsInv, PromptInv
  <2> QED
    BY <2>2, <2>3, <2>5 DEF CommandsInv, PromptInv
<1>5. CASE state \in {"NORMAL", "ENABLE"} /\ Run(Words(line))
  <2>1. ~Secret
    BY <1>5 DEF Secret
  <2>2. Text(e) \in Seq(Echoed)
    <3>1. Plainly \ {NUL} = Echoed
      BY DEF Echoes, Plainly
    <3>2. Text(e) \in Seq(Plainly \ {NUL})
      BY <2>1, TidyText
    <3> QED
      BY <3>1, <3>2
  <2>3. Len(line) \in Nat
    BY <2>2 DEF Measured
  <2> HIDE DEF line
  <2> DEFINE words == Words(line)
  <2>4. PICK m \in Nat : DOMAIN words = 1 .. m
    BY <2>3, WordsAreCounted
  <2>5. Run(words)
    BY <1>5
  <2> HIDE DEF words
  <2> QED
    BY <2>4, <2>5, RunFilters, RunPrompt DEF CommandsInv
<1>6. CASE Quietly /\ UNCHANGED state
  BY <1>2, <1>6 DEF CommandsInv, PromptInv
<1>7. CASE Quietly /\ state' = "PASSWORD"
  BY <1>2, <1>7 DEF Prompts
<1> HIDE DEF line
<1> QED
  BY <1>1, <1>3, <1>4, <1>5, <1>6, <1>7

(* Control-Z leaves the configuration mode.                                *)
LEMMA ControlZCommands == ASSUME CommandsInv, ControlZ PROVE CommandsInv'
<1>1. LeaveConfig
  BY DEF ControlZ
<1>2. FiltersInv'
  BY <1>1, FiltersSame DEF LeaveConfig, CommandsInv
<1>3. Become(privilege, EXEC) /\ state' = state
  BY <1>1 DEF LeaveConfig
<1>4. unique' \in [Ids -> Nat]
  BY <1>3, BecomeStep DEF CommandsInv, PromptInv
<1> QED
  BY <1>2, <1>3, <1>4 DEF CommandsInv, PromptInv

(* The end of the session.                                                 *)
LEMMA OverCommands == ASSUME CommandsInv, Over PROVE CommandsInv'
<1>1. Quietly /\ state' = "ended"
  BY DEF Over
<1>2. FiltersInv'
  BY <1>1, QuietFilters DEF CommandsInv
<1> QED
  BY <1>1, <1>2 DEF Quietly, CommandsInv, PromptInv, Prompts

(* The carriage return.                                                    *)
LEMMA EnterCommands == ASSUME Echoes, Measured, CommandsInv, LineInv, Enter PROVE CommandsInv'
  BY LineEndsCommands DEF Enter, LineInv

(* The question mark.                                                      *)
LEMMA MarkCommands ==
  ASSUME Echoes, Measured, CommandsInv, LineInv, QuestionMark
  PROVE  CommandsInv'
<1>1. LineEnds(Put(ed, "?"), TRUE)
  BY DEF QuestionMark
<1> QED
  BY <1>1, MarkedLine, LineEndsCommands

-----------------------------------------------------------------------------
(* The whole session.                                                      *)

FullInv == SessionInv /\ CommandsInv

(* The first state.                                                        *)
LEMMA InitSession == Init => FullInv
<1> SUFFICES ASSUME Init PROVE FullInv
  OBVIOUS
<1>1. CommandsInit /\ ed = Blank /\ history = <<>> /\ inHistory = 0 /\ want = Empty
  BY DEF Init
<1>2. IInv
  BY InitInv
<1>3. Array(Blank, Plainly) /\ Tidy(Blank) /\ Shows(Blank, Empty, Echoed)
  BY Chunks, BlankShows
<1>4. Array(Blank, Typeable)
  BY <1>3, PlainIsAny
<1>5. LineInv
  BY <1>1, <1>3, <1>4 DEF LineInv
<1>6. HistoryInv
  <2>1. HistoryMax \in Nat
    BY SessionAssumption
  <2>2. <<>> \in Seq(Entries) /\ Len(<<>>) <= HistoryMax /\ 0 \in -1 .. HistoryMax
    BY <2>1
  <2> QED
    BY <1>1, <2>2 DEF HistoryInv
<1>7. PromptInv
  <2> DEFINE none == [i \in Ids |-> 0]
  <2>1. none \in [Ids -> Nat]
    OBVIOUS
  <2> HIDE DEF none
  <2>2. BuildShortest(UNPRIVILEGED, EXEC, none) \in [Ids -> Nat]
    BY <2>1, LettersNeeded
  <2>3. unique = BuildShortest(UNPRIVILEGED, EXEC, none) /\ state = "LOGIN"
    BY <1>1 DEF CommandsInit, none
  <2> QED
    BY <2>2, <2>3 DEF PromptInv, Prompts
<1>8. FiltersInv
  BY <1>1, NothingRan DEF CommandsInit, FiltersInv
<1> QED
  BY <1>2, <1>5, <1>6, <1>7, <1>8 DEF FullInv, SessionInv, CommandsInv

(* A key that leaves the prompt alone leaves the commands alone.           *)
LEMMA KeysCommands ==
  ASSUME CommandsInv,
         \/ Type \/ Backspace \/ EraseWord \/ KillToEnd \/ ClearLine
         \/ Left \/ Right \/ Home \/ ToEnd \/ Up \/ Down \/ Complete
  PROVE  CommandsInv'
<1> USE DEF Edit, Renew
<1>1. CASE Type
  BY <1>1, SameCommands DEF Type
<1>2. CASE Backspace
  BY <1>2, SameCommands DEF Backspace
<1>3. CASE EraseWord
  BY <1>3, SameCommands DEF EraseWord
<1>4. CASE KillToEnd
  BY <1>4, SameCommands DEF KillToEnd
<1>5. CASE ClearLine
  BY <1>5, SameCommands DEF ClearLine
<1>6. CASE Left
  BY <1>6, SameCommands DEF Left
<1>7. CASE Right
  BY <1>7, SameCommands DEF Right
<1>8. CASE Home
  BY <1>8, SameCommands DEF Home
<1>9. CASE ToEnd
  BY <1>9, SameCommands DEF ToEnd
<1>10. CASE Up
  BY <1>10, SameCommands DEF Up, Recall
<1>11. CASE Down
  BY <1>11, SameCommands DEF Down, Recall
<1>12. CASE Complete
  BY <1>12, SameCommands DEF Complete
<1> QED
  BY <1>1, <1>2, <1>3, <1>4, <1>5, <1>6, <1>7, <1>8, <1>9, <1>10, <1>11, <1>12

(* Every step, for the prompt, the letters and the filters.                *)
LEMMA NextCommands ==
  ASSUME Echoes, Measured, LineInv, CommandsInv, [Next]_vars
  PROVE  CommandsInv'
<1>1. CASE Enter
  BY <1>1, EnterCommands
<1>2. CASE QuestionMark
  BY <1>2, MarkCommands
<1>3. CASE Over
  BY <1>3, OverCommands
<1>4. CASE ControlZ
  BY <1>4, ControlZCommands
<1>5. CASE UNCHANGED vars
  BY <1>5 DEF vars, cli, CommandsInv, PromptInv, FiltersInv
<1> QED
  BY <1>1, <1>2, <1>3, <1>4, <1>5, KeysCommands, Zenon DEF Next

(* Every step, for the line and the history.                               *)
LEMMA NextLine ==
  ASSUME Echoes, SessionInv, [Next]_vars
  PROVE  LineInv' /\ HistoryInv'
<1>1. IInv /\ LineInv /\ HistoryInv
  BY DEF SessionInv
<1>2. CASE UNCHANGED vars
  <2>1. Secret' <=> Secret
    BY <1>2 DEF vars, cli, Secret
  <2>2. HistoryInv'
    BY <1>1, <1>2 DEF vars, session, HistoryInv
  <2>3. LineInv'
    BY <1>1, <1>2, <2>1 DEF vars, session, LineInv
  <2> QED
    BY <2>2, <2>3
<1>3. CASE Next
  BY <1>1, <1>3, Zenon, TypeStep, EnterStep, QuestionMarkStep, OverStep, BackspaceStep, EraseStep,
     KillStep, ClearStep, LeftStep, RightStep, HomeStep, ToEndStep, ControlZStep, UpStep,
     DownStep, CompleteStep DEF Next
<1> QED
  BY <1>2, <1>3

(* The line and the history with what the prompt tells.                    *)
LEMMA NextSession == ASSUME Echoes PROVE SessionInv /\ [Next]_vars => SessionInv'
<1> SUFFICES ASSUME SessionInv, [Next]_vars PROVE SessionInv'
  OBVIOUS
<1>1. IInv'
  BY NextInv DEF SessionInv
<1> QED
  BY <1>1, NextLine DEF SessionInv

(* And with the commands.                                                  *)
LEMMA NextFull == ASSUME Echoes, Measured PROVE FullInv /\ [Next]_vars => FullInv'
<1> SUFFICES ASSUME FullInv, [Next]_vars PROVE FullInv'
  OBVIOUS
<1>1. SessionInv' /\ CommandsInv'
  BY NextSession, NextCommands DEF FullInv, SessionInv
<1> QED
  BY <1>1 DEF FullInv

(* The line and the history keep to what echoes in every reachable state.  *)
THEOREM LinesAreKept == ASSUME Echoes PROVE Spec => []SessionInv
<1>1. Init => SessionInv
  BY InitSession DEF FullInv
<1>2. SessionInv /\ [Next]_vars => SessionInv'
  BY NextSession
<1> QED
  BY <1>1, <1>2, PTL DEF Spec

(* And the commands to what is installed.                                  *)
THEOREM SessionIsKept == ASSUME Echoes, Measured PROVE Spec => []FullInv
<1>1. FullInv /\ [Next]_vars => FullInv'
  BY NextFull
<1> QED
  BY <1>1, InitSession, PTL DEF Spec

(* The invariant gives the types of the commands,                          *)
LEMMA FullCommands == FullInv => CommandsTypeOK
<1> SUFFICES ASSUME FullInv PROVE CommandsTypeOK
  OBVIOUS
<1>1. IInv /\ PromptInv /\ FiltersInv
  BY DEF FullInv, SessionInv, CommandsInv
<1>2. \A f \in ToSet(filters) \cup ToSet(ran.through) : f.kind \in Installed
  BY <1>1, Zenon DEF FiltersInv, AllIn, ToSet
<1> QED
  BY <1>1, <1>2 DEF CommandsTypeOK, IInv, PromptInv, FiltersInv, Prompts

(* those of the whole session,                                             *)
LEMMA FullTypes == FullInv => TypeOK
<1> SUFFICES ASSUME FullInv PROVE TypeOK
  OBVIOUS
<1>1. Array(ed, Typeable) /\ HistoryInv
  BY DEF FullInv, SessionInv, LineInv
<1>2. Len(ed.cmd) = Size /\ Last(ed.cmd) = NUL
  BY <1>1, SizeFacts DEF Array, Last
<1>3. ed.l \in 0 .. Max({MaxLine, MaxEntry}) /\ ed.cursor \in 0 .. ed.l
  BY <1>1, SizeFacts DEF Array, Longest
<1> QED
  BY <1>1, <1>2, <1>3, FullCommands DEF TypeOK, HistoryInv

(* the secrecy of the passwords,                                           *)
LEMMA SessionHidden == ASSUME Echoes PROVE SessionInv => PasswordsStayHidden
<1> SUFFICES ASSUME SessionInv, NEW p \in Secrets
             PROVE  /\ \A h \in DOMAIN history : ~Contains(history[h], p)
                    /\ ~Secret => ~Contains(ed.cmd, p)
  BY DEF PasswordsStayHidden
<1>1. p \notin Echoed /\ p \notin Plainly
  BY SessionAssumption DEF Echoes, Plainly
<1>2. ASSUME NEW h \in DOMAIN history PROVE ~Contains(history[h], p)
  <2>1. history[h] \in Seq(Echoed)
    BY DEF SessionInv, HistoryInv, Entries
  <2> QED
    BY <1>1, <2>1 DEF Contains
<1>3. ASSUME ~Secret PROVE ~Contains(ed.cmd, p)
  <2>1. ed.cmd \in [1 .. Size -> Plainly] /\ Len(ed.cmd) = Size
    BY <1>3, SizeFacts DEF SessionInv, LineInv, Array
  <2> QED
    BY <1>1, <2>1 DEF Contains
<1> QED
  BY <1>2, <1>3

(* and the line that is meant.                                             *)
LEMMA SessionShows == ASSUME Echoes PROVE SessionInv => LineIsWhatWasTyped
<1> SUFFICES ASSUME SessionInv, ~Secret, want # Lost
             PROVE  /\ Text(ed) = want.before \o want.after
                    /\ ed.cursor = Len(want.before)
                    /\ ed.l = Len(Text(ed))
  BY DEF LineIsWhatWasTyped
<1>1. Shows(ed, want, Echoed) /\ Array(ed, Plainly) /\ NUL \notin Echoed
  BY DEF SessionInv, LineInv, Echoes
<1> QED
  BY <1>1, ShownText DEF Shows

(* The prompt, the letters each command needs and the list of filters have *)
(* their types in every reachable state: what an early return of           *)
(* cli_run_command leaves installed is a filter, never the reason why      *)
(* there was none.                                                         *)
THEOREM CommandsTypeCorrect == ASSUME Echoes, Measured PROVE Spec => []CommandsTypeOK
<1>1. Spec => []FullInv
  BY SessionIsKept
<1> QED
  BY <1>1, FullCommands, PTL

(* The length and the cursor stay within the line, the array keeps its     *)
(* last NUL, and the history its limit.                                    *)
THEOREM TypeCorrect == ASSUME Echoes, Measured PROVE Spec => []TypeOK
<1>1. Spec => []FullInv
  BY SessionIsKept
<1> QED
  BY <1>1, FullTypes, PTL

(* What is typed at a password prompt is never in the history and never on *)
(* a line that echoes, whatever keys, prompts, completions and recalls     *)
(* come after it.                                                          *)
THEOREM PasswordsAreHidden == ASSUME Echoes PROVE Spec => []PasswordsStayHidden
<1>1. Spec => []SessionInv
  BY LinesAreKept
<1>2. SessionInv => PasswordsStayHidden
  BY SessionHidden
<1> QED
  BY <1>1, <1>2, PTL

(* The array, its length and its cursor are the line that the keys mean,   *)
(* at every prompt that echoes, for lines of every length.                 *)
THEOREM LineFollowsTheKeys == ASSUME Echoes PROVE Spec => []LineIsWhatWasTyped
<1>1. Spec => []SessionInv
  BY LinesAreKept
<1>2. SessionInv => LineIsWhatWasTyped
  BY SessionShows
<1> QED
  BY <1>1, <1>2, PTL

-----------------------------------------------------------------------------
(* The question mark.                                                      *)

(* What a word leads to is a child of the command it is typed behind.      *)
LEMMA ChosenIsChild ==
  ASSUME NEW parent, NEW word
  PROVE  Chosen(parent, word) = 0 \/ Chosen(parent, word) \in Children(parent)
<1> DEFINE S == {i \in Children(parent) : Matches(i, word) /\ Tree[i].mode \in {mode, ANY}}
           any == {i \in S : Tree[i].mode = ANY}
           direct == {i \in S : Tree[i].mode = mode \/ \E j \in any : i \in any /\ j < i}
<1>1. S \subseteq Children(parent) /\ S \subseteq Nat
  BY TreeIsGuarded DEF Children
<1>2. direct # {} => Min(direct) \in S
  <2>1. direct \subseteq Nat
    BY <1>1
  <2> QED
    BY <2>1, MinIsMember
<1>3. any # {} => Min(any) \in S
  <2>1. any \subseteq Nat
    BY <1>1
  <2> QED
    BY <2>1, MinIsMember
<1>4. Chosen(parent, word) =
        IF direct # {} THEN Min(direct) ELSE IF any # {} THEN Min(any) ELSE 0
  BY DEF Chosen, Preferred
<1> HIDE DEF S, any, direct
<1> QED
  BY <1>1, <1>2, <1>3, <1>4

(* A command is found behind the words that name it: when the last word    *)
(* asks, there is one more.                                                *)
LEMMA FoundBehindItsWords ==
  ASSUME NEW words, NEW m \in Nat \ {0}, Asks(words[m]), Found(words) # 0
  PROVE  m > IF Tree[Found(words)].parent = 0 THEN 1 ELSE 2
<1> DEFINE top == Chosen(0, words[1])
           found == Found(words)
<1>1. found = Under(top, words) /\ ~Asks(words[1]) /\ found # 0
  BY DEF Found
<1>2. m > 1
  BY <1>1
<1>3. top = 0 \/ Tree[top].parent = 0
  BY ChosenIsChild DEF Children
<1> HIDE DEF top
<1>4. \/ found = top
      \/ found = Own(top)
      \/ found = Chosen(top, words[2]) /\ ~Asks(words[2])
  BY <1>1 DEF Under
<1>5. found = top \/ (found = Chosen(top, words[2]) /\ ~Asks(words[2]))
  BY <1>1, <1>4 DEF Own
<1> HIDE DEF found
<1>6. CASE found = top
  BY <1>1, <1>2, <1>3, <1>6 DEF found
<1>7. CASE ~Asks(words[2])
  <2>1. m # 2
    BY <1>7
  <2> QED
    BY <1>2, <2>1
<1> QED
  BY <1>5, <1>6, <1>7

(* A command that a line has run is the one that was found.                *)
LEMMA RanWasFound ==
  ASSUME NEW words, Run(words), ran'.id # 0
  PROVE  words # <<>> /\ ran'.id = Found(words)
<1>1. \A left : Answer(left) => ran'.id = 0
  BY NothingRan DEF Answer
<1>2. \A through : Refuse(through) => ran'.id = 0
  BY DEF Refuse, Did
<1>3. words # <<>> /\ Carry(Found(words), Verdicts(words))
  BY <1>1 DEF Run
<1>4. ASSUME NEW id, NEW through, Call(id, through) PROVE ran'.id = id
  BY <1>4 DEF Call, Did
<1>5. \E through : Call(Found(words), through)
  BY <1>1, <1>2, <1>3, Zenon DEF Carry
<1> QED
  BY <1>3, <1>4, <1>5

(* The last word of a line that a question mark ends, ends with the mark.  *)
Marked ==
  \A cells \in Seq(Echoed) :
    LET words == Words(Joined(Append(cells, "?")))
    IN  words # <<>> /\ Asks(words[Len(words)])

(* The question mark on a line that is the one meant.                      *)
LEMMA MarkAnswers ==
  ASSUME Echoes, Measured, Marked, SessionInv, QuestionMark, want # Lost, ran'.id # 0
  PROVE  Len(Words(Joined(Text(Put(ed, "?"))))) > IF Tree[ran'.id].parent = 0 THEN 1 ELSE 2
<1> DEFINE e == Put(ed, "?")
           line == Joined(Text(e))
<1>1. Room /\ ~Secret /\ "?" \in Keys /\ AtEnd(ed) /\ LineEnds(e, TRUE) /\ LineInv
  BY DEF QuestionMark, SessionInv
<1>2. ~Secret /\ "?" \in Echoed
  BY <1>1 DEF Keys, Echoes
<1>3. Array(ed, Plainly) /\ Array(ed, Typeable) /\ Tidy(ed) /\ Shows(ed, want, Echoed)
  BY <1>1, <1>2 DEF LineInv
<1>4. ed.l < Longest
  BY <1>1, RoomIsShort
<1> DEFINE before == Append(want.before, "?")
           w == Pair(before, want.after)
<1>5. Shows(e, w, Echoed) /\ Array(e, Plainly)
  BY <1>2, <1>3, <1>4, Chunks, PutShows, PutCells
<1>6. Text(e) = w.before \o w.after
  BY <1>5, ShownText DEF Echoes
<1>7. Text(e) = Append(want.before, "?") /\ want.before \in Seq(Echoed)
  <2>1. ed.cursor = ed.l /\ ed.cursor = Len(want.before)
        /\ ed.l = Len(want.before) + Len(want.after)
        /\ want.before \in Seq(Echoed) /\ want.after \in Seq(Echoed)
    BY <1>1, <1>3 DEF Shows, AtEnd
  <2>2. Len(want.before) \in Nat /\ Len(want.after) \in Nat
    BY <2>1, LenProperties
  <2>3. want.after = <<>>
    <3> DEFINE n == Len(want.before)
               k == Len(want.after)
    <3>1. k = 0
      <4>1. n \in Nat /\ k \in Nat /\ n = n + k
        BY <2>1, <2>2
      <4> HIDE DEF n, k
      <4> QED
        BY <4>1
    <3> QED
      BY <2>1, <3>1, EmptySeq
  <2>4. before \in Seq(Echoed)
    BY <1>2, <2>1
  <2>5. w.before = before /\ w.after = <<>>
    BY <2>3 DEF Pair
  <2> HIDE DEF before
  <2>6. before \o <<>> = before
    BY <2>4
  <2> QED
    BY <1>6, <2>1, <2>5, <2>6 DEF before
<1> DEFINE words == Words(line)
<1>8. words # <<>> /\ Asks(words[Len(words)])
  BY <1>7 DEF Marked
<1>9. Len(line) \in Nat
  <2>1. Append(want.before, "?") \in Seq(Echoed)
    BY <1>2, <1>7
  <2> QED
    BY <1>7, <2>1 DEF Measured
<1>10. Run(words)
  <2>1. \/ ran' = Nothing
        \/ Run(Words(line))
    BY <1>1 DEF LineEnds, Quietly, Login, AnswerEnable
  <2> QED
    BY <2>1, NothingRan
<1> HIDE DEF line
<1>11. PICK m \in Nat : DOMAIN words = 1 .. m /\ Len(words) = m
  BY <1>9, WordsAreCounted
<1> HIDE DEF words
<1>12. m # 0
  BY <1>8, <1>11
<1>13. ran'.id = Found(words)
  BY <1>10, RanWasFound
<1>14. m > IF Tree[Found(words)].parent = 0 THEN 1 ELSE 2
  BY <1>8, <1>11, <1>12, <1>13, FoundBehindItsWords
<1> QED
  BY <1>11, <1>13, <1>14 DEF words, line

(* A question mark answers for the word it is typed at, on every line of   *)
(* every length: what it runs has all the words that name it before the    *)
(* one that asks.                                                          *)
THEOREM QuestionMarkIsAnswered ==
  ASSUME Echoes, Measured, Marked
  PROVE  Spec => QuestionMarkAnswers
<1> DEFINE Answers ==
      QuestionMark /\ want # Lost /\ ran'.id # 0 =>
        Len(Words(Joined(Text(Put(ed, "?"))))) > IF Tree[ran'.id].parent = 0 THEN 1 ELSE 2
<1>1. SessionInv /\ [Next]_vars => [Answers]_vars
  BY MarkAnswers
<1>2. Spec => []SessionInv
  BY LinesAreKept
<1>3. Spec => [][Answers]_vars
  <2> HIDE DEF Answers
  <2> QED
    BY <1>1, <1>2, PTL DEF Spec
<1>4. QED
  BY <1>3 DEF QuestionMarkAnswers
=============================================================================
