------------------------- MODULE CommandLineProofs -------------------------
(***************************************************************************)
(* Proofs about CommandLine: a line runs the one command that it means,    *)
(* and a command takes its filters with it.                                *)
(*                                                                         *)
(* The letters of a command are worked out for one privilege and one mode. *)
(* The invariant is that they are those of the privilege and the mode the  *)
(* session has now; from it a lookup by letters is a lookup by names.      *)
(***************************************************************************)
EXTENDS CommandLine, WellFoundedInduction, SequenceTheorems, FiniteSetTheorems, TLAPS

-----------------------------------------------------------------------------
(* A set of numbers has a smallest one, and Min is in it.                  *)
LEMMA MinIsMember ==
  ASSUME NEW S, S \subseteq Nat, S # {}
  PROVE  Min(S) \in S /\ \A y \in S : ~(y < Min(S))
<1>1. PICK x \in S : \A y \in S : <<y, x>> \notin OpToRel(<, Nat)
  BY NatLessThanWellFounded, WFMin, Zenon
<1>2. ASSUME NEW y \in S PROVE x <= y
  <2>1. <<y, x>> \notin {ss \in Nat \X Nat : ss[1] < ss[2]}
    BY <1>1 DEF OpToRel
  <2>2. ~(y < x) /\ x \in Nat /\ y \in Nat
    BY <2>1
  <2> QED
    BY <2>2
<1>3. Min(S) \in S /\ \A y \in S : Min(S) <= y
  <2>1. \E z \in S : \A y \in S : z <= y
    BY <1>2
  <2> QED
    BY <2>1, Zenon DEF Min
<1>4. ASSUME NEW y \in S PROVE ~(y < Min(S))
  <2> DEFINE m == Min(S)
  <2>1. m \in Nat /\ y \in Nat /\ m <= y
    BY <1>3
  <2> HIDE DEF m
  <2>2. ~(y < m)
    BY <2>1
  <2> QED
    BY <2>2 DEF m
<1> QED
  BY <1>3, <1>4

(* What the proofs use of the commands: where each is, whether it can be   *)
(* called, and that no two beside each other have the same name.           *)
(* The names of libcli's own commands, of which the daemon uses none.      *)
OwnNames == {"help", "quit", "logout", "exit", "history", "enable", "disable", "configure", "terminal"}

(* libcli's commands: only "configure" cannot be called, and "terminal" is *)
(* behind it.                                                              *)
LEMMA LibcliDiffers ==
  /\ Len(OfLibcli) = 9
  /\ \A i \in 1 .. 9 : /\ OfLibcli[i].parent \in {0, 8} /\ OfLibcli[i].name \in OwnNames
                       /\ OfLibcli[i].callback \/ i = 8
  /\ \A i, j \in 1 .. 9 : OfLibcli[i].name = OfLibcli[j].name => i = j
  /\ OfLibcli[9].parent = 8
<1>1. Len(OfLibcli) = 9 /\ OfLibcli[9].parent = 8
  BY DEF OfLibcli, Command
<1>2. ASSUME NEW i \in 1 .. 9
      PROVE /\ OfLibcli[i].parent \in {0, 8} /\ OfLibcli[i].name \in OwnNames
            /\ OfLibcli[i].callback \/ i = 8
  BY DEF OfLibcli, Command, OwnNames
<1>3. ASSUME NEW i \in 1 .. 9, NEW j \in 1 .. 9, OfLibcli[i].name = OfLibcli[j].name
      PROVE i = j
  BY <1>3, SMTT(30) DEF OfLibcli, Command
<1> QED
  BY <1>1, <1>2, <1>3

(* The daemon's: only "show" cannot be called, and "ports" is behind it.   *)
LEMMA DaemonDiffers ==
  /\ Len(OfDaemon) = 15
  /\ \A i \in 1 .. 15 : /\ OfDaemon[i].parent \in {0, 10, 16} /\ OfDaemon[i].name \notin OwnNames
                        /\ OfDaemon[i].callback \/ i = 7
  /\ \A i, j \in 1 .. 15 : OfDaemon[i].name = OfDaemon[j].name /\ OfDaemon[i].parent = OfDaemon[j].parent => i = j
  /\ OfDaemon[8].parent = 16
<1>1. Len(OfDaemon) = 15 /\ OfDaemon[8].parent = 16
  BY DEF OfDaemon, Command
<1>2. ASSUME NEW i \in 1 .. 15
      PROVE /\ OfDaemon[i].parent \in {0, 10, 16} /\ OfDaemon[i].name \notin OwnNames
            /\ OfDaemon[i].callback \/ i = 7
  BY DEF OfDaemon, Command, OwnNames
<1>3. ASSUME NEW i \in 1 .. 15, NEW j \in 1 .. 15, OfDaemon[i].name = OfDaemon[j].name,
             OfDaemon[i].parent = OfDaemon[j].parent
      PROVE i = j
  BY <1>3, SMTT(60) DEF OfDaemon, Command
<1> QED
  BY <1>1, <1>2, <1>3

(* The tree: no two commands beside each other have the same name, and one *)
(* without commands behind it can be called.                               *)
LEMMA TheTree ==
  /\ Ids = 1 .. 24
  /\ \A i, j \in Ids : Tree[i].parent = Tree[j].parent /\ Tree[i].name = Tree[j].name => i = j
  /\ \A i \in Ids : Children(i) = {} => Tree[i].callback
<1> DEFINE C == {OfLibcli[i] : i \in 1 .. 9} \cup {OfDaemon[i] : i \in 1 .. 15}
<1>1. OfLibcli \in Seq(C)
  <2>1. OfLibcli = [i \in 1 .. 9 |-> OfLibcli[i]]
    BY DEF OfLibcli
  <2> QED
    BY <2>1
<1>2. OfDaemon \in Seq(C)
  <2>1. OfDaemon = [i \in 1 .. 15 |-> OfDaemon[i]]
    BY DEF OfDaemon
  <2> QED
    BY <2>1
<1> HIDE DEF C
<1>3. /\ Len(Tree) = 24
      /\ Tree \in Seq(C)
      /\ \A i \in 1 .. 24 : Tree[i] = IF i <= 9 THEN OfLibcli[i] ELSE OfDaemon[i - 9]
  <2> DEFINE both == OfLibcli \o OfDaemon
  <2>1. /\ both \in Seq(C)
        /\ Len(both) = Len(OfLibcli) + Len(OfDaemon)
        /\ \A i \in 1 .. Len(OfLibcli) + Len(OfDaemon) :
             both[i] = IF i <= Len(OfLibcli) THEN OfLibcli[i] ELSE OfDaemon[i - Len(OfLibcli)]
    BY <1>1, <1>2, ConcatProperties, Zenon
  <2>2. Tree = both
    BY DEF Tree
  <2> HIDE DEF both
  <2>3. Len(OfLibcli) = 9 /\ Len(OfDaemon) = 15 /\ 9 + 15 = 24
    BY LibcliDiffers, DaemonDiffers
  <2> QED
    BY <2>1, <2>2, <2>3, Zenon
<1>4. Ids = 1 .. 24
  BY <1>3 DEF Ids
<1> DEFINE own(i) == i \in 1 .. 9 /\ Tree[i] = OfLibcli[i]
           its(i, a) == a \in 1 .. 15 /\ i = a + 9 /\ Tree[i] = OfDaemon[a]
<1>5. ASSUME NEW i \in 1 .. 24 PROVE own(i) \/ \E a \in 1 .. 15 : its(i, a)
  <2>1. CASE i <= 9
    <3>1. i \in 1 .. 9
      BY <2>1
    <3>2. Tree[i] = OfLibcli[i]
      BY <1>3, <2>1, Zenon
    <3> QED
      BY <3>1, <3>2
  <2>2. CASE ~(i <= 9)
    <3> DEFINE a == i - 9
    <3>1. a \in 1 .. 15 /\ i = a + 9
      BY <2>2
    <3>2. Tree[i] = OfDaemon[a]
      BY <1>3, <2>2
    <3> HIDE DEF a
    <3> QED
      BY <3>1, <3>2
  <2> QED
    BY <2>1, <2>2
<1>6. ASSUME NEW i \in 1 .. 24, NEW j \in 1 .. 24,
             Tree[i].parent = Tree[j].parent, Tree[i].name = Tree[j].name
      PROVE  i = j
  <2>1. CASE own(i) /\ own(j)
    <3>1. OfLibcli[i].name = OfLibcli[j].name
      BY <1>6, <2>1, Zenon
    <3> QED
      BY <2>1, <3>1, LibcliDiffers, Zenon
  <2>2. CASE own(i) /\ \E a \in 1 .. 15 : its(j, a)
    <3>1. PICK a \in 1 .. 15 : its(j, a)
      BY <2>2
    <3>2. OfLibcli[i].name \in OwnNames /\ OfDaemon[a].name \notin OwnNames
      BY <2>2, LibcliDiffers, DaemonDiffers, Zenon
    <3>3. OfLibcli[i].name = OfDaemon[a].name
      BY <1>6, <2>2, <3>1, Zenon
    <3> QED
      BY <3>2, <3>3, Zenon
  <2>3. CASE own(j) /\ \E a \in 1 .. 15 : its(i, a)
    <3>1. PICK a \in 1 .. 15 : its(i, a)
      BY <2>3
    <3>2. OfLibcli[j].name \in OwnNames /\ OfDaemon[a].name \notin OwnNames
      BY <2>3, LibcliDiffers, DaemonDiffers, Zenon
    <3>3. OfLibcli[j].name = OfDaemon[a].name
      BY <1>6, <2>3, <3>1, Zenon
    <3> QED
      BY <3>2, <3>3, Zenon
  <2>4. CASE (\E a \in 1 .. 15 : its(i, a)) /\ \E b \in 1 .. 15 : its(j, b)
    <3>1. PICK a \in 1 .. 15 : its(i, a)
      BY <2>4
    <3>2. PICK b \in 1 .. 15 : its(j, b)
      BY <2>4
    <3>3. OfDaemon[a].name = OfDaemon[b].name /\ OfDaemon[a].parent = OfDaemon[b].parent
      BY <1>6, <3>1, <3>2, Zenon
    <3>4. a = b
      BY <3>3, DaemonDiffers, Zenon
    <3> QED
      BY <3>1, <3>2, <3>4
  <2> HIDE DEF own, its
  <2> QED
    BY <1>5, <2>1, <2>2, <2>3, <2>4, Zenon
<1>7. ASSUME NEW i \in 1 .. 24 PROVE Tree[i].callback \/ i \in {8, 16}
  <2>1. CASE own(i)
    BY <2>1, LibcliDiffers
  <2>2. CASE \E a \in 1 .. 15 : its(i, a)
    <3>1. PICK a \in 1 .. 15 : its(i, a)
      BY <2>2
    <3>2. Tree[i].callback \/ a = 7
      BY <3>1, DaemonDiffers
    <3> QED
      BY <3>1, <3>2
  <2> QED
    BY <1>5, <2>1, <2>2
<1>8. 9 \in Children(8) /\ 17 \in Children(16)
  <2>1. Tree[9] = OfLibcli[9] /\ Tree[17] = OfDaemon[8]
    BY <1>3
  <2> QED
    BY <1>4, <2>1, LibcliDiffers, DaemonDiffers DEF Children
<1> QED
  BY <1>4, <1>6, <1>7, <1>8

-----------------------------------------------------------------------------
(* The letters.                                                            *)

(* The letters in use are those of the present privilege and mode,         *)
(* whatever they were worked out from.                                     *)
Lettered == \E old : unique = BuildShortest(privilege, mode, old)

(* A change of privilege, of mode or of both works them out again.         *)
LEMMA BecomeLettered ==
  ASSUME Lettered, NEW p, NEW m, Become(p, m)
  PROVE  Lettered'
<1>1. unique' = Rebuilt(p, m) /\ privilege' = p /\ mode' = m
  BY DEF Become
<1> DEFINE first == IF p = privilege THEN unique ELSE BuildShortest(p, mode, unique)
<1>2. \E old : first = BuildShortest(p, mode, old)
  BY DEF Lettered
<1>3. Rebuilt(p, m) = IF m = mode THEN first ELSE BuildShortest(p, m, first)
  BY DEF Rebuilt
<1> HIDE DEF first
<1>4. \E old : Rebuilt(p, m) = BuildShortest(p, m, old)
  BY <1>2, <1>3, Zenon
<1> QED
  BY <1>1, <1>4, Zenon DEF Lettered

(* A set of numbers up to a bound has a largest one, and Max is it.        *)
LEMMA MaxIsLargest ==
  ASSUME NEW n \in Nat, NEW S, S \subseteq 0 .. n, S # {}
  PROVE  Max(S) \in S /\ \A x \in S : x <= Max(S)
<1> DEFINE R == {n - x : x \in S}
<1>1. R \subseteq Nat /\ R # {}
  OBVIOUS
<1>2. PICK r \in R : \A y \in R : <<y, r>> \notin OpToRel(<, Nat)
  <2> HIDE DEF R
  <2> QED
    BY <1>1, NatLessThanWellFounded, WFMin, Zenon
<1>3. PICK m \in S : r = n - m
  BY <1>2
<1>4. ASSUME NEW x \in S PROVE x <= m
  <2>1. n - x \in R /\ <<n - x, r>> \notin {ss \in Nat \X Nat : ss[1] < ss[2]}
    BY <1>2 DEF OpToRel
  <2> QED
    BY <1>3, <2>1
<1>5. \E y \in S : \A x \in S : y >= x
  BY <1>3, <1>4
<1>6. Max(S) \in S /\ \A x \in S : Max(S) >= x
  BY <1>5, Zenon DEF Max
<1> QED
  BY <1>6

(* The smallest of one number.                                             *)
LEMMA SmallestOfOne ==
  ASSUME NEW k \in Nat
  PROVE  Min({k}) = k
BY MinIsMember

(* One match that the mode allows is chosen.                               *)
LEMMA PreferredOfOne ==
  ASSUME NEW k \in Nat, Tree[k].mode \in {mode, ANY}
  PROVE  Preferred({k}) = k
<1> DEFINE any    == {i \in {k} : Tree[i].mode = ANY}
           direct == {i \in {k} : Tree[i].mode = mode \/ \E j \in any : i \in any /\ j < i}
<1>1. Preferred({k}) = IF direct # {} THEN Min(direct) ELSE IF any # {} THEN Min(any) ELSE 0
  BY DEF Preferred
<1>2. (direct = {} \/ direct = {k}) /\ (any = {} \/ any = {k}) /\ ~(direct = {} /\ any = {})
  OBVIOUS
<1> HIDE DEF any, direct
<1>3. Min({k}) = k
  BY SmallestOfOne
<1> QED
  BY <1>1, <1>2, <1>3

(* Without a match there is no command.                                    *)
LEMMA PreferredOfNone == Preferred({}) = 0
<1> DEFINE any    == {i \in {} : Tree[i].mode = ANY}
           direct == {i \in {} : Tree[i].mode = mode \/ \E j \in any : i \in any /\ j < i}
<1>1. Preferred({}) = IF direct # {} THEN Min(direct) ELSE IF any # {} THEN Min(any) ELSE 0
  BY DEF Preferred
<1>2. direct = {} /\ any = {}
  OBVIOUS
<1> HIDE DEF any, direct
<1> QED
  BY <1>1, <1>2

(* The letters a command needs are more than it shares with any other that *)
(* can be seen beside it, and no more than that takes.                     *)
LEMMA Letters ==
  ASSUME Lettered, NEW q, q = 0 \/ Visible(q, privilege, mode),
         NEW i \in Children(q), Visible(i, privilege, mode)
  PROVE  /\ unique[i] \in Nat \ {0}
         /\ \A j \in Children(q) : j # i /\ Visible(j, privilege, mode) =>
              Shared(Tree[i].name, Tree[j].name) < unique[i]
         /\ \A n \in Nat \ {0} :
              (\A j \in Children(q) : j # i /\ Visible(j, privilege, mode) =>
                 Shared(Tree[i].name, Tree[j].name) < n) => unique[i] <= n
<1>1. PICK old : unique = BuildShortest(privilege, mode, old)
  BY DEF Lettered
<1>2. i \in Ids /\ Tree[i].parent = q /\ Children(q) \subseteq Ids
  BY DEF Children
<1> DEFINE siblings == {j \in Children(q) \ {i} : Visible(j, privilege, mode)}
           shared(j) == Shared(Tree[i].name, Tree[j].name)
           needed == {1} \cup {shared(j) + 1 : j \in siblings}
<1>3. unique[i] = Max(needed)
  BY <1>1, <1>2 DEF BuildShortest
<1>4. Len(Tree[i].name) \in Nat /\ \A j \in siblings : shared(j) \in 0 .. Len(Tree[i].name)
  BY <1>2, LettersAssumption
<1> DEFINE top == Len(Tree[i].name) + 1
<1> HIDE DEF shared
<1>5. top \in Nat /\ needed \subseteq 0 .. top /\ needed # {}
  BY <1>4
<1>6. Max(needed) \in needed /\ \A x \in needed : x <= Max(needed)
  <2> HIDE DEF needed, top
  <2> QED
    BY <1>5, MaxIsLargest, Zenon
<1>7. unique[i] \in needed /\ \A x \in needed : x <= unique[i]
  BY <1>3, <1>6, Zenon
<1>8. unique[i] \in Nat \ {0}
  BY <1>7, <1>4
<1>9. ASSUME NEW j \in siblings PROVE shared(j) < unique[i]
  BY <1>4, <1>7, <1>8
<1>10. ASSUME NEW n \in Nat \ {0}, \A j \in siblings : shared(j) < n
       PROVE  unique[i] <= n
  BY <1>4, <1>7, <1>10
<1> HIDE DEF needed, top
<1> QED
  BY <1>8, <1>9, <1>10 DEF shared

(* Below a command that can be seen, the letters choose the command that a *)
(* word names or is the only abbreviation of.                              *)
LEMMA ChosenIsThe ==
  ASSUME Lettered, NEW q, q = 0 \/ Visible(q, privilege, mode), NEW word \in Vocabulary
  PROVE  /\ Chosen(q, word) = The(q, word)
         /\ \/ The(q, word) = 0
            \/ The(q, word) \in Children(q) /\ Visible(The(q, word), privilege, mode)
<1> DEFINE seen  == {i \in Children(q) : Visible(i, privilege, mode)}
           named == {i \in seen : Tree[i].name = word}
           short == {i \in seen : Abbreviates(word, Tree[i].name)}
           found == {i \in Children(q) : Matches(i, word) /\ Tree[i].mode \in {mode, ANY}}
<1>1. Chosen(q, word) = Preferred(found)
  BY DEF Chosen
<1>2. The(q, word) = IF named # {} THEN Min(named) ELSE IF Cardinality(short) = 1 THEN Min(short) ELSE 0
  BY DEF The
<1>3. \A i \in found : /\ i \in seen /\ Abbreviates(word, Tree[i].name)
                       /\ unique[i] <= Len(word) \/ word = Tree[i].name
  BY DEF Matches, Visible
<1>4. ASSUME NEW i \in seen, Abbreviates(word, Tree[i].name),
             unique[i] <= Len(word) \/ word = Tree[i].name
      PROVE  i \in found
  <2>1. Matches(i, word)
    BY <1>4, Zenon DEF Matches, Visible
  <2>2. Tree[i].mode \in {mode, ANY} /\ i \in Children(q)
    BY DEF Visible
  <2> QED
    BY <2>1, <2>2
<1>5. ASSUME NEW i \in seen
      PROVE  /\ i \in Ids /\ i \in Nat /\ Tree[i].parent = q
             /\ i \in Children(q) /\ Visible(i, privilege, mode)
             /\ Tree[i].mode \in {mode, ANY}
  <2>1. i \in Ids /\ Tree[i].parent = q
    BY DEF Children
  <2>2. i \in Nat
    BY <2>1, TheTree
  <2> QED
    BY <2>1, <2>2 DEF Visible
<1> DEFINE shared(i, j) == Shared(Tree[i].name, Tree[j].name)
<1>6. ASSUME NEW i \in seen
      PROVE  /\ unique[i] \in Nat \ {0}
             /\ \A j \in seen : j # i => shared(i, j) < unique[i]
             /\ \A n \in Nat \ {0} : (\A j \in seen : j # i => shared(i, j) < n) => unique[i] <= n
  BY <1>5, Letters
<1>7. ASSUME NEW i \in seen, NEW j \in seen
      PROVE  /\ shared(i, j) \in Nat
             /\ word = Tree[i].name => Abbreviates(word, Tree[i].name)
             /\ Abbreviates(word, Tree[i].name) =>
                  (Abbreviates(word, Tree[j].name) <=> Len(word) <= shared(i, j))
  <2>1. shared(i, j) \in 0 .. Len(Tree[i].name) /\ Len(Tree[i].name) \in Nat
    BY <1>5, LettersAssumption
  <2> HIDE DEF seen
  <2>2. shared(i, j) \in Nat
    BY <2>1
  <2> QED
    BY <1>5, <2>2, AbbreviationAssumption
<1>8. Len(word) \in Nat \ {0}
  BY LinesAssumption
<1>9. ASSUME NEW i \in named, NEW j \in named PROVE i = j
  <2>1. i \in Ids /\ j \in Ids /\ Tree[i].parent = q /\ Tree[j].parent = q
    BY <1>5, Zenon
  <2>2. Tree[i].name = Tree[j].name
    OBVIOUS
  <2> QED
    BY <2>1, <2>2, TheTree, Zenon
<1>10. ASSUME NEW k \in seen, found = {k} PROVE Preferred(found) = k
  <2>1. k \in Nat /\ Tree[k].mode \in {mode, ANY}
    BY <1>5
  <2> QED
    BY <1>10, <2>1, PreferredOfOne, Zenon
<1> HIDE DEF found, shared
<1>11. CASE named # {}
  <2>1. PICK k : k \in named
    BY <1>11
  <2>2. named = {k} /\ k \in seen /\ Tree[k].name = word
    BY <1>9, <2>1
  <2>3. k \in found
    BY <1>4, <1>7, <2>2
  <2>4. ASSUME NEW i \in found PROVE i = k
    <3>1. SUFFICES ASSUME i # k PROVE FALSE
      OBVIOUS
    <3>2. i \in seen /\ Abbreviates(word, Tree[i].name)
      BY <1>3
    <3>3. word # Tree[i].name
      BY <1>9, <2>1, <3>1, <3>2, <2>2
    <3>4. unique[i] <= Len(word)
      BY <1>3, <3>3
    <3>5. Abbreviates(word, Tree[k].name)
      BY <1>7, <2>2
    <3>6. Len(word) <= shared(i, k) /\ shared(i, k) \in Nat
      BY <1>7, <2>2, <3>2, <3>5
    <3>7. shared(i, k) < unique[i] /\ unique[i] \in Nat
      BY <1>6, <2>2, <3>1, <3>2
    <3> QED
      BY <1>8, <3>4, <3>6, <3>7
  <2>5. found = {k}
    BY <2>3, <2>4
  <2>6. Preferred(found) = k
    BY <1>10, <2>2, <2>5
  <2>7. The(q, word) = k
    <3>1. k \in Nat
      BY <1>5, <2>2
    <3>2. Min(named) = k
      BY <2>2, <3>1, SmallestOfOne
    <3> HIDE DEF named
    <3> QED
      BY <1>2, <1>11, <3>2
  <2> QED
    BY <1>1, <1>5, <2>2, <2>6, <2>7
<1>12. CASE named = {}
  <2>1. ASSUME NEW i \in found PROVE i \in seen /\ short = {i}
    <3>1. i \in seen /\ Abbreviates(word, Tree[i].name)
      BY <1>3
    <3>2. unique[i] <= Len(word)
      BY <1>3, <1>12, <3>1
    <3>3. ASSUME NEW j \in seen, j # i PROVE ~Abbreviates(word, Tree[j].name)
      <4>1. shared(i, j) < unique[i] /\ unique[i] \in Nat /\ shared(i, j) \in Nat
        BY <1>6, <1>7, <3>1, <3>3
      <4>2. ~(Len(word) <= shared(i, j))
        BY <1>8, <3>2, <4>1
      <4> QED
        BY <1>7, <3>1, <4>2
    <3> QED
      BY <3>1, <3>3
  <2>2. ASSUME NEW i \in seen, short = {i} PROVE found = {i}
    <3>1. Abbreviates(word, Tree[i].name)
      BY <2>2
    <3>2. ASSUME NEW j \in seen, j # i PROVE shared(i, j) < Len(word)
      <4>1. ~Abbreviates(word, Tree[j].name)
        BY <2>2, <3>2
      <4>2. ~(Len(word) <= shared(i, j)) /\ shared(i, j) \in Nat
        BY <1>7, <3>1, <4>1
      <4> QED
        BY <1>8, <4>2
    <3>3. unique[i] <= Len(word)
      BY <1>6, <1>8, <3>2
    <3>4. i \in found
      BY <1>4, <3>1, <3>3
    <3>5. ASSUME NEW j \in found PROVE j = i
      BY <2>1, <2>2
    <3> QED
      BY <3>4, <3>5
  <2>3. CASE found # {}
    <3>1. PICK k : k \in found
      BY <2>3
    <3>2. k \in seen /\ short = {k}
      BY <2>1, <3>1
    <3>3. found = {k}
      BY <2>2, <3>2
    <3>4. Preferred(found) = k
      BY <1>10, <3>2, <3>3
    <3>5. k \in Nat
      BY <1>5, <3>2
    <3>6. Cardinality(short) = 1 /\ Min(short) = k
      BY <3>2, <3>5, SmallestOfOne, FS_Singleton
    <3> HIDE DEF named, short
    <3>7. The(q, word) = k
      BY <1>2, <1>12, <3>6
    <3> QED
      BY <1>1, <1>5, <3>2, <3>4, <3>7
  <2>4. CASE found = {}
    <3>1. Chosen(q, word) = 0
      BY <1>1, <2>4, PreferredOfNone, Zenon
    <3>2. Cardinality(short) # 1
      <4>1. SUFFICES ASSUME Cardinality(short) = 1 PROVE FALSE
        OBVIOUS
      <4>2. IsFiniteSet(short)
        <5>1. IsFiniteSet(1 .. 24)
          BY FS_Interval, 1 \in Int, 24 \in Int
        <5>2. short \subseteq 1 .. 24
          BY <1>5, TheTree
        <5> QED
          BY <5>1, <5>2, FS_Subset, Zenon
      <4>3. PICK i : short = {i}
        BY <4>1, <4>2, FS_Singleton, Zenon
      <4>4. i \in seen
        BY <4>3
      <4> QED
        BY <2>2, <2>4, <4>3, <4>4
    <3> HIDE DEF named, short
    <3>3. The(q, word) = 0
      BY <1>2, <1>12, <3>2
    <3> QED
      BY <3>1, <3>3
  <2> QED
    BY <2>3, <2>4
<1> QED
  BY <1>11, <1>12

-----------------------------------------------------------------------------
(* Lines.                                                                  *)

(* A line has a first word, and a second one when its command has more     *)
(* than one.  A bar is no word of a command.                               *)
LEMMA LineWords ==
  ASSUME NEW words \in Lines
  PROVE  /\ words \in Seq(Vocabulary) /\ Len(words) \in Nat \ {0}
         /\ DOMAIN words = 1 .. Len(words)
         /\ words[1] \in Vocabulary
         /\ CommandWords(words) # 1 => words[2] \in Vocabulary /\ CommandWords(words) > 1
<1>1. words \in Seq(Vocabulary) /\ words # <<>>
  BY LinesAssumption
<1>2. Len(words) \in Nat \ {0} /\ DOMAIN words = 1 .. Len(words)
  BY <1>1, LenProperties, EmptySeq
<1>3. ASSUME NEW i \in 1 .. Len(words) PROVE words[i] \in Vocabulary
  BY <1>1, <1>3, ElementOfSeq
<1>4. 1 \in 1 .. Len(words)
  BY <1>2
<1>5. ASSUME CommandWords(words) # 1 PROVE words[2] \in Vocabulary /\ CommandWords(words) > 1
  <2>1. CASE Bars(words) = {}
    <3>1. CommandWords(words) = Len(words)
      BY <2>1 DEF CommandWords
    <3>2. 2 \in 1 .. Len(words) /\ CommandWords(words) > 1
      BY <1>2, <1>5, <3>1
    <3> QED
      BY <1>3, <3>2
  <2>2. CASE Bars(words) # {}
    <3> DEFINE bar == Min(Bars(words))
    <3>1. CommandWords(words) = bar - 1
      BY <2>2 DEF CommandWords
    <3>2. Bars(words) \subseteq 1 .. Len(words) /\ 1 \notin Bars(words)
      BY <1>2 DEF Bars
    <3>3. bar \in Bars(words)
      BY <2>2, <3>2, MinIsMember
    <3> HIDE DEF bar
    <3>4. bar \in 1 .. Len(words) /\ bar # 1 /\ bar - 1 # 1
      BY <1>5, <3>1, <3>2, <3>3
    <3>5. 2 \in 1 .. Len(words) /\ bar - 1 > 1
      BY <1>2, <3>4
    <3> QED
      BY <1>3, <3>1, <3>5
  <2> QED
    BY <2>1, <2>2
<1> QED
  BY <1>1, <1>2, <1>3, <1>4, <1>5

(* Behind a command without commands of its own no word means one.         *)
LEMMA TheOfNone ==
  ASSUME NEW q, NEW word, Children(q) = {}
  PROVE  The(q, word) = 0
<1> DEFINE seen  == {i \in Children(q) : Visible(i, privilege, mode)}
           named == {i \in seen : Tree[i].name = word}
           short == {i \in seen : Abbreviates(word, Tree[i].name)}
<1>1. The(q, word) = IF named # {} THEN Min(named) ELSE IF Cardinality(short) = 1 THEN Min(short) ELSE 0
  BY DEF The
<1>2. named = {} /\ short = {}
  OBVIOUS
<1> HIDE DEF named, short
<1> QED
  BY <1>1, <1>2, FS_EmptySet

(* The command that is looked up is the one that is meant, unless a word   *)
(* asks for help.                                                          *)
LEMMA FoundIsMeant ==
  ASSUME Lettered, NEW words \in Lines
  PROVE  \/ Found(words) = Meant(words)
         \/ Found(words) = 0 /\ \E k \in DOMAIN words : Asks(words[k])
<1> DEFINE top == The(0, words[1])
           sub == IF top # 0 /\ CommandWords(words) > 1 THEN The(top, words[2]) ELSE 0
<1>1. Meant(words) = IF sub # 0 THEN sub ELSE IF top = 0 THEN 0 ELSE Own(top)
  BY DEF Meant, Own
<1>2. /\ Chosen(0, words[1]) = top
      /\ top = 0 \/ (top \in Children(0) /\ Visible(top, privilege, mode))
  BY LineWords, ChosenIsThe
<1>3. 1 \in DOMAIN words /\ (CommandWords(words) # 1 => 2 \in DOMAIN words)
  <2>1. CommandWords(words) # 1 => Len(words) # 1
    <3> SUFFICES ASSUME CommandWords(words) # 1, Len(words) = 1 PROVE FALSE
      OBVIOUS
    <3>1. Bars(words) \subseteq {1}
      BY LineWords DEF Bars
    <3>2. Bars(words) = {}
      BY <3>1 DEF Bars
    <3> QED
      BY <3>2 DEF CommandWords
  <2>2. Len(words) \in Nat \ {0} /\ DOMAIN words = 1 .. Len(words)
    BY LineWords
  <2> DEFINE n == Len(words)
  <2> HIDE DEF n
  <2>3. n \in Nat \ {0} /\ (CommandWords(words) # 1 => n # 1)
    BY <2>1, <2>2 DEF n
  <2>4. 1 \in 1 .. n /\ (CommandWords(words) # 1 => 2 \in 1 .. n)
    BY <2>3
  <2> QED
    BY <2>2, <2>4 DEF n
<1>4. Found(words) = IF Asks(words[1]) THEN 0 ELSE Under(top, words)
  BY <1>2 DEF Found
<1> HIDE DEF top
<1>5. CASE Asks(words[1])
  BY <1>3, <1>4, <1>5
<1>6. CASE ~Asks(words[1]) /\ top = 0
  <2>1. Under(top, words) = 0
    BY <1>6 DEF Under
  <2> QED
    BY <1>1, <1>4, <1>6, <2>1
<1>7. CASE ~Asks(words[1]) /\ top # 0 /\ Children(top) = {}
  <2>1. Under(top, words) = top
    BY <1>7 DEF Under
  <2>2. top \in Ids /\ Own(top) = top
    BY <1>2, <1>7, TheTree DEF Children, Own
  <2>3. sub = 0
    BY <1>7, TheOfNone
  <2> QED
    BY <1>1, <1>4, <1>7, <2>1, <2>2, <2>3
<1>8. CASE ~Asks(words[1]) /\ top # 0 /\ Children(top) # {} /\ CommandWords(words) = 1
  <2>1. Under(top, words) = Own(top)
    BY <1>8 DEF Under
  <2>2. sub = 0
    BY <1>8
  <2> QED
    BY <1>1, <1>4, <1>8, <2>1, <2>2
<1>9. CASE ~Asks(words[1]) /\ top # 0 /\ Children(top) # {} /\ CommandWords(words) # 1
  <2>1. words[2] \in Vocabulary /\ sub = The(top, words[2])
    BY <1>9, LineWords
  <2>2. Chosen(top, words[2]) = sub
    BY <1>2, <1>9, <2>1, ChosenIsThe
  <2>3. CASE Asks(words[2])
    <3>1. Under(top, words) = 0
      BY <1>9, <2>3 DEF Under
    <3> QED
      BY <1>3, <1>4, <1>9, <2>3, <3>1
  <2>4. CASE ~Asks(words[2])
    <3>1. Under(top, words) = IF sub = 0 THEN Own(top) ELSE sub
      BY <1>9, <2>2, <2>4 DEF Under
    <3> HIDE DEF sub
    <3> QED
      BY <1>1, <1>4, <1>9, <3>1
  <2> QED
    BY <2>3, <2>4
<1> QED
  BY <1>5, <1>6, <1>7, <1>8, <1>9

(* A line with a bar gets a verdict at least.                              *)
LEMMA BarsAreJudged ==
  ASSUME NEW words \in Lines, Bars(words) # {}
  PROVE  Verdicts(words) # <<>>
<1> DEFINE k == Cardinality(Bars(words))
           bar == InOrder(Bars(words))
           all == Judged(words, bar)
           bad == {f \in DOMAIN all : all[f].kind \notin Installed}
<1>1. k \in Nat \ {0}
  <2>1. Bars(words) \subseteq 1 .. Len(words) /\ Len(words) \in Int /\ 1 \in Int
    BY LineWords DEF Bars
  <2>2. IsFiniteSet(Bars(words))
    BY <2>1, FS_Interval, FS_Subset, Zenon
  <2> QED
    BY <2>2, FS_CardinalityType, FS_EmptySet
<1>2. DOMAIN bar = 1 .. k
  BY DEF InOrder
<1>3. Verdicts(words) = UpToFirst(all, bad)
  BY DEF Verdicts
<1>4. DOMAIN all = 1 .. k
  BY <1>2 DEF Judged
<1> HIDE DEF k, bar, all
<1>5. bad \subseteq 1 .. k
  BY <1>4
<1>6. CASE bad = {}
  BY <1>1, <1>3, <1>4, <1>6 DEF UpToFirst
<1>7. CASE bad # {}
  <2>1. bad \subseteq Nat
    BY <1>1, <1>5
  <2> DEFINE n == Min(bad)
  <2>2. n \in bad
    <3> HIDE DEF bad
    <3> QED
      BY <1>7, <2>1, MinIsMember
  <2>3. n \in 1 .. k
    BY <1>5, <2>2
  <2>4. Verdicts(words) = SubSeq(all, 1, n)
    BY <1>3, <1>7 DEF UpToFirst
  <2> HIDE DEF n, bad
  <2>5. SubSeq(all, 1, n) = [i \in 1 .. n |-> all[i]]
    BY <1>1, <2>3
  <2>6. DOMAIN SubSeq(all, 1, n) = 1 .. n /\ 1 \in 1 .. n
    BY <1>1, <2>3, <2>5
  <2>7. DOMAIN SubSeq(all, 1, n) # {}
    BY <2>6
  <2>8. DOMAIN <<>> = {}
    OBVIOUS
  <2> QED
    BY <2>4, <2>7, <2>8, Zenon
<1> QED
  BY <1>6, <1>7

-----------------------------------------------------------------------------
(* What running a line does to the session.                                *)

(* A step that leaves the privilege, the mode and the letters alone.       *)
LEMMA StayLettered ==
  ASSUME Lettered, UNCHANGED <<privilege, mode, unique>>
  PROVE  Lettered'
BY Zenon DEF Lettered

(* No command leaves the letters of another privilege or mode behind.      *)
LEMMA EffectLettered ==
  ASSUME Lettered, NEW name, Effect(name)
  PROVE  Lettered'
<1>1. \/ UNCHANGED <<privilege, mode, unique>>
      \/ \E p, m : Become(p, m)
  BY Zenon DEF Effect, Quit
<1> QED
  BY <1>1, StayLettered, BecomeLettered

(* An answer runs no command.                                              *)
LEMMA AnswerRuns == ASSUME NEW left, Answer(left) PROVE ran'.id = 0
  BY DEF Answer, Nothing, Did

(* A refused filter runs none.                                             *)
LEMMA RefuseRuns == ASSUME NEW installed, Refuse(installed) PROVE ran'.id = 0
  BY DEF Refuse, Did

(* A call runs the command that was found, with its filters.               *)
LEMMA CallRuns ==
  ASSUME NEW id, NEW through, Call(id, through)
  PROVE  ran'.id = id /\ ran'.through = through /\ filters' = <<>>
BY DEF Call, Did

(* The ways cli_run_command ends.                                          *)
LEMMA CarryEnds ==
  ASSUME NEW id, NEW v, Carry(id, v)
  PROVE  \/ id = 0 /\ Answer(filters)
         \/ CutShort(v) /\ Answer(Remaining(v))
         \/ Refused(v) /\ Refuse(Front(v))
         \/ id # 0 /\ Call(id, IF v = <<>> THEN filters ELSE v)
BY Zenon DEF Carry

(* Nor does a line that is answered, or refused.                           *)
LEMMA CarryLettered ==
  ASSUME Lettered, NEW id, NEW v, Carry(id, v)
  PROVE  Lettered'
<1>1. CASE \E left : Answer(left)
  BY <1>1, StayLettered DEF Answer
<1>2. CASE \E left : Refuse(left)
  BY <1>2, StayLettered DEF Refuse
<1>3. CASE \E through : Call(id, through)
  BY <1>3, EffectLettered DEF Call
<1> QED
  BY <1>1, <1>2, <1>3, CarryEnds, Zenon

-----------------------------------------------------------------------------
(* The terminal.                                                           *)

(* The invariant: the letters are in use, and a line is one that may be    *)
(* typed.                                                                  *)
LineInv == Lettered /\ line \in Lines \cup {<<>>}

(* A session starts with the letters of its privilege and mode.            *)
LEMMA InitLine == Init => LineInv
  BY DEF Init, CommandsInit, LineInv, Lettered

(* The one step that runs a line.                                          *)
LEMMA EnterRuns ==
  ASSUME LineInv, Enter
  PROVE  line \in Lines /\ Carry(Found(line), Verdicts(line)) /\ line' = <<>>
BY DEF LineInv, Enter, Run

(* Every step keeps the invariant.                                         *)
LEMMA LineStep == LineInv /\ [Next]_vars => LineInv'
<1> SUFFICES ASSUME LineInv, [Next]_vars PROVE LineInv'
  OBVIOUS
<1>1. CASE LogIn
  BY <1>1, StayLettered DEF LineInv, LogIn
<1>2. CASE Type
  BY <1>2, StayLettered DEF LineInv, Type
<1>3. CASE Enter
  BY <1>3, EnterRuns, CarryLettered DEF LineInv
<1>4. CASE Password
  <2>1. PICK right \in BOOLEAN : AnswerEnable(right) /\ UNCHANGED line
    BY <1>4 DEF Password
  <2>2. UNCHANGED <<privilege, mode, unique>> \/ Become(PRIVILEGED, mode)
    BY <2>1 DEF AnswerEnable
  <2> QED
    BY <2>1, <2>2, StayLettered, BecomeLettered DEF LineInv
<1>5. CASE ControlZ
  BY <1>5, BecomeLettered DEF LineInv, ControlZ, LeaveConfig
<1>6. CASE UNCHANGED vars
  BY <1>6, StayLettered DEF LineInv, vars, cli
<1> QED
  BY <1>1, <1>2, <1>3, <1>4, <1>5, <1>6 DEF Next

(* In every state that the terminal reaches the letters are those of its   *)
(* privilege and mode.                                                     *)
THEOREM LettersAreKept == Spec => []LineInv
BY InitLine, LineStep, PTL DEF Spec

(* A line runs what it means.                                              *)
LEMMA EnterRunsWhatWasMeant ==
  ASSUME LineInv, Enter
  PROVE  \/ ran'.id = Meant(line)
         \/ /\ ran'.id = 0
            /\ \/ \E k \in DOMAIN line : Asks(line[k])
               \/ CutShort(Verdicts(line)) \/ Refused(Verdicts(line))
<1> DEFINE v == Verdicts(line)
           id == Found(line)
<1>1. line \in Lines /\ Carry(id, v)
  BY EnterRuns
<1>2. id = Meant(line) \/ (id = 0 /\ \E k \in DOMAIN line : Asks(line[k]))
  BY <1>1, FoundIsMeant DEF LineInv
<1> HIDE DEF v, id
<1>3. CASE id = 0 /\ Answer(filters)
  BY <1>2, <1>3, AnswerRuns
<1>4. CASE CutShort(v) /\ Answer(Remaining(v))
  BY <1>4, AnswerRuns DEF v
<1>5. CASE Refused(v) /\ Refuse(Front(v))
  BY <1>5, RefuseRuns DEF v
<1>6. CASE id # 0 /\ Call(id, IF v = <<>> THEN filters ELSE v)
  BY <1>2, <1>6, CallRuns
<1> QED
  BY <1>1, <1>3, <1>4, <1>5, <1>6, CarryEnds, Zenon

(* At every privilege and in every mode, whatever changes of either came   *)
(* before, and for every vocabulary: the unique_len of each command makes  *)
(* cli_find_command run the command that the words name, or the only one   *)
(* that they abbreviate.                                                   *)
THEOREM LineRunsWhatWasMeant == Spec => RunsWhatWasMeant
<1> DEFINE Meaning ==
      Enter =>
        \/ ran'.id = Meant(line)
        \/ /\ ran'.id = 0
           /\ \/ \E k \in DOMAIN line : Asks(line[k])
              \/ CutShort(Verdicts(line)) \/ Refused(Verdicts(line))
<1>1. LineInv /\ [Next]_vars => [Meaning]_vars
  BY EnterRunsWhatWasMeant
<1>2. Spec => [][Meaning]_vars
  <2> HIDE DEF Meaning
  <2> QED
    BY <1>1, LettersAreKept, PTL DEF Spec
<1> QED
  BY <1>2 DEF RunsWhatWasMeant

(* A command that ran leaves no filter, and had those of its own line.     *)
LEMMA EnterEndsFilters ==
  ASSUME LineInv, Enter, ran'.id # 0
  PROVE  /\ filters' = <<>>
         /\ Bars(line) # {} => ran'.through = Verdicts(line)
<1> DEFINE v == Verdicts(line)
           id == Found(line)
<1>1. line \in Lines /\ Carry(id, v)
  BY EnterRuns
<1>2. Bars(line) # {} => v # <<>>
  BY <1>1, BarsAreJudged
<1> HIDE DEF v, id
<1>3. Call(id, IF v = <<>> THEN filters ELSE v)
  BY <1>1, CarryEnds, AnswerRuns, RefuseRuns, Zenon
<1>4. filters' = <<>> /\ ran'.through = IF v = <<>> THEN filters ELSE v
  BY <1>3, CallRuns
<1> QED
  BY <1>2, <1>4 DEF v

(* Whatever was left in the list of filters by the lines before: a command *)
(* that runs behind a bar prints through the filters of its own line, and  *)
(* none of them is there for the next.                                     *)
THEOREM FiltersEnd == Spec => FiltersEndWithTheCommand
<1> DEFINE Ending ==
      ran'.id # 0 /\ Enter =>
        /\ filters' = <<>>
        /\ Bars(line) # {} => ran'.through = Verdicts(line)
<1>1. LineInv /\ [Next]_vars => [Ending]_vars
  BY EnterEndsFilters
<1>2. Spec => [][Ending]_vars
  <2> HIDE DEF Ending
  <2> QED
    BY <1>1, LettersAreKept, PTL DEF Spec
<1> QED
  BY <1>2 DEF FiltersEndWithTheCommand

-----------------------------------------------------------------------------
(* The numbers of a set in their order.                                    *)

Below(S, x) == {y \in S : y < x}

(* Numbers up to a bound, and those of them below another, can be counted. *)
LEMMA Counted ==
  ASSUME NEW n \in Nat, NEW S, S \subseteq 1 .. n, NEW x
  PROVE  /\ IsFiniteSet(S) /\ Cardinality(S) \in Nat
         /\ IsFiniteSet(Below(S, x)) /\ Cardinality(Below(S, x)) \in Nat
<1>1. 1 \in Int /\ n \in Int
  OBVIOUS
<1>2. IsFiniteSet(1 .. n)
  BY <1>1, FS_Interval, Zenon
<1>3. IsFiniteSet(S)
  BY <1>2, FS_Subset, Zenon
<1>4. IsFiniteSet(Below(S, x))
  BY <1>3, FS_Subset, Zenon DEF Below
<1> QED
  BY <1>3, <1>4, FS_CardinalityType, Zenon

(* No two have as many below them.                                         *)
LEMMA OnePlace ==
  ASSUME NEW n \in Nat, NEW S, S \subseteq 1 .. n, NEW x \in S, NEW y \in S,
         Cardinality(Below(S, x)) = Cardinality(Below(S, y))
  PROVE  x = y
<1>1. ASSUME NEW a \in S, NEW b \in S, a < b
      PROVE  Cardinality(Below(S, a)) # Cardinality(Below(S, b))
  <2>1. Below(S, a) \subseteq Below(S, b) /\ a \in Below(S, b) /\ a \notin Below(S, a)
    <3>1. \A z \in S : z \in Nat
      OBVIOUS
    <3>2. \A z \in S : z < a => z < b
      BY <1>1, <3>1
    <3>3. ~(a < a)
      BY <3>1
    <3> QED
      BY <1>1, <3>2, <3>3 DEF Below
  <2>2. IsFiniteSet(Below(S, b))
    BY Counted
  <2>3. Below(S, a) # Below(S, b)
    BY <2>1
  <2> QED
    BY <2>1, <2>2, <2>3, FS_Subset, Zenon
<1>2. x < y \/ y < x \/ x = y
  <2>1. x \in Nat /\ y \in Nat
    OBVIOUS
  <2> QED
    BY <2>1
<1> QED
  BY <1>1, <1>2

(* A number above all of a set has the set below it, and changes nothing   *)
(* for the others.                                                         *)
LEMMA BelowLast ==
  ASSUME NEW n \in Nat, NEW S, S \subseteq 1 .. n
  PROVE  /\ Below(S \cup {n + 1}, n + 1) = S
         /\ \A x \in 1 .. n : Below(S \cup {n + 1}, x) = Below(S, x)
         /\ Cardinality(S \cup {n + 1}) = Cardinality(S) + 1
<1>0. \A y \in S : y \in 1 .. n
  OBVIOUS
<1>1. Below(S \cup {n + 1}, n + 1) = S
  <2>1. \A y \in 1 .. n : y < n + 1
    OBVIOUS
  <2>2. ~(n + 1 < n + 1)
    OBVIOUS
  <2>3. \A y : y \in Below(S \cup {n + 1}, n + 1) <=> y \in S
    BY <1>0, <2>1, <2>2, Zenon DEF Below
  <2> QED
    BY <2>3
<1>2. \A x \in 1 .. n : Below(S \cup {n + 1}, x) = Below(S, x)
  <2>1. \A x \in 1 .. n : ~(n + 1 < x)
    OBVIOUS
  <2> QED
    BY <2>1 DEF Below
<1>3. n + 1 \notin S
  OBVIOUS
<1>4. IsFiniteSet(S)
  BY Counted
<1>5. Cardinality(S \cup {n + 1}) = Cardinality(S) + 1
  BY <1>3, <1>4, FS_AddElement
<1> QED
  BY <1>1, <1>2, <1>5

(* Every number of places below the size of a set is that of a member.     *)
LEMMA EveryPlace ==
  ASSUME NEW n \in Nat
  PROVE  \A S \in SUBSET (1 .. n) : \A k \in 1 .. Cardinality(S) :
           \E x \in S : Cardinality(Below(S, x)) = k - 1
<1> DEFINE Full(S) == \A k \in 1 .. Cardinality(S) : \E x \in S : Cardinality(Below(S, x)) = k - 1
           Less == {m \in Nat : \E S \in SUBSET (1 .. m) : ~Full(S)}
<1>0. Less \subseteq Nat
  OBVIOUS
<1> SUFFICES ASSUME Less # {} PROVE FALSE
  OBVIOUS
<1> DEFINE m == Min(Less)
<1>1. m \in Less /\ \A y \in Less : ~(y < m)
  <2> HIDE DEF Less
  <2> QED
    BY <1>0, MinIsMember
<1> HIDE DEF m
<1>2. m \in Nat
  BY <1>1
<1>3. PICK S \in SUBSET (1 .. m) : ~Full(S)
  BY <1>1
<1>4. CASE m = 0
  <2>1. S = {}
    BY <1>4
  <2>2. Cardinality(S) = 0
    BY <2>1, FS_EmptySet
  <2> QED
    BY <1>3, <2>2
<1>5. CASE m # 0 /\ m \notin S
  <2>1. m - 1 \in Nat /\ m - 1 < m /\ S \in SUBSET (1 .. (m - 1))
    BY <1>2, <1>5
  <2>2. m - 1 \in Less
    BY <1>3, <2>1
  <2> QED
    BY <1>1, <2>1, <2>2
<1>6. CASE m # 0 /\ m \in S
  <2> DEFINE l == m - 1
             T == S \ {m}
  <2>1. l \in Nat /\ l < m /\ T \subseteq 1 .. l /\ S = T \cup {l + 1} /\ l + 1 = m
    BY <1>2, <1>6
  <2>2. Full(T)
    <3>1. l \notin Less
      BY <1>1, <2>1
    <3> QED
      BY <2>1, <3>1
  <2> HIDE DEF l, T
  <2>3. /\ Below(S, m) = T
        /\ \A x \in 1 .. l : Below(S, x) = Below(T, x)
        /\ Cardinality(S) = Cardinality(T) + 1
    <3>1. /\ Below(T \cup {l + 1}, l + 1) = T
          /\ \A x \in 1 .. l : Below(T \cup {l + 1}, x) = Below(T, x)
          /\ Cardinality(T \cup {l + 1}) = Cardinality(T) + 1
      BY <2>1, BelowLast, Zenon
    <3> QED
      BY <2>1, <3>1
  <2>4. Cardinality(T) \in Nat
    BY <2>1, Counted
  <2>5. ASSUME NEW k \in 1 .. Cardinality(S)
        PROVE  \E x \in S : Cardinality(Below(S, x)) = k - 1
    <3>1. CASE k \in 1 .. Cardinality(T)
      <4>1. PICK x \in T : Cardinality(Below(T, x)) = k - 1
        BY <2>2, <3>1
      <4> QED
        BY <2>1, <2>3, <4>1
    <3>2. CASE k \notin 1 .. Cardinality(T)
      <4>1. k - 1 = Cardinality(T)
        BY <2>3, <2>4, <3>2
      <4> QED
        BY <1>6, <2>3, <4>1
    <3> QED
      BY <3>1, <3>2
  <2> QED
    BY <1>3, <2>5
<1> QED
  BY <1>2, <1>4, <1>5, <1>6

(* What InOrder puts at a place is the member with that many below it.     *)
LEMMA InOrderIs ==
  ASSUME NEW n \in Nat, NEW S, S \subseteq 1 .. n
  PROVE  /\ DOMAIN InOrder(S) = 1 .. Cardinality(S)
         /\ \A k \in 1 .. Cardinality(S) :
              /\ InOrder(S)[k] \in S
              /\ Cardinality(Below(S, InOrder(S)[k])) = k - 1
              /\ \A x \in S : Cardinality(Below(S, x)) = k - 1 => x = InOrder(S)[k]
<1>1. DOMAIN InOrder(S) = 1 .. Cardinality(S)
  BY DEF InOrder
<1>2. ASSUME NEW k \in 1 .. Cardinality(S)
      PROVE  InOrder(S)[k] \in S /\ Cardinality(Below(S, InOrder(S)[k])) = k - 1
  <2>1. InOrder(S)[k] = CHOOSE x \in S : Cardinality(Below(S, x)) = k - 1
    BY DEF InOrder, Below
  <2>2. \E x \in S : Cardinality(Below(S, x)) = k - 1
    BY EveryPlace
  <2> QED
    BY <2>1, <2>2
<1>3. ASSUME NEW k \in 1 .. Cardinality(S), NEW x \in S, Cardinality(Below(S, x)) = k - 1
      PROVE  x = InOrder(S)[k]
  BY <1>2, <1>3, OnePlace
<1> QED
  BY <1>1, <1>2, <1>3

(* A number above the rest comes last.                                     *)
LEMMA InOrderLast ==
  ASSUME NEW n \in Nat, NEW S, S \subseteq 1 .. n
  PROVE  /\ DOMAIN InOrder(S \cup {n + 1}) = 1 .. (Cardinality(S) + 1)
         /\ InOrder(S \cup {n + 1})[Cardinality(S) + 1] = n + 1
         /\ \A k \in 1 .. Cardinality(S) : InOrder(S \cup {n + 1})[k] = InOrder(S)[k]
<1> DEFINE T == S \cup {n + 1}
           c == Cardinality(S)
<1>1. T \subseteq 1 .. (n + 1) /\ n + 1 \in Nat /\ c \in Nat
  <2>1. c \in Nat
    BY Counted
  <2>2. T \subseteq 1 .. (n + 1) /\ n + 1 \in Nat
    <3>1. \A y \in S : y \in 1 .. n
      OBVIOUS
    <3>2. \A y \in 1 .. n : y \in 1 .. (n + 1)
      OBVIOUS
    <3> QED
      BY <3>1, <3>2
  <2> QED
    BY <2>1, <2>2
<1>2. /\ Below(T, n + 1) = S
      /\ \A x \in 1 .. n : Below(T, x) = Below(S, x)
      /\ Cardinality(T) = c + 1
  BY BelowLast
<1> HIDE DEF T
<1>3. /\ DOMAIN InOrder(T) = 1 .. (c + 1)
      /\ \A k \in 1 .. (c + 1) : \A x \in T : Cardinality(Below(T, x)) = k - 1 => x = InOrder(T)[k]
  BY <1>1, <1>2, InOrderIs
<1>4. InOrder(T)[c + 1] = n + 1
  <2>1. n + 1 \in T
    BY DEF T
  <2>2. Cardinality(Below(T, n + 1)) = c
    BY <1>2
  <2> HIDE DEF c
  <2>3. c + 1 \in 1 .. (c + 1) /\ c = (c + 1) - 1
    BY <1>1
  <2> QED
    BY <1>3, <2>1, <2>2, <2>3, Zenon
<1>5. ASSUME NEW k \in 1 .. c PROVE InOrder(T)[k] = InOrder(S)[k]
  <2> DEFINE x == InOrder(S)[k]
  <2>1. x \in S /\ Cardinality(Below(S, x)) = k - 1
    BY InOrderIs
  <2>2. x \in T /\ x \in 1 .. n
    BY <2>1 DEF T
  <2>3. Cardinality(Below(T, x)) = k - 1 /\ k \in 1 .. (c + 1)
    BY <1>1, <1>2, <2>1, <2>2
  <2> HIDE DEF x
  <2> QED
    BY <1>3, <2>2, <2>3 DEF x
<1> QED
  BY <1>3, <1>4, <1>5 DEF T

-----------------------------------------------------------------------------
(* What a filter keeps of the lines up to each.                            *)

Keeps(f, lines, i) ==
  \/ f.kind = "match" /\ Holds(lines[i], f.pattern) # f.invert
  \/ f.kind = "range" /\ Between(f, lines, i)

Places(f, lines) == {i \in DOMAIN lines : Keeps(f, lines, i)}

(* What is kept is a sequence of lines, one for each place.                *)
LEMMA KeptIs ==
  ASSUME NEW C, NEW lines \in Seq(C), NEW f
  PROVE  /\ Kept(f, lines) \in Seq(C)
         /\ Len(Kept(f, lines)) = Cardinality(Places(f, lines))
         /\ Cardinality(Places(f, lines)) \in Nat
         /\ \A k \in 1 .. Cardinality(Places(f, lines)) :
              Kept(f, lines)[k] = lines[InOrder(Places(f, lines))[k]]
<1> DEFINE n == Len(lines)
           P == Places(f, lines)
           c == Cardinality(P)
           at == InOrder(P)
<1>1. n \in Nat /\ DOMAIN lines = 1 .. n /\ P \subseteq 1 .. n /\ \A i \in 1 .. n : lines[i] \in C
  BY DEF Places
<1>2. Kept(f, lines) = [k \in DOMAIN at |-> lines[at[k]]]
  BY DEF Kept, Places, Keeps
<1> HIDE DEF n, P
<1>3. /\ c \in Nat /\ DOMAIN at = 1 .. c
      /\ \A k \in 1 .. c : at[k] \in P
  BY <1>1, Counted, InOrderIs
<1> HIDE DEF c, at
<1>4. ASSUME NEW k \in 1 .. c PROVE lines[at[k]] \in C
  <2>1. at[k] \in 1 .. n
    BY <1>1, <1>3
  <2> QED
    BY <1>1, <2>1
<1>5. Kept(f, lines) = [k \in 1 .. c |-> lines[at[k]]]
  BY <1>2, <1>3
<1> DEFINE K == Kept(f, lines)
<1> HIDE DEF K
<1>6. K \in Seq(C) /\ Len(K) = c /\ \A k \in 1 .. c : K[k] = lines[at[k]]
  BY <1>3, <1>4, <1>5 DEF K
<1> QED
  BY <1>3, <1>6 DEF K, P, c, at

(* Whether a line is kept is settled by the lines up to it.                *)
LEMMA KeepsSettled ==
  ASSUME NEW C, NEW lines \in Seq(C), NEW x \in C, NEW f, NEW i \in 1 .. Len(lines)
  PROVE  Keeps(f, Append(lines, x), i) <=> Keeps(f, lines, i)
<1> DEFINE more == Append(lines, x)
           n == Len(lines)
<1>1. n \in Nat /\ \A j \in 1 .. n : more[j] = lines[j]
  OBVIOUS
<1> HIDE DEF more, n
<1>2. i \in 1 .. n
  BY DEF n
<1>3. \A j \in 1 .. i : j \in 1 .. n /\ \A k \in j .. i - 1 : k \in 1 .. n
  BY <1>1, <1>2
<1>4. \A j \in 1 .. i : more[j] = lines[j] /\ \A k \in j .. i - 1 : more[k] = lines[k]
  BY <1>1, <1>3
<1>5. Between(f, more, i) <=> Between(f, lines, i)
  BY <1>4, Zenon DEF Between
<1>6. more[i] = lines[i]
  BY <1>1, <1>2
<1> QED
  BY <1>5, <1>6, Zenon DEF Keeps, more

(* One line more: it comes last if it is kept.                             *)
LEMMA KeptAppend ==
  ASSUME NEW C, NEW lines \in Seq(C), NEW x \in C, NEW f
  PROVE  Kept(f, Append(lines, x)) =
           IF Keeps(f, Append(lines, x), Len(lines) + 1) THEN Append(Kept(f, lines), x)
           ELSE Kept(f, lines)
<1> DEFINE more == Append(lines, x)
           n == Len(lines)
           P == Places(f, lines)
           Q == Places(f, more)
           c == Cardinality(P)
           old == Kept(f, lines)
           new == Kept(f, more)
<1>1. /\ more \in Seq(C) /\ n \in Nat /\ DOMAIN more = 1 .. (n + 1) /\ DOMAIN lines = 1 .. n
      /\ more[n + 1] = x /\ \A j \in 1 .. n : more[j] = lines[j]
  OBVIOUS
<1>2. \A i \in 1 .. n : Keeps(f, more, i) <=> Keeps(f, lines, i)
  BY KeepsSettled
<1> HIDE DEF more, n
<1>3. P \subseteq 1 .. n
  BY <1>1 DEF Places
<1>4. /\ old \in Seq(C) /\ Len(old) = c /\ c \in Nat
      /\ \A k \in 1 .. c : old[k] = lines[InOrder(P)[k]]
  BY KeptIs
<1>5. /\ new \in Seq(C) /\ Len(new) = Cardinality(Q)
      /\ \A k \in 1 .. Cardinality(Q) : new[k] = more[InOrder(Q)[k]]
  BY <1>1, KeptIs
<1>6. \A k \in 1 .. c : InOrder(P)[k] \in P
  BY <1>1, <1>3, InOrderIs
<1>7. \A i : i \in 1 .. (n + 1) <=> i \in 1 .. n \/ i = n + 1
  BY <1>1
<1>8. CASE Keeps(f, more, n + 1)
  <2>1. Q = P \cup {n + 1}
    BY <1>1, <1>2, <1>7, <1>8 DEF Places
  <2> HIDE DEF P, Q, old, new
  <2>2. /\ Cardinality(Q) = c + 1
        /\ InOrder(Q)[c + 1] = n + 1
        /\ \A k \in 1 .. c : InOrder(Q)[k] = InOrder(P)[k]
    <3>1. n \in Nat /\ P \subseteq 1 .. n
      BY <1>1, <1>3
    <3>2. /\ Cardinality(P \cup {n + 1}) = Cardinality(P) + 1
          /\ InOrder(P \cup {n + 1})[Cardinality(P) + 1] = n + 1
          /\ \A k \in 1 .. Cardinality(P) : InOrder(P \cup {n + 1})[k] = InOrder(P)[k]
      BY <3>1, BelowLast, InOrderLast, Zenon
    <3> QED
      BY <2>1, <3>2, Zenon DEF c
  <2> HIDE DEF c
  <2>3. Len(new) = c + 1
    BY <1>5, <2>2
  <2>4. ASSUME NEW k \in 1 .. (c + 1) PROVE new[k] = Append(old, x)[k]
    <3>1. new[k] = more[InOrder(Q)[k]]
      BY <1>5, <2>2
    <3>2. CASE k = c + 1
      <4>1. Append(old, x)[k] = x
        BY <1>1, <1>4, <3>2
      <4> QED
        BY <1>1, <2>2, <3>1, <3>2, <4>1
    <3>3. CASE k # c + 1
      <4>1. k \in 1 .. c
        BY <1>4, <3>3
      <4>2. Append(old, x)[k] = old[k]
        BY <1>1, <1>4, <4>1
      <4> DEFINE q == InOrder(P)[k]
      <4>3. q \in 1 .. n /\ InOrder(Q)[k] = q
        BY <1>3, <1>6, <2>2, <4>1
      <4>4. old[k] = lines[q]
        BY <1>4, <4>1
      <4> HIDE DEF q
      <4> QED
        BY <1>1, <3>1, <4>2, <4>3, <4>4
    <3> QED
      BY <3>2, <3>3
  <2>5. new = Append(old, x)
    <3> DEFINE both == Append(old, x)
    <3>1. both \in Seq(C) /\ Len(both) = c + 1
      BY <1>4
    <3> HIDE DEF both
    <3>2. \A k \in 1 .. (c + 1) : new[k] = both[k]
      BY <2>4 DEF both
    <3>3. new = both
      BY <1>4, <1>5, <2>3, <3>1, <3>2, SeqEqual
    <3> QED
      BY <3>3 DEF both
  <2> QED
    BY <1>8, <2>5 DEF more, n, old, new
<1>9. CASE ~Keeps(f, more, n + 1)
  <2>1. Q = P
    BY <1>1, <1>2, <1>7, <1>9 DEF Places
  <2> HIDE DEF P, Q, old, new, c
  <2>2. ASSUME NEW k \in 1 .. c PROVE new[k] = old[k]
    <3> DEFINE q == InOrder(P)[k]
    <3>1. q \in 1 .. n
      BY <1>3, <1>6
    <3>2. new[k] = more[q] /\ old[k] = lines[q]
      BY <1>4, <1>5, <2>1 DEF c
    <3> HIDE DEF q
    <3> QED
      BY <1>1, <3>1, <3>2
  <2>3. Len(new) = c
    BY <1>5, <2>1 DEF c
  <2>4. new = old
    BY <1>4, <1>5, <2>2, <2>3, SeqEqual
  <2> QED
    BY <1>9, <2>4 DEF more, n, old, new
<1> QED
  BY <1>8, <1>9

(* Nothing is kept of nothing.                                             *)
LEMMA KeptOfNone == ASSUME NEW f PROVE Kept(f, <<>>) = <<>>
<1>1. <<>> \in Seq({}) /\ DOMAIN <<>> = {}
  OBVIOUS
<1>2. Places(f, <<>>) = {}
  BY <1>1 DEF Places
<1>3. Len(Kept(f, <<>>)) = 0 /\ Kept(f, <<>>) \in Seq({})
  BY <1>1, <1>2, KeptIs, FS_EmptySet
<1> QED
  BY <1>3

-----------------------------------------------------------------------------
(* What a filter remembers of the lines it has seen.                       *)

(* A filter as its words make it.                                          *)
Fresh(f) ==
  \/ \E pattern, invert : f = Match(pattern, invert)
  \/ \E from, to : f = Span(from, to)
  \/ f = Count

(* A range has begun in the lines and has not ended in them.               *)
OpenRange(f, lines) ==
  \E j \in 1 .. Len(lines) :
    /\ Holds(lines[j], f.from)
    /\ f.to # Never => \A k \in j .. Len(lines) : ~Holds(lines[k], f.to)

(* The filter when it has seen them.                                       *)
After(f, lines) ==
  CASE f.kind = "match" -> f
    [] f.kind = "range" -> [f EXCEPT !.matched = OpenRange(f, lines)]
    [] f.kind = "count" -> [f EXCEPT !.seen = NonBlank(lines)]

(* The lines that are not blank are counted one by one.                    *)
LEMMA NonBlankAppend ==
  ASSUME NEW C, NEW lines \in Seq(C), NEW x \in C
  PROVE  /\ NonBlank(lines) \in Nat
         /\ NonBlank(Append(lines, x)) = IF x = <<>> THEN NonBlank(lines) ELSE NonBlank(lines) + 1
<1> DEFINE more == Append(lines, x)
           n == Len(lines)
           P == {i \in DOMAIN lines : lines[i] # <<>>}
           Q == {i \in DOMAIN more : more[i] # <<>>}
<1>1. /\ n \in Nat /\ DOMAIN more = 1 .. (n + 1) /\ DOMAIN lines = 1 .. n
      /\ more[n + 1] = x /\ \A j \in 1 .. n : more[j] = lines[j]
  OBVIOUS
<1>2. NonBlank(lines) = Cardinality(P) /\ NonBlank(more) = Cardinality(Q)
  BY DEF NonBlank
<1> HIDE DEF more, n
<1>3. \A i : i \in 1 .. (n + 1) <=> i \in 1 .. n \/ i = n + 1
  BY <1>1
<1>4. P \subseteq 1 .. n
  BY <1>1
<1>5. Cardinality(P) \in Nat
  BY <1>1, <1>4, Counted
<1>6. CASE x = <<>>
  <2>1. Q = P
    BY <1>1, <1>3, <1>6
  <2> QED
    BY <1>2, <1>5, <1>6, <2>1 DEF more
<1>7. CASE x # <<>>
  <2>1. Q = P \cup {n + 1}
    BY <1>1, <1>3, <1>7
  <2> HIDE DEF P, Q
  <2>2. Cardinality(P \cup {n + 1}) = Cardinality(P) + 1
    BY <1>1, <1>4, BelowLast, Zenon
  <2> QED
    BY <1>2, <1>5, <1>7, <2>1, <2>2 DEF more
<1> QED
  BY <1>6, <1>7

(* A range over one line more.                                             *)
LEMMA RangeAppend ==
  ASSUME NEW C, NEW lines \in Seq(C), NEW x \in C, NEW f
  PROVE  LET more == Append(lines, x)
         IN  /\ Between(f, more, Len(lines) + 1) <=> OpenRange(f, lines) \/ Holds(x, f.from)
             /\ OpenRange(f, more) <=>
                  (OpenRange(f, lines) \/ Holds(x, f.from)) /\ ~(f.to # Never /\ Holds(x, f.to))
<1> DEFINE more == Append(lines, x)
           n == Len(lines)
           begins(j) == Holds(lines[j], f.from)
           ends(j) == f.to # Never /\ Holds(lines[j], f.to)
           Begins == Holds(x, f.from)
           Ends == f.to # Never /\ Holds(x, f.to)
<1>1. /\ n \in Nat /\ Len(more) = n + 1
      /\ more[n + 1] = x /\ \A j \in 1 .. n : more[j] = lines[j]
  OBVIOUS
<1>2. OpenRange(f, lines) <=> \E j \in 1 .. n : begins(j) /\ \A k \in j .. n : ~ends(k)
  BY DEF OpenRange
<1> HIDE DEF more, n
<1>3. /\ \A j : j \in 1 .. (n + 1) <=> j \in 1 .. n \/ j = n + 1
      /\ \A j \in 1 .. n : \A k : k \in j .. (n + 1) <=> k \in j .. n \/ k = n + 1
      /\ \A j \in 1 .. n : \A k \in j .. n : k \in 1 .. n
      /\ \A k : k \in (n + 1) .. (n + 1) <=> k = n + 1
      /\ (n + 1) .. n = {} /\ n + 1 - 1 = n
  BY <1>1
<1>4. /\ \A j \in 1 .. n : Holds(more[j], f.from) <=> begins(j)
      /\ \A j \in 1 .. n : f.to # Never /\ Holds(more[j], f.to) <=> ends(j)
      /\ Holds(more[n + 1], f.from) <=> Begins
      /\ f.to # Never /\ Holds(more[n + 1], f.to) <=> Ends
  BY <1>1
<1> HIDE DEF begins, ends, Begins, Ends
<1>5. Between(f, more, n + 1) <=>
        \E j \in 1 .. (n + 1) :
          /\ Holds(more[j], f.from)
          /\ \A k \in j .. n : ~(f.to # Never /\ Holds(more[k], f.to))
  <2> DEFINE m == n + 1
             l == m - 1
  <2>1. l = n
    BY <1>1
  <2>2. Between(f, more, m) <=>
          \E j \in 1 .. m :
            /\ Holds(more[j], f.from)
            /\ \A k \in j .. l : ~(f.to # Never /\ Holds(more[k], f.to))
    <3> HIDE DEF m
    <3> QED
      BY Zenon DEF Between
  <2> HIDE DEF l
  <2> QED
    BY <2>1, <2>2
<1>6. OpenRange(f, more) <=>
        \E j \in 1 .. (n + 1) :
          /\ Holds(more[j], f.from)
          /\ \A k \in j .. (n + 1) : ~(f.to # Never /\ Holds(more[k], f.to))
  BY <1>1, Zenon DEF OpenRange
<1>7. Between(f, more, n + 1) <=> OpenRange(f, lines) \/ Begins
  BY <1>2, <1>3, <1>4, <1>5, Zenon
<1>8. OpenRange(f, more) <=> (OpenRange(f, lines) \/ Begins) /\ ~Ends
  BY <1>2, <1>3, <1>4, <1>6, Zenon
<1> QED
  BY <1>7, <1>8, Zenon DEF more, n, Begins, Ends

(* A filter that has seen the lines before prints what it keeps, and       *)
(* remembers that it has seen this one too.                                *)
LEMMA FilterStep ==
  ASSUME NEW C, NEW lines \in Seq(C), NEW x \in C, NEW f, Fresh(f)
  PROVE  /\ Filter(After(f, lines), x).prints <=> Keeps(f, Append(lines, x), Len(lines) + 1)
         /\ Filter(After(f, lines), x).next = After(f, Append(lines, x))
<1> DEFINE more == Append(lines, x)
           n == Len(lines)
<1>1. more[n + 1] = x
  OBVIOUS
<1> HIDE DEF more, n
<1>2. CASE \E pattern, invert : f = Match(pattern, invert)
  <2>1. f.kind = "match"
    BY <1>2 DEF Match
  <2>2. After(f, lines) = f /\ After(f, more) = f
    BY <2>1 DEF After
  <2>3. Filter(f, x) = MatchFilter(f, x)
    BY <2>1 DEF Filter
  <2>4. Filter(f, x).prints = (Holds(x, f.pattern) # f.invert) /\ Filter(f, x).next = f
    BY <2>3 DEF MatchFilter
  <2>5. Keeps(f, more, n + 1) <=> Holds(x, f.pattern) # f.invert
    BY <1>1, <2>1 DEF Keeps
  <2> QED
    BY <2>2, <2>4, <2>5 DEF more, n
<1>3. CASE \E from, to : f = Span(from, to)
  <2>1. PICK from, to : f = Span(from, to)
    BY <1>3
  <2> DEFINE g == After(f, lines)
             h == After(f, more)
             o == OpenRange(f, lines)
             p == OpenRange(f, more)
  <2>2. f.kind = "range" /\ f.from = from /\ f.to = to
    BY <2>1 DEF Span
  <2>3. g = [f EXCEPT !.matched = o] /\ h = [f EXCEPT !.matched = p]
    BY <2>2 DEF After
  <2>4. o \in BOOLEAN /\ p \in BOOLEAN
    BY DEF OpenRange
  <2>5. /\ Keeps(f, more, n + 1) <=> o \/ Holds(x, from)
        /\ p <=> (o \/ Holds(x, from)) /\ ~(to # Never /\ Holds(x, to))
    BY <2>2, RangeAppend, Zenon DEF Keeps, more, n
  <2> HIDE DEF g, h, o, p
  <2>6. /\ g = [kind |-> "range", from |-> from, to |-> to, matched |-> o]
        /\ h = [kind |-> "range", from |-> from, to |-> to, matched |-> p]
    BY <2>1, <2>3 DEF Span
  <2>7. Filter(g, x) = RangeFilter(g, x)
    BY <2>6 DEF Filter
  <2> DEFINE in == o \/ Holds(x, from)
             ends == to # Never /\ Holds(x, to)
  <2>8. /\ RangeFilter(g, x).prints = in
        /\ RangeFilter(g, x).next = [g EXCEPT !.matched = in /\ ~ends]
    BY <2>6 DEF RangeFilter
  <2>9. p = (in /\ ~ends)
    BY <2>4, <2>5
  <2> HIDE DEF in, ends
  <2>10. h = [g EXCEPT !.matched = p]
    BY <2>6
  <2>11. Filter(g, x).next = h
    BY <2>7, <2>8, <2>9, <2>10
  <2>12. Filter(g, x).prints <=> Keeps(f, more, n + 1)
    BY <2>5, <2>7, <2>8 DEF in
  <2> QED
    BY <2>11, <2>12 DEF g, h, more, n
<1>4. CASE f = Count
  <2>1. f.kind = "count"
    BY <1>4 DEF Count
  <2> DEFINE a == NonBlank(lines)
             b == NonBlank(more)
  <2>2. a \in Nat /\ b = IF x = <<>> THEN a ELSE a + 1
    BY NonBlankAppend DEF more
  <2>3. After(f, lines) = [f EXCEPT !.seen = a] /\ After(f, more) = [f EXCEPT !.seen = b]
    BY <2>1 DEF After
  <2> HIDE DEF a, b
  <2>4. After(f, lines) = [kind |-> "count", seen |-> a] /\ After(f, more) = [kind |-> "count", seen |-> b]
    BY <1>4, <2>3 DEF Count
  <2> DEFINE g == [kind |-> "count", seen |-> a]
  <2>5. Filter(g, x) = CountFilter(g, x)
    BY DEF Filter
  <2>6. ~CountFilter(g, x).prints /\ CountFilter(g, x).next = IF x = <<>> THEN g ELSE [g EXCEPT !.seen = @ + 1]
    BY DEF CountFilter
  <2>7. CountFilter(g, x).next = [kind |-> "count", seen |-> b]
    BY <2>2, <2>6
  <2>8. ~Keeps(f, more, n + 1)
    BY <2>1 DEF Keeps
  <2> HIDE DEF g
  <2> QED
    BY <2>4, <2>5, <2>6, <2>7, <2>8 DEF g, more, n
<1> QED
  BY <1>2, <1>3, <1>4 DEF Fresh

(* Before the first line it remembers nothing.                             *)
LEMMA AfterNone == ASSUME NEW f, Fresh(f) PROVE After(f, <<>>) = f
<1>0. <<>> \in Seq({}) /\ Len(<<>>) = 0 /\ DOMAIN <<>> = {}
  OBVIOUS
<1>1. ASSUME NEW pattern, NEW invert, f = Match(pattern, invert) PROVE After(f, <<>>) = f
  BY <1>1 DEF After, Match
<1>2. ASSUME NEW from, NEW to, f = Span(from, to) PROVE After(f, <<>>) = f
  <2> DEFINE o == OpenRange(f, <<>>)
  <2>1. o = FALSE
    BY <1>0 DEF OpenRange
  <2>2. After(f, <<>>) = [f EXCEPT !.matched = o]
    BY <1>2 DEF After, Span
  <2> HIDE DEF o
  <2> QED
    BY <1>2, <2>1, <2>2 DEF Span
<1>3. ASSUME f = Count PROVE After(f, <<>>) = f
  <2> DEFINE o == NonBlank(<<>>)
  <2>1. o = 0
    <3>1. {i \in DOMAIN <<>> : <<>>[i] # <<>>} = {}
      BY <1>0
    <3> QED
      BY <3>1, FS_EmptySet DEF NonBlank
  <2>2. After(f, <<>>) = [f EXCEPT !.seen = o]
    BY <1>3 DEF After, Count
  <2> HIDE DEF o
  <2> QED
    BY <1>3, <2>1, <2>2 DEF Count
<1> QED
  BY <1>1, <1>2, <1>3 DEF Fresh

(* It stays of its kind, and a count remembers a number.                   *)
LEMMA AfterKind ==
  ASSUME NEW lines, NEW f, Fresh(f)
  PROVE  /\ After(f, lines).kind = f.kind
         /\ f.kind = "count" => After(f, lines).seen = NonBlank(lines)
<1>1. ASSUME NEW pattern, NEW invert, f = Match(pattern, invert)
      PROVE  After(f, lines).kind = f.kind /\ f.kind # "count"
  BY <1>1 DEF After, Match
<1>2. ASSUME NEW from, NEW to, f = Span(from, to)
      PROVE  After(f, lines).kind = f.kind /\ f.kind # "count"
  <2> DEFINE o == OpenRange(f, lines)
  <2>1. After(f, lines) = [f EXCEPT !.matched = o]
    BY <1>2 DEF After, Span
  <2> HIDE DEF o
  <2> QED
    BY <1>2, <2>1 DEF Span
<1>3. ASSUME f = Count PROVE After(f, lines).kind = f.kind /\ After(f, lines).seen = NonBlank(lines)
  <2> DEFINE o == NonBlank(lines)
  <2>1. After(f, lines) = [f EXCEPT !.seen = o]
    BY <1>3 DEF After, Count
  <2> HIDE DEF o
  <2>2. After(f, lines).kind = f.kind /\ After(f, lines).seen = o
    BY <1>3, <2>1 DEF Count
  <2> QED
    BY <2>2 DEF o
<1> QED
  BY <1>1, <1>2, <1>3 DEF Fresh

-----------------------------------------------------------------------------
(* A list of filters, and what each of them keeps.                         *)

StagesTurn(u, list, output, n) == IF n = 0 THEN output ELSE Kept(list[n], u[n - 1])

IsStages(u, list, output, last) == u = [n \in 0 .. last |-> StagesTurn(u, list, output, n)]

LEMMA StagesExist ==
  ASSUME NEW list, NEW output
  PROVE  \A last \in Nat : \E u : IsStages(u, list, output, last)
<1> DEFINE S == {n \in Nat : ~\E u : IsStages(u, list, output, n)}
           n == Min(S)
<1> SUFFICES ASSUME S # {} PROVE FALSE
  OBVIOUS
<1>0. S \subseteq Nat
  OBVIOUS
<1>1. n \in S /\ \A m \in S : ~(m < n)
  <2> HIDE DEF S
  <2> QED
    BY <1>0, MinIsMember
<1> HIDE DEF n
<1>2. CASE n = 0
  <2> DEFINE u == [k \in 0 .. 0 |-> output]
  <2>1. u = [k \in 0 .. 0 |-> StagesTurn(u, list, output, k)]
    BY DEF StagesTurn
  <2> QED
    BY <1>1, <1>2, <2>1 DEF IsStages
<1>3. CASE n # 0
  <2>1. n - 1 \in Nat /\ n - 1 < n /\ n \in Nat
    BY <1>1, <1>3
  <2>2. PICK u : IsStages(u, list, output, n - 1)
    BY <1>1, <2>1
  <2> DEFINE v == [k \in 0 .. n |-> IF k = n THEN StagesTurn(u, list, output, n) ELSE u[k]]
  <2>3. ASSUME NEW k \in 0 .. n PROVE v[k] = StagesTurn(v, list, output, k)
    <3>1. k # 0 => v[k - 1] = u[k - 1]
      BY <2>1
    <3>2. StagesTurn(v, list, output, k) = StagesTurn(u, list, output, k)
      BY <3>1, <2>1 DEF StagesTurn
    <3>3. k # n => u[k] = StagesTurn(u, list, output, k)
      BY <2>1, <2>2 DEF IsStages
    <3> QED
      BY <3>2, <3>3
  <2>4. IsStages(v, list, output, n)
    BY <2>3 DEF IsStages
  <2> QED
    BY <1>1, <2>4
<1> QED
  BY <1>2, <1>3

(* Each stage is what the filter at it keeps of the stage before.          *)
LEMMA StagesAre ==
  ASSUME NEW list, Len(list) \in Nat, NEW output
  PROVE  /\ Stages(list, output)[0] = output
         /\ \A n \in 1 .. Len(list) :
              Stages(list, output)[n] = Kept(list[n], Stages(list, output)[n - 1])
<1> DEFINE u == Stages(list, output)
           last == Len(list)
<1>1. u = CHOOSE w : w = [n \in 0 .. last |-> IF n = 0 THEN output ELSE Kept(list[n], w[n - 1])]
  BY DEF Stages
<1>2. \E w : w = [n \in 0 .. last |-> IF n = 0 THEN output ELSE Kept(list[n], w[n - 1])]
  <2>1. \E w : IsStages(w, list, output, last)
    BY StagesExist
  <2> QED
    BY <2>1 DEF IsStages, StagesTurn
<1> HIDE DEF u
<1>3. u = [n \in 0 .. last |-> IF n = 0 THEN output ELSE Kept(list[n], u[n - 1])]
  BY <1>1, <1>2
<1>4. u[0] = output
  BY <1>3
<1>5. ASSUME NEW n \in 1 .. last PROVE u[n] = Kept(list[n], u[n - 1])
  <2>1. n \in 0 .. last /\ n # 0
    OBVIOUS
  <2> HIDE DEF last
  <2> QED
    BY <1>3, <2>1
<1> QED
  BY <1>4, <1>5 DEF u

(* And a sequence of lines, of none when there is none.                    *)
LEMMA StagesAreLines ==
  ASSUME NEW list, Len(list) \in Nat, NEW C, NEW output \in Seq(C)
  PROVE  \A n \in 0 .. Len(list) :
           /\ Stages(list, output)[n] \in Seq(C)
           /\ output = <<>> => Stages(list, output)[n] = <<>>
<1> DEFINE u == Stages(list, output)
           last == Len(list)
           Lined(w) == w \in Seq(C) /\ (output = <<>> => w = <<>>)
           S == {n \in 0 .. last : ~Lined(u[n])}
           n == Min(S)
<1>0. u[0] = output /\ \A k \in 1 .. last : u[k] = Kept(list[k], u[k - 1])
  BY StagesAre
<1> HIDE DEF u
<1> SUFFICES ASSUME S # {} PROVE FALSE
  BY DEF u
<1>1. n \in S /\ \A m \in S : ~(m < n)
  <2>1. S \subseteq Nat
    OBVIOUS
  <2> HIDE DEF S
  <2> QED
    BY <2>1, MinIsMember
<1> HIDE DEF n
<1>2. n \in 0 .. last /\ ~Lined(u[n])
  BY <1>1
<1>3. n # 0
  BY <1>0, <1>2
<1>4. n - 1 \in 0 .. last /\ n - 1 < n /\ n \in 1 .. last
  BY <1>2, <1>3
<1>5. Lined(u[n - 1])
  BY <1>1, <1>4
<1> DEFINE w == u[n - 1]
<1>6. u[n] = Kept(list[n], w)
  BY <1>0, <1>4
<1>7. w \in Seq(C) /\ (output = <<>> => w = <<>>)
  BY <1>5
<1> HIDE DEF w
<1>8. Kept(list[n], w) \in Seq(C) /\ (output = <<>> => Kept(list[n], w) = <<>>)
  BY <1>7, KeptIs, KeptOfNone
<1> QED
  BY <1>2, <1>6, <1>8

(* The list when it has seen an output.                                    *)
Remembered(list, output) ==
  [n \in 1 .. Len(list) |-> After(list[n], Stages(list, output)[n - 1])]

AreFresh(list) == \A n \in 1 .. Len(list) : Fresh(list[n])

(* A line more gets as far in the list as filters print it, and is the     *)
(* last of each stage that it gets to.                                     *)
LEMMA StagesAppend ==
  ASSUME NEW list, Len(list) \in Nat, AreFresh(list), NEW C, NEW lines \in Seq(C), NEW x \in C
  PROVE  \A n \in 0 .. Len(list) :
           Stages(list, Append(lines, x))[n] =
             IF Reaches(Remembered(list, lines), x, n + 1)
               THEN Append(Stages(list, lines)[n], x) ELSE Stages(list, lines)[n]
<1> DEFINE last == Len(list)
           u == Stages(list, lines)
           v == Stages(list, Append(lines, x))
           states == Remembered(list, lines)
           Right(n) == v[n] = IF Reaches(states, x, n + 1) THEN Append(u[n], x) ELSE u[n]
           S == {n \in 0 .. last : ~Right(n)}
           n == Min(S)
<1>0. /\ u[0] = lines /\ \A k \in 1 .. last : u[k] = Kept(list[k], u[k - 1])
      /\ v[0] = Append(lines, x) /\ \A k \in 1 .. last : v[k] = Kept(list[k], v[k - 1])
      /\ \A k \in 0 .. last : u[k] \in Seq(C)
      /\ \A k \in 1 .. last : states[k] = After(list[k], u[k - 1])
  <2>2. u[0] = lines /\ \A k \in 1 .. last : u[k] = Kept(list[k], u[k - 1])
    BY StagesAre
  <2>3. v[0] = Append(lines, x) /\ \A k \in 1 .. last : v[k] = Kept(list[k], v[k - 1])
    <3> DEFINE more == Append(lines, x)
    <3> HIDE DEF more
    <3>1. v = Stages(list, more)
      BY DEF more
    <3>2. v[0] = more /\ \A k \in 1 .. last : v[k] = Kept(list[k], v[k - 1])
      BY <3>1, StagesAre
    <3> QED
      BY <3>2 DEF more
  <2>4. \A k \in 0 .. last : u[k] \in Seq(C)
    BY StagesAreLines
  <2>5. \A k \in 1 .. last : states[k] = After(list[k], u[k - 1])
    BY DEF Remembered
  <2> QED
    BY <2>2, <2>3, <2>4, <2>5
<1> HIDE DEF u, v, states
<1> SUFFICES ASSUME S # {} PROVE FALSE
  BY DEF u, v, states
<1>1. n \in S /\ \A m \in S : ~(m < n)
  <2>1. S \subseteq Nat
    OBVIOUS
  <2> HIDE DEF S
  <2> QED
    BY <2>1, MinIsMember
<1> HIDE DEF n
<1>2. n \in 0 .. last /\ ~Right(n)
  BY <1>1
<1>3. n # 0
  <2>1. Reaches(states, x, 0 + 1)
    BY DEF Reaches
  <2>2. Right(0)
    BY <1>0, <2>1
  <2> QED
    BY <1>2, <2>2
<1> DEFINE l == n - 1
<1>4. l \in 0 .. last /\ l < n /\ n \in 1 .. last /\ l + 1 = n
  BY <1>2, <1>3
<1> HIDE DEF l
<1>5. Right(l)
  BY <1>1, <1>4
<1>6. v[l] = IF Reaches(states, x, n) THEN Append(u[l], x) ELSE u[l]
  BY <1>4, <1>5
<1>7. Reaches(states, x, n + 1) <=> Reaches(states, x, n) /\ Filter(states[n], x).prints
  <2>1. \A k : k \in 1 .. (n + 1) - 1 <=> k \in 1 .. n - 1 \/ k = n
    BY <1>4
  <2> QED
    BY <2>1, Zenon DEF Reaches
<1>8. /\ u[n] = Kept(list[n], u[l]) /\ v[n] = Kept(list[n], v[l])
      /\ states[n] = After(list[n], u[l]) /\ u[l] \in Seq(C) /\ Fresh(list[n])
  BY <1>0, <1>4 DEF l, AreFresh
<1>9. /\ Filter(states[n], x).prints <=> Keeps(list[n], Append(u[l], x), Len(u[l]) + 1)
      /\ Kept(list[n], Append(u[l], x)) =
           IF Keeps(list[n], Append(u[l], x), Len(u[l]) + 1) THEN Append(u[n], x) ELSE u[n]
  BY <1>8, FilterStep, KeptAppend
<1> QED
  BY <1>2, <1>6, <1>7, <1>8, <1>9

(* After it every filter remembers what it has seen of it.                 *)
LEMMA RememberedAppend ==
  ASSUME NEW list, Len(list) \in Nat, AreFresh(list), NEW C, NEW lines \in Seq(C), NEW x \in C
  PROVE  Downward(Remembered(list, lines), x) = Remembered(list, Append(lines, x))
<1> DEFINE last == Len(list)
           more == Append(lines, x)
           u == Stages(list, lines)
           v == Stages(list, more)
           states == Remembered(list, lines)
<1>0. /\ \A k \in 0 .. last : u[k] \in Seq(C)
      /\ \A k \in 1 .. last : states[k] = After(list[k], u[k - 1])
      /\ DOMAIN states = 1 .. last
  BY StagesAreLines DEF Remembered
<1>1. \A k \in 0 .. last : v[k] = IF Reaches(states, x, k + 1) THEN Append(u[k], x) ELSE u[k]
  BY StagesAppend
<1>2. Remembered(list, more) = [k \in 1 .. last |-> After(list[k], v[k - 1])]
  BY DEF Remembered
<1> HIDE DEF u, v, states, more
<1>3. ASSUME NEW n \in 1 .. last
      PROVE  (IF Reaches(states, x, n) THEN Filter(states[n], x).next ELSE states[n]) =
               After(list[n], v[n - 1])
  <2> DEFINE l == n - 1
  <2>1. l \in 0 .. last /\ l + 1 = n
    OBVIOUS
  <2>2. states[n] = After(list[n], u[l])
    BY <1>0
  <2> HIDE DEF l
  <2>3. u[l] \in Seq(C) /\ v[l] = IF Reaches(states, x, n) THEN Append(u[l], x) ELSE u[l]
    BY <1>0, <1>1, <2>1
  <2>4. Fresh(list[n])
    BY DEF AreFresh
  <2>5. Filter(states[n], x).next = After(list[n], Append(u[l], x))
    BY <2>2, <2>3, <2>4, FilterStep
  <2>6. (IF Reaches(states, x, n) THEN Filter(states[n], x).next ELSE states[n]) = After(list[n], v[l])
    BY <2>2, <2>3, <2>5
  <2> QED
    BY <2>6 DEF l
<1>4. Downward(states, x) = [n \in 1 .. last |->
         IF Reaches(states, x, n) THEN Filter(states[n], x).next ELSE states[n]]
  BY <1>0 DEF Downward
<1>5. Downward(states, x) = [k \in 1 .. last |-> After(list[k], v[k - 1])]
  BY <1>3, <1>4
<1> QED
  BY <1>2, <1>5 DEF states, more

-----------------------------------------------------------------------------
(* An output, line by line.                                                *)

ProgressTurn(p, list, output, i) ==
  IF i = 0 THEN [list |-> list, lines |-> <<>>] ELSE LinePrinted(p[i - 1], output[i])

IsProgress(p, list, output, last) == p = [i \in 0 .. last |-> ProgressTurn(p, list, output, i)]

LEMMA ProgressExists ==
  ASSUME NEW list, NEW output
  PROVE  \A last \in Nat : \E p : IsProgress(p, list, output, last)
<1> DEFINE S == {n \in Nat : ~\E p : IsProgress(p, list, output, n)}
           n == Min(S)
<1> SUFFICES ASSUME S # {} PROVE FALSE
  OBVIOUS
<1>0. S \subseteq Nat
  OBVIOUS
<1>1. n \in S /\ \A m \in S : ~(m < n)
  <2> HIDE DEF S
  <2> QED
    BY <1>0, MinIsMember
<1> HIDE DEF n
<1>2. CASE n = 0
  <2> DEFINE p == [k \in 0 .. 0 |-> [list |-> list, lines |-> <<>>]]
  <2>1. p = [k \in 0 .. 0 |-> ProgressTurn(p, list, output, k)]
    BY DEF ProgressTurn
  <2> QED
    BY <1>1, <1>2, <2>1 DEF IsProgress
<1>3. CASE n # 0
  <2>1. n - 1 \in Nat /\ n - 1 < n /\ n \in Nat
    BY <1>1, <1>3
  <2>2. PICK p : IsProgress(p, list, output, n - 1)
    BY <1>1, <2>1
  <2> DEFINE q == [k \in 0 .. n |-> IF k = n THEN ProgressTurn(p, list, output, n) ELSE p[k]]
  <2>3. ASSUME NEW k \in 0 .. n PROVE q[k] = ProgressTurn(q, list, output, k)
    <3>1. k # 0 => q[k - 1] = p[k - 1]
      BY <2>1
    <3>2. ProgressTurn(q, list, output, k) = ProgressTurn(p, list, output, k)
      BY <3>1, <2>1 DEF ProgressTurn
    <3>3. k # n => p[k] = ProgressTurn(p, list, output, k)
      BY <2>1, <2>2 DEF IsProgress
    <3> QED
      BY <3>2, <3>3
  <2>4. IsProgress(q, list, output, n)
    BY <2>3 DEF IsProgress
  <2> QED
    BY <1>1, <2>4
<1> QED
  BY <1>2, <1>3

LEMMA ProgressIs ==
  ASSUME NEW list, NEW output, Len(output) \in Nat
  PROVE  /\ Progress(list, output)[0] = [list |-> list, lines |-> <<>>]
         /\ \A i \in 1 .. Len(output) :
              Progress(list, output)[i] = LinePrinted(Progress(list, output)[i - 1], output[i])
<1> DEFINE p == Progress(list, output)
           last == Len(output)
<1>1. p = CHOOSE w : w = [i \in 0 .. last |->
            IF i = 0 THEN [list |-> list, lines |-> <<>>] ELSE LinePrinted(w[i - 1], output[i])]
  BY DEF Progress
<1>2. \E w : w = [i \in 0 .. last |->
            IF i = 0 THEN [list |-> list, lines |-> <<>>] ELSE LinePrinted(w[i - 1], output[i])]
  <2>1. \E w : IsProgress(w, list, output, last)
    BY ProgressExists
  <2> QED
    BY <2>1 DEF IsProgress, ProgressTurn
<1> HIDE DEF p
<1>3. p = [i \in 0 .. last |->
            IF i = 0 THEN [list |-> list, lines |-> <<>>] ELSE LinePrinted(p[i - 1], output[i])]
  BY <1>1, <1>2
<1>4. p[0] = [list |-> list, lines |-> <<>>]
  BY <1>3
<1>5. ASSUME NEW i \in 1 .. last PROVE p[i] = LinePrinted(p[i - 1], output[i])
  <2>1. i \in 0 .. last /\ i # 0
    OBVIOUS
  <2> HIDE DEF last
  <2> QED
    BY <1>3, <2>1
<1> QED
  BY <1>4, <1>5 DEF p

(* What the filters remember, and what was shown, of the lines so far.     *)
SoFar(list, lines) ==
  [list |-> Remembered(list, lines), lines |-> Stages(list, lines)[Len(list)]]

LEMMA SoFarNone ==
  ASSUME NEW F, NEW list \in Seq(F), AreFresh(list)
  PROVE  SoFar(list, <<>>) = [list |-> list, lines |-> <<>>]
<1> DEFINE last == Len(list)
           u == Stages(list, <<>>)
<1>1. last \in Nat /\ list = [n \in 1 .. last |-> list[n]]
  OBVIOUS
<1>2. <<>> \in Seq({})
  OBVIOUS
<1>3. \A n \in 0 .. last : u[n] = <<>>
  BY <1>1, <1>2, StagesAreLines
<1> HIDE DEF u
<1>4. ASSUME NEW n \in 1 .. last PROVE After(list[n], u[n - 1]) = list[n]
  <2>1. n - 1 \in 0 .. last
    BY <1>1
  <2>2. u[n - 1] = <<>>
    BY <1>3, <2>1
  <2>3. Fresh(list[n])
    BY DEF AreFresh
  <2> QED
    BY <2>2, <2>3, AfterNone
<1>5. Remembered(list, <<>>) = [n \in 1 .. last |-> After(list[n], u[n - 1])]
  BY DEF Remembered, u
<1>6. Remembered(list, <<>>) = [n \in 1 .. last |-> list[n]]
  BY <1>4, <1>5
<1>7. u[last] = <<>>
  BY <1>1, <1>3
<1>8. Remembered(list, <<>>) = list
  BY <1>1, <1>6
<1> QED
  BY <1>7, <1>8 DEF SoFar, u

LEMMA SoFarAppend ==
  ASSUME NEW list, Len(list) \in Nat, AreFresh(list), NEW C, NEW lines \in Seq(C), NEW x \in C
  PROVE  LinePrinted(SoFar(list, lines), x) = SoFar(list, Append(lines, x))
<1> DEFINE last == Len(list)
           more == Append(lines, x)
           states == Remembered(list, lines)
           done == SoFar(list, lines)
           kept == Stages(list, lines)[last]
<1>1. done.list = states /\ done.lines = kept
  BY DEF SoFar
<1>2. Len(states) = last
  <2>1. states = [n \in 1 .. last |-> After(list[n], Stages(list, lines)[n - 1])]
    BY DEF Remembered
  <2> HIDE DEF states
  <2> QED
    BY <2>1
<1>3. Downward(states, x) = Remembered(list, more)
  BY RememberedAppend
<1>4. Stages(list, more)[last] = IF Reaches(states, x, last + 1) THEN Append(kept, x) ELSE kept
  BY StagesAppend
<1>5. LinePrinted(done, x) =
        [list  |-> Downward(done.list, x),
         lines |-> IF Reaches(done.list, x, Len(done.list) + 1) THEN Append(done.lines, x) ELSE done.lines]
  BY DEF LinePrinted
<1>6. SoFar(list, more) = [list |-> Remembered(list, more), lines |-> Stages(list, more)[last]]
  BY DEF SoFar
<1> HIDE DEF done, states, kept, more, last
<1>7. LinePrinted(done, x) = SoFar(list, more)
  BY <1>1, <1>2, <1>3, <1>4, <1>5, <1>6
<1> QED
  BY <1>7 DEF done, more

(* After each line of an output the filters remember all of it up to that  *)
(* line, and what was shown is what the last of them keeps.                *)
LEMMA ProgressIsSoFar ==
  ASSUME NEW F, NEW list \in Seq(F), AreFresh(list), NEW C, NEW output \in Seq(C)
  PROVE  \A i \in 0 .. Len(output) : Progress(list, output)[i] = SoFar(list, SubSeq(output, 1, i))
<1> DEFINE p == Progress(list, output)
           last == Len(output)
           Right(i) == p[i] = SoFar(list, SubSeq(output, 1, i))
           S == {i \in 0 .. last : ~Right(i)}
           n == Min(S)
<1>0. /\ last \in Nat /\ Len(list) \in Nat
      /\ p[0] = [list |-> list, lines |-> <<>>]
      /\ \A i \in 1 .. last : p[i] = LinePrinted(p[i - 1], output[i])
  <2>1. last \in Nat /\ Len(list) \in Nat
    OBVIOUS
  <2> QED
    BY <2>1, ProgressIs
<1> HIDE DEF p
<1> SUFFICES ASSUME S # {} PROVE FALSE
  BY DEF p
<1>1. n \in S /\ \A m \in S : ~(m < n)
  <2>1. S \subseteq Nat
    OBVIOUS
  <2> HIDE DEF S
  <2> QED
    BY <2>1, MinIsMember
<1> HIDE DEF n
<1>2. n \in 0 .. last /\ ~Right(n)
  BY <1>1
<1>3. n # 0
  <2>1. SubSeq(output, 1, 0) = <<>>
    BY EmptySeq
  <2>2. Right(0)
    BY <1>0, <2>1, SoFarNone
  <2> QED
    BY <1>2, <2>2
<1> DEFINE l == n - 1
           lines == SubSeq(output, 1, l)
           x == output[n]
<1>4. l \in 0 .. last /\ l < n /\ n \in 1 .. last /\ l + 1 = n
  BY <1>0, <1>2, <1>3
<1>5. Right(l)
  BY <1>1, <1>4
<1>6. lines \in Seq(C) /\ x \in C /\ Append(lines, x) = SubSeq(output, 1, n)
  <2> HIDE DEF l
  <2>1. x \in C
    BY <1>4
  <2>2. lines \in Seq(C) /\ Len(lines) = l /\ \A i \in 1 .. l : lines[i] = output[i]
    BY <1>4
  <2> DEFINE up == SubSeq(output, 1, n)
  <2>3. up \in Seq(C) /\ Len(up) = n /\ \A i \in 1 .. n : up[i] = output[i]
    BY <1>4
  <2> DEFINE both == Append(lines, x)
  <2> HIDE DEF lines, up, x
  <2>4. /\ both \in Seq(C) /\ Len(both) = l + 1 /\ both[l + 1] = x
        /\ \A i \in 1 .. l : both[i] = lines[i]
    BY <2>1, <2>2
  <2> HIDE DEF both
  <2>5. \A i \in 1 .. n : i \in 1 .. l \/ i = n
    BY <1>4
  <2>6. \A i \in 1 .. n : both[i] = up[i]
    BY <1>4, <2>2, <2>3, <2>4, <2>5 DEF x
  <2>7. both = up
    BY <1>4, <2>3, <2>4, <2>6, SeqEqual
  <2> QED
    BY <2>1, <2>2, <2>7 DEF both, up
<1>7. p[n] = LinePrinted(SoFar(list, lines), x)
  BY <1>0, <1>4, <1>5
<1> HIDE DEF l, lines, x
<1>8. LinePrinted(SoFar(list, lines), x) = SoFar(list, Append(lines, x))
  <2>1. Len(list) \in Nat /\ lines \in Seq(C) /\ x \in C
    BY <1>0, <1>6
  <2> QED
    BY <2>1, SoFarAppend, Zenon
<1> QED
  BY <1>2, <1>6, <1>7, <1>8

(* What is shown of an output behind filters as their words make them is   *)
(* what each of them makes of all that the one before it keeps.            *)
LEMMA ShownIsFiltered ==
  ASSUME NEW F, NEW list \in Seq(F), AreFresh(list), NEW C, NEW output \in Seq(C)
  PROVE  Shown(list, output) = Filtered(list, output)
<1> DEFINE last == Len(list)
           u == Stages(list, output)
           states == Remembered(list, output)
           done == Progress(list, output)[Len(output)]
           at == Counts(list)
<1>0. last \in Nat /\ DOMAIN list = 1 .. last /\ Len(output) \in 0 .. Len(output)
  OBVIOUS
<1>1. done.list = states /\ done.lines = u[last]
  <2>1. SubSeq(output, 1, Len(output)) = output
    OBVIOUS
  <2>2. done = SoFar(list, output)
    BY <1>0, <2>1, ProgressIsSoFar
  <2> HIDE DEF done
  <2> QED
    BY <2>2 DEF SoFar
<1>2. DOMAIN states = 1 .. last /\ \A n \in 1 .. last : states[n] = After(list[n], u[n - 1])
  BY DEF Remembered
<1> HIDE DEF u, states
<1>3. ASSUME NEW n \in 1 .. last
      PROVE  /\ states[n].kind = list[n].kind
             /\ list[n].kind = "count" => states[n].seen = NonBlank(u[n - 1])
  <2>1. Fresh(list[n])
    BY DEF AreFresh
  <2> DEFINE f == list[n]
             w == u[n - 1]
  <2>2. states[n] = After(f, w)
    BY <1>2
  <2> HIDE DEF f, w
  <2>3. /\ After(f, w).kind = f.kind
        /\ f.kind = "count" => After(f, w).seen = NonBlank(w)
    BY <2>1, AfterKind, Zenon DEF f
  <2> QED
    BY <2>2, <2>3 DEF f, w
<1> DEFINE P == {n \in 1 .. last : list[n].kind = "count"}
<1>4. Counts(states) = at /\ at = InOrder(P)
  <2>1. {n \in DOMAIN states : states[n].kind = "count"} = P
    BY <1>2, <1>3
  <2>2. {n \in DOMAIN list : list[n].kind = "count"} = P
    BY <1>0
  <2> HIDE DEF P
  <2> QED
    BY <2>1, <2>2 DEF Counts
<1>5. \A c \in DOMAIN at : at[c] \in P
  <2>1. P \subseteq 1 .. last
    OBVIOUS
  <2> HIDE DEF P, at
  <2> QED
    BY <1>0, <1>4, <2>1, InOrderIs
<1> HIDE DEF at
<1>6. ASSUME NEW c \in DOMAIN at
      PROVE  states[at[c]].seen = NonBlank(u[at[c] - 1])
  BY <1>3, <1>5
<1>7. Totals(states) = [c \in DOMAIN at |-> <<ToString(states[at[c]].seen)>>]
  BY <1>4 DEF Totals
<1>8. Totals(states) = [c \in DOMAIN at |-> <<ToString(NonBlank(u[at[c] - 1]))>>]
  BY <1>6, <1>7
<1>9. Shown(list, output) = u[last] \o Totals(states)
  BY <1>1 DEF Shown
<1>10. Filtered(list, output) = u[last] \o [c \in DOMAIN at |-> <<ToString(NonBlank(u[at[c] - 1]))>>]
  BY DEF Filtered, u, at
<1> QED
  BY <1>8, <1>9, <1>10

-----------------------------------------------------------------------------
(* The filters of the terminal.                                            *)

Reasons == {"missing", "help", "ambiguous", "invalid"}

(* Words make a filter, or there is a reason why they do not.              *)
LEMMA VerdictIs ==
  ASSUME NEW args
  PROVE  Fresh(Verdict(args)) \/ Verdict(args).kind \in Reasons
<1> DEFINE Right(v) == Fresh(v) \/ v.kind \in Reasons
<1>1. /\ \A why \in Reasons : Right(Bad(why))
      /\ \A pattern, invert : Right(Match(pattern, invert))
      /\ \A from, to : Right(Span(from, to))
      /\ Right(Count)
  BY DEF Bad, Fresh
<1>2. "missing" \in Reasons /\ "help" \in Reasons /\ "ambiguous" \in Reasons /\ "invalid" \in Reasons
  BY DEF Reasons
<1> HIDE DEF Right
<1>3. Right(Grep(args))
  BY <1>1, <1>2, Zenon DEF Grep
<1>4. Right(MatchInit(args))
  BY <1>1, <1>2, <1>3, Zenon DEF MatchInit
<1>5. Right(RangeInit(args))
  BY <1>1, <1>2, Zenon DEF RangeInit
<1>6. Right(CountInit(args))
  BY <1>1, <1>2, Zenon DEF CountInit
<1>7. Right(Verdict(args))
  BY <1>1, <1>2, <1>4, <1>5, <1>6, Zenon DEF Verdict
<1> QED
  BY <1>7 DEF Right

(* What is installed is a filter, and a reason is not installed.           *)
LEMMA InstalledIs ==
  /\ \A f : Fresh(f) => f.kind \in Installed
  /\ Reasons \cap Installed = {}
<1>1. ASSUME NEW f, Fresh(f) PROVE f.kind \in Installed
  BY <1>1 DEF Fresh, Match, Span, Count, Installed
<1>2. Reasons \cap Installed = {}
  BY DEF Reasons, Installed
<1> QED
  BY <1>1, <1>2

(* The verdicts on a line: all but the last are filters.                   *)
LEMMA VerdictsAre ==
  ASSUME NEW words \in Lines
  PROVE  \E K : /\ Verdicts(words) \in Seq(K)
               /\ \A i \in 1 .. Len(Verdicts(words)) :
                    \/ Fresh(Verdicts(words)[i])
                    \/ i = Len(Verdicts(words)) /\ Verdicts(words)[i].kind \in Reasons
<1> DEFINE k == Cardinality(Bars(words))
           bar == InOrder(Bars(words))
           all == Judged(words, bar)
           bad == {f \in DOMAIN all : all[f].kind \notin Installed}
           v == Verdicts(words)
<1>1. k \in Nat
  <2>1. Bars(words) \subseteq 1 .. Len(words) /\ Len(words) \in Nat
    BY LineWords DEF Bars
  <2> QED
    BY <2>1, Counted
<1>2. DOMAIN bar = 1 .. k
  BY DEF InOrder
<1>3. v = UpToFirst(all, bad)
  BY DEF Verdicts
<1> HIDE DEF bar, k
<1>4. /\ all = [f \in 1 .. k |-> all[f]]
      /\ \A f \in 1 .. k : Fresh(all[f]) \/ all[f].kind \in Reasons
  <2>1. all = [f \in 1 .. k |->
           Verdict(SubSeq(words, bar[f] + 1, IF f < Len(bar) THEN bar[f + 1] - 1 ELSE Len(words)))]
    BY <1>2 DEF Judged
  <2> HIDE DEF all
  <2>2. \A f \in 1 .. k : \E args : all[f] = Verdict(args)
    BY <2>1
  <2> QED
    BY <2>1, <2>2, VerdictIs
<1> HIDE DEF all, v
<1> DEFINE K == {all[f] : f \in 1 .. k}
<1>5. all \in Seq(K) /\ Len(all) = k /\ DOMAIN all = 1 .. k
  BY <1>1, <1>4
<1> HIDE DEF K
<1>6. \A f \in 1 .. k : f \in bad \/ Fresh(all[f])
  BY <1>4, <1>5, InstalledIs
<1>7. CASE bad = {}
  <2>1. v = all
    BY <1>3, <1>7 DEF UpToFirst
  <2> QED
    BY <1>5, <1>6, <1>7, <2>1 DEF v
<1>8. CASE bad # {}
  <2>1. bad \subseteq Nat /\ bad \subseteq 1 .. k
    BY <1>1, <1>5
  <2> DEFINE n == Min(bad)
  <2>2. n \in bad /\ \A y \in bad : ~(y < n)
    <3> HIDE DEF bad
    <3> QED
      BY <1>8, <2>1, MinIsMember
  <2>3. v = SubSeq(all, 1, n)
    BY <1>3, <1>8 DEF UpToFirst
  <2> HIDE DEF n
  <2>4. n \in 1 .. k
    BY <2>1, <2>2
  <2>5. v \in Seq(K) /\ Len(v) = n /\ \A i \in 1 .. n : v[i] = all[i]
    BY <1>1, <1>5, <2>3, <2>4
  <2>6. ASSUME NEW i \in 1 .. n PROVE Fresh(v[i]) \/ (i = n /\ v[i].kind \in Reasons)
    <3>1. i \in 1 .. k /\ (i = n \/ i < n) /\ v[i] = all[i]
      BY <1>1, <2>4, <2>5
    <3>2. Fresh(all[i]) \/ all[i].kind \in Reasons
      BY <1>4, <3>1
    <3>3. i < n => Fresh(all[i])
      BY <1>6, <2>2, <3>1
    <3> QED
      BY <3>1, <3>2, <3>3
  <2> QED
    BY <2>5, <2>6 DEF v
<1> QED
  BY <1>7, <1>8

(* A list of filters as their words make them.                             *)
Filters(list) == AreFresh(list) /\ \E F : list \in Seq(F)

(* What ran went through such a list, and printed lines.                   *)
RanInv ==
  \E id, through, output :
    /\ ran = Did(id, through, output)
    /\ Filters(through)
    /\ output \in Seq(ToSet(output))

FilterInv == Filters(filters) /\ RanInv

(* No filter, and nothing to print.                                        *)
LEMMA NoFilter == Filters(<<>>) /\ <<>> \in Seq(ToSet(<<>>))
<1>1. <<>> \in Seq(ToSet(<<>>)) /\ Len(<<>>) = 0
  OBVIOUS
<1> QED
  BY <1>1 DEF Filters, AreFresh

(* Nothing ran, and the list is what it was.                               *)
LEMMA NothingInv ==
  ASSUME NEW left, Filters(left), ran' = Nothing, filters' = left
  PROVE  FilterInv'
<1>1. ran' = Did(0, <<>>, <<>>)
  BY DEF Nothing
<1>2. RanInv'
  BY <1>1, NoFilter, Zenon DEF RanInv
<1>3. Filters(filters')
  BY Zenon
<1> QED
  BY <1>2, <1>3, Zenon DEF FilterInv

(* All the verdicts before the last are a list of filters; so are all of   *)
(* them when the last is one.                                              *)
LEMMA VerdictsInstall ==
  ASSUME NEW words \in Lines, Verdicts(words) # <<>>
  PROVE  /\ Filters(Front(Verdicts(words)))
         /\ ~CutShort(Verdicts(words)) /\ ~Refused(Verdicts(words)) => Filters(Verdicts(words))
<1> DEFINE v == Verdicts(words)
           n == Len(v)
           front == Front(v)
<1>1. PICK K : /\ v \in Seq(K)
               /\ \A i \in 1 .. n : Fresh(v[i]) \/ (i = n /\ v[i].kind \in Reasons)
  BY VerdictsAre
<1> HIDE DEF v
<1>2. n \in Nat \ {0}
  BY <1>1 DEF v
<1>3. front = SubSeq(v, 1, n - 1) /\ n = Len(v)
  BY DEF Front
<1> HIDE DEF n, front
<1>4. front \in Seq(K) /\ Len(front) = n - 1 /\ \A i \in 1 .. (n - 1) : front[i] = v[i]
  <2>1. SubSeq(v, 1, n - 1) = [i \in 1 .. (n - 1) |-> v[i]]
    BY <1>1, <1>2, <1>3
  <2>2. \A i \in 1 .. (n - 1) : v[i] \in K
    BY <1>1, <1>2, <1>3
  <2> QED
    BY <1>2, <1>3, <2>1, <2>2
<1>5. \A i \in 1 .. (n - 1) : i \in 1 .. n /\ i # n
  BY <1>2
<1>6. Filters(front)
  BY <1>1, <1>4, <1>5 DEF Filters, AreFresh
<1>7. ASSUME ~CutShort(v), ~Refused(v) PROVE Filters(v)
  <2>1. n \in 1 .. n /\ Last(v) = v[n] /\ v # <<>>
    BY <1>2 DEF Last, n, v
  <2>2. v[n].kind \notin Reasons
    BY <1>7, <2>1 DEF CutShort, Refused, Reasons
  <2> QED
    BY <1>1, <2>2 DEF Filters, AreFresh, n
<1> QED
  BY <1>6, <1>7 DEF v, front

(* However a line ends, it leaves a list of filters, and has run through   *)
(* one.                                                                    *)
LEMMA CarryFilters ==
  ASSUME FilterInv, NEW words \in Lines, NEW id, Carry(id, Verdicts(words))
  PROVE  FilterInv'
<1> DEFINE v == Verdicts(words)
<1>1. v # <<>> => /\ Filters(Front(v))
                  /\ ~CutShort(v) /\ ~Refused(v) => Filters(v)
  BY VerdictsInstall
<1>2. Filters(filters)
  BY DEF FilterInv
<1>3. (CutShort(v) => v # <<>>) /\ (Refused(v) => v # <<>>)
  BY DEF CutShort, Refused
<1> HIDE DEF v
<1>4. Carry(id, v)
  BY DEF v
<1>5. CASE id = 0
  <2>1. Answer(filters)
    BY <1>4, <1>5, Zenon DEF Carry
  <2> QED
    BY <1>2, <2>1, NothingInv DEF Answer
<1>6. CASE id # 0 /\ CutShort(v)
  <2> DEFINE left == Remaining(v)
  <2>1. Answer(left)
    BY <1>4, <1>6, Zenon DEF Carry
  <2>2. Filters(left)
    BY <1>1, <1>2, <1>3, <1>6, Zenon DEF Remaining
  <2> HIDE DEF left
  <2> QED
    BY <2>1, <2>2, NothingInv DEF Answer
<1>7. CASE id # 0 /\ ~CutShort(v) /\ Refused(v)
  <2> DEFINE installed == Front(v)
  <2>1. Refuse(installed)
    BY <1>4, <1>7, Zenon DEF Carry
  <2>2. Filters(installed)
    BY <1>1, <1>3, <1>7
  <2> HIDE DEF installed
  <2>3. ran' = Did(0, installed, <<>>) /\ filters' = <<>>
    BY <2>1 DEF Refuse
  <2>4. RanInv'
    BY <2>2, <2>3, NoFilter, Zenon DEF RanInv
  <2>5. Filters(filters')
    BY <2>3, NoFilter, Zenon
  <2> QED
    BY <2>4, <2>5, Zenon DEF FilterInv
<1>8. CASE id # 0 /\ ~CutShort(v) /\ ~Refused(v)
  <2> DEFINE through == IF v = <<>> THEN filters ELSE v
  <2>1. Call(id, through)
    BY <1>4, <1>8, Zenon DEF Carry
  <2>2. Filters(through)
    BY <1>1, <1>2, <1>8
  <2> HIDE DEF through
  <2>3. PICK output \in Printable(through) : ran' = Did(id, through, output)
    BY <2>1 DEF Call
  <2>4. output \in Seq(ToSet(output))
    <3>1. output = <<>> \/ output \in Outputs
      BY DEF Printable
    <3> QED
      BY <3>1, NoFilter, OutputsAssumption
  <2>5. RanInv'
    BY <2>2, <2>3, <2>4, Zenon DEF RanInv
  <2>6. filters' = <<>>
    BY <2>1 DEF Call
  <2>7. Filters(filters')
    BY <2>6, NoFilter, Zenon
  <2> QED
    BY <2>5, <2>7, Zenon DEF FilterInv
<1> QED
  BY <1>5, <1>6, <1>7, <1>8

(* A session starts without filters.                                       *)
LEMMA InitFilters == Init => FilterInv
<1> SUFFICES ASSUME Init PROVE FilterInv
  OBVIOUS
<1>1. filters = <<>> /\ ran = Did(0, <<>>, <<>>)
  BY DEF Init, CommandsInit, Nothing
<1>2. RanInv
  BY <1>1, NoFilter, Zenon DEF RanInv
<1> QED
  BY <1>1, <1>2, NoFilter DEF FilterInv

(* Every step keeps the list one of filters.                               *)
LEMMA FilterSteps == LineInv /\ FilterInv /\ [Next]_vars => FilterInv'
<1> SUFFICES ASSUME LineInv, FilterInv, [Next]_vars PROVE FilterInv'
  OBVIOUS
<1>1. ASSUME UNCHANGED <<filters, ran>> PROVE FilterInv'
  BY <1>1, Zenon DEF FilterInv, RanInv
<1>2. ASSUME filters' = filters, ran' = Nothing PROVE FilterInv'
  <2>1. Filters(filters)
    BY DEF FilterInv
  <2> QED
    BY <1>2, <2>1, NothingInv
<1>3. CASE LogIn
  BY <1>1, <1>3 DEF LogIn
<1>4. CASE Type
  BY <1>2, <1>4 DEF Type
<1>5. CASE Enter
  BY <1>5, EnterRuns, CarryFilters
<1>6. CASE Password
  BY <1>2, <1>6 DEF Password, AnswerEnable
<1>7. CASE ControlZ
  BY <1>2, <1>7 DEF ControlZ, LeaveConfig
<1>8. CASE UNCHANGED vars
  BY <1>1, <1>8 DEF vars, cli
<1> QED
  BY <1>3, <1>4, <1>5, <1>6, <1>7, <1>8 DEF Next

(* What is shown is what such a list makes of the output.                  *)
LEMMA RanShows == RanInv => ShowsWhatTheFiltersLeave
<1> SUFFICES ASSUME RanInv PROVE ran.shown = Filtered(ran.through, ran.output)
  BY DEF ShowsWhatTheFiltersLeave
<1>1. PICK id, through, output :
        ran = Did(id, through, output) /\ Filters(through) /\ output \in Seq(ToSet(output))
  BY DEF RanInv
<1>2. ran.shown = Shown(through, output) /\ ran.through = through /\ ran.output = output
  BY <1>1 DEF Did
<1>3. PICK F : through \in Seq(F) /\ AreFresh(through)
  BY <1>1 DEF Filters
<1>4. Shown(through, output) = Filtered(through, output)
  BY <1>1, <1>3, ShownIsFiltered, Zenon
<1> QED
  BY <1>2, <1>4

(* For every output, of any number of lines, and whatever filters a line   *)
(* or the lines before it have put in the list, however many: what the     *)
(* code shows line by line, remembering in each filter whether its range   *)
(* is open and how many lines it has counted, is what the descriptions of  *)
(* the filters make of the whole output.                                   *)
THEOREM FiltersShowTheRest == Spec => []ShowsWhatTheFiltersLeave
<1>1. Init => FilterInv
  BY InitFilters
<1>2. LineInv /\ FilterInv /\ [Next]_vars => FilterInv'
  BY FilterSteps
<1>3. FilterInv => ShowsWhatTheFiltersLeave
  BY RanShows DEF FilterInv
<1> QED
  BY <1>1, <1>2, <1>3, LettersAreKept, PTL DEF Spec
=============================================================================
