----------------------------- MODULE CliSession -----------------------------
(***************************************************************************)
(* One terminal session, cli_loop: the prompts from the login on, the line *)
(* each of them reads key by key, the history, the completion, and what    *)
(* becomes of the line that a carriage return or a question mark ends.     *)
(*                                                                         *)
(* Telnet options and escape sequences are assembled into keys before this *)
(* point; bytes the loop drops on the way change nothing.                  *)
(***************************************************************************)
EXTENDS Commands, LineEditor

CONSTANTS
  Cells,      (* What may be typed at a prompt that echoes.                *)
  Secrets,    (* What may be typed at a password prompt.                   *)
  User, Pass, (* The account cli_allow_user names.                         *)
  EnablePass, (* The password cli_allow_enable names.                      *)
  HistoryMax  (* Bound: MAX_HISTORY, 256 in the code.                      *)

VARIABLES
  ed,         (* The line: cmd, l and cursor.                              *)
  username,   (* What the login prompt got.                                *)
  history,    (* The lines that were run, oldest first.                    *)
  inHistory,  (* in_history, the entry the arrow keys are at.              *)
  want        (* Ghost: the line as its keys mean it, "lost" after a       *)
              (* Control-Z that forgot the length of the line it cleared.  *)

session == <<ed, username, history, inHistory, want>>
vars    == <<cli, session>>

(* A typed NUL is dropped by the loop, and a chunk is not empty.           *)
ASSUME SessionAssumption ==
  /\ HistoryMax \in Nat \ {0}
  /\ Cells \cap Secrets = {}
  /\ NUL \notin Cells \cup Secrets

(* The cells before the cursor and those after it.                         *)
Pair(before, after) == [before |-> before, after |-> after]

Lost   == [lost |-> TRUE]
Empty  == Pair(<<>>, <<>>)
Secret == state \in {"PASSWORD", "ENABLE_PASSWORD"}
Open   == state # "ended"

Joined(cells) ==
  LET upTo[k \in 0 .. Len(cells)] == IF k = 0 THEN "" ELSE upTo[k - 1] \o cells[k]
  IN  upTo[Len(cells)]

(* cli_parse_line: words between blanks, a bar is a word of its own.       *)
Words(s) ==
  LET at(i)   == SubSeq(s, i, i)
      ends(i) == at(i) \in {" ", "|"}
      starts  == {i \in 1 .. Len(s) : at(i) # " " /\ (at(i) = "|" \/ i = 1 \/ ends(i - 1))}
      last(i) == Max({i} \cup {j \in i .. Len(s) : \A k \in i .. j : ~ends(k)})
      start   == InOrder(starts)
  IN  [n \in DOMAIN start |-> SubSeq(s, start[n], last(start[n]))]

-----------------------------------------------------------------------------
(* The end of a line.                                                      *)

(* Mutant: the oldest line is not dropped.                                 *)
AddHistoryAlways(cells) == Append(history, cells)

(* cli_add_history.                                                        *)
AddHistory(cells) ==
  IF Len(history) = HistoryMax THEN Append(Tail(history), cells)
  ELSE IF history # <<>> /\ Joined(Last(history)) = Joined(cells) THEN history
  ELSE Append(history, cells)

(* Mutant: every line goes into the history.                               *)
RememberAll(e) == IF e.cmd[e.l] # "?" THEN AddHistory(Text(e)) ELSE history

Remembered(e) ==
  IF ~Secret /\ state # "LOGIN" /\ e.cmd[e.l] # "?" /\ Joined(Text(e)) # "history"
    THEN AddHistory(Text(e)) ELSE history

Quietly == ran' = Nothing /\ UNCHANGED <<privilege, mode, unique, filters>>

Login(line) ==
  /\ state = "PASSWORD"
  /\ Quietly
  /\ IF username = User /\ line = Pass
       THEN state' = "NORMAL" /\ UNCHANGED username
       ELSE state' = "LOGIN" /\ username' = ""

(* The line e is complete; again is true when a question mark ended it,    *)
(* and the next prompt starts with the rest of it.                         *)
LineEnds(e, again) ==
  /\ \E line \in {Joined(Text(e))} :
       \/ /\ state \in {"LOGIN", "NORMAL", "ENABLE"} /\ e.l = 0
          /\ Quietly /\ UNCHANGED <<state, username>>
       \/ /\ state = "LOGIN" /\ e.l > 0
          /\ username' = line /\ state' = "PASSWORD" /\ Quietly
       \/ Login(line)
       \/ AnswerEnable(line = EnablePass) /\ UNCHANGED username
       \/ /\ state \in {"NORMAL", "ENABLE"} /\ e.l > 0
          /\ \E words \in {Words(line)} : Run(words)
          /\ UNCHANGED username
  /\ history' = IF state' = "ended" THEN <<>> ELSE IF e.l = 0 THEN history ELSE Remembered(e)
  /\ ed' = IF again /\ state' # "ended" THEN WithoutLast(e) ELSE Blank
  /\ want' = IF want = Lost /\ ed'.l > 0 THEN Lost ELSE Pair(Text(ed'), <<>>)
  /\ inHistory' = 0

(* The carriage return; Control-D at a password prompt does the same.      *)
Enter == Open /\ LineEnds(ed, FALSE)

(* The end of the session: the peer closed, Control-D on an empty line, an *)
(* error of select() or read(), or the idle timeout.                       *)
Over ==
  /\ Open
  /\ state' = "ended" /\ Quietly
  /\ ed' = Blank /\ history' = <<>> /\ want' = Empty /\ inHistory' = 0
  /\ UNCHANGED username

-----------------------------------------------------------------------------
(* Keys that edit the line.                                                *)

Same == UNCHANGED <<state, privilege, mode, unique, filters, username, history>> /\ ran' = Nothing

Edit(e, w) ==
  /\ Open /\ Same
  /\ ed' = e
  /\ want' = IF want = Lost \/ Secret THEN want ELSE w
  /\ UNCHANGED inHistory

(* Afterwards the array and its length agree again.                        *)
Renew(e, w) == Open /\ Same /\ ed' = e /\ want' = w

Room == ed.l < IF state \in {"NORMAL", "ENABLE"} THEN MaxLine ELSE MaxEntry
Keys == IF Secret THEN Secrets ELSE Cells

Type ==
  /\ Open /\ Room
  /\ \E c \in Keys :
       /\ ~(c = "?" /\ AtEnd(ed) /\ ~Secret)
       /\ Edit(Put(ed, c), Pair(Append(want.before, c), want.after))

(* A question mark at the end of the line ends it, but at a password       *)
(* prompt it is typed like any other character.                            *)
QuestionMarkStripped == (* Mutant: the line is run without the mark.        *)
  /\ Open /\ Room
  /\ ~Secret /\ "?" \in Keys /\ AtEnd(ed)
  /\ LineEnds(ed, FALSE)

QuestionMark ==
  /\ Open /\ Room
  /\ ~Secret /\ "?" \in Keys /\ AtEnd(ed)
  /\ \E e \in {Put(ed, "?")} : LineEnds(e, TRUE)

Backspace ==
  ed.cursor > 0 /\ Edit(BackOne(ed, Secret), Pair(Front(want.before), want.after))

EraseWord ==
  /\ ed.cursor > 0
  /\ Edit(EraseBack(ed, Secret),
          Pair(SubSeq(want.before, 1, WordStart(want.before)), want.after))

KillToEnd == ~AtEnd(ed) /\ Edit(Kill(ed), Pair(want.before, <<>>))

ClearLine ==
  Renew(Clear(ed, Secret), IF Secret THEN want ELSE Empty) /\ UNCHANGED inHistory

Left ==
  /\ ed.cursor > 0
  /\ Edit([ed EXCEPT !.cursor = @ - 1],
          Pair(Front(want.before), <<Last(want.before)>> \o want.after))

Right ==
  /\ ~AtEnd(ed)
  /\ Edit([ed EXCEPT !.cursor = @ + 1],
          Pair(Append(want.before, Head(want.after)), Tail(want.after)))

Home == Edit([ed EXCEPT !.cursor = 0], Pair(<<>>, want.before \o want.after))

ToEnd == Edit([ed EXCEPT !.cursor = ed.l], Pair(want.before \o want.after, <<>>))

ControlZ ==
  /\ Open /\ mode # EXEC
  /\ LeaveConfig
  /\ ed' = Zapped(ed)
  /\ want' = IF ed.l = 0 THEN Empty ELSE Lost
  /\ UNCHANGED <<username, history, inHistory>>

(* The entry h of the history, if there is one, becomes the line.          *)
Recall(h) ==
  /\ inHistory' = h
  /\ IF h + 1 \in DOMAIN history
       THEN Renew(Filled(history[h + 1]), Pair(history[h + 1], <<>>))
       ELSE Open /\ Same /\ UNCHANGED <<ed, want>>

Up ==
  /\ state \in {"NORMAL", "ENABLE"}
  /\ Recall(IF inHistory > 0 THEN inHistory - 1 ELSE Len(history) - 1)

(* Bound: without a history the count goes up with every key; here it      *)
(* stops at HistoryMax.                                                    *)
Down ==
  /\ state \in {"NORMAL", "ENABLE"} /\ inHistory < HistoryMax
  /\ Recall(IF inHistory + 1 >= Len(history) /\ history # <<>> THEN 0 ELSE inHistory + 1)

-----------------------------------------------------------------------------
(* Completion.                                                             *)

Completing(parent, word) ==
  {i \in Children(parent) : Visible(i, privilege, mode) /\ Abbreviates(word, Tree[i].name)}

(* The names the last of n words may become, at most two words deep, and   *)
(* none behind a bar; the last is empty when a blank has been typed.       *)
Completions(words, n) ==
  LET word == IF n > Len(words) THEN "" ELSE words[n]
      tops == {i \in Completing(0, words[1]) : unique[i] <= Len(words[1])}
      into == CASE n = 1              -> Completing(0, word)
                [] n = 2 /\ tops # {} -> Completing(Min(tops), word)
                [] OTHER              -> {}
  IN  IF Contains(words, "|") THEN {} ELSE {Tree[i].name : i \in into}

(* The line with its last word replaced by all that the completions share, *)
(* and a blank behind the only one.                                        *)
Completed(s, names) ==
  LET blanks == {i \in 1 .. Len(s) : SubSeq(s, i, i) = " "}
      name   == CHOOSE x \in names : TRUE
      shared == SubSeq(name, 1, Min({Shared(name, x) : x \in names}))
  IN  SubSeq(s, 1, Max(blanks \cup {0})) \o shared \o IF names = {name} THEN " " ELSE ""

(* Left out: the key on a line that Control-Z cut short of its length.     *)
Complete ==
  /\ state \in {"NORMAL", "ENABLE"} /\ AtEnd(ed) /\ ed.l = Len(Text(ed))
  /\ \E s \in {Joined(Text(ed))}, words \in {Words(Joined(Text(ed)))} :
       LET more  == s = "" \/ SubSeq(s, Len(s), Len(s)) = " "
           names == Completions(words, Len(words) + IF more THEN 1 ELSE 0)
       IN  /\ names # {}
           /\ \E line \in {Completed(s, names)} :
                Edit(IF line = s THEN ed ELSE Filled(<<line>>),
                     IF line = s THEN want ELSE Pair(<<line>>, <<>>))

-----------------------------------------------------------------------------

Init ==
  /\ CommandsInit
  /\ ed = Blank /\ username = "" /\ history = <<>> /\ inHistory = 0 /\ want = Empty

Next ==
  \/ Type \/ Enter \/ QuestionMark \/ Over
  \/ Backspace \/ EraseWord \/ KillToEnd \/ ClearLine
  \/ Left \/ Right \/ Home \/ ToEnd
  \/ ControlZ \/ Up \/ Down \/ Complete

Spec == Init /\ [][Next]_vars

-----------------------------------------------------------------------------

TypeOK ==
  /\ CommandsTypeOK
  /\ ed.l \in 0 .. Max({MaxLine, MaxEntry}) /\ ed.cursor \in 0 .. ed.l
  /\ Len(ed.cmd) = Size /\ Last(ed.cmd) = NUL
  /\ inHistory \in -1 .. HistoryMax
  /\ Len(history) <= HistoryMax

(* The prompt tells what the session may do.  Before the login, and while  *)
(* a password is asked for, nothing is privileged; the NORMAL prompt,      *)
(* which a failed enable also leads to, never goes with the privilege of   *)
(* an earlier one; the configuration mode needs the privilege.             *)
StateMatchesPrivilege ==
  /\ privilege = PRIVILEGED => state \in {"ENABLE", "ended"}
  /\ mode = CONFIG => privilege = PRIVILEGED

(* What was typed at a password prompt shows up nowhere else: not in the   *)
(* history the arrow keys bring back, nor on a line that is echoed.        *)
PasswordsStayHidden ==
  \A p \in Secrets :
    /\ \A h \in DOMAIN history : ~Contains(history[h], p)
    /\ ~Secret => ~Contains(ed.cmd, p)

(* The array, its length and its cursor are the line that the keys mean,   *)
(* at every prompt that echoes, until Control-Z clears a line that is not  *)
(* empty: it leaves the length, and what is typed next is not seen.        *)
LineIsWhatWasTyped ==
  ~Secret /\ Open /\ want # Lost =>
    /\ Text(ed) = want.before \o want.after
    /\ ed.cursor = Len(want.before)
    /\ ed.l = Len(Text(ed))

(* A question mark that ends the line answers for the word it is typed at: *)
(* it runs a command only from among its arguments, behind all the words   *)
(* that name it.  ("hitting ?" is documented as help; there it is not.)    *)
(* Once Control-Z has lost the line, what is typed before the place it     *)
(* cleared is run without the mark, as if Enter had been hit.              *)
QuestionMarkAnswers ==
  [][QuestionMark /\ want # Lost /\ ran'.id # 0 =>
       Len(Words(Joined(Text(Put(ed, "?"))))) > IF Tree[ran'.id].parent = 0 THEN 1 ELSE 2]_vars
=============================================================================
