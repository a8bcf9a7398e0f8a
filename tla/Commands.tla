------------------------------ MODULE Commands ------------------------------
(***************************************************************************)
(* The command tree of one terminal and what libcli makes of a line of     *)
(* words: the command that is looked up, the filters behind it, and what   *)
(* the commands of libcli do to the session.                               *)
(*                                                                         *)
(* Each command has the number of letters that tell it from its siblings   *)
(* (unique_len).  They are computed for the commands of one privilege and  *)
(* mode, and again whenever either changes.                                *)
(***************************************************************************)
EXTENDS OutputFilters

CONSTANT
  Outputs     (* What a command may print: lines, as sequences of words.   *)

(* An output is a sequence of lines.                                       *)
ASSUME OutputsAssumption == \A output \in Outputs : output \in Seq(ToSet(output))

VARIABLES
  state,      (* The prompt: LOGIN, PASSWORD, NORMAL, ENABLE_PASSWORD,     *)
              (* ENABLE, or "ended" once cli_loop has returned.            *)
  privilege,  (* UNPRIVILEGED or PRIVILEGED.                               *)
  mode,       (* EXEC or CONFIG.                                           *)
  unique,     (* unique_len of every command.                              *)
  filters,    (* The list of installed filters.                            *)
  ran         (* Ghost: the command the last step called, the filters its  *)
              (* output went through, that output and what was shown of it. *)

cli == <<state, privilege, mode, unique, filters, ran>>

UNPRIVILEGED == 0
PRIVILEGED   == 15
EXEC         == "exec"
CONFIG       == "config"
ANY          == "any"

Command(name, parent, callback, priv, m) ==
  [name |-> name, parent |-> parent, callback |-> callback,
   privilege |-> priv, mode |-> m]

(* In the order they are registered: libcli's own, then the daemon's.  A   *)
(* parent is a place in the whole, 0 for none.                             *)
OfLibcli ==
  << Command("help",        0,  TRUE,  UNPRIVILEGED, ANY),
     Command("quit",        0,  TRUE,  UNPRIVILEGED, ANY),
     Command("logout",      0,  TRUE,  UNPRIVILEGED, ANY),
     Command("exit",        0,  TRUE,  UNPRIVILEGED, ANY),
     Command("history",     0,  TRUE,  UNPRIVILEGED, ANY),
     Command("enable",      0,  TRUE,  UNPRIVILEGED, EXEC),
     Command("disable",     0,  TRUE,  PRIVILEGED,   EXEC),
     Command("configure",   0,  FALSE, PRIVILEGED,   EXEC),
     Command("terminal",    8,  TRUE,  PRIVILEGED,   EXEC) >>

OfDaemon ==
  << Command("set",         0,  TRUE,  PRIVILEGED,   EXEC),
     Command("port",        10, TRUE,  PRIVILEGED,   EXEC),
     Command("startupmsg",  10, TRUE,  PRIVILEGED,   EXEC),
     Command("logfilepath", 10, TRUE,  PRIVILEGED,   EXEC),
     Command("monitorpath", 10, TRUE,  PRIVILEGED,   EXEC),
     Command("save",        0,  TRUE,  PRIVILEGED,   EXEC),
     Command("show",        0,  FALSE, UNPRIVILEGED, EXEC),
     Command("ports",       16, TRUE,  UNPRIVILEGED, EXEC),
     Command("port",        16, TRUE,  UNPRIVILEGED, EXEC),
     Command("messages",    16, TRUE,  UNPRIVILEGED, EXEC),
     Command("startupmsg",  16, TRUE,  UNPRIVILEGED, EXEC),
     Command("logfiledir",  16, TRUE,  UNPRIVILEGED, EXEC),
     Command("monitorpath", 16, TRUE,  UNPRIVILEGED, EXEC),
     Command("message",     0,  TRUE,  UNPRIVILEGED, EXEC),
     Command("clear",       0,  TRUE,  UNPRIVILEGED, EXEC) >>

Tree == OfLibcli \o OfDaemon

Ids         == DOMAIN Tree
Children(p) == {i \in Ids : Tree[i].parent = p}

Did(id, through, output) ==
  [id |-> id, through |-> through, output |-> output, shown |-> Shown(through, output)]

Nothing == Did(0, <<>>, <<>>)

-----------------------------------------------------------------------------
(* Letters.                                                                *)

Abbreviates(word, name) == IsPrefix(word, name)

Asks(word) == SubSeq(word, Len(word), Len(word)) = "?"

Shared(s, t) == Max({n \in 0 .. Len(s) : IsPrefix(SubSeq(s, 1, n), t)})

(* How many letters two names share, which is not more than each has.      *)
ASSUME LettersAssumption ==
  \A i \in Ids :
    /\ Len(Tree[i].name) \in Nat
    /\ \A j \in Ids : Shared(Tree[i].name, Tree[j].name) \in 0 .. Len(Tree[i].name)

Visible(i, p, m) == Tree[i].privilege <= p /\ Tree[i].mode \in {m, ANY}

(* The letters needed at privilege p in mode m.  The children of a command *)
(* that cannot be seen keep what they had.                                 *)
BuildShortest(p, m, old) ==
  [i \in Ids |->
     LET parent   == Tree[i].parent
         siblings == {j \in Children(parent) \ {i} : Visible(j, p, m)}
     IN  IF parent # 0 /\ ~Visible(parent, p, m) THEN old[i]
         ELSE IF ~Visible(i, p, m) THEN Len(Tree[i].name)
         ELSE Max({1} \cup {Shared(Tree[i].name, Tree[j].name) + 1 : j \in siblings})]

(* Mutant: the letters are computed once, at the start of the session.     *)
RebuiltNever(p, m) == unique

(* cli_set_privilege and cli_set_configmode, in this order.                *)
Rebuilt(p, m) ==
  LET first == IF p = privilege THEN unique ELSE BuildShortest(p, mode, unique)
  IN  IF m = mode THEN first ELSE BuildShortest(p, m, first)

Become(p, m) ==
  /\ privilege' = p
  /\ mode' = m
  /\ unique' = Rebuilt(p, m)

-----------------------------------------------------------------------------
(* Looking a command up.                                                   *)

Matches(i, word) ==
  /\ Tree[i].privilege <= privilege
  /\ Abbreviates(word, Tree[i].name)
  /\ unique[i] <= Len(word) \/ word = Tree[i].name

(* The first match of the present mode, or the second of any mode; failing *)
(* them the one match of any mode.  0 is none.                             *)
Preferred(matching) ==
  LET any    == {i \in matching : Tree[i].mode = ANY}
      direct == {i \in matching : Tree[i].mode = mode \/ \E j \in any : i \in any /\ j < i}
  IN  IF direct # {} THEN Min(direct) ELSE IF any # {} THEN Min(any) ELSE 0

Chosen(parent, word) ==
  Preferred({i \in Children(parent) : Matches(i, word) /\ Tree[i].mode \in {mode, ANY}})

(* Where the filters begin.  A line that starts with a bar has none.       *)
Bars(words) ==
  IF words[1] = "|" THEN {} ELSE {k \in DOMAIN words : words[k] = "|"}

CommandWords(words) ==
  IF Bars(words) = {} THEN Len(words) ELSE Min(Bars(words)) - 1

Own(i) == IF Tree[i].callback THEN i ELSE 0

(* The command the words lead to, 0 when they only get an answer: help or  *)
(* an error.  A command with a callback takes words that are none of its   *)
(* children as its arguments.                                              *)
Under(top, words) ==
  IF top = 0 \/ Children(top) = {} THEN top
  ELSE IF CommandWords(words) = 1 THEN Own(top)
  ELSE IF Asks(words[2]) THEN 0
  ELSE IF Chosen(top, words[2]) = 0 THEN Own(top) ELSE Chosen(top, words[2])

Found(words) == IF Asks(words[1]) THEN 0 ELSE Under(Chosen(0, words[1]), words)

-----------------------------------------------------------------------------
(* Filters.                                                                *)

(* What becomes of a filter's words: a filter, or the reason why there is  *)
(* none.  The first three reasons end the command at once and leave the    *)
(* filters before it installed.                                            *)
Verdict(args) ==
  LET is(names) == \E n \in names : Abbreviates(args[1], n)
  IN  IF args = <<>> THEN Bad("missing")
      ELSE IF Asks(args[Len(args)]) THEN Bad("help")
      ELSE IF Len(args[1]) < 3 /\ IsPrefix("b", args[1]) THEN Bad("ambiguous")
      ELSE IF is({"include", "exclude", "grep", "egrep"}) THEN MatchInit(args)
      ELSE IF is({"begin", "between"}) THEN RangeInit(args)
      ELSE IF is({"count"}) THEN CountInit(args)
      ELSE Bad("invalid")

UpToFirst(all, bad) == IF bad = {} THEN all ELSE SubSeq(all, 1, Min(bad))

Judged(words, bar) ==
  [f \in DOMAIN bar |->
     Verdict(SubSeq(words, bar[f] + 1, IF f < Len(bar) THEN bar[f + 1] - 1 ELSE Len(words)))]

(* One verdict for each bar, up to the first that installs nothing.        *)
Verdicts(words) ==
  LET all == Judged(words, InOrder(Bars(words)))
  IN  UpToFirst(all, {f \in DOMAIN all : all[f].kind \notin Installed})

CutShort(verdicts) == verdicts # <<>> /\ Last(verdicts).kind \in {"missing", "help", "ambiguous"}
Refused(verdicts)  == verdicts # <<>> /\ Last(verdicts).kind = "invalid"

-----------------------------------------------------------------------------
(* Running a line.                                                         *)

(* What the callback does to the session; the commands of the daemon       *)
(* proper do nothing to it.                                                *)
Quit == Become(UNPRIVILEGED, EXEC) /\ state' = "ended"

(* Mutant: enable asks for the password whatever the privilege.            *)
AskedAgain == "ENABLE_PASSWORD"

Asked == IF privilege = PRIVILEGED THEN state ELSE "ENABLE_PASSWORD"

Effect(name) ==
  \/ name = "enable" /\ state' = Asked /\ UNCHANGED <<privilege, mode, unique>>
  \/ name = "disable" /\ Become(UNPRIVILEGED, EXEC) /\ UNCHANGED state
  \/ name = "terminal" /\ Become(privilege, CONFIG) /\ UNCHANGED state
  \/ name = "exit" /\ mode = CONFIG /\ Become(privilege, EXEC) /\ UNCHANGED state
  \/ name = "exit" /\ mode = EXEC /\ Quit
  \/ name \in {"quit", "logout"} /\ Quit
  \/ /\ name \notin {"enable", "disable", "terminal", "exit", "quit", "logout"}
     /\ UNCHANGED <<state, privilege, mode, unique>>

(* Without filters an output is shown as it is, and is left out.           *)
Printable(through) == IF through = <<>> THEN {<<>>} ELSE Outputs

(* Mutant: the filters stay in the list.                                   *)
CallKeepsFilters(id, through) ==
  /\ Effect(Tree[id].name)
  /\ \E output \in Printable(through) : ran' = Did(id, through, output)
  /\ filters' = through

(* The callback prints through whatever filters are in the list, then the  *)
(* list is emptied.                                                        *)
Call(id, through) ==
  /\ Effect(Tree[id].name)
  /\ \E output \in Printable(through) : ran' = Did(id, through, output)
  /\ filters' = <<>>

(* An answer in its place.                                                 *)
Answer(left) ==
  /\ ran' = Nothing
  /\ filters' = left
  /\ UNCHANGED <<state, privilege, mode, unique>>

(* A filter that is refused empties the list, without a command.           *)
Refuse(installed) ==
  /\ ran' = Did(0, installed, <<>>)
  /\ filters' = <<>>
  /\ UNCHANGED <<state, privilege, mode, unique>>

(* Mutant: a filter gets its place before its words are looked at.         *)
RemainingUnfilled(verdicts) == verdicts

(* What an early return leaves in the list.                                *)
Remaining(verdicts) == IF Len(verdicts) = 1 THEN filters ELSE Front(verdicts)

(* cli_run_command.                                                        *)
Carry(id, verdicts) ==
  IF id = 0 THEN Answer(filters)
  ELSE IF CutShort(verdicts) THEN Answer(Remaining(verdicts))
  ELSE IF Refused(verdicts) THEN Refuse(Front(verdicts))
  ELSE Call(id, IF verdicts = <<>> THEN filters ELSE verdicts)

Run(words) ==
  IF words = <<>> THEN Answer(filters) ELSE Carry(Found(words), Verdicts(words))

(* The enable password, right or wrong.                                    *)
AnswerEnable(right) ==
  /\ state = "ENABLE_PASSWORD"
  /\ IF right
       THEN state' = "ENABLE" /\ Become(PRIVILEGED, mode)
       ELSE state' = "NORMAL" /\ UNCHANGED <<privilege, mode, unique>>
  /\ ran' = Nothing
  /\ UNCHANGED filters

(* Control-Z leaves the configuration mode.                                *)
LeaveConfig ==
  /\ Become(privilege, EXEC)
  /\ ran' = Nothing
  /\ UNCHANGED <<state, filters>>

CommandsInit ==
  /\ state = "LOGIN"
  /\ privilege = UNPRIVILEGED
  /\ mode = EXEC
  /\ unique = BuildShortest(UNPRIVILEGED, EXEC, [i \in Ids |-> 0])
  /\ filters = <<>>
  /\ ran = Nothing

CommandsTypeOK ==
  /\ state \in {"LOGIN", "PASSWORD", "NORMAL", "ENABLE_PASSWORD", "ENABLE", "ended"}
  /\ privilege \in {UNPRIVILEGED, PRIVILEGED}
  /\ mode \in {EXEC, CONFIG}
  /\ unique \in [Ids -> Nat]
  /\ \A f \in ToSet(filters) \cup ToSet(ran.through) : f.kind \in Installed
  /\ ran.id \in Ids \cup {0}

-----------------------------------------------------------------------------
(* What a line means, by the names alone: a word stands for the command of *)
(* that name, or for the only one it abbreviates, among those the session  *)
(* may use.                                                                *)
The(parent, word) ==
  LET seen  == {i \in Children(parent) : Visible(i, privilege, mode)}
      named == {i \in seen : Tree[i].name = word}
      short == {i \in seen : Abbreviates(word, Tree[i].name)}
  IN  IF named # {} THEN Min(named) ELSE IF Cardinality(short) = 1 THEN Min(short) ELSE 0

Meant(words) ==
  LET top == The(0, words[1])
      sub == IF top # 0 /\ CommandWords(words) > 1 THEN The(top, words[2]) ELSE 0
  IN  IF sub # 0 THEN sub
      ELSE IF top = 0 THEN 0
      ELSE IF Tree[top].callback THEN top ELSE 0
=============================================================================
