---------------------------- MODULE CommandLine ----------------------------
(***************************************************************************)
(* A terminal that is fed with whole lines of words: what each of them     *)
(* runs, and through which filters.  The keys that make a line, and the    *)
(* login, are CliSession's.                                                *)
(***************************************************************************)
EXTENDS Commands

CONSTANTS
  Vocabulary, (* The words of the lines.                                   *)
  Lines       (* The lines that may be typed.                              *)

(* A line has a word at least, and a word a letter.                        *)
ASSUME LinesAssumption ==
  /\ Lines \subseteq Seq(Vocabulary) \ {<<>>}
  /\ \A word \in Vocabulary : Len(word) \in Nat \ {0}

(* What it is to share letters: a name abbreviates itself, and what        *)
(* abbreviates one name abbreviates another as far as the two agree.       *)
ASSUME AbbreviationAssumption ==
  \A i \in Ids : \A word \in Vocabulary :
    LET name == Tree[i].name
    IN  /\ word = name => Abbreviates(word, name)
        /\ Abbreviates(word, name) =>
             \A j \in Ids :
               Abbreviates(word, Tree[j].name) <=> Len(word) <= Shared(name, Tree[j].name)

VARIABLE line   (* The line about to be run, <<>> while there is none.     *)

vars == <<cli, line>>

Init == CommandsInit /\ line = <<>>

(* The login is CliSession's.                                              *)
LogIn ==
  /\ state = "LOGIN"
  /\ state' = "NORMAL"
  /\ UNCHANGED <<privilege, mode, unique, filters, ran, line>>

Type ==
  /\ state \in {"NORMAL", "ENABLE"} /\ line = <<>>
  /\ \E words \in Lines : line' = words
  /\ ran' = Nothing
  /\ UNCHANGED <<state, privilege, mode, unique, filters>>

Enter == line # <<>> /\ Run(line) /\ line' = <<>>

Password == \E right \in BOOLEAN : AnswerEnable(right) /\ UNCHANGED line

ControlZ == mode = CONFIG /\ line = <<>> /\ LeaveConfig /\ UNCHANGED line

Next == LogIn \/ Type \/ Enter \/ Password \/ ControlZ

Spec == Init /\ [][Next]_vars

(* "libcli also works out the shortest way of entering a command": a line  *)
(* runs the one command it names or abbreviates among those the privilege  *)
(* and the mode of the session allow, never another, and always that one   *)
(* when neither help nor a filter ends it first.  The code decides by the  *)
(* unique_len of each command, which changes of privilege and mode have to *)
(* keep up to date.                                                        *)
RunsWhatWasMeant ==
  [][ Enter =>
        \/ ran'.id = Meant(line)
        \/ /\ ran'.id = 0
           /\ \/ \E k \in DOMAIN line : Asks(line[k])
              \/ CutShort(Verdicts(line)) \/ Refused(Verdicts(line)) ]_vars

(* A command that ran has emptied the list of filters, and has printed     *)
(* through those of its own line when it had any.                          *)
FiltersEndWithTheCommand ==
  [][ ran'.id # 0 /\ Enter =>
        /\ filters' = <<>>
        /\ Bars(line) # {} => ran'.through = Verdicts(line) ]_vars

(* "Count of lines", "Begin with lines that match", "Between lines that    *)
(* match" (filter_cmds): what is shown of an output is what the filters,   *)
(* each applied to all that the one before it leaves, make of it.  The     *)
(* code sees one line at a time, keeps in each filter whether its range    *)
(* has begun and how many lines came by, and stops at the first filter     *)
(* that drops the line.                                                    *)
ShowsWhatTheFiltersLeave == ran.shown = Filtered(ran.through, ran.output)
=============================================================================
