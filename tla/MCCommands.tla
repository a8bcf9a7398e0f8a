----------------------------- MODULE MCCommands -----------------------------
(* Constants for model checking CommandLine: every prefix of every command *)
(* name, in every combination of two words, and filters behind a few.      *)
EXTENDS CommandLine

(* Outputs with every order of lines that hold x, y, both or neither.      *)
Printed ==
  LET o == <<>>  x == <<"x">>  y == <<"y">>  xy == <<"x", "y">>
  IN  {<<>>, <<o, x, y, y>>, <<y, o, x, o>>, <<xy, y, x, xy>>, <<x, xy, o, y>>, <<x, y, x, o, y, x>>}

WordsFor(parents) ==
  UNION {{SubSeq(Tree[i].name, 1, n) : n \in 1 .. Len(Tree[i].name)} :
           i \in UNION {Children(p) : p \in parents}}

First  == WordsFor({0}) \cup {"x", "|"}
Second == WordsFor({8, 10, 16}) \cup {"x", "?", "p?"}

Tails ==
  { <<"|">>, <<"|", "count">>, <<"|", "count", "|">>, <<"|", "count", "x">>,
    <<"|", "b", "x">>, <<"|", "begin", "x", "|", "be">>, <<"|", "begin", "y">>,
    <<"|", "between", "x", "y">>, <<"|", "bet", "y", "x", "y">>, <<"|", "between", "x">>,
    <<"|", "include", "x", "|", "count">>, <<"|", "count", "|", "co">>, <<"|", "exclude", "x", "y">>,
    <<"|", "between", "y", "x", "|", "ex", "[", "|", "count">>, <<"|", "e", "[">>,
    <<"|", "e", "?">>, <<"|", "count", "|", "zap">>,
    <<"|", "grep", "-v", "x">>, <<"|", "grep", "-v">>, <<"|", "e", "-iv", "-ie", "-v", "y">> }

Typed ==
  {<<w>> : w \in First \cup {"s?"}}
    \cup {<<w, v>> : w \in First, v \in Second}
    \cup {l \o t : l \in {<<"show", "port">>, <<"clear", "1">>, <<"x">>, <<"show">>, <<"exit">>},
                   t \in Tails}

Spoken == UNION {ToSet(words) : words \in Typed}
=============================================================================
