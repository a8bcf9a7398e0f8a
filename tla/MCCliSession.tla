---------------------------- MODULE MCCliSession ----------------------------
(* Constants for model checking CliSession.  A cell may hold the words of  *)
(* a whole command.                                                        *)
EXTENDS CliSession

Typed  == {"en", "dis", "conf t", " ", "?"}
Hidden == {"pw", "secret"}

(* No filter is typed here, so what a command prints does not matter.      *)
Silent == {<<>>}
=============================================================================
