----------------------------- MODULE LineEditor -----------------------------
(***************************************************************************)
(* The line under construction in cli_loop: the array cmd, the length l    *)
(* and the cursor, and what each editing key does to them.  A cell holds a *)
(* chunk of characters typed at once; NUL is the empty one.  At a password *)
(* prompt (secret) some keys treat the array differently.                  *)
(*                                                                         *)
(* Positions are cli_loop's, from 0: position k is the cell k + 1 here.    *)
(***************************************************************************)
EXTENDS Naturals, Sequences, SequencesExt

CONSTANTS
  MaxLine,    (* Bound: the cells of a line at a command prompt.           *)
  MaxEntry,   (* Bound: the cells of a name or a password.                 *)
  Size        (* The cells of cmd.  The loop's own limits,                 *)
              (* CLI_MAX_LINE_LENGTH and its neighbours, lie beyond the    *)
              (* two bounds and are not reached.                           *)

ASSUME LineEditorAssumption ==
  /\ MaxLine \in Nat \ {0} /\ MaxEntry \in Nat \ {0}
  /\ Size \in Nat /\ Size >= MaxLine + 2 /\ Size >= MaxEntry + 2

NUL == ""

Line(cmd, l, cursor) == [cmd |-> cmd, l |-> l, cursor |-> cursor]

Blank == Line([i \in 1 .. Size |-> NUL], 0, 0)

(* cmd as a string: what precedes the first NUL.                           *)
Text(e) == SubSeq(e.cmd, 1, Min({i \in 1 .. Size : e.cmd[i] = NUL}) - 1)

Filled(cells) ==
  Line([i \in 1 .. Size |-> IF i <= Len(cells) THEN cells[i] ELSE NUL],
       Len(cells), Len(cells))

AtEnd(e) == e.cursor = e.l

(* A character, at the end or in the middle.                               *)
Put(e, c) ==
  Line(IF AtEnd(e)
         THEN [e.cmd EXCEPT ![e.cursor + 1] = c]
         ELSE [i \in 1 .. Size |->
                 IF i = e.cursor + 1 THEN c
                 ELSE IF i \in e.cursor + 2 .. e.l + 2 THEN e.cmd[i - 1] ELSE e.cmd[i]],
       e.l + 1, e.cursor + 1)

(* One character back.  In the middle of a password the text stays.        *)
BackOne(e, secret) ==
  Line(IF AtEnd(e) THEN [e.cmd EXCEPT ![e.cursor] = NUL]
       ELSE IF secret THEN e.cmd
       ELSE [i \in 1 .. Size |-> IF i \in e.cursor .. e.l + 1 THEN e.cmd[i + 1] ELSE e.cmd[i]],
       e.l - 1, e.cursor - 1)

Back(e, n, secret) ==
  LET back[k \in 0 .. n] == IF k = 0 THEN e ELSE BackOne(back[k - 1], secret)
  IN  back[n]

(* Where the word before the end of these cells begins: behind the last    *)
(* blank before its last letter.                                           *)
WordStart(cells) ==
  LET letters == {i \in DOMAIN cells : cells[i] # " "}
  IN  Max({0} \cup {i \in DOMAIN cells : cells[i] = " " /\ \E j \in letters : i < j})

(* Control-W.                                                              *)
EraseBack(e, secret) == Back(e, e.cursor - WordStart(SubSeq(e.cmd, 1, e.cursor)), secret)

(* Control-U.  cli_clear_line blanks three times the length.               *)
Clear(e, secret) ==
  LET n == IF secret THEN e.l ELSE 3 * e.l
  IN  Line([i \in 1 .. Size |-> IF i <= n THEN NUL ELSE e.cmd[i]], 0, 0)

(* Mutant: Control-K leaves the text behind the cursor in the array.       *)
KillShort(e) == Line(e.cmd, e.cursor, e.cursor)

(* Control-K.                                                              *)
Kill(e) ==
  Line([i \in 1 .. Size |-> IF i \in e.cursor + 1 .. e.l THEN NUL ELSE e.cmd[i]],
       e.cursor, e.cursor)

(* The line is given back without the question mark that ended it.         *)
WithoutLast(e) == Line([e.cmd EXCEPT ![e.l] = NUL], e.l - 1, e.l - 1)

(* Control-Z clears the text and forgets to set the length.                *)
Zapped(e) == [Clear(e, FALSE) EXCEPT !.l = e.l, !.cursor = e.cursor]

=============================================================================
