--------------------------- MODULE OutputFilters ---------------------------
(***************************************************************************)
(* The filters behind a bar: what the words of one make of it, and what    *)
(* becomes of the lines that a command prints through a list of them.      *)
(*                                                                         *)
(* A line, like a pattern, is its words; a blank line has none.  Every     *)
(* filter sees a line when it is printed and keeps what it has to remember *)
(* until the next one; the count is printed when the list is emptied.      *)
(***************************************************************************)
EXTENDS Naturals, Sequences, SequencesExt

Holds(line, pattern) == pattern \in SubSeqs(line)

(* The numbers of a set, the smallest first.                               *)
InOrder(S) ==
  [k \in 1 .. Cardinality(S) |-> CHOOSE x \in S : Cardinality({y \in S : y < x}) = k - 1]

-----------------------------------------------------------------------------
(* The words of a filter.                                                  *)

Match(pattern, invert) == [kind |-> "match", pattern |-> pattern, invert |-> invert]
Span(from, to) == [kind |-> "range", from |-> from, to |-> to, matched |-> FALSE]
Count == [kind |-> "count", seen |-> 0]

(* What is not installed, and why.                                         *)
Bad(why) == [kind |-> why]

Installed == {"match", "range", "count"}

(* A range that goes on to the end: "to" is NULL.                          *)
Never == <<>>

Letter(word, k) == SubSeq(word, k, k)
Has(word, c)    == \E k \in 2 .. Len(word) : Letter(word, k) = c

IsOption(word) ==
  /\ Len(word) > 1 /\ Letter(word, 1) = "-"
  /\ \A k \in 2 .. Len(word) : Letter(word, k) \in {"v", "i", "e"}

(* The last of grep's words that is an option.  One with an "e" is the     *)
(* last of them, and the last word is always the pattern.                  *)
LastOption(args) ==
  Max({1} \cup {n \in 2 .. Len(args) - 1 :
                  \A k \in 2 .. n : IsOption(args[k]) /\ (Has(args[k], "e") => k = n)})

(* regcomp: an opening bracket stands for what is no regular expression;   *)
(* any other pattern is taken to mean itself.                              *)
Compiles(pattern) == \A k \in DOMAIN pattern : pattern[k] # "["

Rest(args, k) == SubSeq(args, k, Len(args))

Grep(args) ==
  LET pattern == Rest(args, LastOption(args) + 1)
  IN  IF Compiles(pattern)
        THEN Match(pattern, \E k \in 2 .. LastOption(args) : Has(args[k], "v"))
        ELSE Bad("invalid")

(* A word that abbreviates both exclude and egrep is egrep.                *)
MatchInit(args) ==
  IF Len(args) < 2 THEN Bad("invalid")
  ELSE IF IsPrefix("i", args[1]) THEN Match(Tail(args), FALSE)
  ELSE IF IsPrefix("ex", args[1]) THEN Match(Tail(args), TRUE)
  ELSE Grep(args)

RangeInit(args) ==
  IF IsPrefix("bet", args[1])
    THEN IF Len(args) < 3 THEN Bad("invalid") ELSE Span(<<args[2]>>, Rest(args, 3))
    ELSE IF Len(args) < 2 THEN Bad("invalid") ELSE Span(Tail(args), Never)

CountInit(args) == IF Len(args) > 1 THEN Bad("invalid") ELSE Count

-----------------------------------------------------------------------------
(* One line through one filter: whether it is printed, and the filter      *)
(* afterwards.                                                             *)

(* Mutant: a line that begins the range does not end it.                   *)
RangeFilterTwoLines(f, line) ==
  LET in == f.matched \/ Holds(line, f.from)
      ends == f.matched /\ f.to # Never /\ Holds(line, f.to)
  IN  [prints |-> in, next |-> [f EXCEPT !.matched = in /\ ~ends]]

RangeFilter(f, line) ==
  LET in == f.matched \/ Holds(line, f.from)
      ends == f.to # Never /\ Holds(line, f.to)
  IN  [prints |-> in, next |-> [f EXCEPT !.matched = in /\ ~ends]]

MatchFilter(f, line) == [prints |-> Holds(line, f.pattern) # f.invert, next |-> f]

CountFilter(f, line) ==
  [prints |-> FALSE, next |-> IF line = <<>> THEN f ELSE [f EXCEPT !.seen = @ + 1]]

Filter(f, line) ==
  CASE f.kind = "match" -> MatchFilter(f, line)
    [] f.kind = "range" -> RangeFilter(f, line)
    [] f.kind = "count" -> CountFilter(f, line)

(* A line goes down the list until a filter drops it; those behind it do   *)
(* not see it.                                                             *)
Reaches(list, line, n) == \A k \in 1 .. n - 1 : Filter(list[k], line).prints

Downward(list, line) ==
  [n \in DOMAIN list |-> IF Reaches(list, line, n) THEN Filter(list[n], line).next ELSE list[n]]

LinePrinted(done, line) ==
  [list  |-> Downward(done.list, line),
   lines |-> IF Reaches(done.list, line, Len(done.list) + 1)
               THEN Append(done.lines, line) ELSE done.lines]

(* The filters, and what was shown, after each line of an output.          *)
Progress(list, output) ==
  LET after[i \in 0 .. Len(output)] ==
        IF i = 0 THEN [list |-> list, lines |-> <<>>] ELSE LinePrinted(after[i - 1], output[i])
  IN  after

Counts(list) == InOrder({n \in DOMAIN list : list[n].kind = "count"})

(* The list is emptied from its head; a count is printed past the filters  *)
(* behind it.                                                              *)
Totals(list) ==
  [c \in DOMAIN Counts(list) |-> <<ToString(list[Counts(list)[c]].seen)>>]

(* What a command's output looks like behind a list of filters.            *)
Shown(list, output) ==
  LET done == Progress(list, output)[Len(output)]
  IN  done.lines \o Totals(done.list)

-----------------------------------------------------------------------------
(* What the filters' descriptions say of a whole output, without state and *)
(* without an order in which lines are printed.                            *)

Between(f, lines, i) ==
  \E j \in 1 .. i :
    /\ Holds(lines[j], f.from)
    /\ f.to # Never => \A k \in j .. i - 1 : ~Holds(lines[k], f.to)

Kept(f, lines) ==
  LET kept == {i \in DOMAIN lines :
                 \/ f.kind = "match" /\ Holds(lines[i], f.pattern) # f.invert
                 \/ f.kind = "range" /\ Between(f, lines, i)}
      at == InOrder(kept)
  IN  [n \in DOMAIN at |-> lines[at[n]]]

NonBlank(lines) == Cardinality({i \in DOMAIN lines : lines[i] # <<>>})

(* Each filter is applied to all that the one before it keeps.             *)
Stages(list, output) ==
  LET upTo[n \in 0 .. Len(list)] == IF n = 0 THEN output ELSE Kept(list[n], upTo[n - 1])
  IN  upTo

Filtered(list, output) ==
  LET upTo == Stages(list, output)
  IN  upTo[Len(list)] \o
        [c \in DOMAIN Counts(list) |-> <<ToString(NonBlank(upTo[Counts(list)[c] - 1]))>>]
=============================================================================
