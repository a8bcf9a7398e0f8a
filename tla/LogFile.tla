------------------------------ MODULE LogFile -------------------------------
(***************************************************************************)
(* The log file: every thread of the daemon logs through one OutputFile,   *)
(* without a lock.  When mSize says that the file is too long, the thread  *)
(* that finds out rotates it: close, remove the old file, rename, open.    *)
(* A start rotates as well.                                                *)
(*                                                                         *)
(* A line counts for one byte, and is numbered in the order of writing.    *)
(* The file system is external.  A FILE that was closed is freed memory:   *)
(* what becomes of a line written to it, or of a second close, is open.    *)
(***************************************************************************)
EXTENDS Integers, Sequences, FiniteSets

CONSTANTS
  Threads,     (* The threads that log.                                    *)
  Main,        (* The one that configures the output.                      *)
  mMaxSize,    (* "max_size"                                               *)
  mMaxStartupSize, (* "max_startup_size", 0 in load().                     *)
  Garbage,     (* What the uninitialised mSize may be.                     *)
  MaxLines,    (* Bound: lines written in all.                             *)
  MaxStarts    (* Bound: starts of the daemon.                             *)

ASSUME LogFileAssumption ==
  /\ Main \in Threads /\ IsFiniteSet(Threads)
  /\ mMaxSize \in Nat /\ mMaxStartupSize \in 0..mMaxSize
  /\ Garbage \subseteq Int
  /\ MaxLines \in Nat /\ MaxStarts \in Nat

VARIABLES
  pc,          (* Where each thread is in output and rotate.               *)
  seen,        (* mSize as a thread read it to add to it.                  *)
  mpFile,      (* The FILE, or 0.                                          *)
  mSize,
  handles,     (* The file behind every FILE so far.                       *)
  live,        (* The FILEs that are not closed.                           *)
  name,        (* The files called "filename" and "filename_old", or 0.    *)
  content,     (* Every file so far, linked or not: its lines.             *)
  lines,       (* The lines written so far.                                *)
  starts,
  configured,  (* mOutputList has the output, and the other threads run.   *)
  first,       (* Ghost: lines written before this start.                  *)
  sized,       (* Ghost: this life found a file, or has rotated.           *)
  trouble      (* Ghost: "overlap" if two threads were in output at once,  *)
               (* "rotation" if one of them was rotating.                  *)

disk   == <<name, content>>
output == <<mpFile, mSize, handles, live>>
vars   == <<pc, seen, output, disk, lines, starts, configured, first, sized, trouble>>

Files    == 0..Len(content)
Rotating == {"close", "closed", "remove", "rename", "open"}
InOutput == Rotating \cup {"print", "write", "load", "count"}
Both     == {"current", "old"}

(* The lines of a named file.                                              *)
LinesOf(which) == IF name[which] = 0 THEN <<>> ELSE content[name[which]]

TypeOK ==
  /\ pc \in [Threads -> InOutput \cup {"off", "start", "idle"}]
  /\ seen \in [Threads -> Int]
  /\ mpFile \in 0..Len(handles) /\ mSize \in Int
  /\ handles \in Seq(1..Len(content)) /\ live \subseteq 1..Len(handles)
  /\ name \in [Both -> Files] /\ (name["current"] # 0 => name["current"] # name["old"])
  /\ content \in Seq(Seq(1..lines))
  /\ lines \in 0..MaxLines /\ starts \in 0..MaxStarts /\ first \in 0..lines
  /\ configured \in BOOLEAN /\ (~configured => pc[Main] \notin InOutput \ Rotating)
  /\ sized \in BOOLEAN /\ trouble \subseteq {"overlap", "rotation"}

Init ==
  /\ pc = [t \in Threads |-> "off"]
  /\ seen = [t \in Threads |-> 0]
  /\ mpFile = 0 /\ mSize = 0 /\ handles = <<>> /\ live = {}
  /\ name = [n \in Both |-> 0] /\ content = <<>>
  /\ lines = 0 /\ starts = 0 /\ configured = FALSE /\ first = 0
  /\ sized = FALSE /\ trouble = {}

(* Which threads are in output now, and is one of them rotating.           *)
Watch ==
  trouble' = trouble
    \cup (IF \E t, u \in Threads : t # u /\ {pc'[t], pc'[u]} \subseteq InOutput
            THEN {"overlap"} ELSE {})
    \cup (IF \E t, u \in Threads : t # u /\ pc'[t] \in InOutput /\ pc'[u] \in Rotating
            THEN {"rotation"} ELSE {})

Goto(t, from, to) ==
  /\ pc[t] = from
  /\ pc' = [pc EXCEPT ![t] = to]
  /\ Watch

(***************************************************************************)
(* A start: load() and Manager::configure make the OutputFile.  mSize is   *)
(* the size of the file, if there is one.                                  *)
(***************************************************************************)
Start ==
  /\ starts < MaxStarts
  /\ pc[Main] = "off"
  /\ starts' = starts + 1
  /\ \E size \in (IF name["current"] = 0 THEN Garbage ELSE {Len(LinesOf("current"))}) :
       /\ mSize' = size
       /\ pc' = [pc EXCEPT ![Main] = IF size > mMaxStartupSize THEN "close" ELSE "open"]
  /\ sized' = (name["current"] # 0)
  /\ first' = lines
  /\ trouble' = {}
  /\ UNCHANGED <<seen, mpFile, handles, live, disk, lines, configured>>

(* The other threads start when the output is there.                       *)
Spawn ==
  /\ pc[Main] = "start"
  /\ pc' = [t \in Threads |-> "idle"]
  /\ configured' = TRUE
  /\ UNCHANGED <<seen, output, disk, lines, starts, first, sized, trouble>>

(* The process ends; every line was flushed.                               *)
End ==
  /\ pc' = [t \in Threads |-> "off"]
  /\ seen' = [t \in Threads |-> 0]
  /\ mpFile' = 0 /\ live' = {} /\ mSize' = 0 /\ configured' = FALSE
  /\ UNCHANGED <<handles, disk, lines, starts, first, sized, trouble>>

Killed == (\E t \in Threads : pc[t] # "off") /\ End

(***************************************************************************)
(* output(), for a line whose severity reaches the level of the channel.   *)
(***************************************************************************)
Log(t) ==
  /\ Goto(t, "idle", IF mSize > mMaxSize THEN "close" ELSE "print")
  /\ UNCHANGED <<seen, output, disk, lines, starts, configured, first, sized>>

(* The line reaches the FILE, if there is one.                             *)
Reach(t) ==
  /\ Goto(t, "print", IF mpFile = 0 THEN "idle" ELSE "write")
  /\ UNCHANGED <<seen, output, disk, lines, starts, configured, first, sized>>

AppendLine(f, n) == content' = [content EXCEPT ![f] = Append(@, n)]

Write(t) ==
  /\ lines < MaxLines
  /\ Goto(t, "write", "load")
  /\ lines' = lines + 1
  /\ \/ mpFile \in live /\ AppendLine(handles[mpFile], lines + 1)
     \/ mpFile # 0 /\ mpFile \notin live
          /\ (UNCHANGED content \/ \E h \in live : AppendLine(handles[h], lines + 1))
  /\ UNCHANGED <<seen, output, name, starts, configured, first, sized>>

(* fprintf or fclose with no FILE, or with one that is closed.             *)
Undefined(t) ==
  /\ \/ pc[t] = "write" /\ mpFile \notin live
     \/ pc[t] = "close" /\ mpFile # 0 /\ mpFile \notin live
  /\ End

(* mSize += nbWritten: a load and a store.                                 *)
Load(t) ==
  /\ Goto(t, "load", "count")
  /\ seen' = [seen EXCEPT ![t] = mSize]
  /\ UNCHANGED <<output, disk, lines, starts, configured, first, sized>>

Count(t) ==
  /\ Goto(t, "count", "idle")
  /\ mSize' = seen[t] + 1
  /\ UNCHANGED <<seen, mpFile, handles, live, disk, lines, starts, configured, first, sized>>

(***************************************************************************)
(* rotate()                                                                *)
(***************************************************************************)
(* close() looks for a FILE, and resets mSize only if there is one.        *)
Close(t) ==
  /\ Goto(t, "close", IF mpFile = 0 THEN "remove" ELSE "closed")
  /\ live' = live \ {mpFile}
  /\ UNCHANGED <<seen, mpFile, mSize, handles, disk, lines, starts, configured, first, sized>>

ClosedKeepsSize(t) == (* Mutant: close() keeps the size.                   *)
  /\ Goto(t, "closed", "remove")
  /\ mpFile' = 0
  /\ UNCHANGED <<seen, mSize, handles, live, disk, lines, starts, configured, first, sized>>

Closed(t) ==
  /\ Goto(t, "closed", "remove")
  /\ mpFile' = 0 /\ mSize' = 0
  /\ UNCHANGED <<seen, handles, live, disk, lines, starts, configured, first, sized>>

Remove(t) ==
  /\ Goto(t, "remove", "rename")
  /\ name' = [name EXCEPT !["old"] = 0]
  /\ UNCHANGED <<seen, output, content, lines, starts, configured, first, sized>>

(* Without a file there is nothing to rename, and nobody looks.            *)
RenameArgumentsSwapped(t) == (* Mutant: the old file, just removed, is renamed. *)
  /\ Goto(t, "rename", "open")
  /\ UNCHANGED <<seen, output, disk, lines, starts, configured, first, sized>>

RenameLinks(t) == (* Mutant: the old name is one more name of the file.    *)
  /\ Goto(t, "rename", "open")
  /\ name' = [name EXCEPT !["old"] = name["current"]]
  /\ UNCHANGED <<seen, output, content, lines, starts, configured, first, sized>>

Rename(t) ==
  /\ Goto(t, "rename", "open")
  /\ name' = IF name["current"] = 0 THEN name
               ELSE [current |-> 0, old |-> name["current"]]
  /\ UNCHANGED <<seen, output, content, lines, starts, configured, first, sized>>

(* fopen appends to the file, or makes it.                                 *)
Open(t) ==
  /\ Goto(t, "open", IF configured THEN "print" ELSE "start")
  /\ IF name["current"] = 0
       THEN /\ content' = Append(content, <<>>)
            /\ name' = [name EXCEPT !["current"] = Len(content) + 1]
       ELSE UNCHANGED disk
  /\ handles' = Append(handles, name'["current"])
  /\ mpFile' = Len(handles) + 1
  /\ live' = live \cup {Len(handles) + 1}
  /\ sized' = (sized \/ configured)
  /\ UNCHANGED <<seen, mSize, lines, starts, configured, first>>

(* fopen failed: the exception leaves a destructor, or main().             *)
OpenFails(t) == pc[t] = "open" /\ End

Next ==
  \/ Start \/ Spawn \/ Killed
  \/ \E t \in Threads :
       \/ Log(t) \/ Reach(t) \/ Write(t) \/ Load(t) \/ Count(t) \/ Undefined(t)
       \/ Close(t) \/ Closed(t) \/ Remove(t) \/ Rename(t) \/ Open(t) \/ OpenFails(t)

Spec == Init /\ [][Next]_vars

(***************************************************************************)
(* Properties                                                              *)
(***************************************************************************)
(* The lines in the two files, the older file first, and whether the last  *)
(* k of them are the latest ones of this life, behind those of earlier     *)
(* lives.                                                                  *)
Logged == LinesOf("old") \o LinesOf("current")

EndsWith(k) ==
  \A i \in DOMAIN Logged :
    IF i <= Len(Logged) - k THEN Logged[i] <= first
                            ELSE Logged[i] = lines - Len(Logged) + i

(* As long as no thread logs while another one rotates, the two files hold *)
(* the latest lines of this life, each once and in order; and if an older  *)
(* one is gone, then a whole file was kept: more than mMaxSize.  (Threads  *)
(* may write at the same time, a start may find no file, or have its own   *)
(* idea of the size of the first one.)                                     *)
Kept ==
  "rotation" \notin trouble =>
    \E k \in 0..Len(Logged) :
      /\ k <= lines - first /\ EndsWith(k)
      /\ k < lines - first => k > mMaxSize

(* Threads that log in turn keep the file within mMaxSize and one line,    *)
(* from the first rotation or from a start that found a file.              *)
Bounded ==
  configured /\ sized /\ "overlap" \notin trouble =>
    Len(LinesOf("current")) <= mMaxSize + 1
=============================================================================
