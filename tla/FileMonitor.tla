---------------------------- MODULE FileMonitor -----------------------------
(***************************************************************************)
(* The monitored files: programs write message-1 .. message-6, inotify     *)
(* queues an event per closed file, getNextEvent fetches and filters them, *)
(* and MonitorFiles reads the file when it gets to its event and gives the *)
(* text to the slot named by the watch descriptor.                         *)
(*                                                                         *)
(* The file system, inotify and the programs that write are external, and  *)
(* modelled from how the daemon uses them.  A session of the driver is one *)
(* step here; module LMBd has its interior.                                *)
(***************************************************************************)
EXTENDS Naturals, Sequences

CONSTANTS
  Messages,   (* Slots, files and watches: 6.                              *)
  Text,       (* Nonempty texts.                                           *)
  Empty,      (* An empty file, a cleared slot.                            *)
  None,       (* No file; no watch.                                        *)
  Overflow,   (* The event of a full queue, with the descriptor -1.        *)
  QueueMax,   (* Events inotify keeps for the daemon.                      *)
  BufferMax,  (* Events one read() returns.                                *)
  Troubles,   (* What may go wrong: "create", "clock", "replace", "crash". *)
  MaxEdits,   (* Bound: edits of the files and commands of a terminal.     *)
  MaxClock    (* Bound: the values of time(NULL).                          *)

Slots    == 1..Messages
Contents == Text \cup {Empty}
Events   == Slots \cup {Overflow}

ASSUME FileMonitorAssumption ==
  /\ Messages \in Nat \ {0} /\ QueueMax \in Nat \ {0} /\ BufferMax \in Nat \ {0}
  /\ MaxEdits \in Nat /\ MaxClock \in Nat
  /\ Empty \notin Text /\ None \notin Contents /\ None \notin Slots
  /\ Overflow \notin Slots
  /\ Troubles \subseteq {"create", "clock", "replace", "crash"}

VARIABLES
  content,     (* Of the file each path names, or None.                    *)
  writing,     (* Does a program have it open: "no", "open", or "stale",   *)
               (* when the path no longer names the file it opened.        *)
  attach,      (* The file a watch is on: "none", "file", the one the path *)
               (* names, "unlinked", or "dead".                            *)
  mDirectorieMap, (* The path of each watch descriptor.                    *)
  kernel,      (* The events inotify holds for the daemon.                 *)
  carried,     (* getNextEvent's local vector, kept from read to read.     *)
  mEventQueue,
  mLastEventTime,
  clock,       (* time(NULL).                                              *)
  pc,          (* Of init and then of the thread it starts.                *)
  i,           (* The loops of init.                                       *)
  wd, text,    (* MonitorFiles: the event and what its file held.          *)
  shown,       (* What the sign shows.                                     *)
  edits,       (* Ghost, bounded: edits so far.                            *)
  other,       (* Ghost: slots whose text does not come from a file.       *)
  excused,     (* Ghost: files changed with no event, or with a lost one.  *)
  missing      (* Ghost: files that were not there to be watched.          *)

files   == <<content, writing, attach>>
reading == <<carried, mEventQueue, mLastEventTime>>
thread  == <<pc, i, wd, text>>
tally   == <<edits, other, excused, missing>>
vars    == <<files, mDirectorieMap, kernel, reading, clock, thread, shown, tally>>

Running == pc \in {"wait", "event", "have"}
Elements(s) == {s[k] : k \in DOMAIN s}

(* The slot whose watch is on the file its path named.                     *)
WatchOf(p) == IF \E w \in Slots : mDirectorieMap[w] = p
                THEN CHOOSE w \in Slots : mDirectorieMap[w] = p ELSE None

TypeOK ==
  /\ content \in [Slots -> Contents \cup {None}]
  /\ writing \in [Slots -> {"no", "open", "stale"}]
  /\ attach \in [Slots -> {"none", "file", "unlinked", "dead"}]
  /\ mDirectorieMap \in [Slots -> Slots \cup {None}]
  /\ kernel \in Seq(Events) /\ Len(kernel) <= QueueMax + 1
  /\ carried \in Seq(Slots) /\ mEventQueue \in Seq(Slots)
  /\ mLastEventTime \in 0..MaxClock /\ clock \in 0..MaxClock
  /\ pc \in {"clean", "create", "watch", "wait", "event", "have"}
  /\ i \in 1..(Messages + 1)
  /\ wd \in Slots /\ text \in Contents
  /\ shown \in [Slots -> Contents]
  /\ edits \in 0..MaxEdits
  /\ other \subseteq Slots /\ excused \subseteq Slots /\ missing \subseteq Slots

(* A start finds whatever files there are; the sign shows the start-up     *)
(* messages.                                                               *)
Init ==
  /\ content \in [Slots -> Contents \cup {None}]
  /\ writing = [p \in Slots |-> "no"]
  /\ attach = [p \in Slots |-> "none"]
  /\ mDirectorieMap = [w \in Slots |-> None]
  /\ kernel = <<>> /\ carried = <<>> /\ mEventQueue = <<>>
  /\ mLastEventTime = 0 /\ clock = 0
  /\ pc = "clean" /\ i = 1 /\ wd = 1 /\ text = Empty
  /\ shown = [p \in Slots |-> Empty]
  /\ edits = 0 /\ other = Slots /\ excused = {} /\ missing = {}

(***************************************************************************)
(* The programs that write the files, and inotify.                         *)
(***************************************************************************)
(* The queue with the event of watch w: one that equals the last one is    *)
(* merged with it, and a full queue takes an overflow event instead.       *)
Full == Len(kernel) >= QueueMax
Queued(w) ==
  IF Full THEN IF kernel[Len(kernel)] = Overflow THEN kernel ELSE Append(kernel, Overflow)
  ELSE IF kernel # <<>> /\ kernel[Len(kernel)] = w THEN kernel ELSE Append(kernel, w)

(* The file of path p changed, and watch w saw it or none did.             *)
Event(w, p) ==
  IF w = None \/ Full
    THEN /\ kernel' = IF w = None THEN kernel ELSE Queued(w)
         /\ excused' = excused \cup {p}
    ELSE kernel' = Queued(w) /\ excused' = excused \ {p}

Edit == edits < MaxEdits /\ edits' = edits + 1

OpenFile(p) ==
  /\ Edit
  /\ writing[p] = "no"
  /\ writing' = [writing EXCEPT ![p] = "open"]
  /\ content' = [content EXCEPT ![p] = Empty]
  /\ UNCHANGED <<attach, mDirectorieMap, kernel, reading, clock, thread, shown, other, excused, missing>>

WriteFile(p) ==
  /\ writing[p] = "open" /\ content[p] = Empty
  /\ \E m \in Text : content' = [content EXCEPT ![p] = m]
  /\ UNCHANGED <<writing, attach, mDirectorieMap, kernel, reading, clock, thread, shown, tally>>

(* The last descriptor of a file whose name is gone takes the watch along. *)
CloseFile(p) ==
  LET w == WatchOf(p)
  IN  /\ writing[p] # "no"
      /\ writing' = [writing EXCEPT ![p] = "no"]
      /\ IF w # None /\ attach[p] = "unlinked"
           THEN attach' = [attach EXCEPT ![p] = "dead"] /\ Event(w, p)
           ELSE /\ UNCHANGED attach
                /\ IF writing[p] = "open"
                     THEN Event(IF attach[p] = "file" THEN w ELSE None, p)
                     ELSE UNCHANGED <<kernel, excused>>
      /\ UNCHANGED <<content, mDirectorieMap, reading, clock, thread, shown, edits, other, missing>>

(* The path names another file, or none: mv, rm, an editor that saves by   *)
(* renaming.  The end of a watched file is an event, too.                  *)
Unlink(p) ==
  LET held == writing[p] = "open"
      w    == WatchOf(p)
  IN  /\ writing' = [writing EXCEPT ![p] = IF held THEN "stale" ELSE @]
      /\ attach' = [attach EXCEPT ![p] = IF @ # "file" THEN @
                                         ELSE IF held THEN "unlinked" ELSE "dead"]
      /\ Event(IF attach[p] = "file" /\ ~held THEN w ELSE None, p)

Replace(p) ==
  /\ "replace" \in Troubles /\ Edit
  /\ content[p] # None
  /\ \E m \in Contents \cup {None} : content' = [content EXCEPT ![p] = m]
  /\ Unlink(p)
  /\ UNCHANGED <<mDirectorieMap, reading, clock, thread, shown, other, missing>>

(***************************************************************************)
(* FileMonitor::init: the directory is emptied, and then each file created *)
(* and watched.  Programs may write all the while.                         *)
(***************************************************************************)
(* Mutant: the loop over the files runs once too often.                    *)
RemoveOneMore ==
  /\ pc = "clean" /\ i \in 1..(Messages + 1)
  /\ content' = [content EXCEPT ![i] = None]
  /\ i' = i + 1
  /\ UNCHANGED <<writing, attach, mDirectorieMap, kernel, reading, clock, pc, wd, text, shown, tally>>

Remove ==
  /\ pc = "clean" /\ i \in Slots
  /\ content' = [content EXCEPT ![i] = None]
  /\ writing' = [writing EXCEPT ![i] = IF @ = "open" THEN "stale" ELSE @]
  /\ i' = i + 1
  /\ UNCHANGED <<attach, mDirectorieMap, kernel, reading, clock, pc, wd, text, shown, tally>>

CleanedFromTwo == (* Mutant: the loop begins with the second file.         *)
  /\ pc = "clean" /\ i \notin Slots
  /\ pc' = "create" /\ i' = 2
  /\ UNCHANGED <<files, mDirectorieMap, kernel, reading, clock, wd, text, shown, tally>>

Cleaned ==
  /\ pc = "clean" /\ i \notin Slots
  /\ pc' = "create" /\ i' = 1
  /\ UNCHANGED <<files, mDirectorieMap, kernel, reading, clock, wd, text, shown, tally>>

(* A file that is there is left as it is.  Nobody asks whether the ofstream *)
(* could create one that is not.                                           *)
Create ==
  /\ pc = "create" /\ i \in Slots
  /\ pc' = "watch"
  /\ \/ content' = [content EXCEPT ![i] = IF @ = None THEN Empty ELSE @]
     \/ "create" \in Troubles /\ UNCHANGED content
  /\ UNCHANGED <<writing, attach, mDirectorieMap, kernel, reading, clock, i, wd, text, shown, tally>>

(* The descriptors count up from 1.                                        *)
Unused == {w \in Slots : mDirectorieMap[w] = None}
NextWd == CHOOSE w \in Unused : \A v \in Unused : w <= v

WatchFile ==
  /\ pc = "watch"
  /\ IF content[i] = None
       THEN /\ missing' = missing \cup {i}
            /\ UNCHANGED <<attach, mDirectorieMap>>
       ELSE /\ attach' = [attach EXCEPT ![i] = "file"]
            /\ mDirectorieMap' = [mDirectorieMap EXCEPT ![NextWd] = i]
            /\ UNCHANGED missing
  /\ pc' = "create" /\ i' = i + 1
  /\ UNCHANGED <<content, writing, kernel, reading, clock, wd, text, shown, edits, other, excused>>

StartThread ==
  /\ pc = "create" /\ i \notin Slots
  /\ pc' = "wait"
  /\ UNCHANGED <<files, mDirectorieMap, kernel, reading, clock, i, wd, text, shown, tally>>

Setup == Remove \/ Cleaned \/ Create \/ WatchFile \/ StartThread

(***************************************************************************)
(* Inotify::getNextEvent.                                                  *)
(***************************************************************************)
onTimeout == mLastEventTime > clock

(* erase() during the loop over the events: every other one stays behind,  *)
(* in the vector the next read adds to.                                    *)
EverySecond(s) == [k \in 1..(Len(s) \div 2) |-> s[2 * k]]

(* The loop over the buffer leaves out the event without a path.           *)
KnownPath(e) == e # Overflow

Known(events) ==
  LET kept[n \in 0..Len(events)] ==
        IF n = 0 THEN <<>>
        ELSE IF KnownPath(events[n]) THEN Append(kept[n - 1], events[n]) ELSE kept[n - 1]
  IN  kept[Len(events)]

Batch == IF Len(kernel) <= BufferMax THEN kernel ELSE SubSeq(kernel, 1, BufferMax)
Found == carried \o Known(Batch)
Rest  == SubSeq(kernel, Len(Batch) + 1, Len(kernel))

(* Mutant: only the first event of a read is kept.                         *)
ReadFirst ==
  /\ pc = "wait" /\ mEventQueue = <<>> /\ kernel # <<>>
  /\ kernel' = Rest
  /\ IF onTimeout \/ Found = <<>>
       THEN /\ carried' = EverySecond(Found)
            /\ excused' = excused \cup {mDirectorieMap[w] : w \in Elements(Found)}
            /\ UNCHANGED <<mEventQueue, mLastEventTime>>
       ELSE /\ carried' = <<>> /\ mEventQueue' = <<Head(Found)>> /\ mLastEventTime' = clock
            /\ excused' = excused \ {mDirectorieMap[w] : w \in Elements(Found)}
  /\ UNCHANGED <<files, mDirectorieMap, clock, thread, shown, edits, other, missing>>

Read ==
  /\ pc = "wait" /\ mEventQueue = <<>> /\ kernel # <<>>
  /\ kernel' = Rest
  /\ IF onTimeout \/ Found = <<>>
       THEN /\ carried' = EverySecond(Found)
            /\ excused' = excused \cup {mDirectorieMap[w] : w \in Elements(Found)}
            /\ UNCHANGED <<mEventQueue, mLastEventTime>>
       ELSE /\ carried' = <<>> /\ mEventQueue' = Found /\ mLastEventTime' = clock
            /\ excused' = excused \ {mDirectorieMap[w] : w \in Elements(Found)}
  /\ UNCHANGED <<files, mDirectorieMap, clock, thread, shown, edits, other, missing>>

(* Mutant: the front event is not popped.                                  *)
TakeFront ==
  /\ pc = "wait" /\ mEventQueue # <<>>
  /\ pc' = "event"
  /\ wd' = Head(mEventQueue)
  /\ UNCHANGED <<files, mDirectorieMap, kernel, reading, clock, i, text, shown, tally>>

Take ==
  /\ pc = "wait" /\ mEventQueue # <<>>
  /\ pc' = "event"
  /\ wd' = Head(mEventQueue)
  /\ mEventQueue' = Tail(mEventQueue)
  /\ UNCHANGED <<files, mDirectorieMap, kernel, carried, mLastEventTime, clock, i, text, shown,
                 tally>>

(***************************************************************************)
(* MonitorFiles: the file is read before io_mutex is taken.                *)
(***************************************************************************)
ReadText ==
  LET found == content[mDirectorieMap[wd]]
  IN  /\ pc = "event"
      /\ pc' = "have"
      /\ text' = IF found = None THEN Empty ELSE found
      /\ UNCHANGED <<files, mDirectorieMap, kernel, reading, clock, i, wd, shown, tally>>

Show ==
  /\ pc = "have"
  /\ pc' = "wait"
  /\ shown' = [shown EXCEPT ![wd] = text]
  /\ other' = other \ {wd}
  /\ UNCHANGED <<files, mDirectorieMap, kernel, reading, clock, i, wd, text, edits, excused, missing>>

(* A terminal's message or clear command.                                  *)
CliMessage(p) ==
  /\ Running /\ Edit
  /\ \E m \in Contents : shown' = [shown EXCEPT ![p] = m]
  /\ other' = other \cup {p}
  /\ UNCHANGED <<files, mDirectorieMap, kernel, reading, clock, thread, excused, missing>>

(* The clock goes forward, or is set back.                                 *)
Clock ==
  /\ clock' \in {c \in 0..MaxClock : 
                 c = clock + 1 \/ ("clock" \in Troubles /\ c + 1 = clock)}
  /\ UNCHANGED <<files, mDirectorieMap, kernel, reading, thread, shown, tally>>

(* The process ends and is started again.                                  *)
Restart ==
  /\ "crash" \in Troubles /\ Running /\ Edit
  /\ attach' = [p \in Slots |-> "none"]
  /\ mDirectorieMap' = [w \in Slots |-> None]
  /\ kernel' = <<>> /\ carried' = <<>> /\ mEventQueue' = <<>> /\ mLastEventTime' = 0
  /\ pc' = "clean" /\ i' = 1 /\ wd' = 1 /\ text' = Empty
  /\ other' = Slots /\ excused' = {} /\ missing' = {}
  /\ UNCHANGED <<content, writing, clock, shown>>

MonitorFiles == Read \/ Take \/ ReadText \/ Show

Next ==
  \/ \E p \in Slots : OpenFile(p) \/ WriteFile(p) \/ CloseFile(p) \/ Replace(p) \/ CliMessage(p)
  \/ Setup \/ MonitorFiles \/ Clock \/ Restart

Spec == Init /\ [][Next]_vars

(* The threads of the daemon run.  Nothing is assumed of the programs.     *)
FairSpec == Spec /\ WF_vars(Setup) /\ WF_vars(MonitorFiles)

(***************************************************************************)
(* Properties.                                                             *)
(***************************************************************************)
(* The watch of each file has the number of its slot.                      *)
Watched == {p \in Slots : mDirectorieMap[p] = p}

Pending(p) ==
  \/ p \in Elements(kernel) \cup Elements(mEventQueue)
  \/ pc = "event" /\ wd = p

UpToDate(p) ==
  LET t == IF pc = "have" /\ wd = p THEN text ELSE shown[p]
  IN  t = IF content[p] = None THEN Empty ELSE content[p]

(* No write is lost between the program that closes a file and the sign:   *)
(* a slot whose text comes from its file shows what the file holds, or is  *)
(* about to, or an event for it is on its way (Inotify::getNextEvent reads *)
(* many events and returns one; MonitorFiles reads the file later than the *)
(* event).  The exceptions are the changes no event reached the daemon     *)
(* for, and those whose event getNextEvent filtered out.                   *)
NothingLost ==
  Running => \A p \in Watched \ (excused \cup other) :
    writing[p] # "open" => Pending(p) \/ UpToDate(p)

(* A text goes to the slot of its file.  MonitorFiles takes the number of  *)
(* the watch for the slot; that is right for every file before the first   *)
(* one that was not there when init came to watch it, and wrong for all    *)
(* that were watched after it.                                             *)
Misplaced(p) == \E q \in missing : q < p

RightSlot ==
  Running => \A p \in Slots \ missing :
    IF Misplaced(p) THEN mDirectorieMap[p] # p ELSE mDirectorieMap[p] = p

(* An event that is fetched and not filtered out is acted on, whatever     *)
(* other events are queued before and after it (the queue of Inotify,      *)
(* emptied one event per call).                                            *)
EventsHandled ==
  \A p \in Slots : p \in Elements(mEventQueue) ~> (pc = "event" /\ wd = p) \/ ~Running
=============================================================================
