-------------------------------- MODULE LMBd --------------------------------
(***************************************************************************)
(* The daemon: its threads, the context they share, the io_mutex that      *)
(* serialises them, the driver's calls on the serial port, and the sign at *)
(* the other end of the line.                                              *)
(*                                                                         *)
(* A driver session is what every caller does: Init, setMessage, Fini.     *)
(* None of them looks at the result of Init, none checks how much of a     *)
(* packet was written, and an exception of the serial library is caught    *)
(* nowhere: it ends the process, which systemd starts again while the sign *)
(* keeps what it was showing.                                              *)
(*                                                                         *)
(* The sign is external.  It is modelled from how Driver-DX.cpp uses it: a *)
(* memory of Packets packets per slot, and a mask that says which slots    *)
(* are lit.                                                                *)
(***************************************************************************)
EXTENDS Naturals

CONSTANTS
  Main,       (* The thread of main().                                     *)
  Monitor,    (* The thread that reads the monitored files.                *)
  Clients,    (* The CLI threads one process may start (max_cli).          *)
  Nobody,     (* No thread.                                                *)
  Messages,   (* Slots of the sign: 6 in main().                           *)
  Packets,    (* Packets of one message: 4 in setMessage.                  *)
  Text,       (* The nonempty texts.                                       *)
  Empty,      (* The empty text.                                           *)
  NoJob,      (* A thread with no setMessage to make.                      *)
  Positions,  (* What atoi may make of the <pos> of a command; Messages+1  *)
              (* stands for every rejected one, negative ones included.    *)
  Startup,    (* The start-up messages a configuration file may give.      *)
  Faults      (* What may go wrong outside the program.                    *)

Threads  == {Main, Monitor} \cup Clients
Slots    == 1..Messages
Contents == Text \cup {Empty}
Jobs     == [pos : Positions \cup Slots, msg : Contents]

ASSUME LMBdAssumption ==
  /\ Messages \in Nat \ {0}
  /\ Packets \in Nat \ {0}
  /\ Positions \subseteq 0..(Messages + 1)
  /\ Startup \subseteq [Slots -> Contents]
  /\ Faults \subseteq {"silent", "late", "stopped", "gone", "pipe", "bind", "monitor"}
  /\ Empty \notin Text
  /\ Main # Monitor
  /\ Main \notin Clients /\ Monitor \notin Clients
  /\ Nobody \notin Threads
  /\ NoJob \notin Jobs

VARIABLES
  pc,            (* Where each thread is.                                  *)
  job,           (* The setMessage call each thread is making.             *)
  sent,          (* Packets of that call already written.                  *)
  lock,          (* Who holds io_mutex.                                    *)
  sp,            (* The Serial object: "null", "closed" or "open".         *)
  startupmsg,    (* The start-up messages of the configuration.            *)
  bootSlot,      (* main()'s loop over them.                               *)
  displayedmsgs, (* The text the daemon last gave each slot.               *)
  msgdisplay,    (* The slots the daemon has lit.                          *)
  line,          (* "up", "silent" (nobody answers), "stopped" (by XOFF)   *)
                 (* or "gone" (every call throws).                         *)
  greeted,       (* The sign got this session's start sequence.            *)
  page,          (* The sign's memory: a text per slot and packet.         *)
  mask,          (* The slots the sign has lit.                            *)
  missed,        (* Ghost: slots whose last text did not arrive whole.     *)
  maskMissed     (* Ghost: the sign has not had this process's last mask.  *)

context == <<displayedmsgs, msgdisplay>>
sign    == <<page, mask, missed, maskMissed>>
boot    == <<startupmsg, bootSlot>>
vars    == <<pc, job, sent, lock, sp, boot, context, line, greeted, sign>>

InDriver(t) == pc[t] \in {"open", "query", "set", "send", "mask", "fini"}

Goto(t, from, to) ==
  /\ pc[t] = from
  /\ pc' = [pc EXCEPT ![t] = to]

TypeOK ==
  /\ pc \in [Threads -> {"off", "down", "open", "query", "set", "send", "mask",
                         "fini", "loop", "socket", "listen", "idle", "want", "left"}]
  /\ job \in [Threads -> Jobs \cup {NoJob}]
  /\ sent \in [Threads -> 0..Packets]
  /\ lock \in Threads \cup {Nobody}
  /\ sp \in {"null", "closed", "open"}
  /\ startupmsg \in [Slots -> Contents]
  /\ bootSlot \in 1..(Messages + 1)
  /\ displayedmsgs \in [Slots -> Contents]
  /\ msgdisplay \subseteq Slots
  /\ line \in {"up", "silent", "stopped", "gone"}
  /\ greeted \in BOOLEAN
  /\ page \in [Slots -> [1..Packets -> Contents]]
  /\ mask \subseteq Slots
  /\ missed \subseteq Slots
  /\ maskMissed \in BOOLEAN

(***************************************************************************)
(* The process starts.  The sign may still show what an earlier process    *)
(* left on it.                                                             *)
(***************************************************************************)
Init ==
  /\ pc = [t \in Threads |-> IF t = Main THEN "open" ELSE "off"]
  /\ job = [t \in Threads |-> NoJob]
  /\ sent = [t \in Threads |-> 0]
  /\ lock = Nobody
  /\ sp = "null"
  /\ startupmsg \in Startup
  /\ bootSlot = 1
  /\ displayedmsgs = [p \in Slots |-> Empty]
  /\ msgdisplay = {}
  /\ line = "up" /\ greeted = FALSE
  /\ \E left \in [Slots -> Contents] :
       page = [p \in Slots |-> [k \in 1..Packets |-> left[p]]]
  /\ mask \in SUBSET Slots
  /\ missed = {}
  /\ maskMissed = TRUE

(***************************************************************************)
(* The process ends, whoever caused it: the threads, the mutex and the     *)
(* context are gone, the sign keeps its memory.  A text that was being     *)
(* sent stays half sent.                                                   *)
(***************************************************************************)
Die ==
  /\ pc' = [t \in Threads |-> IF t = Main THEN "down" ELSE "off"]
  /\ job' = [t \in Threads |-> NoJob]
  /\ sent' = [t \in Threads |-> 0]
  /\ lock' = Nobody
  /\ sp' = "null"
  /\ bootSlot' = 1
  /\ displayedmsgs' = [p \in Slots |-> Empty]
  /\ msgdisplay' = {}
  /\ missed' = missed \cup {job[t].pos : t \in {u \in Threads : pc[u] = "send"}}
  /\ maskMissed' = TRUE
  /\ greeted' = FALSE
  /\ UNCHANGED <<startupmsg, line, page, mask>>

Restart ==
  /\ Goto(Main, "down", "open")
  /\ UNCHANGED <<job, sent, lock, sp, boot, context, line, greeted, sign>>

(***************************************************************************)
(* The driver session of thread t, one action per call on the serial port. *)
(***************************************************************************)
(* Mutant: the port is opened only when the Serial object is created.     *)
OpenOnce(t) ==
  /\ line # "gone"
  /\ Goto(t, "open", "query")
  /\ sp' = IF sp = "null" THEN "open" ELSE sp
  /\ UNCHANGED <<job, sent, lock, boot, context, line, greeted, sign>>

Open(t) ==
  /\ line # "gone"
  /\ Goto(t, "open", "query")
  /\ sp' = "open"
  /\ UNCHANGED <<job, sent, lock, boot, context, line, greeted, sign>>

(* Mutant: the reply is awaited without a timeout.                         *)
QueryForever(t) ==
  /\ line = "up" /\ sp = "open"
  /\ Goto(t, "query", IF job[t] = NoJob THEN "fini" ELSE "set")
  /\ greeted' = TRUE
  /\ UNCHANGED <<job, sent, lock, sp, boot, context, line, sign>>

(* flush() is tcdrain: it waits, without a timeout, as long as the other   *)
(* end has stopped the output.  Without a reply within 10 ms Init returns  *)
(* false, and the sign does not get the start sequence; the caller goes on *)
(* all the same.  main()'s first session has no setMessage.                *)
Query(t) ==
  /\ line \notin {"gone", "stopped"} /\ sp = "open"
  /\ Goto(t, "query", IF job[t] = NoJob THEN "fini" ELSE "set")
  /\ \/ greeted' = (line = "up")
     \/ "late" \in Faults /\ greeted' = FALSE
  /\ UNCHANGED <<job, sent, lock, sp, boot, context, line, sign>>

RefusePosition(t) ==
  /\ Goto(t, "set", "fini")
  /\ job[t].pos > Messages
  /\ UNCHANGED <<job, sent, lock, sp, boot, context, line, greeted, sign>>

(* The daemon's own record is brought up to date before anything is sent.  *)
SetText(t) ==
  /\ Goto(t, "set", "send")
  /\ job[t].pos \in Slots
  /\ job[t].msg # Empty
  /\ displayedmsgs' = [displayedmsgs EXCEPT ![job[t].pos] = job[t].msg]
  /\ msgdisplay' = msgdisplay \cup {job[t].pos}
  /\ missed' = missed \ {job[t].pos}
  /\ UNCHANGED <<job, sent, lock, sp, boot, line, greeted, page, mask, maskMissed>>

(* Mutant: the mask is sent only after a text.                            *)
ClearTextSilently(t) ==
  /\ Goto(t, "set", "fini")
  /\ job[t].pos \in Slots
  /\ job[t].msg = Empty
  /\ displayedmsgs' = [displayedmsgs EXCEPT ![job[t].pos] = Empty]
  /\ msgdisplay' = msgdisplay \ {job[t].pos}
  /\ UNCHANGED <<job, sent, lock, sp, boot, line, greeted, sign>>

ClearText(t) ==
  /\ Goto(t, "set", "mask")
  /\ job[t].pos \in Slots
  /\ job[t].msg = Empty
  /\ displayedmsgs' = [displayedmsgs EXCEPT ![job[t].pos] = Empty]
  /\ msgdisplay' = msgdisplay \ {job[t].pos}
  /\ UNCHANGED <<job, sent, lock, sp, boot, line, greeted, sign>>

(* What a sign without the start sequence makes of a packet is not known,  *)
(* nor what becomes of output that is stopped.                             *)
Heard   == line \in {"up", "stopped"}
Unheard == line # "up" \/ ~greeted

(* Mutant: the loop over the packets runs once too often.                 *)
SendPacketOnceMore(t) ==
  LET p == job[t].pos
      k == sent[t] + 1
  IN  /\ line # "gone" /\ sp = "open"
      /\ Goto(t, "send", IF k > Packets THEN "mask" ELSE "send")
      /\ sent' = [sent EXCEPT ![t] = k]
      /\ page' = [page EXCEPT ![p] = [@ EXCEPT ![IF k > Packets THEN 1 ELSE k] = job[t].msg]]
      /\ UNCHANGED <<job, lock, sp, boot, context, line, greeted, mask, missed, maskMissed>>

(* Mutant: the loop ends one packet early.                                 *)
SendPacketOneLess(t) ==
  LET p == job[t].pos
      k == sent[t] + 1
  IN  /\ line # "gone" /\ sp = "open"
      /\ Goto(t, "send", IF k + 1 >= Packets THEN "mask" ELSE "send")
      /\ sent' = [sent EXCEPT ![t] = IF k + 1 >= Packets THEN 0 ELSE k]
      /\ page' = [page EXCEPT ![p] = [@ EXCEPT ![k] = job[t].msg]]
      /\ UNCHANGED <<job, lock, sp, boot, context, line, greeted, mask, missed, maskMissed>>

SendPacket(t) ==
  LET p == job[t].pos
      k == sent[t] + 1
  IN  /\ line # "gone" /\ sp = "open"
      /\ Goto(t, "send", IF k = Packets THEN "mask" ELSE "send")
      /\ sent' = [sent EXCEPT ![t] = IF k = Packets THEN 0 ELSE k]
      /\ \/ /\ Heard
            /\ page' = [page EXCEPT ![p] = [@ EXCEPT ![k] = job[t].msg]]
            /\ UNCHANGED missed
         \/ /\ Unheard
            /\ missed' = missed \cup {p}
            /\ UNCHANGED page
      /\ UNCHANGED <<job, lock, sp, boot, context, line, greeted, mask, maskMissed>>

SendMask(t) ==
  /\ line # "gone" /\ sp = "open"
  /\ Goto(t, "mask", "fini")
  /\ \/ Heard /\ mask' = msgdisplay /\ maskMissed' = FALSE
     \/ Unheard /\ maskMissed' = TRUE /\ UNCHANGED mask
  /\ UNCHANGED <<job, sent, lock, sp, boot, context, line, greeted, page, missed>>

Fini(t) ==
  /\ Goto(t, "fini", IF t = Main THEN "loop" ELSE "idle")
  /\ sp' = "closed"
  /\ job' = [job EXCEPT ![t] = NoJob]
  /\ lock' = IF lock = t THEN Nobody ELSE lock
  /\ greeted' = FALSE
  /\ UNCHANGED <<sent, boot, context, line, sign>>

(* A call on a port that is gone, or on one that is not open, throws.      *)
Throw(t) ==
  /\ pc[t] \in {"open", "query", "send", "mask"}
  /\ line = "gone" \/ (pc[t] # "open" /\ sp # "open")
  /\ Die

(* msgdisplay[pos-1] of position 0 is outside the bitset.                  *)
PositionZero(t) ==
  /\ pc[t] = "set"
  /\ job[t].pos = 0
  /\ Die

Driver(t) ==
  \/ Open(t) \/ Query(t) \/ RefusePosition(t) \/ SetText(t) \/ ClearText(t)
  \/ SendPacket(t) \/ SendMask(t) \/ Fini(t) \/ Throw(t) \/ PositionZero(t)

(***************************************************************************)
(* main(): the start-up messages, without the mutex since no other thread  *)
(* runs yet; then the file monitor; then the listening socket.             *)
(***************************************************************************)
(* Mutant: the loop variable is not advanced past a slot with a message.   *)
NextStartupStuck ==
  /\ bootSlot <= Messages
  /\ pc[Main] = "loop"
  /\ IF startupmsg[bootSlot] # Empty
       THEN /\ pc' = [pc EXCEPT ![Main] = "open"]
            /\ job' = [job EXCEPT ![Main] = [pos |-> bootSlot,
                                             msg |-> startupmsg[bootSlot]]]
            /\ UNCHANGED bootSlot
       ELSE bootSlot' = bootSlot + 1 /\ UNCHANGED <<pc, job>>
  /\ UNCHANGED <<sent, lock, sp, startupmsg, context, line, greeted, sign>>

NextStartup ==
  /\ bootSlot <= Messages
  /\ pc[Main] = "loop"
  /\ bootSlot' = bootSlot + 1
  /\ IF startupmsg[bootSlot] # Empty
       THEN /\ pc' = [pc EXCEPT ![Main] = "open"]
            /\ job' = [job EXCEPT ![Main] = [pos |-> bootSlot,
                                             msg |-> startupmsg[bootSlot]]]
       ELSE UNCHANGED <<pc, job>>
  /\ UNCHANGED <<sent, lock, sp, startupmsg, context, line, greeted, sign>>

(* The result of FileMonitor::init is ignored, too.                        *)
StartMonitor ==
  /\ pc[Main] = "loop" /\ bootSlot > Messages
  /\ lock = Nobody
  /\ \E started \in {"idle"} \cup (IF "monitor" \in Faults THEN {"off"} ELSE {}) :
       pc' = [pc EXCEPT ![Main] = "socket", ![Monitor] = started]
  /\ UNCHANGED <<job, sent, lock, sp, boot, context, line, greeted, sign>>

Listen ==
  /\ Goto(Main, "socket", "listen")
  /\ UNCHANGED <<job, sent, lock, sp, boot, context, line, greeted, sign>>

(* socket, bind or listen failed: main() returns and the process ends.     *)
ListenFails ==
  /\ "bind" \in Faults
  /\ pc[Main] = "socket"
  /\ Die

Boot == NextStartup \/ StartMonitor \/ Listen

(***************************************************************************)
(* The threads main() started.  A CLI thread runs the commands of one      *)
(* connection; the monitor reads a file and then asks for the mutex.       *)
(***************************************************************************)
Accept(c) ==
  /\ pc[Main] = "listen"
  /\ Goto(c, "off", "idle")
  /\ UNCHANGED <<job, sent, lock, sp, boot, context, line, greeted, sign>>

Leave(c) ==
  /\ Goto(c, "idle", "left")
  /\ UNCHANGED <<job, sent, lock, sp, boot, context, line, greeted, sign>>

(* SIGPIPE keeps its default action: a reply to a connection the client    *)
(* has closed ends the process.                                            *)
BrokenPipe(c) ==
  /\ "pipe" \in Faults
  /\ pc[c] = "idle"
  /\ Die

Command(c) ==
  /\ Goto(c, "idle", "want")
  /\ \E p \in Positions, m \in Contents :
       job' = [job EXCEPT ![c] = [pos |-> p, msg |-> m]]
  /\ UNCHANGED <<sent, lock, sp, boot, context, line, greeted, sign>>

FileRead ==
  /\ Goto(Monitor, "idle", "want")
  /\ \E p \in Slots, m \in Contents :
       job' = [job EXCEPT ![Monitor] = [pos |-> p, msg |-> m]]
  /\ UNCHANGED <<sent, lock, sp, boot, context, line, greeted, sign>>

(* Mutant: the session runs without io_mutex.                             *)
AcquireNothing(t) ==
  /\ Goto(t, "want", "open")
  /\ lock' = t
  /\ UNCHANGED <<job, sent, sp, boot, context, line, greeted, sign>>

Acquire(t) ==
  /\ lock = Nobody
  /\ Goto(t, "want", "open")
  /\ lock' = t
  /\ UNCHANGED <<job, sent, sp, boot, context, line, greeted, sign>>

(* The line and the sign at its end, as the faults allow.                  *)
LineChanges ==
  /\ line' \in {"up"} \cup (Faults \cap {"silent", "stopped", "gone"})
  /\ line' # line
  /\ UNCHANGED <<pc, job, sent, lock, sp, boot, context, greeted, sign>>

Next ==
  \/ Restart \/ Boot \/ ListenFails \/ FileRead \/ LineChanges
  \/ \E c \in Clients : Accept(c) \/ Leave(c) \/ BrokenPipe(c) \/ Command(c)
  \/ \E t \in Threads : Acquire(t) \/ Driver(t)

(* A thread inside a session runs on, main() boots, and a mutex that is    *)
(* free and asked for is given to somebody.                                *)
Fairness ==
  /\ \A t \in Threads : WF_vars(Driver(t))
  /\ WF_vars(Boot)
  /\ WF_vars(\E t \in Threads : Acquire(t))

Spec     == Init /\ [][Next]_vars
FairSpec == Spec /\ Fairness

(* A first start with a sign that shows nothing.                           *)
BlankInit == Init /\ mask = {} /\ page = [p \in Slots |-> [k \in 1..Packets |-> Empty]]
BlankSpec == BlankInit /\ [][Next]_vars

(***************************************************************************)
(* Properties.                                                             *)
(***************************************************************************)
Sending(p) == \E t \in Threads : pc[t] = "send" /\ job[t].pos = p

Whole(m) == [k \in 1..Packets |-> m]

(* The serial port belongs to one session at a time, although main() runs  *)
(* its sessions without io_mutex and each session opens and closes the     *)
(* port: the port is open exactly while some thread is between its Init    *)
(* and its Fini (cmd_message, cmd_clear, MonitorFiles, main).              *)
PortExclusive ==
  /\ \A t, u \in Threads : InDriver(t) /\ InDriver(u) => t = u
  /\ sp = "open" <=> \E t \in Threads : InDriver(t) /\ pc[t] # "open"

(* Driver_DX writes displayedmsgs and msgdisplay before it writes to the   *)
(* line, and ignores every result.  Even so, what it believes is lit is    *)
(* what the sign has lit once a mask has arrived, and a text none of whose *)
(* packets was lost is on the sign as the daemon recorded it, whatever was *)
(* lost, and whichever process was restarted, before.                      *)
Agreement ==
  /\ (\A t \in Threads : pc[t] \notin {"send", "mask"}) /\ ~maskMissed
       => mask = msgdisplay
  /\ \A p \in msgdisplay \ missed :
       ~Sending(p) => page[p] = Whole(displayedmsgs[p])

(* A slot never shows packets of two different texts, unless a packet of   *)
(* its last text was lost or the process ended while it was being sent.    *)
WholeText ==
  \A p \in Slots \ missed :
    ~Sending(p) => \E m \in Contents : page[p] = Whole(m)

(* While nothing outside fails, no call of a session throws: each one      *)
(* finds the port open, since every session that follows a Fini opens it   *)
(* again.                                                                  *)
StaysUp == pc[Main] # "down"

(* A session ends, with the port closed and the mutex released, or the     *)
(* process does, whether or not anybody answers: only a line whose output  *)
(* the other end stops can hold it up, because Init drains the line.       *)
SessionEnds ==
  <>[](line # "stopped") => \A t \in Threads : InDriver(t) ~> ~InDriver(t)

(* main() reaches its accept loop or the process ends, whatever start-up   *)
(* messages are configured and however the line behaves, as long as its    *)
(* output is not stopped for good.                                         *)
BootEnds ==
  <>[](line # "stopped") => (pc[Main] = "open" ~> pc[Main] \in {"listen", "down"})
=============================================================================
