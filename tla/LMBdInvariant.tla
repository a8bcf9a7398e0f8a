--------------------------- MODULE LMBdInvariant ----------------------------
(***************************************************************************)
(* The inductive invariant behind the safety properties of LMBd.           *)
(***************************************************************************)
EXTENDS LMBd

Others == Threads \ {Main}

(* Each role uses its own part of the program counter, and no other thread *)
(* exists before main() has sent the start-up messages.                    *)
RoleInv ==
  /\ pc[Main] \notin {"off", "idle", "want", "left"}
  /\ \A t \in Others : pc[t] \notin {"down", "loop", "socket", "listen"}
  /\ pc[Main] \notin {"socket", "listen"} => \A t \in Others : pc[t] = "off"

(* io_mutex is held by the thread in the driver, except for main().        *)
LockInv ==
  /\ lock # Main
  /\ \A t \in Others : InDriver(t) <=> lock = t

JobInv ==
  \A t \in Threads :
    /\ pc[t] \in {"set", "send", "mask"} => job[t] \in Jobs
    /\ t # Main /\ InDriver(t) => job[t] \in Jobs
    /\ pc[t] = "want" => job[t] \in Jobs
    /\ pc[t] \in {"send", "mask"} => job[t].pos \in Slots
    /\ pc[t] # "send" => sent[t] = 0

(* Half way through a text, the packets sent so far are on the sign or     *)
(* known to be missing, and the context already has the text.              *)
SendInv ==
  \A t \in Threads : pc[t] = "send" =>
    /\ sent[t] < Packets
    /\ displayedmsgs[job[t].pos] = job[t].msg
    /\ job[t].pos \in missed \/ \A k \in 1..sent[t] : page[job[t].pos][k] = job[t].msg

(* It holds of every reachable state and, unlike its parts, of every       *)
(* successor of a state it holds of.                                       *)
IInv ==
  /\ TypeOK /\ RoleInv /\ LockInv /\ JobInv /\ SendInv
  /\ PortExclusive /\ Agreement /\ WholeText

-----------------------------------------------------------------------------
(* What may end the process: a line that is gone, a client that has closed *)
(* its connection, an address that is taken, or the position 0, which the  *)
(* bitset of setMessage does not have.                                     *)
Cause ==
  \/ line = "gone"
  \/ "pipe" \in Faults /\ \E c \in Clients : pc[c] = "idle"
  \/ "bind" \in Faults /\ pc[Main] = "socket"
  \/ \E t \in Threads : pc[t] = "set" /\ job[t].pos = 0

(* Whatever goes wrong, and whatever was lost before, the process ends for *)
(* one of these: no call of any session finds the port closed, although    *)
(* Serial throws then and nothing catches it.                              *)
EndsForCause == [][StaysUp /\ ~StaysUp' => Cause]_vars

(* How many calls a session still has ahead of it, at most.                *)
Ahead(t) ==
  CASE pc[t] = "open"  -> Packets + 5
    [] pc[t] = "query" -> Packets + 4
    [] pc[t] = "set"   -> Packets + 3
    [] pc[t] = "send"  -> Packets + 2 - sent[t]
    [] pc[t] = "mask"  -> 2
    [] pc[t] = "fini"  -> 1
    [] OTHER           -> 0

Nearer(t) == (pc'[t] = pc[t] /\ sent'[t] = sent[t]) \/ Ahead(t)' < Ahead(t)

(* A session never goes back: whatever a step does, and whoever takes it,  *)
(* it leaves a session where it is or nearer to its end, which is at most  *)
(* Packets + 5 calls away from its Init, however little of it arrives.     *)
SessionAdvances == [][\A t \in Threads : InDriver(t) => Nearer(t)]_vars

(* What main() still has ahead of it at one slot: its session, then the    *)
(* loop, the monitor and the socket.                                       *)
Waits ==
  CASE pc[Main] = "down"   -> 0
    [] pc[Main] = "listen" -> 1
    [] pc[Main] = "socket" -> 2
    [] pc[Main] = "loop"   -> 3
    [] OTHER               -> Ahead(Main) + 3

(* main() gets on with its start: a step leaves it where it is, brings it  *)
(* to a later slot, or nearer to its accept loop at the same one, or the   *)
(* process ends and is started again from the first slot.  So a process    *)
(* sends each start-up message once, in Packets + 5 calls at most.         *)
BootAdvances ==
  [][\/ UNCHANGED <<pc[Main], sent[Main], bootSlot>>
     \/ bootSlot' > bootSlot
     \/ bootSlot' = bootSlot /\ Waits' < Waits
     \/ pc'[Main] = "down"
     \/ pc[Main] = "down" /\ pc'[Main] = "open" /\ bootSlot' = 1]_vars
=============================================================================
