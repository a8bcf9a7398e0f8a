----------------------------- MODULE LMBdProofs -----------------------------
(***************************************************************************)
(* Safety of the daemon for every number of clients, slots and packets,    *)
(* every set of texts and every kind of fault; and, on a working line, the *)
(* refinement of MessageBoard.                                             *)
(***************************************************************************)
EXTENDS LMBdInvariant, LMBdRefinement, TLAPS

(* The initial states satisfy the inductive invariant.                     *)
LEMMA InitInv == Init => IInv
<1> SUFFICES ASSUME Init PROVE IInv
  OBVIOUS
<1> USE LMBdAssumption DEF Init
<1>1. TypeOK
  <2>1. greeted \in BOOLEAN /\ maskMissed \in BOOLEAN
    OBVIOUS
  <2> QED
    BY <2>1 DEF TypeOK, Threads, Slots, Contents
<1>2. RoleInv /\ LockInv
  BY DEF RoleInv, LockInv, Others, InDriver, Threads
<1>3. JobInv /\ SendInv
  BY DEF JobInv, SendInv, InDriver
<1>4. PortExclusive
  BY DEF PortExclusive, InDriver
<1>5. Agreement
  BY DEF Agreement
<1>6. WholeText
  BY DEF WholeText, Whole
<1> QED
  BY <1>1, <1>2, <1>3, <1>4, <1>5, <1>6 DEF IInv

(* The death of the process preserves it, whichever thread caused it: a    *)
(* slot that was being sent is from then on known to be incomplete.        *)
LEMMA DieInv == IInv /\ Die => IInv'
<1> SUFFICES ASSUME IInv, Die PROVE IInv'
  OBVIOUS
<1> USE LMBdAssumption DEF IInv, Die
<1>1. TypeOK'
  <2>1. missed' \subseteq Slots
    BY DEF TypeOK, JobInv
  <2>2. /\ pc' \in [Threads -> {"off", "down"}]
        /\ job' \in [Threads -> Jobs \cup {NoJob}]
        /\ sent' \in [Threads -> 0..Packets]
        /\ displayedmsgs' \in [Slots -> Contents]
    BY DEF Contents
  <2>3. greeted' \in BOOLEAN /\ maskMissed' \in BOOLEAN
    OBVIOUS
  <2>4. /\ lock' \in Threads \cup {Nobody}
        /\ sp' \in {"null", "closed", "open"}
        /\ startupmsg' \in [Slots -> Contents]
        /\ bootSlot' \in 1..(Messages + 1)
        /\ msgdisplay' \subseteq Slots
        /\ line' \in {"up", "silent", "stopped", "gone"}
        /\ page' \in [Slots -> [1..Packets -> Contents]]
        /\ mask' \subseteq Slots
    BY DEF TypeOK
  <2> HIDE DEF IInv, Die
  <2> QED
    BY <2>1, <2>2, <2>3, <2>4 DEF TypeOK
<1>2. RoleInv' /\ LockInv'
  BY DEF RoleInv, LockInv, Others, InDriver, Threads
<1>3. JobInv' /\ SendInv'
  BY DEF JobInv, SendInv, InDriver
<1>4. PortExclusive'
  BY DEF PortExclusive, InDriver
<1>5. Agreement'
  BY DEF Agreement
<1>6. WholeText'
  BY DEF WholeText, Whole, Sending
<1> QED
  BY <1>1, <1>2, <1>3, <1>4, <1>5, <1>6
(* Frame: a step that leaves the sign, the context and every text under way *)
(* alone disturbs none of what relates them.                               *)
LEMMA Frame ==
  ASSUME IInv, sent' = sent, UNCHANGED <<context, sign>>,
         \A t \in Threads : pc'[t] = "send" <=> pc[t] = "send",
         \A t \in Threads : pc[t] = "send" => job'[t] = job[t],
         \A t \in Threads : pc[t] = "mask" => pc'[t] = "mask"
  PROVE  SendInv' /\ Agreement' /\ WholeText'
<1> USE DEF IInv, context, sign
<1>1. \A p : Sending(p)' <=> Sending(p)
  BY DEF Sending
<1>2. SendInv'
  BY DEF SendInv
<1>3. Agreement'
  <2>1. (\A t \in Threads : pc'[t] \notin {"send", "mask"})
          => \A t \in Threads : pc[t] \notin {"send", "mask"}
    OBVIOUS
  <2>2. (\A t \in Threads : pc'[t] \notin {"send", "mask"}) /\ ~maskMissed' => mask' = msgdisplay'
    BY <2>1 DEF Agreement
  <2>3. \A p \in msgdisplay' \ missed' : ~Sending(p)' => page'[p] = Whole(displayedmsgs'[p])
    BY <1>1 DEF Agreement
  <2> QED
    BY <2>2, <2>3 DEF Agreement, Whole
<1>4. WholeText'
  BY <1>1 DEF WholeText, Whole
<1> QED
  BY <1>2, <1>3, <1>4

(* systemd starts the process again. *)
LEMMA RestartInv == ASSUME IInv, Restart PROVE IInv'
<1> USE LMBdAssumption DEF IInv, Restart, Goto, Threads
<1>1. TypeOK'
  BY DEF TypeOK, boot, context, sign, Contents, Jobs
<1>2. RoleInv' /\ LockInv'
  BY DEF TypeOK, RoleInv, LockInv, Others, InDriver
<1>3. JobInv'
  BY DEF TypeOK, JobInv, InDriver, RoleInv, Jobs
<1>4. PortExclusive'
  BY DEF TypeOK, PortExclusive, InDriver, RoleInv, LockInv, Others
<1>5. SendInv' /\ Agreement' /\ WholeText'
  BY Frame DEF TypeOK, RoleInv, Others
<1> QED
  BY <1>1, <1>2, <1>3, <1>4, <1>5

(* Init creates or opens the Serial object. *)
LEMMA OpenInv == ASSUME IInv, NEW t \in Threads, Open(t) PROVE IInv'
<1> USE LMBdAssumption DEF IInv, Open, Goto, Threads
<1>1. TypeOK'
  BY DEF TypeOK, boot, context, sign, Contents, Jobs
<1>2. RoleInv' /\ LockInv'
  BY DEF TypeOK, RoleInv, LockInv, Others, InDriver
<1>3. JobInv'
  BY DEF TypeOK, JobInv, InDriver, RoleInv, Jobs
<1>4. PortExclusive'
  BY DEF TypeOK, PortExclusive, InDriver, RoleInv, LockInv, Others
<1>5. SendInv' /\ Agreement' /\ WholeText'
  BY Frame DEF TypeOK, RoleInv, Others
<1> QED
  BY <1>1, <1>2, <1>3, <1>4, <1>5

(* Init asks the sign whether it is there. *)
LEMMA QueryInv == ASSUME IInv, NEW t \in Threads, Query(t) PROVE IInv'
<1> USE LMBdAssumption DEF IInv, Query, Goto, Threads
<1>1. TypeOK'
  BY DEF TypeOK, boot, context, sign, Contents, Jobs
<1>2. RoleInv' /\ LockInv'
  BY DEF TypeOK, RoleInv, LockInv, Others, InDriver
<1>3. JobInv'
  BY DEF TypeOK, JobInv, InDriver, RoleInv, Jobs
<1>4. PortExclusive'
  BY DEF TypeOK, PortExclusive, InDriver, RoleInv, LockInv, Others
<1>5. SendInv' /\ Agreement' /\ WholeText'
  BY Frame DEF TypeOK, RoleInv, Others
<1> QED
  BY <1>1, <1>2, <1>3, <1>4, <1>5

(* setMessage refuses a position beyond the last slot. *)
LEMMA RefusePositionInv == ASSUME IInv, NEW t \in Threads, RefusePosition(t) PROVE IInv'
<1> USE LMBdAssumption DEF IInv, RefusePosition, Goto, Threads
<1>1. TypeOK'
  BY DEF TypeOK, boot, context, sign, Contents, Jobs
<1>2. RoleInv' /\ LockInv'
  BY DEF TypeOK, RoleInv, LockInv, Others, InDriver
<1>3. JobInv'
  BY DEF TypeOK, JobInv, InDriver, RoleInv, Jobs
<1>4. PortExclusive'
  BY DEF TypeOK, PortExclusive, InDriver, RoleInv, LockInv, Others
<1>5. SendInv' /\ Agreement' /\ WholeText'
  BY Frame DEF TypeOK, RoleInv, Others
<1> QED
  BY <1>1, <1>2, <1>3, <1>4, <1>5

(* Fini closes the port; the caller releases the mutex. *)
LEMMA FiniInv == ASSUME IInv, NEW t \in Threads, Fini(t) PROVE IInv'
<1> USE LMBdAssumption DEF IInv, Fini, Goto, Threads
<1>1. TypeOK'
  BY DEF TypeOK, boot, context, sign, Contents, Jobs
<1>2. RoleInv' /\ LockInv'
  BY DEF TypeOK, RoleInv, LockInv, Others, InDriver
<1>3. JobInv'
  BY DEF TypeOK, JobInv, InDriver, RoleInv, Jobs
<1>4. PortExclusive'
  BY DEF TypeOK, PortExclusive, InDriver, RoleInv, LockInv, Others
<1>5. SendInv' /\ Agreement' /\ WholeText'
  BY Frame DEF TypeOK, RoleInv, Others
<1> QED
  BY <1>1, <1>2, <1>3, <1>4, <1>5

(* main() takes the next start-up message. *)
LEMMA NextStartupInv == ASSUME IInv, NextStartup PROVE IInv'
<1> USE LMBdAssumption DEF IInv, NextStartup, Goto, Threads
<1>0. startupmsg[bootSlot] \in Contents /\ bootSlot \in Slots
  BY DEF TypeOK, Slots
<1>a. [pos |-> bootSlot, msg |-> startupmsg[bootSlot]] \in Jobs
  BY <1>0 DEF Jobs
<1>1. TypeOK'
  <2>1. job' \in [Threads -> Jobs \cup {NoJob}] /\ bootSlot' \in 1..(Messages + 1)
    BY <1>0, <1>a DEF TypeOK, Slots
  <2> QED
    BY <2>1 DEF TypeOK, boot, context, sign
<1>2. RoleInv' /\ LockInv'
  BY DEF TypeOK, RoleInv, LockInv, Others, InDriver
<1>3. JobInv'
  BY <1>a DEF TypeOK, JobInv, InDriver, RoleInv
<1>4. PortExclusive'
  BY DEF TypeOK, PortExclusive, InDriver, RoleInv, LockInv, Others
<1>5. SendInv' /\ Agreement' /\ WholeText'
  BY Frame DEF TypeOK, RoleInv, Others
<1> QED
  BY <1>1, <1>2, <1>3, <1>4, <1>5

(* main() starts the file monitor. *)
LEMMA StartMonitorInv == ASSUME IInv, StartMonitor PROVE IInv'
<1> USE LMBdAssumption DEF IInv, StartMonitor, Goto, Threads
<1>1. TypeOK'
  BY DEF TypeOK, boot, context, sign, Contents, Jobs
<1>2. RoleInv' /\ LockInv'
  BY DEF TypeOK, RoleInv, LockInv, Others, InDriver
<1>3. JobInv'
  <2>1. \A t \in Threads : pc'[t] \in {"idle", "off", "socket"} \/ pc'[t] = pc[t]
    BY DEF TypeOK
  <2>2. job' = job /\ sent' = sent
    BY DEF boot, context, sign
  <2>3. ASSUME NEW t \in Threads
        PROVE  /\ pc'[t] \in {"set", "send", "mask"} => job[t] \in Jobs
               /\ t # Main /\ InDriver(t)' => job[t] \in Jobs
               /\ pc'[t] = "want" => job[t] \in Jobs
               /\ pc'[t] \in {"send", "mask"} => job[t].pos \in Slots
    BY <2>1 DEF JobInv, InDriver
  <2>4. \A t \in Threads : pc'[t] # "send" => sent[t] = 0
    BY DEF JobInv, RoleInv, Others, TypeOK
  <2> QED
    BY <2>2, <2>3, <2>4 DEF JobInv
<1>4. PortExclusive'
  BY DEF TypeOK, PortExclusive, InDriver, RoleInv, LockInv, Others
<1>5. SendInv' /\ Agreement' /\ WholeText'
  BY Frame DEF TypeOK, RoleInv, Others
<1> QED
  BY <1>1, <1>2, <1>3, <1>4, <1>5

(* main() starts listening. *)
LEMMA ListenInv == ASSUME IInv, Listen PROVE IInv'
<1> USE LMBdAssumption DEF IInv, Listen, Goto, Threads
<1>1. TypeOK'
  BY DEF TypeOK, boot, context, sign, Contents, Jobs
<1>2. RoleInv' /\ LockInv'
  BY DEF TypeOK, RoleInv, LockInv, Others, InDriver
<1>3. JobInv'
  BY DEF TypeOK, JobInv, InDriver, RoleInv, Jobs
<1>4. PortExclusive'
  BY DEF TypeOK, PortExclusive, InDriver, RoleInv, LockInv, Others
<1>5. SendInv' /\ Agreement' /\ WholeText'
  BY Frame DEF TypeOK, RoleInv, Others
<1> QED
  BY <1>1, <1>2, <1>3, <1>4, <1>5

(* main() starts a CLI thread. *)
LEMMA AcceptInv == ASSUME IInv, NEW t \in Clients, Accept(t) PROVE IInv'
<1> USE LMBdAssumption DEF IInv, Accept, Goto, Threads
<1>1. TypeOK'
  BY DEF TypeOK, boot, context, sign, Contents, Jobs
<1>2. RoleInv' /\ LockInv'
  BY DEF TypeOK, RoleInv, LockInv, Others, InDriver
<1>3. JobInv'
  BY DEF TypeOK, JobInv, InDriver, RoleInv, Jobs
<1>4. PortExclusive'
  BY DEF TypeOK, PortExclusive, InDriver, RoleInv, LockInv, Others
<1>5. SendInv' /\ Agreement' /\ WholeText'
  BY Frame DEF TypeOK, RoleInv, Others
<1> QED
  BY <1>1, <1>2, <1>3, <1>4, <1>5

(* A CLI connection ends. *)
LEMMA LeaveInv == ASSUME IInv, NEW t \in Clients, Leave(t) PROVE IInv'
<1> USE LMBdAssumption DEF IInv, Leave, Goto, Threads
<1>1. TypeOK'
  BY DEF TypeOK, boot, context, sign, Contents, Jobs
<1>2. RoleInv' /\ LockInv'
  BY DEF TypeOK, RoleInv, LockInv, Others, InDriver
<1>3. JobInv'
  BY DEF TypeOK, JobInv, InDriver, RoleInv, Jobs
<1>4. PortExclusive'
  BY DEF TypeOK, PortExclusive, InDriver, RoleInv, LockInv, Others
<1>5. SendInv' /\ Agreement' /\ WholeText'
  BY Frame DEF TypeOK, RoleInv, Others
<1> QED
  BY <1>1, <1>2, <1>3, <1>4, <1>5

(* A CLI thread parses a message or clear command. *)
LEMMA CommandInv == ASSUME IInv, NEW t \in Clients, Command(t) PROVE IInv'
<1> USE LMBdAssumption DEF IInv, Command, Goto, Threads
<1>1. TypeOK'
  BY DEF TypeOK, boot, context, sign, Contents, Jobs
<1>2. RoleInv' /\ LockInv'
  BY DEF TypeOK, RoleInv, LockInv, Others, InDriver
<1>3. JobInv'
  BY DEF TypeOK, JobInv, InDriver, RoleInv, Jobs
<1>4. PortExclusive'
  BY DEF TypeOK, PortExclusive, InDriver, RoleInv, LockInv, Others
<1>5. SendInv' /\ Agreement' /\ WholeText'
  BY Frame DEF TypeOK, RoleInv, Others
<1> QED
  BY <1>1, <1>2, <1>3, <1>4, <1>5

(* The monitor has read a file that was written. *)
LEMMA FileReadInv == ASSUME IInv, FileRead PROVE IInv'
<1> USE LMBdAssumption DEF IInv, FileRead, Goto, Threads
<1>1. TypeOK'
  BY DEF TypeOK, boot, context, sign, Contents, Jobs
<1>2. RoleInv' /\ LockInv'
  BY DEF TypeOK, RoleInv, LockInv, Others, InDriver
<1>3. JobInv'
  BY DEF TypeOK, JobInv, InDriver, RoleInv, Jobs
<1>4. PortExclusive'
  BY DEF TypeOK, PortExclusive, InDriver, RoleInv, LockInv, Others
<1>5. SendInv' /\ Agreement' /\ WholeText'
  BY Frame DEF TypeOK, RoleInv, Others
<1> QED
  BY <1>1, <1>2, <1>3, <1>4, <1>5

(* A thread is given io_mutex. *)
LEMMA AcquireInv == ASSUME IInv, NEW t \in Threads, Acquire(t) PROVE IInv'
<1> USE LMBdAssumption DEF IInv, Acquire, Goto, Threads
<1>1. TypeOK'
  BY DEF TypeOK, boot, context, sign, Contents, Jobs
<1>2. RoleInv' /\ LockInv'
  BY DEF TypeOK, RoleInv, LockInv, Others, InDriver
<1>3. JobInv'
  BY DEF TypeOK, JobInv, InDriver, RoleInv, Jobs
<1>4. PortExclusive'
  BY DEF TypeOK, PortExclusive, InDriver, RoleInv, LockInv, Others
<1>5. SendInv' /\ Agreement' /\ WholeText'
  BY Frame DEF TypeOK, RoleInv, Others
<1> QED
  BY <1>1, <1>2, <1>3, <1>4, <1>5

(* The line fails or recovers. *)
LEMMA LineChangesInv == ASSUME IInv, LineChanges PROVE IInv'
<1> USE LMBdAssumption DEF IInv, LineChanges, Goto, Threads
<1>1. TypeOK'
  BY DEF TypeOK, boot, context, sign, Contents, Jobs
<1>2. RoleInv' /\ LockInv'
  BY DEF TypeOK, RoleInv, LockInv, Others, InDriver
<1>3. JobInv'
  BY DEF TypeOK, JobInv, InDriver, RoleInv, Jobs
<1>4. PortExclusive'
  BY DEF TypeOK, PortExclusive, InDriver, RoleInv, LockInv, Others
<1>5. SendInv' /\ Agreement' /\ WholeText'
  BY Frame DEF TypeOK, RoleInv, Others
<1> QED
  BY <1>1, <1>2, <1>3, <1>4, <1>5

(* setMessage records a nonempty text.  The slot is now being sent, so     *)
(* nothing is claimed of it; every other slot is untouched.                *)
LEMMA SetTextInv == ASSUME IInv, NEW t \in Threads, SetText(t) PROVE IInv'
<1> USE LMBdAssumption DEF IInv, SetText, Goto
<1>0. job[t] \in Jobs /\ job[t].msg \in Contents /\ InDriver(t)
  BY DEF JobInv, Jobs, InDriver
<1>1. TypeOK'
  BY <1>0 DEF TypeOK, boot, context, sign
<1>2. RoleInv' /\ LockInv'
  BY DEF TypeOK, RoleInv, LockInv, Others, InDriver, Threads
<1>3. JobInv'
  BY DEF TypeOK, JobInv, InDriver
<1>4. PortExclusive'
  BY DEF TypeOK, PortExclusive, InDriver
<1>5. SendInv'
  <2>1. \A u \in Threads : pc'[u] = "send" => u = t
    BY <1>0 DEF TypeOK, PortExclusive, InDriver
  <2>2. sent'[t] = 0
    BY DEF JobInv
  <2> QED
    BY <2>1, <2>2 DEF SendInv, TypeOK
<1>6. Sending(job[t].pos)' /\ \A p \in Slots : Sending(p) => Sending(p)'
  BY DEF Sending, TypeOK
<1>7. Agreement'
  <2>1. pc'[t] = "send"
    BY DEF TypeOK
  <2>2. ASSUME NEW p \in msgdisplay' \ missed', ~Sending(p)'
        PROVE  (page[p] = Whole(displayedmsgs[p]))'
    <3>1. p # job[t].pos /\ p \in msgdisplay \ missed /\ p \in Slots
      BY <2>2, <1>6 DEF TypeOK
    <3>2. page[p] = Whole(displayedmsgs[p])
      BY <3>1, <2>2, <1>6 DEF Agreement
    <3> QED
      BY <3>1, <3>2 DEF Whole, TypeOK
  <2> QED
    BY <2>1, <2>2 DEF Agreement
<1>8. WholeText'
  BY <1>6 DEF WholeText, Whole
<1> QED
  BY <1>1, <1>2, <1>3, <1>4, <1>5, <1>7, <1>8

(* setMessage records that a slot is cleared; the mask is still to be sent. *)
LEMMA ClearTextInv == ASSUME IInv, NEW t \in Threads, ClearText(t) PROVE IInv'
<1> USE LMBdAssumption DEF IInv, ClearText, Goto
<1>0. \A u \in Threads : pc[u] # "send" /\ pc'[u] # "send"
  BY DEF TypeOK, PortExclusive, InDriver
<1>1. TypeOK'
  BY DEF TypeOK, boot, context, sign, Contents
<1>2. RoleInv' /\ LockInv'
  BY DEF TypeOK, RoleInv, LockInv, Others, InDriver, Threads
<1>3. JobInv'
  BY DEF TypeOK, JobInv, InDriver
<1>4. PortExclusive'
  BY DEF TypeOK, PortExclusive, InDriver
<1>5. SendInv'
  BY <1>0 DEF SendInv
<1>6. Agreement'
  <2>1. pc'[t] = "mask"
    BY DEF TypeOK
  <2>2. ASSUME NEW p \in msgdisplay' \ missed'
        PROVE  (page[p] = Whole(displayedmsgs[p]))'
    <3>1. p # job[t].pos /\ p \in msgdisplay \ missed /\ p \in Slots
      BY DEF TypeOK, sign
    <3>2. page[p] = Whole(displayedmsgs[p])
      BY <3>1, <1>0 DEF Agreement, Sending
    <3> QED
      BY <3>1, <3>2 DEF Whole, TypeOK, sign
  <2> QED
    BY <2>1, <2>2 DEF Agreement
<1>7. WholeText'
  BY <1>0 DEF WholeText, Whole, Sending, sign
<1> QED
  BY <1>1, <1>2, <1>3, <1>4, <1>5, <1>6, <1>7

(* One packet is written.  With the last one the slot shows the whole text, *)
(* or is known to have missed a packet.                                     *)
LEMMA SendPacketInv == ASSUME IInv, NEW t \in Threads, SendPacket(t) PROVE IInv'
<1> DEFINE q == job[t].pos
           k == sent[t] + 1
<1> USE LMBdAssumption DEF IInv, SendPacket, Goto
<1>0. /\ job[t] \in Jobs /\ job[t].msg \in Contents /\ q \in Slots
      /\ k \in 1..Packets
      /\ \A u \in Threads : pc[u] = "send" => u = t
  <2>1. job[t] \in Jobs /\ q \in Slots /\ sent[t] < Packets /\ sent[t] \in 0..Packets
    BY DEF JobInv, SendInv, TypeOK
  <2>2. \A u \in Threads : pc[u] = "send" => u = t
    BY DEF PortExclusive, InDriver
  <2> QED
    BY <2>1, <2>2 DEF Jobs
<1>1. TypeOK'
  <2>1. sent' \in [Threads -> 0..Packets]
    BY <1>0 DEF TypeOK
  <2>2. page' \in [Slots -> [1..Packets -> Contents]]
    <3>1. page[q] \in [1..Packets -> Contents]
      BY <1>0 DEF TypeOK
    <3>2. [page[q] EXCEPT ![k] = job[t].msg] \in [1..Packets -> Contents]
      BY <3>1, <1>0
    <3> QED
      BY <3>2, <1>0 DEF TypeOK
  <2> QED
    BY <1>0, <2>1, <2>2 DEF TypeOK, boot, context
<1>2. RoleInv' /\ LockInv'
  BY DEF TypeOK, RoleInv, LockInv, Others, InDriver, Threads
<1>3. JobInv'
  BY <1>0 DEF TypeOK, JobInv, InDriver
<1>4. PortExclusive'
  BY DEF TypeOK, PortExclusive, InDriver
<1>5. \A p \in Slots \ {q} : page'[p] = page[p] /\ ~Sending(p) /\ ~Sending(p)'
  BY <1>0 DEF TypeOK, Sending
<1>6. q \in missed' \/ \A j \in 1..k : page'[q][j] = job[t].msg
  <2>1. CASE page' = [page EXCEPT ![q] = [@ EXCEPT ![k] = job[t].msg]] /\ missed' = missed
    <3>1. page[q] \in [1..Packets -> Contents]
      BY <1>0 DEF TypeOK
    <3>2. page'[q] = [page[q] EXCEPT ![k] = job[t].msg] /\ missed' = missed
      BY <2>1, <1>0 DEF TypeOK
    <3>3. q \in missed \/ \A j \in 1..sent[t] : page[q][j] = job[t].msg
      BY DEF SendInv
    <3>4. \A j \in 1..k : j = k \/ (j # k /\ j \in 1..sent[t] /\ j \in 1..Packets)
      BY <1>0 DEF TypeOK
    <3> QED
      BY <3>1, <3>2, <3>3, <3>4, <1>0
  <2>2. CASE missed' = missed \cup {q}
    BY <2>2
  <2> QED
    BY <2>1, <2>2
<1>7. SendInv'
  BY <1>0, <1>6 DEF SendInv, TypeOK, context
<1>8. ~Sending(q)' => q \in missed' \/ page'[q] = Whole(job[t].msg)
  <2>1. ~Sending(q)' => k = Packets
    <3>1. k # Packets => pc'[t] = "send" /\ job' = job
      BY DEF TypeOK
    <3> QED
      BY <3>1 DEF Sending
  <2>2. page'[q] \in [1..Packets -> Contents]
    BY <1>0, <1>1 DEF TypeOK
  <2>3. k = Packets /\ q \notin missed' => page'[q] = [j \in 1..Packets |-> job[t].msg]
    BY <2>2, <1>6
  <2> QED
    BY <2>1, <2>3 DEF Whole
<1>9. Agreement'
  <2>1. ~(\A u \in Threads : pc'[u] \notin {"send", "mask"})
    BY DEF TypeOK
  <2>2. displayedmsgs[q] = job[t].msg
    BY DEF SendInv
  <2>3. ASSUME NEW p \in msgdisplay' \ missed', ~Sending(p)'
        PROVE  (page[p] = Whole(displayedmsgs[p]))'
    <3>1. displayedmsgs' = displayedmsgs /\ msgdisplay' = msgdisplay /\ p \in Slots
      BY DEF context, TypeOK
    <3>2. CASE p = q
      BY <3>1, <3>2, <2>2, <2>3, <1>8 DEF Whole
    <3>3. CASE p # q
      <4>1. p \in msgdisplay \ missed /\ page'[p] = page[p] /\ ~Sending(p)
        BY <3>1, <3>3, <1>5
      <4>2. page[p] = Whole(displayedmsgs[p])
        BY <4>1 DEF Agreement
      <4> QED
        BY <3>1, <4>1, <4>2 DEF Whole
    <3> QED
      BY <3>2, <3>3
  <2> QED
    BY <2>1, <2>3 DEF Agreement
<1>10. WholeText'
  <2> SUFFICES ASSUME NEW p \in Slots \ missed', ~Sending(p)'
               PROVE  (\E m \in Contents : page[p] = Whole(m))'
    BY DEF WholeText
  <2>1. CASE p = q
    BY <2>1, <1>0, <1>8 DEF Whole
  <2>2. CASE p # q
    <3>1. p \notin missed /\ page'[p] = page[p] /\ ~Sending(p)
      BY <2>2, <1>5
    <3> QED
      BY <3>1 DEF WholeText, Whole
  <2> QED
    BY <2>1, <2>2
<1> QED
  BY <1>1, <1>2, <1>3, <1>4, <1>7, <1>9, <1>10

(* The mask is written: the sign has it, or is known not to.               *)
LEMMA SendMaskInv == ASSUME IInv, NEW t \in Threads, SendMask(t) PROVE IInv'
<1> USE LMBdAssumption DEF IInv, SendMask, Goto
<1>0. \A u \in Threads : pc[u] # "send" /\ pc'[u] # "send"
  BY DEF TypeOK, PortExclusive, InDriver
<1>1. TypeOK'
  BY DEF TypeOK, boot, context
<1>2. RoleInv' /\ LockInv'
  BY DEF TypeOK, RoleInv, LockInv, Others, InDriver, Threads
<1>3. JobInv'
  BY DEF TypeOK, JobInv, InDriver
<1>4. PortExclusive'
  BY DEF TypeOK, PortExclusive, InDriver
<1>5. SendInv'
  BY <1>0 DEF SendInv
<1>6. Agreement'
  <2>1. displayedmsgs' = displayedmsgs /\ msgdisplay' = msgdisplay
    BY DEF context
  <2>2. ~maskMissed' => mask' = msgdisplay'
    BY <2>1
  <2>3. \A p : ~Sending(p)
    BY <1>0 DEF Sending
  <2> QED
    BY <2>1, <2>2, <2>3 DEF Agreement, Whole
<1>7. WholeText'
  BY <1>0 DEF WholeText, Whole, Sending
<1> QED
  BY <1>1, <1>2, <1>3, <1>4, <1>5, <1>6, <1>7

(* Every step, and every stutter, preserves the inductive invariant.       *)
LEMMA StepInv == IInv /\ [Next]_vars => IInv'
<1> SUFFICES ASSUME IInv, [Next]_vars PROVE IInv'
  OBVIOUS
<1>1. CASE Restart \/ Boot \/ FileRead \/ LineChanges
  BY <1>1, RestartInv, NextStartupInv, StartMonitorInv, ListenInv, FileReadInv,
     LineChangesInv DEF Boot
<1>2. CASE ListenFails \/ \E c \in Clients : BrokenPipe(c)
  BY <1>2, DieInv DEF ListenFails, BrokenPipe
<1>3. CASE \E c \in Clients : Accept(c) \/ Leave(c) \/ Command(c)
  BY <1>3, AcceptInv, LeaveInv, CommandInv
<1>4. CASE \E t \in Threads : Acquire(t)
  BY <1>4, AcquireInv
<1>5. CASE \E t \in Threads : Driver(t)
  <2> PICK t \in Threads : Driver(t)
    BY <1>5
  <2>1. CASE Throw(t) \/ PositionZero(t)
    BY <2>1, DieInv DEF Throw, PositionZero
  <2>2. CASE Open(t) \/ Query(t) \/ RefusePosition(t) \/ Fini(t)
    BY <2>2, OpenInv, QueryInv, RefusePositionInv, FiniInv
  <2>3. CASE SetText(t) \/ ClearText(t) \/ SendPacket(t) \/ SendMask(t)
    BY <2>3, SetTextInv, ClearTextInv, SendPacketInv, SendMaskInv
  <2> QED
    BY <2>1, <2>2, <2>3 DEF Driver
<1>6. CASE UNCHANGED vars
  <2>1. SendInv' /\ Agreement' /\ WholeText'
    BY <1>6, Frame DEF vars
  <2>2. TypeOK' /\ RoleInv' /\ LockInv' /\ JobInv' /\ PortExclusive'
    BY <1>6 DEF IInv, vars, boot, context, sign, TypeOK, RoleInv, LockInv, JobInv,
                PortExclusive, InDriver
  <2> QED
    BY <2>1, <2>2 DEF IInv
<1> QED
  BY <1>1, <1>2, <1>3, <1>4, <1>5, <1>6 DEF Next

(* All the parts of the inductive invariant hold together, always: the     *)
(* roles of the threads, the mutex, the calls under way, and the sign.     *)
THEOREM Invariance == Spec => []IInv
<1> QED
  BY InitInv, StepInv, PTL DEF Spec

(* Every variable keeps its type.                                          *)
THEOREM TypeCorrect == Spec => []TypeOK
<1>1. IInv => TypeOK
  BY DEF IInv
<1> QED
  BY <1>1, Invariance, PTL

(* The serial port is used by one session at a time and is open exactly    *)
(* during a session (io_mutex, and main() before there are other threads). *)
THEOREM PortIsExclusive == Spec => []PortExclusive
<1>1. IInv => PortExclusive
  BY DEF IInv
<1> QED
  BY <1>1, Invariance, PTL

(* The daemon's record agrees with the sign wherever nothing was lost,     *)
(* through every fault of the line and every restart.                      *)
THEOREM SignAgrees == Spec => []Agreement
<1>1. IInv => Agreement
  BY DEF IInv
<1> QED
  BY <1>1, Invariance, PTL

(* No slot mixes two texts unless a packet was lost or a send cut short.   *)
THEOREM TextsAreWhole == Spec => []WholeText
<1>1. IInv => WholeText
  BY DEF IInv
<1> QED
  BY <1>1, Invariance, PTL

(***************************************************************************)
(* The process stays up when nothing outside can end it.                   *)
(***************************************************************************)
(* Neither the line, the socket nor a client can end the process, and no   *)
(* command names position 0; the sign may still be silent, late or stop    *)
(* the output.                                                             *)
Harmless ==
  /\ Faults \subseteq {"silent", "late", "stopped", "monitor"}
  /\ 0 \notin Positions

Up == line # "gone" /\ StaysUp

(* No call of a session throws: the port is open whenever one needs it, and *)
(* no position is outside the bitset.                                       *)
LEMMA NoDeath ==
  ASSUME IInv, Up, Harmless
  PROVE  /\ ~ListenFails /\ \A c \in Clients : ~BrokenPipe(c)
         /\ \A t \in Threads : ~Throw(t) /\ ~PositionZero(t)
<1> USE LMBdAssumption DEF IInv
<1>1. ASSUME NEW t \in Threads PROVE ~Throw(t) /\ ~PositionZero(t)
  <2>1. ~Throw(t)
    BY DEF Throw, Up, PortExclusive, InDriver
  <2>2. pc[t] = "set" => job[t] \in Jobs
    BY DEF JobInv
  <2>3. ~PositionZero(t)
    BY <2>2 DEF PositionZero, Jobs, Slots, Harmless
  <2> QED
    BY <2>1, <2>3
<1>2. ~ListenFails /\ \A c \in Clients : ~BrokenPipe(c)
  BY DEF ListenFails, BrokenPipe, Harmless
<1> QED
  BY <1>1, <1>2

(* Every step of a daemon that nothing outside ends keeps it up.           *)
LEMMA StepUp == ASSUME IInv, Up, Harmless, [Next]_vars PROVE Up'
<1> USE LMBdAssumption DEF Up, StaysUp, IInv, TypeOK, Threads, Goto
<1>1. CASE Restart \/ Boot \/ FileRead \/ UNCHANGED vars
  BY <1>1 DEF Restart, Boot, NextStartup, StartMonitor, Listen, FileRead, vars
<1>2. CASE LineChanges
  BY <1>2 DEF LineChanges, Harmless
<1>3. CASE \E c \in Clients : Accept(c) \/ Leave(c) \/ Command(c)
  BY <1>3 DEF Accept, Leave, Command
<1>4. CASE \E t \in Threads : Acquire(t) \/ Open(t) \/ Query(t) \/ RefusePosition(t)
  BY <1>4 DEF Acquire, Open, Query, RefusePosition
<1>5. CASE \E t \in Threads : SetText(t) \/ ClearText(t) \/ SendPacket(t) \/ SendMask(t) \/ Fini(t)
  BY <1>5 DEF SetText, ClearText, SendPacket, SendMask, Fini
<1> QED
  BY <1>1, <1>2, <1>3, <1>4, <1>5, NoDeath DEF Next, Driver

(* While nothing outside fails that ends a process, none of its own calls  *)
(* does: StaysUp for every number of threads, slots and packets.           *)
THEOREM DaemonStaysUp == ASSUME Harmless PROVE Spec => []StaysUp
<1>1. Init => Up
  BY LMBdAssumption DEF Init, Up, StaysUp, Threads
<1>2. IInv /\ Up /\ [Next]_vars => Up'
  BY StepUp
<1>3. Up => StaysUp
  BY DEF Up
<1> QED
  BY <1>1, <1>2, <1>3, Invariance, PTL DEF Spec

(* The step that ends the process has a cause, whatever may go wrong.      *)
LEMMA StepEnds == ASSUME IInv, StaysUp, ~StaysUp', [Next]_vars PROVE Cause
<1> USE LMBdAssumption DEF StaysUp, IInv, TypeOK, Threads, Goto
<1>1. CASE Restart \/ Boot \/ FileRead \/ LineChanges \/ UNCHANGED vars
  BY <1>1 DEF Restart, Boot, NextStartup, StartMonitor, Listen, FileRead, LineChanges, vars
<1>2. CASE \E c \in Clients : Accept(c) \/ Leave(c) \/ Command(c)
  BY <1>2 DEF Accept, Leave, Command
<1>3. CASE \E t \in Threads : Acquire(t) \/ Open(t) \/ Query(t) \/ RefusePosition(t)
  BY <1>3 DEF Acquire, Open, Query, RefusePosition
<1>4. CASE \E t \in Threads : SetText(t) \/ ClearText(t) \/ SendPacket(t) \/ SendMask(t) \/ Fini(t)
  BY <1>4 DEF SetText, ClearText, SendPacket, SendMask, Fini
<1>5. CASE ListenFails \/ \E c \in Clients : BrokenPipe(c)
  BY <1>5 DEF ListenFails, BrokenPipe, Cause
<1>6. CASE \E t \in Threads : Throw(t)
  BY <1>6 DEF Throw, PortExclusive, InDriver, Cause
<1>7. CASE \E t \in Threads : PositionZero(t)
  BY <1>7 DEF PositionZero, Cause
<1> QED
  BY <1>1, <1>2, <1>3, <1>4, <1>5, <1>6, <1>7 DEF Next, Driver

(* EndsForCause for every set of faults: a session that lost its reply,    *)
(* its packets or its mask leaves the port as the next one needs it.       *)
THEOREM DaemonEndsForCause == Spec => EndsForCause
<1>1. IInv /\ [Next]_vars => [StaysUp /\ ~StaysUp' => Cause]_vars
  BY StepEnds
<1> QED
  BY <1>1, Invariance, PTL DEF Spec, EndsForCause

(***************************************************************************)
(* How far a session has come.                                             *)
(***************************************************************************)
(* A session whose thread stays where it is has as much ahead of it.       *)
LEMMA NearerFrame ==
  ASSUME NEW u \in Threads, pc'[u] = pc[u], sent'[u] = sent[u] PROVE Nearer(u)
BY DEF Nearer

(* Each call of a session leaves it with less ahead of it.                 *)
LEMMA CallAdvances ==
  ASSUME IInv, NEW t \in Threads, Driver(t), pc'[t] # pc[t] \/ sent'[t] # sent[t]
  PROVE  Ahead(t)' < Ahead(t)
<1> USE LMBdAssumption DEF IInv, TypeOK, Goto, Ahead
<1>0. sent[t] \in 0..Packets /\ sent'[t] = sent'[t]
  OBVIOUS
<1>1. CASE Open(t) \/ Query(t) \/ RefusePosition(t)
  BY <1>1 DEF Open, Query, RefusePosition
<1>2. CASE SetText(t) \/ ClearText(t)
  <2>1. sent[t] = 0 /\ sent'[t] = 0
    BY <1>2 DEF SetText, ClearText, JobInv
  <2> QED
    BY <2>1, <1>2 DEF SetText, ClearText
<1>3. CASE SendPacket(t)
  <2>1. sent[t] < Packets
    BY <1>3 DEF SendPacket, SendInv
  <2>2. CASE sent[t] + 1 = Packets
    <3>1. pc'[t] = "mask" /\ pc[t] = "send"
      BY <1>3, <2>2 DEF SendPacket
    <3>2. Ahead(t)' = 2 /\ Ahead(t) = 3
      BY <3>1, <2>2, <1>0
    <3> QED
      BY <3>2
  <2>3. CASE sent[t] + 1 # Packets
    <3>1. pc'[t] = "send" /\ pc[t] = "send" /\ sent'[t] = sent[t] + 1
      BY <1>3, <2>3 DEF SendPacket
    <3> QED
      BY <3>1, <1>0
  <2> QED
    BY <2>2, <2>3
<1>4. CASE SendMask(t) \/ Fini(t)
  BY <1>4 DEF SendMask, Fini
<1>5. CASE Throw(t) \/ PositionZero(t)
  <2>1. pc'[t] \in {"down", "off"} /\ pc[t] \in {"open", "query", "set", "send", "mask"}
    BY <1>5 DEF Throw, PositionZero, Die
  <2> QED
    BY <2>1, <1>0
<1> QED
  BY <1>1, <1>2, <1>3, <1>4, <1>5 DEF Driver

(* The death of the process ends every session.                            *)
LEMMA DieAdvances ==
  ASSUME IInv, Die, NEW u \in Threads, InDriver(u) PROVE Nearer(u)
<1> USE LMBdAssumption DEF IInv, TypeOK
<1>1. pc'[u] \in {"down", "off"} /\ sent[u] \in 0..Packets
  BY DEF Die
<1>2. Ahead(u)' = 0
  BY <1>1 DEF Ahead
<1>3. pc[u] = "send" => sent[u] < Packets
  BY DEF SendInv
<1>4. Ahead(u) > 0
  BY <1>1, <1>3 DEF Ahead, InDriver
<1> QED
  BY <1>2, <1>4 DEF Nearer

(* A step of one thread leaves the sessions of the others where they are.  *)
LEMMA StepAdvances ==
  ASSUME IInv, [Next]_vars, NEW u \in Threads, InDriver(u) PROVE Nearer(u)
<1> USE LMBdAssumption DEF IInv, TypeOK, Threads, Goto
<1>1. CASE Restart \/ FileRead \/ LineChanges \/ UNCHANGED vars
  BY <1>1, NearerFrame DEF Restart, FileRead, LineChanges, vars, InDriver
<1>2. CASE Boot
  BY <1>2, NearerFrame DEF Boot, NextStartup, StartMonitor, Listen, InDriver, RoleInv, Others
<1>3. CASE \E c \in Clients : Accept(c) \/ Leave(c) \/ Command(c)
  BY <1>3, NearerFrame DEF Accept, Leave, Command, InDriver
<1>4. CASE \E t \in Threads : Acquire(t)
  BY <1>4, NearerFrame DEF Acquire, InDriver
<1>5. CASE ListenFails \/ \E c \in Clients : BrokenPipe(c)
  BY <1>5, DieAdvances DEF ListenFails, BrokenPipe
<1>6. ASSUME NEW t \in Threads, Driver(t) PROVE Nearer(u)
  <2>1. CASE t = u
    BY <1>6, <2>1, CallAdvances DEF Nearer
  <2>2. CASE Throw(t) \/ PositionZero(t)
    BY <2>2, DieAdvances DEF Throw, PositionZero
  <2>3. CASE t # u /\ ~Throw(t) /\ ~PositionZero(t)
    <3>1. pc'[u] = pc[u] /\ sent'[u] = sent[u]
      BY <1>6, <2>3
         DEF Driver, Open, Query, RefusePosition, SetText, ClearText, SendPacket, SendMask, Fini
    <3> QED
      BY <3>1, NearerFrame
  <2> QED
    BY <2>1, <2>2, <2>3
<1> QED
  BY <1>1, <1>2, <1>3, <1>4, <1>5, <1>6 DEF Next

(* SessionAdvances for every number of packets and of threads: the part of *)
(* SessionEnds that needs no fairness.                                     *)
THEOREM SessionsAdvance == Spec => SessionAdvances
<1> DEFINE Onward == \A t \in Threads : InDriver(t) => Nearer(t)
<1>1. IInv /\ [Next]_vars => [Onward]_vars
  BY StepAdvances
<1> QED
  BY <1>1, Invariance, PTL DEF Spec, SessionAdvances

(* What a session has ahead of it is a number of calls.                     *)
Counted == \A t \in Threads : Ahead(t) \in Nat

LEMMA AheadCounts == IInv => Counted
<1> SUFFICES ASSUME IInv, NEW t \in Threads PROVE Ahead(t) \in Nat
  BY DEF Counted
<1>1. sent[t] \in Nat /\ sent[t] <= Packets /\ Packets \in Nat
  BY LMBdAssumption DEF IInv, TypeOK
<1> QED
  BY <1>1 DEF Ahead

LEMMA AheadCountsNext == IInv' => Counted'
BY AheadCounts, PTL

(* main()'s own sessions bring it nearer to its accept loop.               *)
LEMMA SessionBoots ==
  ASSUME IInv, Driver(Main), pc'[Main] # pc[Main] \/ sent'[Main] # sent[Main], pc'[Main] # "down"
  PROVE  bootSlot' = bootSlot /\ Waits' < Waits
<1> USE LMBdAssumption DEF IInv, TypeOK, Threads, Goto
<1>1. ~Throw(Main) /\ ~PositionZero(Main)
  BY DEF Throw, PositionZero, Die
<1>2. InDriver(Main) /\ bootSlot' = bootSlot
  BY <1>1 DEF Driver, InDriver, boot, Open, Query, RefusePosition, SetText, ClearText, SendPacket,
              SendMask, Fini
<1>3. Ahead(Main)' < Ahead(Main)
  BY CallAdvances
<1>4. Ahead(Main) \in Nat /\ Ahead(Main)' \in Nat
  <2>1. Next
    BY DEF Next
  <2>2. Counted /\ Counted'
    BY <2>1, StepInv, AheadCounts, AheadCountsNext
  <2> QED
    BY <2>2 DEF Counted
<1>5. pc'[Main] \in {"query", "set", "send", "mask", "fini", "loop"}
  BY <1>1 DEF Driver, Open, Query, RefusePosition, SetText, ClearText, SendPacket, SendMask, Fini
<1>6. Waits = Ahead(Main) + 3
  BY <1>2 DEF Waits, InDriver
<1>7. Waits' = 3 \/ Waits' = Ahead(Main)' + 3
  BY <1>5 DEF Waits
<1> QED
  BY <1>2, <1>3, <1>4, <1>6, <1>7

(* A new process begins with the first slot.                                *)
FromTheFirst == pc[Main] = "down" => bootSlot = 1

LEMMA StepFromTheFirst == ASSUME IInv, FromTheFirst, [Next]_vars PROVE FromTheFirst'
<1> USE LMBdAssumption DEF FromTheFirst, IInv, TypeOK, Threads, Goto, boot
<1>1. CASE Restart \/ Boot \/ FileRead \/ LineChanges \/ UNCHANGED vars
  BY <1>1 DEF Restart, Boot, NextStartup, StartMonitor, Listen, FileRead, LineChanges, vars
<1>2. CASE \E c \in Clients : Accept(c) \/ Leave(c) \/ Command(c)
  BY <1>2 DEF Accept, Leave, Command
<1>3. CASE \E t \in Threads : Acquire(t) \/ Open(t) \/ Query(t) \/ RefusePosition(t)
  BY <1>3 DEF Acquire, Open, Query, RefusePosition
<1>4. CASE \E t \in Threads : SetText(t) \/ ClearText(t) \/ SendPacket(t) \/ SendMask(t) \/ Fini(t)
  BY <1>4 DEF SetText, ClearText, SendPacket, SendMask, Fini
<1>5. CASE ListenFails \/ (\E c \in Clients : BrokenPipe(c)) \/ \E t \in Threads : Throw(t) \/ PositionZero(t)
  <2>1. Die
    BY <1>5 DEF ListenFails, BrokenPipe, Throw, PositionZero
  <2> QED
    BY <2>1 DEF Die
<1> QED
  BY <1>1, <1>2, <1>3, <1>4, <1>5 DEF Next, Driver

(* BootAdvances for every number of slots and of packets: the part of      *)
(* BootEnds that needs no fairness.                                        *)
THEOREM BootsAdvance == Spec => BootAdvances
<1> DEFINE Onward == \/ UNCHANGED <<pc[Main], sent[Main], bootSlot>>
                     \/ bootSlot' > bootSlot
                     \/ bootSlot' = bootSlot /\ Waits' < Waits
                     \/ pc'[Main] = "down"
                     \/ pc[Main] = "down" /\ pc'[Main] = "open" /\ bootSlot' = 1
<1>1. IInv /\ FromTheFirst /\ [Next]_vars => [Onward]_vars
  <2> SUFFICES ASSUME IInv, FromTheFirst, Next PROVE Onward
    OBVIOUS
  <2> USE LMBdAssumption DEF IInv, TypeOK, Threads, Goto, boot
  <2>1. CASE Restart
    BY <2>1 DEF Restart, FromTheFirst
  <2>2. CASE NextStartup
    BY <2>2 DEF NextStartup
  <2>3. CASE StartMonitor \/ Listen
    BY <2>3 DEF StartMonitor, Listen, Waits
  <2>4. CASE ListenFails \/ (\E c \in Clients : BrokenPipe(c)) \/ \E t \in Threads : Throw(t) \/ PositionZero(t)
    <3>1. Die
      BY <2>4 DEF ListenFails, BrokenPipe, Throw, PositionZero
    <3> QED
      BY <3>1 DEF Die
  <2>5. CASE FileRead \/ LineChanges
    BY <2>5 DEF FileRead, LineChanges
  <2>6. CASE \E c \in Clients : Accept(c) \/ Leave(c) \/ Command(c)
    BY <2>6 DEF Accept, Leave, Command
  <2>7. CASE \E t \in Threads : Acquire(t)
    BY <2>7 DEF Acquire, RoleInv
  <2>8. CASE Driver(Main)
    BY <2>8, SessionBoots DEF Driver, Open, Query, RefusePosition, SetText, ClearText, SendPacket, SendMask, Fini, Throw, PositionZero, Die
  <2>9. ASSUME NEW t \in Threads, t # Main, Driver(t), ~Throw(t), ~PositionZero(t)
        PROVE  UNCHANGED <<pc[Main], sent[Main], bootSlot>>
    BY <2>9 DEF Driver, Open, Query, RefusePosition, SetText, ClearText, SendPacket, SendMask, Fini
  <2> QED
    BY <2>1, <2>2, <2>3, <2>4, <2>5, <2>6, <2>7, <2>8, <2>9 DEF Next, Boot
<1>2. Init => FromTheFirst
  BY LMBdAssumption DEF Init, FromTheFirst, Threads
<1>3. IInv /\ FromTheFirst /\ [Next]_vars => FromTheFirst'
  BY StepFromTheFirst
<1> QED
  BY <1>1, <1>2, <1>3, Invariance, PTL DEF Spec, BootAdvances

(***************************************************************************)
(* The refinement.                                                         *)
(***************************************************************************)
(* The thread that is between Begin and Finish of MessageBoard.            *)
Rewrites(t) == pc[t] \in {"send", "mask"}

(* Only one thread rewrites a slot at a time.                              *)
LEMMA OneRewrites == ASSUME IInv, NEW t \in Threads, NEW u \in Threads, Rewrites(t), Rewrites(u)
                     PROVE  t = u
BY DEF IInv, PortExclusive, InDriver, Rewrites

(* A blank sign and an empty context agree.                                *)
LEMMA InitMirror == BlankInit => Mirror
BY DEF BlankInit, Init, Mirror, StaysUp, Threads

(* A step that leaves the context, the sign's mask and every rewriting     *)
(* thread alone keeps the mirror.                                          *)
LEMMA MirrorFrame ==
  ASSUME Mirror, UNCHANGED <<context, mask, missed, line>>, StaysUp',
         \A t \in Threads : Rewrites(t)' <=> Rewrites(t),
         \A t \in Threads : Rewrites(t) => job'[t] = job[t],
         \A t \in Threads : pc'[t] = "send" => pc[t] = "send",
         \A t \in Threads : pc'[t] \in {"set", "send", "mask"} => greeted'
  PROVE  Mirror'
<1>1. \A p : Rewriting(p)' <=> Rewriting(p)
  BY DEF Rewriting, Rewrites
<1> QED
  BY <1>1 DEF Mirror, Rewrites, context

(* A working line is one of the harmless ones.                             *)
LEMMA WorksHarmless == Works => Harmless
BY DEF Works, Harmless

(* Every step on a working line keeps the sign the mirror of the context.  *)
LEMMA StepMirror == ASSUME IInv, Mirror, Works, [Next]_vars PROVE Mirror'
<1>0. StaysUp' /\ line' # "gone"
  BY StepUp, WorksHarmless DEF Mirror, Up
<1> USE LMBdAssumption DEF IInv, TypeOK, Threads, Goto, Rewrites
<1>1. CASE Restart \/ Boot \/ FileRead \/ LineChanges \/ UNCHANGED vars
  <2>1. CASE Restart \/ LineChanges
    BY <2>1 DEF Restart, LineChanges, Mirror, StaysUp, Works
  <2>2. CASE NextStartup
    BY <1>0, <2>2, MirrorFrame DEF NextStartup, sign, Mirror, context
  <2>3. CASE StartMonitor
    BY <1>0, <2>3, MirrorFrame DEF StartMonitor, sign, Mirror, RoleInv, Others
  <2>4. CASE Listen \/ FileRead \/ UNCHANGED vars
    BY <1>0, <2>4, MirrorFrame DEF Listen, FileRead, sign, Mirror, vars, context
  <2> QED
    BY <1>1, <2>1, <2>2, <2>3, <2>4 DEF Boot
<1>3. CASE \E c \in Clients : Accept(c) \/ Leave(c) \/ Command(c)
  BY <1>0, <1>3, MirrorFrame DEF Accept, Leave, Command, sign, Mirror
<1>4. CASE \E t \in Threads : Acquire(t) \/ Open(t) \/ Query(t) \/ RefusePosition(t)
  <2>1. PICK t \in Threads : Acquire(t) \/ Open(t) \/ Query(t) \/ RefusePosition(t)
    BY <1>4
  <2>2. CASE Acquire(t) \/ Open(t) \/ RefusePosition(t)
    BY <1>0, <2>2, MirrorFrame DEF Acquire, Open, RefusePosition, sign, Mirror
  <2>3. CASE Query(t)
    BY <1>0, <2>3, MirrorFrame DEF Query, sign, Mirror, Works
  <2> QED
    BY <2>1, <2>2, <2>3
<1>5. ASSUME NEW t \in Threads, SetText(t) \/ ClearText(t) PROVE Mirror'
  <2>1. job[t] \in Jobs /\ \A u \in Threads : pc[u] \notin {"send", "mask"}
    BY <1>5 DEF SetText, ClearText, JobInv, PortExclusive, InDriver
  <2>2. /\ job' = job /\ job[t].pos \in Slots
        /\ line' = line /\ greeted' = greeted /\ mask' = mask /\ missed' = {}
        /\ displayedmsgs'[job[t].pos] = job[t].msg
        /\ job[t].pos \in msgdisplay' <=> job[t].msg # Empty
        /\ \A p \in Slots \ {job[t].pos} : p \in msgdisplay' <=> p \in msgdisplay
        /\ pc'[t] \in {"send", "mask"} /\ \A u \in Threads \ {t} : pc'[u] = pc[u]
        /\ pc'[t] = "send" => job[t].msg # Empty
    BY <1>5 DEF SetText, ClearText, sign, Mirror
  <2>3. \A p \in Slots : Rewriting(p)' <=> p = job[t].pos
    BY <2>1, <2>2 DEF Rewriting
  <2>4. \A p \in Slots : ~Rewriting(p)
    BY <2>1 DEF Rewriting
  <2>5. greeted
    BY <1>5 DEF Mirror, SetText, ClearText
  <2> QED
    BY <1>0, <2>1, <2>2, <2>3, <2>4, <2>5 DEF Mirror
<1>6. ASSUME NEW t \in Threads, SendPacket(t) PROVE Mirror'
  <2>1. /\ job' = job /\ UNCHANGED <<context, mask, missed, line, greeted>>
        /\ pc'[t] \in {"send", "mask"} /\ \A u \in Threads \ {t} : pc'[u] = pc[u]
    BY <1>6 DEF SendPacket, Unheard, Mirror
  <2>2. pc[t] = "send"
    BY <1>6 DEF SendPacket
  <2> QED
    BY <1>0, <2>1, <2>2, MirrorFrame DEF Mirror
<1>7. ASSUME NEW t \in Threads, SendMask(t) PROVE Mirror'
  <2>1. /\ job' = job /\ UNCHANGED <<context, missed, line, greeted>>
        /\ mask' = msgdisplay'
    BY <1>7 DEF SendMask, Unheard, Mirror, context
  <2>2. pc[t] = "mask" /\ pc'[t] = "fini" /\ \A u \in Threads \ {t} : pc'[u] = pc[u]
    BY <1>7 DEF SendMask
  <2> QED
    BY <1>0, <2>1, <2>2 DEF Mirror, context
<1>8. ASSUME NEW t \in Threads, Fini(t) PROVE Mirror'
  <2>1. \A u \in Threads \ {t} : pc[u] \notin {"set", "send", "mask"} /\ pc'[u] = pc[u] /\ job'[u] = job[u]
    BY <1>8 DEF Fini, PortExclusive, InDriver
  <2>2. pc[t] = "fini" /\ pc'[t] \in {"loop", "idle"} /\ UNCHANGED <<context, mask, missed, line>>
    BY <1>8 DEF Fini, sign
  <2> QED
    BY <1>0, <2>1, <2>2, MirrorFrame
<1> QED
  <2>1. Up
    BY DEF Up, Mirror
  <2> QED
    BY <2>1, <1>1, <1>3, <1>4, <1>5, <1>6, <1>7, <1>8, NoDeath, WorksHarmless DEF Next, Driver

(* A page that holds one text whole holds no other.                        *)
LEMMA WholeInjective ==
  ASSUME NEW m, NEW n, Whole(m) = Whole(n) PROVE m = n
<1>1. 1 \in 1..Packets
  BY LMBdAssumption
<1>2. Whole(m)[1] = m /\ Whole(n)[1] = n
  BY <1>1 DEF Whole
<1> QED
  BY <1>2

(* What MessageBoard sees of a state: the context, the slot that is being  *)
(* rewritten, and who rewrites it.                                         *)
Shown(p) ==
  IF Rewriting(p) THEN Changing ELSE IF p \in msgdisplay THEN displayedmsgs[p] ELSE Empty

Seen ==
  /\ \A p \in Slots : Displayed(p) = Shown(p)
  /\ \A t \in Threads : Rewrites(t) => Writer = t
  /\ (\A t \in Threads : ~Rewrites(t)) => Writer = Nobody

(* The state functions of the refinement mapping, read off the context.    *)
LEMMA MirrorIsSeen == IInv /\ Mirror => Seen
<1> SUFFICES ASSUME IInv, Mirror PROVE Seen
  OBVIOUS
<1> USE LMBdAssumption DEF IInv
<1>1. ASSUME NEW p \in Slots PROVE Displayed(p) = Shown(p)
  <2>1. CASE Rewriting(p)
    BY <2>1 DEF Displayed, Shown
  <2>2. CASE ~Rewriting(p) /\ p \notin msgdisplay
    BY <2>2 DEF Displayed, Shown, Mirror
  <2>3. CASE ~Rewriting(p) /\ p \in msgdisplay
    <3>1. ~Sending(p) /\ p \notin missed /\ displayedmsgs[p] \in Contents /\ p \in mask
      BY <2>3 DEF Sending, Rewriting, Mirror, TypeOK
    <3>2. page[p] = Whole(displayedmsgs[p])
      BY <2>3, <3>1 DEF Agreement
    <3>3. \A m \in Contents : page[p] = Whole(m) => m = displayedmsgs[p]
      BY <3>2, WholeInjective
    <3>4. (CHOOSE m \in Contents : page[p] = Whole(m)) = displayedmsgs[p]
      BY <3>1, <3>2, <3>3
    <3>5. Displayed(p) = CHOOSE m \in Contents : page[p] = Whole(m)
      BY <2>3, <3>1, <3>2 DEF Displayed
    <3> QED
      BY <2>3, <3>4, <3>5 DEF Shown
  <2> QED
    BY <2>1, <2>2, <2>3
<1>2. ASSUME NEW t \in Threads, Rewrites(t) PROVE Writer = t
  <2>1. \A u \in Threads : Rewrites(u) <=> u = t
    BY <1>2, OneRewrites
  <2> QED
    BY <2>1, <1>2 DEF Writer, Rewrites
<1>3. (\A t \in Threads : ~Rewrites(t)) => Writer = Nobody
  BY DEF Writer, Rewrites
<1> QED
  BY <1>1, <1>2, <1>3 DEF Seen

(* The same of the successor state.                                        *)
LEMMA MirrorIsSeenNext == IInv' /\ Mirror' => Seen'
BY MirrorIsSeen, PTL

(* The initial states are initial states of MessageBoard.                  *)
LEMMA InitBoard == BlankInit => Board!Init
<1> SUFFICES ASSUME BlankInit PROVE Board!Init
  OBVIOUS
<1>1. \A p \in Slots : ~Rewriting(p) /\ p \notin mask
  BY DEF BlankInit, Init, Rewriting
<1>2. \A p \in Slots : Displayed(p) = Empty
  BY <1>1 DEF Displayed
<1>3. \A t \in Threads : Asked(t) = Quiet
  BY DEF BlankInit, Init, Asked
<1>4. Writer = Nobody
  BY DEF BlankInit, Init, Writer
<1> QED
  BY <1>2, <1>3, <1>4 DEF Board!Init

(* A step that changes no text and lets nobody begin or end a rewrite      *)
(* shows MessageBoard the same slots and the same writer.                  *)
LEMMA SameSlots ==
  ASSUME Seen, Seen', UNCHANGED context,
         \A t \in Threads : Rewrites(t)' <=> Rewrites(t),
         \A t \in Threads : Rewrites(t) => job'[t] = job[t]
  PROVE  /\ [p \in Slots |-> Displayed(p)]' = [p \in Slots |-> Displayed(p)]
         /\ Writer' = Writer
<1>1. \A p : Rewriting(p)' <=> Rewriting(p)
  BY DEF Rewriting, Rewrites
<1>2. \A p \in Slots : Displayed(p)' = Displayed(p)
  BY <1>1 DEF Seen, Shown, context
<1>3. Writer' = Writer
  BY DEF Seen
<1> QED
  BY <1>2, <1>3

(* Steps inside a call, and steps without one, are invisible.              *)
LEMMA Stutters ==
  ASSUME Seen, Seen', UNCHANGED context,
         \A t \in Threads : Rewrites(t)' <=> Rewrites(t),
         \A t \in Threads : Rewrites(t) => job'[t] = job[t],
         \A t \in Threads : Asked(t)' = Asked(t)
  PROVE  UNCHANGED Board!vars
<1>1. [t \in Threads |-> Asked(t)]' = [t \in Threads |-> Asked(t)]
  OBVIOUS
<1> QED
  BY <1>1, SameSlots DEF Board!vars

(* A request is made. *)
LEMMA AskStep ==
  ASSUME IInv, Seen, Seen', NEW t \in Threads,
         UNCHANGED context, \A u \in Threads \ {t} : pc'[u] = pc[u] /\ job'[u] = job[u],
         pc[t] \in {"idle", "loop"}, pc'[t] \in {"want", "open"}, job'[t] \in Jobs
  PROVE  Board!Next
<1>1. /\ [p \in Slots |-> Displayed(p)]' = [p \in Slots |-> Displayed(p)]
      /\ Writer' = Writer
  BY SameSlots DEF Rewrites
<1>2. Asked(t) = Quiet /\ Asked(t)' = job'[t]
  BY LMBdAssumption DEF Asked
<1>3. \A u \in Threads \ {t} : Asked(u)' = Asked(u)
  BY DEF Asked
<1>4. Jobs = Board!Requests
  BY DEF Jobs, Board!Requests, Contents, Board!Contents
<1>5. [u \in Threads |-> Asked(u)]' = [[u \in Threads |-> Asked(u)] EXCEPT ![t] = job'[t]]
  BY <1>2, <1>3
<1>6. Board!Ask(t)
  BY <1>1, <1>2, <1>4, <1>5 DEF Board!Ask
<1> QED
  BY <1>6 DEF Board!Next

(* A call that has taken effect returns, or the first session of main()   *)
(* ends, which made none.                                                  *)
LEMMA FiniStep ==
  ASSUME IInv, Seen, Seen', NEW t \in Threads, Fini(t)
  PROVE  Board!Next \/ UNCHANGED Board!vars
<1> USE LMBdAssumption, BoardAssumption DEF IInv, TypeOK, Goto, Fini
<1>1. /\ UNCHANGED context /\ pc[t] = "fini" /\ pc'[t] \in {"loop", "idle"}
      /\ \A u \in Threads \ {t} : pc'[u] = pc[u] /\ job'[u] = job[u]
      /\ job'[t] = NoJob
  OBVIOUS
<1>2. /\ [p \in Slots |-> Displayed(p)]' = [p \in Slots |-> Displayed(p)]
      /\ Writer' = Writer
  BY <1>1, SameSlots DEF Rewrites
<1>3. Asked(t)' = Quiet /\ \A u \in Threads \ {t} : Asked(u)' = Asked(u)
  BY <1>1 DEF Asked
<1>4. CASE job[t] # NoJob
  <2>1. Asked(t) = Returned
    BY <1>1, <1>4 DEF Asked
  <2>2. [u \in Threads |-> Asked(u)]' = [[u \in Threads |-> Asked(u)] EXCEPT ![t] = Quiet]
    BY <1>3
  <2>3. Board!Return(t)
    BY <1>2, <2>1, <2>2 DEF Board!Return
  <2> QED
    BY <2>3 DEF Board!Next
<1>5. CASE job[t] = NoJob
  <2>1. Asked(t) = Quiet
    BY <1>5 DEF Asked
  <2>2. [u \in Threads |-> Asked(u)]' = [u \in Threads |-> Asked(u)]
    BY <2>1, <1>3
  <2> QED
    BY <1>2, <2>2 DEF Board!vars
<1> QED
  BY <1>4, <1>5

(* setMessage refuses a position the sign does not have.                   *)
LEMMA RefuseStep ==
  ASSUME IInv, Seen, Seen', NEW t \in Threads, RefusePosition(t)
  PROVE  Board!Next
<1> USE LMBdAssumption DEF IInv, TypeOK, Goto, RefusePosition
<1>1. /\ UNCHANGED <<context, job>> /\ pc[t] = "set" /\ pc'[t] = "fini"
      /\ \A u \in Threads \ {t} : pc'[u] = pc[u]
      /\ job[t] \in Jobs /\ job[t].pos \notin Slots
  BY DEF JobInv, Jobs, Slots
<1>2. /\ [p \in Slots |-> Displayed(p)]' = [p \in Slots |-> Displayed(p)]
      /\ Writer' = Writer
  BY <1>1, SameSlots DEF Rewrites
<1>3. Asked(t) = job[t] /\ Asked(t)' = Returned /\ \A u \in Threads \ {t} : Asked(u)' = Asked(u)
  BY <1>1 DEF Asked
<1>4. [u \in Threads |-> Asked(u)]' = [[u \in Threads |-> Asked(u)] EXCEPT ![t] = Returned]
  BY <1>3
<1>5. Jobs = Board!Requests
  BY DEF Jobs, Board!Requests, Contents, Board!Contents
<1>6. Board!Refuse(t)
  BY <1>1, <1>2, <1>3, <1>4, <1>5 DEF Board!Refuse
<1> QED
  BY <1>6 DEF Board!Next

(* setMessage changes the context: from here on the slot is being rewritten. *)
LEMMA BeginStep ==
  ASSUME IInv, Seen, Seen', NEW t \in Threads, SetText(t) \/ ClearText(t)
  PROVE  Board!Next
<1> USE LMBdAssumption DEF IInv, TypeOK, Goto
<1>0. PICK q : q = job[t].pos
  OBVIOUS
<1>1. /\ job' = job /\ pc[t] = "set" /\ pc'[t] \in {"send", "mask"}
      /\ \A u \in Threads \ {t} : pc'[u] = pc[u]
      /\ job[t] \in Jobs /\ q \in Slots
      /\ \A p \in Slots \ {q} : /\ displayedmsgs'[p] = displayedmsgs[p]
                                /\ p \in msgdisplay' <=> p \in msgdisplay
  BY <1>0 DEF JobInv, SetText, ClearText
<1>2. \A u \in Threads : ~Rewrites(u)
  BY <1>1 DEF PortExclusive, InDriver, Rewrites
<1>3. Rewrites(t)' /\ \A u \in Threads \ {t} : ~Rewrites(u)'
  BY <1>1, <1>2 DEF Rewrites
<1>4. \A p \in Slots : ~Rewriting(p) /\ (Rewriting(p)' <=> p = q)
  BY <1>0, <1>1, <1>2, <1>3 DEF Rewriting, Rewrites
<1>5. \A p \in Slots : Displayed(p)' = IF p = q THEN Changing ELSE Displayed(p)
  BY <1>0, <1>1, <1>4 DEF Seen, Shown
<1>6. [p \in Slots |-> Displayed(p)]' = [[p \in Slots |-> Displayed(p)] EXCEPT ![q] = Changing]
  BY <1>5
<1>7. Writer = Nobody /\ Writer' = t
  BY <1>2, <1>3 DEF Seen
<1>8. Asked(t) = job[t] /\ \A u \in Threads : Asked(u)' = Asked(u)
  BY <1>1 DEF Asked
<1>9. Jobs = Board!Requests
  BY DEF Jobs, Board!Requests, Contents, Board!Contents
<1>10. Board!Begin(t)
  BY <1>0, <1>1, <1>6, <1>7, <1>8, <1>9 DEF Board!Begin
<1> QED
  BY <1>10 DEF Board!Next

(* The mask arrives: the slot shows the new text, or nothing any more.     *)
LEMMA FinishStep ==
  ASSUME IInv, Mirror, Seen, Seen', NEW t \in Threads, SendMask(t)
  PROVE  Board!Next
<1> USE LMBdAssumption DEF IInv, TypeOK, Goto
<1>0. PICK q : q = job[t].pos
  OBVIOUS
<1>1. /\ job' = job /\ pc[t] = "mask" /\ pc'[t] = "fini"
      /\ \A u \in Threads \ {t} : pc'[u] = pc[u]
      /\ job[t] \in Jobs /\ q \in Slots
      /\ UNCHANGED context
  BY <1>0 DEF JobInv, SendMask
<1>2. Rewrites(t) /\ \A u \in Threads \ {t} : ~Rewrites(u)
  BY <1>1, OneRewrites DEF Rewrites
<1>3. \A u \in Threads : ~Rewrites(u)'
  BY <1>1, <1>2 DEF Rewrites
<1>4. \A p \in Slots : ~Rewriting(p)' /\ (Rewriting(p) <=> p = q)
  BY <1>0, <1>1, <1>2, <1>3 DEF Rewriting, Rewrites
<1>5. \A p \in Slots : Displayed(p)' = IF p = q THEN job[t].msg ELSE Displayed(p)
  BY <1>0, <1>1, <1>4 DEF Seen, Shown, Mirror, context
<1>6. [p \in Slots |-> Displayed(p)]' = [[p \in Slots |-> Displayed(p)] EXCEPT ![q] = job[t].msg]
  BY <1>5
<1>7. Writer = t /\ Writer' = Nobody
  BY <1>2, <1>3 DEF Seen
<1>8. Asked(t) = job[t] /\ Asked(t)' = Returned /\ \A u \in Threads \ {t} : Asked(u)' = Asked(u)
  BY <1>1 DEF Asked
<1>9. [u \in Threads |-> Asked(u)]' = [[u \in Threads |-> Asked(u)] EXCEPT ![t] = Returned]
  BY <1>8
<1>10. Board!Finish(t)
  BY <1>0, <1>6, <1>7, <1>8, <1>9 DEF Board!Finish
<1> QED
  BY <1>10 DEF Board!Next

(* Every step is one of MessageBoard or invisible to it.                   *)
LEMMA StepBoard ==
  ASSUME IInv, Mirror, Seen, Seen', Works, [Next]_vars
  PROVE  Board!Next \/ UNCHANGED Board!vars
<1> USE LMBdAssumption DEF IInv, TypeOK, Goto
<1>1. CASE NextStartup
  <2>1. CASE startupmsg[bootSlot] # Empty
    <3>1. [pos |-> bootSlot, msg |-> startupmsg[bootSlot]] \in Jobs
      BY <1>1 DEF NextStartup, Jobs, Slots
    <3>2. Main \in Threads
      BY DEF Threads
    <3> QED
      BY <1>1, <2>1, <3>1, <3>2, AskStep DEF NextStartup
  <2>2. CASE startupmsg[bootSlot] = Empty
    BY <1>1, <2>2, Stutters DEF NextStartup, Rewrites, Asked
  <2> QED
    BY <2>1, <2>2
<1>2. CASE FileRead \/ \E c \in Clients : Command(c)
  <2>1. PICK t \in Threads : /\ t \in {Monitor} \cup Clients /\ Goto(t, "idle", "want") /\ UNCHANGED context
                             /\ \E p \in Positions \cup Slots, m \in Contents :
                                  job' = [job EXCEPT ![t] = [pos |-> p, msg |-> m]]
    BY <1>2 DEF FileRead, Command, Threads
  <2>2. job'[t] \in Jobs
    BY <2>1 DEF Jobs
  <2> QED
    BY <2>1, <2>2, AskStep
<1>3. CASE StartMonitor
  BY <1>3, Stutters DEF StartMonitor, Rewrites, Asked, RoleInv, Others, Threads, context
<1>4. CASE Listen \/ LineChanges \/ Restart \/ UNCHANGED vars
  BY <1>4, Stutters DEF Listen, LineChanges, Restart, Rewrites, Asked, Mirror, StaysUp, vars, Threads
<1>5. CASE \E c \in Clients : Accept(c) \/ Leave(c)
  BY <1>5, Stutters DEF Accept, Leave, Rewrites, Asked, Threads
<1>6. ASSUME NEW t \in Threads, Acquire(t) \/ Open(t) PROVE UNCHANGED Board!vars
  BY <1>6, Stutters DEF Acquire, Open, Rewrites, Asked
<1>7. ASSUME NEW t \in Threads, Query(t) PROVE UNCHANGED Board!vars
  BY <1>7, Stutters DEF Query, Rewrites, Asked
<1>8. ASSUME NEW t \in Threads, SendPacket(t) PROVE UNCHANGED Board!vars
  BY <1>8, Stutters DEF SendPacket, Rewrites, Asked
<1>9. Up
  BY DEF Up, Mirror
<1> QED
  BY <1>1, <1>2, <1>3, <1>4, <1>5, <1>6, <1>7, <1>8, <1>9, RefuseStep, BeginStep, FinishStep,
     FiniStep, NoDeath, WorksHarmless DEF Next, Driver, Boot

(* Every behaviour of the daemon on a blank sign and a working line is one *)
(* of MessageBoard: requests replace slots one at a time, each at one      *)
(* instant between its call and its return.                                *)
THEOREM DaemonImplementsBoard == ASSUME Works PROVE BlankSpec => ImplementsBoard
<1>1. BlankInit => IInv /\ Mirror /\ Board!Init
  BY InitInv, InitMirror, InitBoard DEF BlankInit
<1>2. IInv /\ Mirror /\ [Next]_vars => IInv' /\ Mirror'
  BY StepInv, StepMirror
<1>3. IInv /\ Mirror => Seen
  BY MirrorIsSeen
<1>4. IInv /\ Mirror /\ Seen /\ Seen' /\ [Next]_vars => [Board!Next]_Board!vars
  BY StepBoard
<1> QED
  BY <1>1, <1>2, <1>3, <1>4, PTL DEF BlankSpec, ImplementsBoard, Board!Spec
=============================================================================
