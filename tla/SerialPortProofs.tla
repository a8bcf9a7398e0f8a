-------------------------- MODULE SerialPortProofs --------------------------
(***************************************************************************)
(* Safety of the serial library for any number of threads, calls of any    *)
(* size, and any timeouts.                                                 *)
(***************************************************************************)
EXTENDS SerialPort, SequenceTheorems, TLAPS

ReadPcs  == {"begin", "loop", "select", "pause", "take"}
WritePcs == {"wbegin", "wloop", "wselect", "put"}

(* Where a thread is says which call it is in and which mutexes it has;    *)
(* only the owner opens and configures.                                    *)
Holds(t, kinds, reads, writes) ==
  /\ call[t].kind \in kinds
  /\ reads => read_mutex = t
  /\ writes => write_mutex = t

LockOf(t) ==
  /\ call[t].kind \in ReadCalls => call[t].size >= 1
  /\ pc[t] = "rlock" => Holds(t, ReadCalls \cup {"flush", "flushInput", "setPort"}, FALSE, FALSE)
  /\ pc[t] = "wlock" => \/ Holds(t, {"write", "flushOutput"}, FALSE, FALSE)
                        \/ Holds(t, {"flush", "setPort"}, TRUE, FALSE)
  /\ pc[t] \in ReadPcs => Holds(t, ReadCalls, TRUE, FALSE)
  /\ pc[t] \in WritePcs => Holds(t, {"write"}, FALSE, TRUE)
  /\ pc[t] = "drain" => Holds(t, {"flush"}, TRUE, TRUE)
  /\ pc[t] = "discard" => \/ Holds(t, {"flushInput"}, TRUE, FALSE)
                          \/ Holds(t, {"flushOutput"}, FALSE, TRUE)
  /\ pc[t] = "setport" => Holds(t, {"setPort"}, TRUE, TRUE)
  /\ pc[t] = "reopen" => Holds(t, {"open"}, FALSE, FALSE) \/ Holds(t, {"setPort"}, TRUE, TRUE)
  /\ pc[t] = "configure" => \/ Holds(t, {"open", "set"}, FALSE, FALSE)
                            \/ Holds(t, {"setPort"}, TRUE, TRUE)
  /\ pc[t] = "ioctl" => Holds(t, {"signal", "waitForChange"}, FALSE, FALSE)
  /\ pc[t] # "idle" /\ call[t].kind \in OwnCalls => t = Owner
  /\ pc[t] # "idle" /\ call[t].kind = "open" => pc[t] \in {"reopen", "configure"}
  /\ pc[t] \in {"setport", "reopen", "configure"} => t = Owner
  /\ pc[t] \notin ReadPcs => got[t] = <<>> /\ base[t] = 0
  /\ pc[t] \notin WritePcs => written[t] = 0
LockInv == \A t \in Threads : LockOf(t)

(* While the port is being opened nobody else is in a call.                *)
OpenInv == Opening => Quiet(Owner)

(* The bytes of a round: none too many, and no line ended before it.       *)
RoundOf(t) == pc[t] \in ReadPcs =>
  /\ base[t] <= Len(got[t]) /\ Len(got[t]) <= Wanted(t) /\ Wanted(t) <= call[t].size
  /\ pc[t] = "begin" => Len(got[t]) = base[t]
  /\ pc[t] \in {"select", "pause", "take"} => Len(got[t]) < Wanted(t)
  /\ pc[t] \in {"pause", "take"} => input # <<>> \/ gone
  /\ call[t].kind = "readline" => \A k \in 1..base[t] : got[t][k] \notin Eols
RoundInv == \A t \in Threads : RoundOf(t)

(* The input is the end of what the device has sent, and what a call has   *)
(* got goes right before it.                                               *)
InputInv ==
  /\ Len(input) <= deviceSent
  /\ \A k \in 1..Len(input) : input[k] = deviceSent - Len(input) + k
  /\ gone => input = <<>>
OrderOf(t) ==
  /\ \A k \in 1..(Len(got[t]) - 1) : got[t][k + 1] = got[t][k] + 1
  /\ got[t] # <<>> /\ ~gone => got[t][Len(got[t])] = deviceSent - Len(input)
OrderInv == InputInv /\ \A t \in Threads : OrderOf(t)

(* A write that is about to put a byte still has one, and room for it;     *)
(* none has ever lost a byte.                                              *)
WriteOf(t) ==
  /\ pc[t] \in {"wselect", "put"} => written[t] < call[t].size
  /\ pc[t] = "put" => Room > 0 \/ gone
  /\ written[t] > 0 => lastOut = t
WriteInv == torn = {} /\ \A t \in Threads : WriteOf(t)

(* A port that is being configured has its descriptor.                    *)
PortInv == Configured /\ (pc[Owner] = "configure" => fd)

IInv == TypeOK /\ LockInv /\ OpenInv /\ RoundInv /\ OrderInv /\ WriteInv /\ PortInv

(***************************************************************************)
(* A thread a step leaves alone keeps what holds of it.                    *)
(***************************************************************************)
Alone(u) ==
  /\ pc'[u] = pc[u] /\ call'[u] = call[u] /\ got'[u] = got[u]
  /\ base'[u] = base[u] /\ written'[u] = written[u]
  /\ read_mutex = u => read_mutex' = u
  /\ write_mutex = u => write_mutex' = u

LEMMA AloneLock ==
  ASSUME NEW u \in Threads, LockOf(u), Alone(u)
  PROVE  LockOf(u)'
BY DEF LockOf, Alone, Holds

LEMMA AloneRound ==
  ASSUME NEW u \in Threads, RoundOf(u), Alone(u),
         pc[u] \in ReadPcs => (input # <<>> => input' # <<>> \/ gone') /\ (gone => gone')
  PROVE  RoundOf(u)'
BY DEF RoundOf, Alone, Wanted, Round, ReadPcs

LEMMA AloneOrder ==
  ASSUME NEW u \in Threads, OrderOf(u), Alone(u),
         got[u] # <<>> => gone' \/ (gone' = gone /\ deviceSent' - Len(input') = deviceSent - Len(input))
  PROVE  OrderOf(u)'
BY DEF OrderOf, Alone

LEMMA AloneWrite ==
  ASSUME NEW u \in Threads, WriteOf(u), Alone(u), gone => gone' \/ pc[u] # "put",
         pc[u] = "put" /\ Room > 0 => gone' \/ Room' > 0,
         written[u] > 0 => lastOut' = lastOut
  PROVE  WriteOf(u)'
BY DEF WriteOf, Alone

(***************************************************************************)
(* The end of a call.                                                      *)
(***************************************************************************)
LEMMA EndFacts ==
  ASSUME NEW t \in Threads, TypeOK, End(t)
  PROVE  /\ \A u \in Threads \ {t} : Alone(u) /\ (lastOut = u => lastOut' = u)
         /\ pc'[t] = "idle" /\ call'[t] = NoCall /\ got'[t] = <<>> /\ base'[t] = 0 /\ written'[t] = 0
BY SerialAssumption DEF TypeOK, End, Alone

LEMMA EndThread ==
  ASSUME NEW t \in Threads, TypeOK, End(t)
  PROVE  LockOf(t)' /\ RoundOf(t)' /\ OrderOf(t)' /\ WriteOf(t)'
<1>1. LockOf(t)'
  BY EndFacts DEF LockOf, Holds, ReadPcs, WritePcs, ReadCalls, OwnCalls, NoCall
<1>2. RoundOf(t)'
  BY EndFacts DEF RoundOf, ReadPcs
<1>3. OrderOf(t)'
  BY EndFacts, Len(<<>>) = 0 DEF OrderOf
<1>4. WriteOf(t)'
  BY EndFacts DEF WriteOf
<1> QED
  BY <1>1, <1>2, <1>3, <1>4

LEMMA EndType ==
  ASSUME NEW t \in Threads, TypeOK, End(t), is_open' \in BOOLEAN, fd' \in BOOLEAN, applied' \in BOOLEAN,
         inter_byte_timeout' \in InterBytes, input' \in Seq(1..Bytes), output' \in Seq(Threads),
         Len(output') <= Capacity, torn' \subseteq Threads, UNCHANGED device
  PROVE  TypeOK'
<1> USE SerialAssumption
<1>1. pc' \in [Threads -> {"idle", "rlock", "wlock", "begin", "loop", "select", "pause",
                         "take", "wbegin", "wloop", "wselect", "put", "drain", "discard",
                         "setport", "reopen", "configure", "ioctl"}]
  BY DEF TypeOK, End
<1>2. call' \in [Threads -> [kind : ReadCalls \cup OtherCalls \cup OwnCalls \cup {"write", "none"}, size : Nat]]
  BY DEF TypeOK, End, NoCall
<1>3. timer' \in [Threads -> [left : Int, wait : Nat, late : Int]]
  BY DEF TypeOK, End, NoTimer
<1>4. got' \in [Threads -> Seq(1..Bytes)] /\ base' \in [Threads -> Nat] /\ written' \in [Threads -> Nat]
  <2>1. <<>> \in Seq(1..Bytes)
    BY EmptySeq
  <2> QED
    BY <2>1 DEF TypeOK, End
<1>5. \A u \in Threads : Len(got'[u]) <= call'[u].size /\ written'[u] <= call'[u].size
  <2>1. Len(<<>>) <= NoCall.size /\ 0 <= NoCall.size
    BY DEF NoCall
  <2> SUFFICES ASSUME NEW u \in Threads PROVE Len(got'[u]) <= call'[u].size /\ written'[u] <= call'[u].size
    OBVIOUS
  <2>2. CASE u = t
    <3>1. got'[u] = <<>> /\ call'[u] = NoCall /\ written'[u] = 0
      BY <2>2, EndFacts
    <3> QED
      BY <2>1, <3>1
  <2>3. CASE u # t
    <3>1. got'[u] = got[u] /\ call'[u] = call[u] /\ written'[u] = written[u]
      BY <2>3, EndFacts DEF Alone
    <3> QED
      BY <3>1 DEF TypeOK
  <2> QED
    BY <2>2, <2>3
<1>6. read_mutex' \in Threads \cup {Nobody} /\ write_mutex' \in Threads \cup {Nobody}
  BY DEF TypeOK, End
<1>7. lastOut' \in Threads \cup {Nobody} /\ jumps' \in 0..MaxJumps
  <2>1. 0 \in 0..MaxJumps
    OBVIOUS
  <2>2. jumps' \in {jumps, 0}
    BY DEF End
  <2> QED
    BY <2>1, <2>2 DEF TypeOK, End
<1> QED
  BY <1>1, <1>2, <1>3, <1>4, <1>5, <1>6, <1>7 DEF TypeOK, device

LEMMA EndFrame ==
  ASSUME NEW t \in Threads, IInv, End(t)
  PROVE  LockInv' /\ OpenInv'
<1> USE DEF IInv
<1>1. LockInv'
  BY EndFacts, AloneLock, EndThread DEF LockInv
<1>2. OpenInv'
  <2>1. Opening' => Opening
    BY EndFacts, SerialAssumption DEF Opening, Alone
  <2>2. \A u \in Threads : pc[u] = "idle" => pc'[u] = "idle"
    BY EndFacts DEF Alone
  <2> QED
    BY <2>1, <2>2 DEF OpenInv, Quiet
<1> QED
  BY <1>1, <1>2

(* The end of a call that changes nothing else, wherever the thread was,   *)
(* but at the settings.                                                    *)
LEMMA EndInv ==
  ASSUME NEW t \in Threads, IInv, pc[t] # "configure", End(t),
         UNCHANGED <<port, device, input, output, torn>>
  PROVE  IInv'
<1> USE DEF IInv
<1>1. \A u \in Threads \ {t} : Alone(u) /\ (lastOut = u => lastOut' = u)
  BY EndFacts
<1>2. TypeOK'
  BY EndType DEF TypeOK, port, device
<1>3. LockInv' /\ OpenInv'
  BY EndFrame
<1>5. RoundInv'
  BY <1>1, AloneRound, EndThread DEF RoundInv, device
<1>6. OrderInv'
  BY <1>1, AloneOrder, EndThread DEF OrderInv, InputInv, device
<1>7. WriteInv'
  <2> SUFFICES ASSUME NEW u \in Threads PROVE WriteOf(u)'
    BY DEF WriteInv
  <2>1. CASE u = t
    BY <2>1, EndThread
  <2>2. CASE u # t
    BY <1>1, <2>2, AloneWrite DEF WriteInv, WriteOf, Room, device
  <2> QED
    BY <2>1, <2>2
<1>8. PortInv'
  BY EndFacts, SerialAssumption DEF TypeOK, PortInv, Configured, Alone, port, device
<1> QED
  BY <1>2, <1>3, <1>5, <1>6, <1>7, <1>8

(***************************************************************************)
(* A step inside a call: the thread moves on, in time or to a lock.        *)
(***************************************************************************)
Pcs == {"idle", "rlock", "wlock", "begin", "loop", "select", "pause",
        "take", "wbegin", "wloop", "wselect", "put", "drain", "discard",
        "setport", "reopen", "configure", "ioctl"}
Timers == [left : Int, wait : Nat, late : Int]

LEMMA MoveInv ==
  ASSUME NEW t \in Threads, NEW from \in Pcs \ {"idle", "configure"}, NEW to \in Pcs \ {"configure"}, IInv,
         Goto(t, from, to),
         UNCHANGED <<call, got, base, written, port, device, queues, jumps>>,
         timer' \in [Threads -> Timers],
         read_mutex' = read_mutex \/ (read_mutex = Nobody /\ read_mutex' = t),
         write_mutex' = write_mutex \/ (write_mutex = Nobody /\ write_mutex' = t),
         LockOf(t)', RoundOf(t)', WriteOf(t)'
  PROVE  IInv'
<1> USE DEF IInv
<1>1. pc' \in [Threads -> Pcs] /\ pc'[t] = to /\ pc[t] = from /\ \A u \in Threads \ {t} : Alone(u)
  BY SerialAssumption DEF TypeOK, Goto, Alone, Pcs
<1>2. TypeOK'
  BY <1>1 DEF TypeOK, port, device, queues, Pcs, Timers
<1>3. LockInv'
  BY <1>1, AloneLock DEF LockInv
<1>4. OpenInv'
  <2>1. Opening' => Opening
    BY <1>1, SerialAssumption DEF Opening, Alone
  <2>2. \A u \in Threads : pc[u] = "idle" => pc'[u] = "idle"
    BY <1>1 DEF Alone
  <2> QED
    BY <2>1, <2>2 DEF OpenInv, Quiet
<1>5. RoundInv'
  BY <1>1, AloneRound DEF RoundInv, device, queues
<1>6. OrderInv'
  BY DEF OrderInv, InputInv, OrderOf, device, queues
<1>7. WriteInv'
  BY <1>1, AloneWrite DEF WriteInv, Room, device, queues
<1>8. PortInv'
  BY <1>1, SerialAssumption DEF PortInv, Configured, Alone, port, device
<1> QED
  BY <1>2, <1>3, <1>4, <1>5, <1>6, <1>7, <1>8

LEMMA LockReadInv == ASSUME NEW t \in Threads, IInv, LockRead(t) PROVE IInv'
<1> DEFINE to == CASE call[t].kind \in ReadCalls -> "begin"
                   [] call[t].kind = "flushInput" -> "discard"
                   [] OTHER -> "wlock"
<1>1. /\ Goto(t, "rlock", to) /\ pc[t] = "rlock" /\ read_mutex = Nobody /\ read_mutex' = t
      /\ UNCHANGED <<call, got, base, written, timer, write_mutex, port, device, queues, jumps>>
  BY DEF LockRead, Goto, progress
<1>2. pc'[t] = to /\ to \in {"begin", "discard", "wlock"}
  BY <1>1 DEF IInv, TypeOK, Goto
<1>3. /\ got[t] = <<>> /\ base[t] = 0 /\ written[t] = 0 /\ LockOf(t)
      /\ call[t].kind \in ReadCalls \cup {"flush", "flushInput", "setPort"} /\ call[t].size \in Nat
  BY <1>1 DEF IInv, TypeOK, LockInv, LockOf, Holds, ReadPcs, WritePcs
<1>4. LockOf(t)'
  BY <1>1, <1>2, <1>3 DEF LockOf, Holds, ReadPcs, WritePcs, ReadCalls, OwnCalls
<1>5. RoundOf(t)'
  <2>1. Len(<<>>) = 0
    OBVIOUS
  <2> HIDE DEF to
  <2>2. to = "begin" => call[t].kind \in ReadCalls /\ call[t].size >= 1
    BY <1>3 DEF LockOf, to
  <2> QED
    BY <1>1, <1>2, <1>3, <2>1, <2>2 DEF RoundOf, Wanted, Round, ReadPcs
<1>6. WriteOf(t)'
  BY <1>1, <1>2, <1>3 DEF WriteOf
<1> QED
  BY <1>1, <1>2, <1>4, <1>5, <1>6, MoveInv DEF Pcs, IInv, TypeOK, Timers

LEMMA LockWriteInv == ASSUME NEW t \in Threads, IInv, LockWrite(t) PROVE IInv'
<1> DEFINE to == CASE call[t].kind = "write" -> "wbegin"
                   [] call[t].kind = "flush" -> "drain"
                   [] call[t].kind = "setPort" -> "setport"
                   [] OTHER -> "discard"
<1>1. /\ Goto(t, "wlock", to) /\ pc[t] = "wlock" /\ write_mutex = Nobody /\ write_mutex' = t
      /\ UNCHANGED <<call, got, base, written, timer, read_mutex, port, device, queues, jumps>>
  BY DEF LockWrite, Goto, progress
<1>2. pc'[t] = to /\ to \in {"wbegin", "drain", "setport", "discard"}
  BY <1>1 DEF IInv, TypeOK, Goto
<1>3. /\ got[t] = <<>> /\ base[t] = 0 /\ written[t] = 0 /\ LockOf(t)
      /\ \/ call[t].kind \in {"write", "flushOutput"}
         \/ call[t].kind \in {"flush", "setPort"} /\ read_mutex = t
  <2>1. LockOf(t)
    BY DEF IInv, LockInv
  <2> QED
    BY <1>1, <2>1 DEF LockOf, Holds, ReadPcs, WritePcs
<1>4. LockOf(t)'
  BY <1>1, <1>2, <1>3 DEF LockOf, Holds, ReadPcs, WritePcs, ReadCalls, OwnCalls
<1>5. RoundOf(t)' /\ WriteOf(t)'
  BY <1>1, <1>2, <1>3 DEF RoundOf, WriteOf, ReadPcs
<1> QED
  BY <1>1, <1>2, <1>4, <1>5, MoveInv DEF Pcs, IInv, TypeOK, Timers

(* A step that only waits, or looks at the time.                           *)
LEMMA WaitInv ==
  ASSUME NEW t \in Threads, NEW from \in Pcs \ {"idle", "configure"}, NEW to \in Pcs \ {"configure"}, IInv,
         Goto(t, from, to),
         UNCHANGED <<call, got, base, written, mutexes, port, device, queues, jumps>>,
         NEW timerOf \in Timers, timer' = [timer EXCEPT ![t] = timerOf],
         LockOf(t)', RoundOf(t)', WriteOf(t)'
  PROVE  IInv'
BY MoveInv DEF IInv, TypeOK, Timers, mutexes

LEMMA TimerType ==
  /\ \A n \in Nat : Timer(n) \in Timers
  /\ TypeOK => \A t \in Threads : \A w \in Nat : [timer[t] EXCEPT !.wait = w] \in Timers
<1>1. \A n \in Nat : Total(n) \in Nat
  BY SerialAssumption DEF Total
<1>2. \A n \in Nat : Timer(n) \in Timers
  <2>1. \A n \in Nat : Total(n) \in Int /\ -Total(n) \in Int
    BY <1>1
  <2> QED
    BY <2>1 DEF Timer, Timers
<1>3. TypeOK => \A t \in Threads : \A w \in Nat : [timer[t] EXCEPT !.wait = w] \in Timers
  BY DEF TypeOK, Timers
<1> QED
  BY <1>2, <1>3

(* What the type and the locks say of a thread that reads, or writes.      *)
LEMMA ReaderFacts ==
  ASSUME NEW t \in Threads, IInv, pc[t] \in ReadPcs
  PROVE  /\ read_mutex = t /\ call[t].kind \in ReadCalls /\ written[t] = 0
         /\ call[t].size \in Nat \ {0} /\ base[t] \in Nat /\ got[t] \in Seq(1..Bytes)
         /\ Wanted(t) \in Nat /\ Round(t) \in Nat \ {0} /\ Len(got[t]) \in Nat
         /\ RoundOf(t) /\ LockOf(t) /\ OrderOf(t)
         /\ \A u \in Threads \ {t} : pc[u] \notin ReadPcs /\ got[u] = <<>>
<1>1. LockOf(t) /\ RoundOf(t) /\ OrderOf(t)
  BY DEF IInv, LockInv, RoundInv, OrderInv
<1>2. read_mutex = t /\ call[t].kind \in ReadCalls /\ written[t] = 0
  BY <1>1 DEF LockOf, Holds, ReadPcs, WritePcs
<1>3. call[t].size \in Nat /\ base[t] \in Nat /\ got[t] \in Seq(1..Bytes)
  BY DEF IInv, TypeOK
<1>4. call[t].size \in Nat \ {0}
  BY <1>1, <1>2, <1>3 DEF LockOf
<1>5. Round(t) \in Nat \ {0} /\ Wanted(t) \in Nat
  BY <1>3, <1>4 DEF Round, Wanted
<1>6. \A u \in Threads \ {t} : pc[u] \notin ReadPcs /\ got[u] = <<>>
  BY <1>2 DEF IInv, LockInv, LockOf, Holds
<1> QED
  BY <1>1, <1>2, <1>3, <1>4, <1>5, <1>6, LenProperties

LEMMA ReadWaitInv ==
  ASSUME NEW t \in Threads, NEW from \in ReadPcs, NEW to \in ReadPcs \ {"begin"}, IInv, Goto(t, from, to),
         UNCHANGED <<call, got, base, written, mutexes, port, device, queues, jumps>>,
         NEW timerOf \in Timers, timer' = [timer EXCEPT ![t] = timerOf],
         to \in {"select", "pause", "take"} => Len(got[t]) < Wanted(t),
         to \in {"pause", "take"} => input # <<>> \/ gone
  PROVE  IInv'
<1>1. pc[t] \in ReadPcs /\ pc'[t] = to
  BY DEF Goto, IInv, TypeOK
<1>2. LockOf(t)'
  BY <1>1, ReaderFacts DEF LockOf, Holds, ReadPcs, WritePcs, mutexes
<1>3. RoundOf(t)'
  BY <1>1, ReaderFacts DEF RoundOf, Wanted, Round, ReadPcs, queues, device
<1>4. WriteOf(t)'
  BY <1>1, ReaderFacts DEF WriteOf, ReadPcs
<1> QED
  BY <1>2, <1>3, <1>4, WaitInv DEF Pcs, ReadPcs

LEMMA WriterFacts ==
  ASSUME NEW t \in Threads, IInv, pc[t] \in WritePcs
  PROVE  /\ write_mutex = t /\ call[t].kind = "write" /\ got[t] = <<>> /\ base[t] = 0
         /\ call[t].size \in Nat /\ written[t] \in 0..call[t].size
         /\ LockOf(t) /\ WriteOf(t)
         /\ \A u \in Threads \ {t} : pc[u] \notin WritePcs /\ written[u] = 0
<1>1. LockOf(t) /\ WriteOf(t)
  BY DEF IInv, LockInv, WriteInv
<1>2. write_mutex = t /\ call[t].kind = "write" /\ got[t] = <<>> /\ base[t] = 0
  BY <1>1 DEF LockOf, Holds, ReadPcs, WritePcs
<1>3. call[t].size \in Nat /\ written[t] \in 0..call[t].size
  BY DEF IInv, TypeOK
<1>4. \A u \in Threads \ {t} : pc[u] \notin WritePcs /\ written[u] = 0
  BY <1>2 DEF IInv, LockInv, LockOf, Holds
<1> QED
  BY <1>1, <1>2, <1>3, <1>4

LEMMA WriteWaitInv ==
  ASSUME NEW t \in Threads, NEW from \in WritePcs, NEW to \in WritePcs, IInv, Goto(t, from, to),
         UNCHANGED <<call, got, base, written, mutexes, port, device, queues, jumps>>,
         NEW timerOf \in Timers, timer' = [timer EXCEPT ![t] = timerOf],
         to \in {"wselect", "put"} => written[t] < call[t].size,
         to = "put" => Room > 0 \/ gone
  PROVE  IInv'
<1>1. pc[t] \in WritePcs /\ pc'[t] = to
  BY DEF Goto, IInv, TypeOK
<1>2. LockOf(t)'
  BY <1>1, WriterFacts DEF LockOf, Holds, ReadPcs, WritePcs, ReadCalls, OwnCalls, mutexes
<1>3. RoundOf(t)'
  BY <1>1 DEF RoundOf, ReadPcs, WritePcs
<1>4. WriteOf(t)'
  BY <1>1, WriterFacts DEF WriteOf, Room, queues, device
<1> QED
  BY <1>2, <1>3, <1>4, WaitInv DEF Pcs, WritePcs

LEMMA InterByteType == ASSUME IInv PROVE inter_byte_timeout \in Nat
<1>1. inter_byte_timeout \in InterBytes
  BY DEF IInv, TypeOK
<1>2. Forever \in Nat /\ InterBytes \subseteq 0..Forever
  BY SerialAssumption
<1> QED
  BY <1>1, <1>2

LEMMA ReadLoopInv == ASSUME NEW t \in Threads, IInv, ReadLoop(t) PROVE IInv'
<1>1. pc[t] = "loop" /\ timer[t].left \in Nat /\ inter_byte_timeout \in Nat
  <2>1. pc[t] = "loop" /\ ~(timer[t].left <= 0) /\ timer[t].left \in Int
    BY DEF ReadLoop, Goto, RoundOver, IInv, TypeOK
  <2> QED
    BY <2>1, InterByteType
<1>2. PICK w \in Nat : w = Least(timer[t].left, inter_byte_timeout)
  BY <1>1 DEF Least
<1>3. Len(got[t]) < Wanted(t)
  BY <1>1, ReaderFacts DEF ReadLoop, RoundOver, RoundOf, ReadPcs
<1>4. [timer[t] EXCEPT !.wait = w] \in Timers
  BY TimerType DEF IInv
<1>5. timer' = [timer EXCEPT ![t] = [timer[t] EXCEPT !.wait = w]]
  BY <1>2 DEF ReadLoop, Waiting
<1>6. Goto(t, "loop", "select") /\ UNCHANGED <<call, got, base, written, mutexes, port, device, queues, jumps>>
  BY DEF ReadLoop
<1>7. "loop" \in ReadPcs /\ "select" \in ReadPcs \ {"begin"} /\ "select" \notin {"pause", "take"}
  BY DEF ReadPcs
<1> QED
  BY <1>3, <1>4, <1>5, <1>6, <1>7, ReadWaitInv, Zenon

LEMMA SelectInv == ASSUME NEW t \in Threads, IInv, Select(t) PROVE IInv'
<1>1. pc[t] = "select" /\ Len(got[t]) < Wanted(t)
  <2>1. pc[t] = "select"
    BY DEF Select, Goto
  <2> QED
    BY <2>1, ReaderFacts DEF RoundOf, ReadPcs
<1>2. Missing(t) \in Int
  <2>1. Wanted(t) \in Nat /\ Len(got[t]) \in Nat
    BY <1>1, ReaderFacts DEF ReadPcs
  <2>2. Len(input) \in Nat
    BY LenProperties DEF IInv, TypeOK
  <2> QED
    BY <2>1, <2>2 DEF Missing
<1>3. PICK to \in {"loop", "take", "pause"}, w \in Nat :
        Goto(t, "select", to) /\ Waiting(t, w) /\ (to # "loop" => input # <<>> \/ gone)
  <2>1. Missing(t) > 0 => ByteTime * Missing(t) \in Nat
    BY <1>2, SerialAssumption
  <2> QED
    BY <2>1 DEF Select
<1>4. [timer[t] EXCEPT !.wait = w] \in Timers
  BY TimerType DEF IInv
<1>5. timer' = [timer EXCEPT ![t] = [timer[t] EXCEPT !.wait = w]]
  BY <1>3 DEF Waiting
<1> QED
  BY <1>1, <1>3, <1>4, <1>5, ReadWaitInv DEF Select, ReadPcs

LEMMA PauseInv ==
  ASSUME NEW t \in Threads, IInv, Goto(t, "pause", "take"), Waiting(t, 0),
         UNCHANGED <<call, got, base, written, mutexes, port, device, queues, jumps>>
  PROVE  IInv'
<1>1. Len(got[t]) < Wanted(t) /\ (input # <<>> \/ gone)
  BY ReaderFacts DEF Goto, RoundOf, ReadPcs
<1>2. [timer[t] EXCEPT !.wait = 0] \in Timers
  BY TimerType DEF IInv
<1>3. timer' = [timer EXCEPT ![t] = [timer[t] EXCEPT !.wait = 0]]
  BY DEF Waiting
<1> QED
  BY <1>1, <1>2, <1>3, ReadWaitInv DEF ReadPcs

LEMMA InterruptInv == ASSUME NEW t \in Threads, IInv, Interrupt(t) PROVE IInv'
<1>0. [timer[t] EXCEPT !.wait = 0] \in Timers /\ (Waiting(t, 0) => timer' = [timer EXCEPT ![t] = [timer[t] EXCEPT !.wait = 0]])
  BY TimerType DEF IInv, Waiting
<1>1. CASE /\ Goto(t, "select", "loop") /\ Waiting(t, 0)
           /\ UNCHANGED <<call, got, base, written, mutexes, port, device, queues, jumps>>
  BY <1>0, <1>1, ReadWaitInv DEF ReadPcs
<1>2. CASE /\ Goto(t, "pause", "take") /\ Waiting(t, 0)
           /\ UNCHANGED <<call, got, base, written, mutexes, port, device, queues, jumps>>
  BY <1>2, PauseInv
<1>3. CASE /\ Goto(t, "wselect", "wloop") /\ Waiting(t, 0)
           /\ UNCHANGED <<call, got, base, written, mutexes, port, device, queues, jumps>>
  BY <1>0, <1>3, WriteWaitInv DEF WritePcs
<1>4. CASE /\ pc[t] = "drain" /\ End(t) /\ UNCHANGED <<port, device, input, output, torn>>
  BY <1>4, EndInv
<1> QED
  BY <1>1, <1>2, <1>3, <1>4 DEF Interrupt

(***************************************************************************)
(* The bytes: what a read takes from the input and a write puts behind the *)
(* output.                                                                 *)
(***************************************************************************)
(* What SubSeq makes of a sequence between two of its places.              *)
LEMMA PartOfSeq ==
  ASSUME NEW s \in Seq(1..Bytes), NEW a \in Nat, NEW b \in Nat, 1 <= a, a <= b + 1, b <= Len(s)
  PROVE  /\ SubSeq(s, a, b) \in Seq(1..Bytes) /\ Len(SubSeq(s, a, b)) = b - a + 1
         /\ \A k \in 1..(b - a + 1) : SubSeq(s, a, b)[k] = s[a + k - 1]
<1>1. \A i \in a..b : s[i] \in 1..Bytes
  <2>1. \A i \in 1..Len(s) : s[i] \in 1..Bytes
    BY ElementOfSeq
  <2>2. Len(s) \in Nat
    BY LenProperties
  <2> QED
    BY <2>1, <2>2
<1>2. /\ SubSeq(s, a, b) \in Seq(1..Bytes)
      /\ Len(SubSeq(s, a, b)) = IF a <= b THEN b - a + 1 ELSE 0
      /\ \A i \in 1..(b - a + 1) : SubSeq(s, a, b)[i] = s[a + i - 1]
  BY <1>1, SubSeqProperties
<1>3. \A k \in 1..(b - a + 1) : SubSeq(s, a, b)[k] = s[a + k - 1]
  BY <1>2
<1> QED
  BY <1>2, <1>3

(* Taking the first n bytes of the input keeps the order.                  *)
LEMMA ReceiveFacts ==
  ASSUME NEW t \in Threads, IInv, pc[t] \in ReadPcs, Len(got[t]) <= Wanted(t), NEW STATE n, n = Readable(t),
         Receive(t, n), UNCHANGED device
  PROVE  /\ n \in Nat /\ got' \in [Threads -> Seq(1..Bytes)] /\ input' \in Seq(1..Bytes)
         /\ Len(got'[t]) = Len(got[t]) + n /\ Len(got'[t]) <= Wanted(t)
         /\ \A k \in 1..Len(got[t]) : got'[t][k] = got[t][k]
         /\ \A u \in Threads \ {t} : got'[u] = got[u]
         /\ InputInv' /\ OrderOf(t)'
<1> DEFINE l == Len(input)
<1> DEFINE m == Len(got[t])
<1>1. /\ l \in Nat /\ m \in Nat /\ Wanted(t) \in Nat /\ input \in Seq(1..Bytes) /\ got[t] \in Seq(1..Bytes)
      /\ deviceSent \in Nat /\ OrderOf(t) /\ InputInv
  <2>1. m \in Nat /\ Wanted(t) \in Nat /\ got[t] \in Seq(1..Bytes) /\ OrderOf(t)
    BY ReaderFacts
  <2>2. l \in Nat /\ input \in Seq(1..Bytes) /\ deviceSent \in Nat /\ InputInv
    BY SerialAssumption, LenProperties DEF IInv, TypeOK, OrderInv
  <2> QED
    BY <2>1, <2>2
<1>2. n \in 0..l /\ m + n <= Wanted(t) /\ (gone => n = 0)
  BY <1>1 DEF Readable, Least
<1>3. /\ SubSeq(input, 1, n) \in Seq(1..Bytes) /\ Len(SubSeq(input, 1, n)) = n
      /\ \A k \in 1..n : SubSeq(input, 1, n)[k] = input[k]
  <2>1. 1 \in Nat /\ n \in Nat /\ 1 <= 1 /\ 1 <= n + 1 /\ n <= Len(input) /\ n - 1 + 1 = n
    BY <1>1, <1>2
  <2>2. /\ SubSeq(input, 1, n) \in Seq(1..Bytes) /\ Len(SubSeq(input, 1, n)) = n - 1 + 1
        /\ \A k \in 1..(n - 1 + 1) : SubSeq(input, 1, n)[k] = input[1 + k - 1]
    <3>1. input \in Seq(1..Bytes) /\ 1 \in Nat /\ n \in Nat /\ 1 <= 1 /\ 1 <= n + 1 /\ n <= Len(input)
      BY <1>1, <2>1
    <3> QED
      BY <3>1, PartOfSeq, Zenon
  <2> QED
    BY <2>1, <2>2
<1>4. /\ input' \in Seq(1..Bytes) /\ Len(input') = l - n
      /\ \A k \in 1..(l - n) : input'[k] = input[n + k]
  <2>1. n + 1 \in Nat /\ l \in Nat /\ 1 <= n + 1 /\ n + 1 <= l + 1 /\ l <= Len(input)
    BY <1>1, <1>2
  <2>2. /\ SubSeq(input, n + 1, l) \in Seq(1..Bytes) /\ Len(SubSeq(input, n + 1, l)) = l - (n + 1) + 1
        /\ \A k \in 1..(l - (n + 1) + 1) : SubSeq(input, n + 1, l)[k] = input[n + 1 + k - 1]
    BY <1>1, <2>1, PartOfSeq
  <2> HIDE DEF l
  <2>3. input' = SubSeq(input, n + 1, l)
    BY DEF Receive, l
  <2>4. l - (n + 1) + 1 = l - n /\ \A k \in 1..(l - n) : n + 1 + k - 1 = n + k
    BY <1>1, <1>2
  <2> QED
    BY <2>2, <2>3, <2>4
<1>5. got'[t] = got[t] \o SubSeq(input, 1, n) /\ \A u \in Threads \ {t} : got'[u] = got[u]
  BY DEF Receive, IInv, TypeOK
<1>6. /\ got'[t] \in Seq(1..Bytes) /\ Len(got'[t]) = m + n
      /\ \A k \in 1..m : got'[t][k] = got[t][k]
      /\ \A k \in (m + 1)..(m + n) : got'[t][k] = input[k - m]
  BY <1>1, <1>2, <1>3, <1>5, ConcatProperties
<1>7. got' \in [Threads -> Seq(1..Bytes)]
  BY <1>5, <1>6 DEF Receive, IInv, TypeOK
<1> HIDE DEF l, m
<1>8. InputInv'
  <2>1. gone => Len(input') = 0
    BY <1>1, <1>2, <1>4 DEF InputInv, l
  <2>2. Len(input') = 0 => input' = <<>>
    BY <1>4, EmptySeq
  <2>3. Len(input') <= deviceSent
    BY <1>1, <1>2, <1>4 DEF InputInv, l
  <2>4. ASSUME NEW k \in 1..Len(input') PROVE input'[k] = deviceSent - Len(input') + k
    <3>1. n + k \in 1..l /\ input'[k] = input[n + k]
      <4>1. k \in 1..(l - n) /\ n \in 0..l /\ l \in Nat
        BY <1>1, <1>2, <1>4
      <4>2. input'[k] = input[n + k]
        BY <1>4, <4>1, Zenon
      <4> QED
        BY <4>1, <4>2
    <3>2. input[n + k] = deviceSent - l + (n + k)
      BY <1>1, <3>1 DEF InputInv, l
    <3> QED
      BY <1>1, <1>2, <1>4, <3>1, <3>2
  <2> QED
    BY <2>1, <2>2, <2>3, <2>4 DEF InputInv, device
<1>9. OrderOf(t)'
  <2>1. CASE n = 0
    <3>1. m = 0 => got'[t] = <<>>
      BY <1>1, <1>6, <2>1, EmptySeq
    <3>2. m # 0 => got[t] # <<>> /\ got'[t][m] = got[t][m]
      BY <1>1, <1>6, EmptySeq DEF m
    <3>3. \A k \in 1..(m - 1) : got'[t][k + 1] = got'[t][k] + 1
      <4> SUFFICES ASSUME NEW k \in 1..(m - 1) PROVE got'[t][k + 1] = got'[t][k] + 1
        OBVIOUS
      <4>1. k \in 1..m /\ k + 1 \in 1..m /\ k \in 1..(Len(got[t]) - 1)
        BY <1>1 DEF m
      <4> QED
        BY <1>1, <1>6, <4>1 DEF OrderOf
    <3> QED
      BY <1>1, <1>4, <1>6, <2>1, <3>1, <3>2, <3>3 DEF OrderOf, device, l, m
  <2>2. CASE n > 0
    <3>1. \A j \in 1..n : got'[t][m + j] = deviceSent - l + j
      <4> SUFFICES ASSUME NEW j \in 1..n PROVE got'[t][m + j] = deviceSent - l + j
        OBVIOUS
      <4>1. m + j \in (m + 1)..(m + n) /\ (m + j) - m = j /\ j \in 1..l
        BY <1>1, <1>2
      <4>2. got'[t][m + j] = input[(m + j) - m]
        BY <1>6, <4>1
      <4> QED
        BY <1>1, <4>1, <4>2 DEF InputInv, l
    <3>2. m > 0 => got'[t][m] = deviceSent - l
      <4> SUFFICES ASSUME m > 0 PROVE got'[t][m] = deviceSent - l
        OBVIOUS
      <4>1. got[t] # <<>> /\ ~gone
        BY <1>2, <2>2, EmptySeq DEF m
      <4>2. got[t][m] = deviceSent - l
        BY <1>1, <4>1 DEF OrderOf, l, m
      <4>3. m \in 1..m
        BY <1>1
      <4> QED
        BY <1>6, <4>2, <4>3
    <3>3. ASSUME NEW k \in 1..(m + n - 1) PROVE got'[t][k + 1] = got'[t][k] + 1
      <4>1. CASE k < m
        <5>1. got[t][k + 1] = got[t][k] + 1 /\ k \in 1..m /\ k + 1 \in 1..m
          BY <1>1, <3>3, <4>1 DEF OrderOf, m
        <5> QED
          BY <1>6, <5>1
      <4>2. CASE k = m
        <5>1. got'[t][m + 1] = deviceSent - l + 1
          BY <1>1, <1>2, <2>2, <3>1
        <5> QED
          BY <1>1, <3>2, <3>3, <4>2, <5>1
      <4>3. CASE k > m
        <5>1. k - m \in 1..n /\ k - m + 1 \in 1..n /\ m + (k - m) = k /\ m + (k - m + 1) = k + 1
          BY <1>1, <1>2, <3>3, <4>3
        <5>2. got'[t][k] = deviceSent - l + (k - m) /\ got'[t][k + 1] = deviceSent - l + (k - m + 1)
          BY <3>1, <5>1
        <5> QED
          BY <1>1, <1>2, <5>1, <5>2
      <4> QED
        BY <1>1, <1>2, <4>1, <4>2, <4>3
    <3>4. got'[t][m + n] = deviceSent - (l - n)
      BY <1>1, <1>2, <2>2, <3>1
    <3> QED
      BY <1>1, <1>2, <1>4, <1>6, <3>3, <3>4 DEF OrderOf, device
  <2> QED
    BY <1>1, <1>2, <2>1, <2>2
<1> QED
  BY <1>1, <1>2, <1>4, <1>5, <1>6, <1>7, <1>8, <1>9 DEF l, m

(* A read that has taken what there was, up to what it wants, keeps all    *)
(* of it.                                                                  *)
LEMMA ReceiveInv ==
  ASSUME NEW t \in Threads, NEW from \in {"begin", "take"}, IInv, Goto(t, from, "loop"),
         Receive(t, Readable(t)),
         UNCHANGED <<call, base, written, mutexes, port, device, output, lastOut, torn, jumps>>,
         timer' \in [Threads -> Timers]
  PROVE  IInv'
<1> USE DEF IInv
<1>0. pc[t] \in ReadPcs
  BY DEF Goto, ReadPcs
<1> DEFINE n == Readable(t)
<1> HIDE DEF n
<1>1. Len(got[t]) <= Wanted(t)
  BY <1>0, ReaderFacts DEF RoundOf
<1>2. /\ n \in Nat /\ got' \in [Threads -> Seq(1..Bytes)] /\ input' \in Seq(1..Bytes)
      /\ Len(got'[t]) = Len(got[t]) + n /\ Len(got'[t]) <= Wanted(t)
      /\ \A k \in 1..Len(got[t]) : got'[t][k] = got[t][k]
      /\ \A u \in Threads \ {t} : got'[u] = got[u]
      /\ InputInv' /\ OrderOf(t)'
  BY <1>0, <1>1, ReceiveFacts DEF n
<1>3. pc' \in [Threads -> Pcs] /\ pc'[t] = "loop" /\ \A u \in Threads \ {t} : Alone(u)
  BY <1>2, SerialAssumption DEF TypeOK, Goto, Alone, Pcs, mutexes
<1>4. TypeOK'
  <2> SUFFICES \A u \in Threads : Len(got'[u]) <= call'[u].size
    BY <1>2, <1>3 DEF TypeOK, mutexes, port, device, Pcs, Timers
  <2>1. Wanted(t) <= call[t].size /\ Wanted(t) \in Nat /\ call[t].size \in Nat /\ Len(got'[t]) \in Nat
    BY <1>0, <1>2, ReaderFacts DEF RoundOf
  <2>2. Len(got'[t]) <= call'[t].size
    BY <1>2, <2>1
  <2>3. \A u \in Threads \ {t} : Len(got'[u]) <= call'[u].size
    BY <1>2 DEF TypeOK
  <2> QED
    BY <2>2, <2>3
<1>5. LockInv'
  <2>1. LockOf(t)'
    BY <1>0, <1>3, ReaderFacts DEF LockOf, Holds, ReadPcs, WritePcs, mutexes
  <2> QED
    BY <1>3, <2>1, AloneLock DEF LockInv
<1>6. OpenInv'
  <2>1. Opening' => Opening
    BY <1>0, <1>3, SerialAssumption DEF Opening, Alone, ReadPcs
  <2>2. \A u \in Threads : pc[u] = "idle" => pc'[u] = "idle"
    BY <1>0, <1>3 DEF Alone, ReadPcs
  <2> QED
    BY <2>1, <2>2 DEF OpenInv, Quiet
<1>7. RoundInv'
  <2>1. RoundOf(t)'
    <3>1. RoundOf(t) /\ base[t] \in Nat /\ Len(got[t]) \in Nat /\ Wanted(t)' = Wanted(t)
      BY <1>0, ReaderFacts DEF Wanted, Round
    <3>2. base[t] <= Len(got'[t]) /\ Wanted(t) <= call[t].size
      BY <1>0, <1>2, <3>1 DEF RoundOf
    <3>3. call[t].kind = "readline" => \A k \in 1..base[t] : got'[t][k] \notin Eols
      BY <1>0, <1>2, <3>1 DEF RoundOf
    <3> QED
      BY <1>2, <1>3, <3>1, <3>2, <3>3 DEF RoundOf
  <2>2. \A u \in Threads \ {t} : RoundOf(u)'
    BY <1>0, <1>3, ReaderFacts DEF RoundOf, Alone
  <2> QED
    BY <2>1, <2>2 DEF RoundInv
<1>8. OrderInv'
  BY <1>0, <1>2, <1>3, ReaderFacts, AloneOrder DEF OrderInv, device
<1>9. WriteInv'
  <2>1. WriteOf(t)'
    BY <1>0, <1>3, ReaderFacts DEF WriteOf
  <2> QED
    BY <1>3, <2>1, AloneWrite DEF WriteInv, Room, device
<1>10. PortInv'
  BY <1>0, <1>3, SerialAssumption DEF PortInv, Configured, Alone, port, device, ReadPcs
<1> QED
  BY <1>4, <1>5, <1>6, <1>7, <1>8, <1>9, <1>10

LEMMA BeginReadInv == ASSUME NEW t \in Threads, IInv, BeginRead(t) PROVE IInv'
<1>1. Round(t) \in Nat
  BY ReaderFacts DEF BeginRead, Goto, ReadPcs
<1>2. timer' \in [Threads -> Timers]
  BY <1>1, TimerType DEF BeginRead, IInv, TypeOK, Timers
<1> QED
  BY <1>2, ReceiveInv DEF BeginRead

LEMMA TakeInv == ASSUME NEW t \in Threads, IInv, Take(t) PROVE IInv'
<1>1. CASE Readable(t) = 0
  BY <1>1, EndInv DEF Take
<1>2. CASE Readable(t) # 0
  BY <1>2, ReceiveInv DEF Take, IInv, TypeOK, Timers
<1> QED
  BY <1>1, <1>2

(* Another round begins where the last one ended, and not behind the end   *)
(* of a line.                                                              *)
LEMMA NextRoundInv == ASSUME NEW t \in Threads, IInv, NextRound(t) PROVE IInv'
<1> USE DEF IInv
<1>0. pc[t] \in ReadPcs
  BY DEF NextRound, Goto, ReadPcs
<1> DEFINE m == Len(got[t])
<1>1. m \in Nat /\ Wanted(t) \in Nat /\ base[t] \in Nat /\ call[t].size \in Nat /\ RoundOf(t) /\ got[t] \in Seq(1..Bytes)
  BY <1>0, ReaderFacts
<1> HIDE DEF m
<1>2. /\ base' = [base EXCEPT ![t] = m] /\ timer' = [timer EXCEPT ![t] = NoTimer]
      /\ UNCHANGED <<call, got, written, mutexes, port, device, queues, jumps>>
  BY DEF NextRound, m
<1>3. pc' \in [Threads -> Pcs] /\ pc'[t] = "begin" /\ base'[t] = m /\ \A u \in Threads \ {t} : Alone(u)
  BY <1>2, SerialAssumption DEF TypeOK, NextRound, Goto, Alone, Pcs, mutexes
<1>4. TypeOK'
  <2>1. base' \in [Threads -> Nat]
    BY <1>1, <1>2 DEF TypeOK
  <2>2. timer' \in [Threads -> [left : Int, wait : Nat, late : Int]]
    BY <1>2 DEF TypeOK, NoTimer
  <2> QED
    BY <1>2, <1>3, <2>1, <2>2 DEF TypeOK, mutexes, port, device, queues, Pcs
<1>5. LockInv'
  <2>1. LockOf(t)'
    BY <1>0, <1>2, <1>3, ReaderFacts DEF LockOf, Holds, ReadPcs, WritePcs, mutexes
  <2> QED
    BY <1>3, <2>1, AloneLock DEF LockInv
<1>6. OpenInv'
  <2>1. Opening' => Opening
    BY <1>0, <1>2, <1>3, SerialAssumption DEF Opening, Alone, ReadPcs
  <2>2. \A u \in Threads : pc[u] = "idle" => pc'[u] = "idle"
    BY <1>0, <1>3 DEF Alone, ReadPcs
  <2> QED
    BY <2>1, <2>2 DEF OpenInv, Quiet
<1>7. RoundInv'
  <2>1. call[t].kind # "read" /\ m # call[t].size /\ m <= Wanted(t) /\ Wanted(t) <= call[t].size
    BY <1>0, <1>1 DEF NextRound, LastRound, RoundOf, m
  <2>2. Wanted(t)' = m + 1 /\ Wanted(t) = base[t] + 1
    BY <1>2, <1>3, <2>1 DEF Wanted, Round
  <2>3. ASSUME call[t].kind = "readline", NEW k \in 1..m PROVE got[t][k] \notin Eols
    <3>1. CASE k <= base[t]
      BY <1>0, <1>1, <2>3, <3>1 DEF RoundOf
    <3>2. CASE k > base[t]
      <4>1. k = m /\ got[t] # <<>>
        BY <1>1, <2>1, <2>2, <2>3, <3>2, EmptySeq DEF m
      <4>2. Last(got[t]) \notin Eols
        BY <2>3, <4>1 DEF NextRound, LastRound
      <4> QED
        BY <4>1, <4>2 DEF Last, m
    <3> QED
      BY <1>1, <3>1, <3>2
  <2>4. RoundOf(t)'
    BY <1>1, <1>2, <1>3, <2>1, <2>2, <2>3 DEF RoundOf, m
  <2> QED
    BY <1>2, <1>3, <2>4, AloneRound DEF RoundInv, device, queues
<1>8. OrderInv'
  BY <1>2 DEF OrderInv, InputInv, OrderOf, device, queues
<1>9. WriteInv'
  <2>1. WriteOf(t)'
    BY <1>0, <1>2, <1>3, ReaderFacts DEF WriteOf
  <2> QED
    BY <1>2, <1>3, <2>1, AloneWrite DEF WriteInv, Room, device, queues
<1>10. PortInv'
  BY <1>0, <1>2, <1>3, SerialAssumption DEF PortInv, Configured, Alone, port, device, ReadPcs
<1> QED
  BY <1>4, <1>5, <1>6, <1>7, <1>8, <1>9, <1>10

LEMMA BeginWriteInv == ASSUME NEW t \in Threads, IInv, BeginWrite(t) PROVE IInv'
<1>1. pc[t] \in WritePcs
  BY DEF BeginWrite, Goto, WritePcs
<1>2. Timer(call[t].size) \in Timers
  BY <1>1, WriterFacts, TimerType
<1>3. /\ Goto(t, "wbegin", "wloop") /\ timer' = [timer EXCEPT ![t] = Timer(call[t].size)]
      /\ UNCHANGED <<call, got, base, written, mutexes, port, device, queues, jumps>>
  BY DEF BeginWrite
<1> QED
  BY <1>2, <1>3, WriteWaitInv DEF WritePcs

LEMMA WriteLoopInv == ASSUME NEW t \in Threads, IInv, WriteLoop(t) PROVE IInv'
<1>1. CASE written[t] = call[t].size \/ timer[t].left <= 0
  BY <1>1, EndInv DEF WriteLoop
<1>2. CASE ~(written[t] = call[t].size \/ timer[t].left <= 0)
  <2>1. /\ Goto(t, "wloop", "wselect") /\ Waiting(t, timer[t].left)
        /\ UNCHANGED <<call, got, base, written, mutexes, port, device, queues, jumps>>
    BY <1>2 DEF WriteLoop
  <2>2. PICK w \in Nat : w = timer[t].left
    BY <1>2 DEF IInv, TypeOK
  <2>3. [timer[t] EXCEPT !.wait = w] \in Timers /\ timer' = [timer EXCEPT ![t] = [timer[t] EXCEPT !.wait = w]]
    BY <2>1, <2>2, TimerType DEF IInv, Waiting
  <2>4. written[t] < call[t].size /\ "wselect" \in WritePcs /\ "wloop" \in WritePcs /\ "wselect" # "put"
    BY <1>2, <2>1, WriterFacts DEF Goto, WritePcs
  <2> QED
    BY <2>1, <2>3, <2>4, WriteWaitInv, Zenon
<1> QED
  BY <1>1, <1>2

LEMMA WriteSelectInv == ASSUME NEW t \in Threads, IInv, WriteSelect(t) PROVE IInv'
<1>1. pc[t] \in WritePcs /\ pc[t] = "wselect"
  BY DEF WriteSelect, Goto, WritePcs
<1>2. written[t] < call[t].size
  BY <1>1, WriterFacts DEF WriteOf
<1>3. [timer[t] EXCEPT !.wait = 0] \in Timers /\ timer' = [timer EXCEPT ![t] = [timer[t] EXCEPT !.wait = 0]]
  BY TimerType DEF WriteSelect, IInv, Waiting
<1>4. /\ Goto(t, "wselect", "put") /\ (Room > 0 \/ gone)
      /\ UNCHANGED <<call, got, base, written, mutexes, port, device, queues, jumps>>
  BY DEF WriteSelect
<1> QED
  BY <1>2, <1>3, <1>4, WriteWaitInv DEF WritePcs

(* The bytes of the only write under way go behind the output.             *)
LEMMA PutInv == ASSUME NEW t \in Threads, IInv, Put(t) PROVE IInv'
<1> USE DEF IInv
<1>1. CASE gone \/ Room = 0
  BY <1>1, EndInv DEF Put
<1>2. CASE ~(gone \/ Room = 0)
  <2>0. pc[t] \in WritePcs /\ pc[t] = "put"
    BY <1>2 DEF Put, Goto, WritePcs
  <2>1. PICK n \in 1..Least(Room, call[t].size - written[t]) :
          /\ Goto(t, "put", "wloop")
          /\ output' = output \o [k \in 1..n |-> t]
          /\ written' = [written EXCEPT ![t] = @ + n]
          /\ lastOut' = t
          /\ UNCHANGED <<call, timer, got, base, mutexes, port, device, input, torn, jumps>>
    BY <1>2 DEF Put
  <2>2. /\ output \in Seq(Threads) /\ Len(output) \in Nat /\ Len(output) <= Capacity /\ Capacity \in Nat
        /\ call[t].size \in Nat /\ written[t] \in 0..call[t].size
    BY <2>0, WriterFacts, SerialAssumption, LenProperties DEF TypeOK
  <2>3. n \in Nat /\ Len(output) + n <= Capacity /\ written[t] + n <= call[t].size
    BY <2>1, <2>2 DEF Least, Room
  <2>4. output' \in Seq(Threads) /\ Len(output') = Len(output) + n
    <3>1. [k \in 1..n |-> t] \in Seq(Threads) /\ Len([k \in 1..n |-> t]) = n
      BY <2>3, IsASeq
    <3> QED
      BY <2>1, <2>2, <3>1, ConcatProperties
  <2>5. pc' \in [Threads -> Pcs] /\ pc'[t] = "wloop" /\ written'[t] = written[t] + n
    BY <2>1 DEF TypeOK, Goto, Pcs
  <2>6. \A u \in Threads \ {t} : Alone(u)
    BY <2>1, SerialAssumption DEF TypeOK, Goto, Alone, mutexes
  <2>7. TypeOK'
    <3>1. written' \in [Threads -> Nat]
      <4>1. written[t] + n \in Nat /\ written' = [written EXCEPT ![t] = written[t] + n]
        BY <2>1, <2>2, <2>3
      <4> QED
        BY <4>1 DEF TypeOK
    <3>2. \A u \in Threads : written'[u] <= call'[u].size
      <4>1. written'[t] <= call'[t].size
        BY <2>1, <2>3, <2>5
      <4>2. \A u \in Threads \ {t} : written'[u] <= call'[u].size
        BY <2>6 DEF TypeOK, Alone
      <4> QED
        BY <4>1, <4>2
    <3> QED
      BY <2>1, <2>2, <2>3, <2>4, <2>5, <3>1, <3>2 DEF TypeOK, mutexes, port, device, Pcs
  <2>8. LockInv'
    <3>1. LockOf(t)'
      BY <2>0, <2>1, <2>5, WriterFacts DEF LockOf, Holds, ReadPcs, WritePcs, ReadCalls, OwnCalls, mutexes
    <3> QED
      BY <2>6, <3>1, AloneLock DEF LockInv
  <2>9. OpenInv'
    <3>1. Opening' => Opening
      BY <2>0, <2>1, <2>5, <2>6, SerialAssumption DEF Opening, Alone
    <3>2. \A u \in Threads : pc[u] = "idle" => pc'[u] = "idle"
      BY <2>0, <2>6 DEF Alone
    <3> QED
      BY <3>1, <3>2 DEF OpenInv, Quiet
  <2>10. RoundInv'
    <3>1. RoundOf(t)'
      BY <2>5 DEF RoundOf, ReadPcs
    <3> QED
      BY <2>1, <2>6, <3>1, AloneRound DEF RoundInv, device
  <2>11. OrderInv'
    BY <2>1 DEF OrderInv, InputInv, OrderOf, device
  <2>12. WriteInv'
    <3>1. WriteOf(t)'
      BY <2>1, <2>5 DEF WriteOf
    <3>2. \A u \in Threads \ {t} : WriteOf(u)'
      BY <2>0, <2>6, WriterFacts DEF WriteOf, Alone, WritePcs
    <3> QED
      BY <2>1, <3>1, <3>2 DEF WriteInv
  <2>13. PortInv'
    BY <2>0, <2>1, <2>5, <2>6, SerialAssumption DEF PortInv, Configured, Alone, port, device
  <2> QED
    BY <2>7, <2>8, <2>9, <2>10, <2>11, <2>12, <2>13
<1> QED
  BY <1>1, <1>2

(***************************************************************************)
(* The start of a call.                                                    *)
(***************************************************************************)
Kinds == ReadCalls \cup OtherCalls \cup OwnCalls \cup {"write"}

LEMMA CallBegins ==
  ASSUME NEW t \in Threads, NEW kind \in Kinds, NEW size \in Nat, NEW to \in Pcs,
         IInv, Start(t, kind, size, to),
         UNCHANGED <<is_open, fd, inter_byte_timeout>>, applied' \in BOOLEAN,
         applied' = applied \/ (t = Owner /\ (is_open => to = "configure")),
         to = "configure" => is_open,
         LockOf(t)', to \notin ReadPcs \cup WritePcs,
         kind = "open" => t = Owner /\ Quiet(t)
  PROVE  IInv'
<1> USE DEF IInv
<1>1. /\ pc[t] = "idle" /\ torn' = torn \ {t} /\ ~Opening
      /\ UNCHANGED <<timer, got, base, written, mutexes, device, input, output, lastOut, jumps>>
  BY DEF Start, Goto, progress
<1>2. /\ pc' \in [Threads -> Pcs] /\ pc'[t] = to /\ call'[t] = [kind |-> kind, size |-> size]
      /\ \A u \in Threads \ {t} : pc'[u] = pc[u] /\ call'[u] = call[u]
  BY DEF TypeOK, Start, Goto, Pcs
<1>3. \A u \in Threads \ {t} : Alone(u)
  BY <1>1, <1>2 DEF Alone, mutexes
<1>4. got[t] = <<>> /\ base[t] = 0 /\ written[t] = 0
  BY <1>1 DEF LockInv, LockOf, ReadPcs, WritePcs
<1>5. TypeOK'
  <2>1. call' \in [Threads -> [kind : ReadCalls \cup OtherCalls \cup OwnCalls \cup {"write", "none"}, size : Nat]]
    BY DEF TypeOK, Start, Kinds
  <2>2. \A u \in Threads : Len(got'[u]) <= call'[u].size /\ written'[u] <= call'[u].size
    <3>1. Len(<<>>) = 0
      OBVIOUS
    <3>2. Len(got'[t]) <= call'[t].size /\ written'[t] <= call'[t].size
      BY <1>1, <1>2, <1>4, <3>1
    <3>3. \A u \in Threads \ {t} : Len(got'[u]) <= call'[u].size /\ written'[u] <= call'[u].size
      BY <1>1, <1>2 DEF TypeOK
    <3> QED
      BY <3>2, <3>3
  <2> QED
    BY <1>1, <1>2, <2>1, <2>2 DEF TypeOK, mutexes, device, Pcs
<1>6. LockInv'
  BY <1>3, AloneLock DEF LockInv
<1>7. OpenInv'
  BY <1>1, <1>2, SerialAssumption DEF OpenInv, Opening, Quiet
<1>8. RoundInv'
  BY <1>1, <1>2, <1>3, AloneRound DEF RoundInv, RoundOf, device
<1>9. OrderInv'
  BY <1>1 DEF OrderInv, InputInv, OrderOf, device
<1>10. WriteInv'
  <2>1. WriteOf(t)'
    BY <1>1, <1>2, <1>4 DEF WriteOf, WritePcs
  <2> QED
    BY <1>1, <1>3, <2>1, AloneWrite DEF WriteInv, Room, device
<1>11. PortInv'
  BY <1>1, <1>2, SerialAssumption DEF PortInv, Configured, TypeOK, device
<1> QED
  BY <1>5, <1>6, <1>7, <1>8, <1>9, <1>10, <1>11

LEMMA AskInv == ASSUME NEW t \in Threads, IInv, Ask(t) PROVE IInv'
<1>1. PICK a \in Asks[t] :
        /\ Start(t, a.kind, a.size, CASE a.kind \in ReadCalls \cup {"flush", "flushInput"} -> "rlock"
                                      [] a.kind \in {"write", "flushOutput"} -> "wlock"
                                      [] OTHER -> "ioctl")
        /\ UNCHANGED port
  BY DEF Ask
<1>2. \/ a.kind \in ReadCalls \cup {"write"} /\ a.size \in Nat \ {0}
      \/ a.kind \in OtherCalls /\ a.size \in Nat
  BY SerialAssumption
<1>3. PICK to \in {"rlock", "wlock", "ioctl"} :
        /\ Start(t, a.kind, a.size, to)
        /\ to = "rlock" => a.kind \in ReadCalls \cup {"flush", "flushInput"}
        /\ to = "wlock" => a.kind \in {"write", "flushOutput"}
        /\ to = "ioctl" => a.kind \in {"signal", "waitForChange"}
  BY <1>1, <1>2 DEF ReadCalls, OtherCalls
<1>4. pc'[t] = to /\ call'[t] = [kind |-> a.kind, size |-> a.size] /\ pc[t] = "idle" /\ UNCHANGED <<got, base, written>>
  BY <1>3 DEF Start, Goto, IInv, TypeOK, progress
<1>5. LockOf(t)'
  BY <1>2, <1>3, <1>4 DEF IInv, LockInv, LockOf, Holds, ReadPcs, WritePcs, ReadCalls, OtherCalls, OwnCalls
<1>6. UNCHANGED <<is_open, fd, applied, inter_byte_timeout>> /\ applied \in BOOLEAN
  BY <1>1 DEF port, IInv, TypeOK
<1>7. a.kind \in Kinds /\ a.kind # "open" /\ a.size \in Nat /\ to \in Pcs /\ to \notin ReadPcs \cup WritePcs
  BY <1>2 DEF Kinds, Pcs, ReadPcs, WritePcs, ReadCalls, OtherCalls
<1> QED
  BY <1>3, <1>5, <1>6, <1>7, CallBegins

LEMMA SetPortInv == ASSUME NEW t \in Threads, IInv, SetPort(t) PROVE IInv'
<1>1. Start(t, "setPort", 0, "rlock") /\ t = Owner /\ UNCHANGED port
  BY DEF SetPort
<1>2. pc'[t] = "rlock" /\ call'[t] = [kind |-> "setPort", size |-> 0] /\ pc[t] = "idle" /\ UNCHANGED <<got, base, written>>
  BY <1>1 DEF Start, Goto, IInv, TypeOK, progress
<1>3. LockOf(t)'
  BY <1>1, <1>2 DEF IInv, LockInv, LockOf, Holds, ReadPcs, WritePcs, ReadCalls
<1>4. UNCHANGED <<is_open, fd, applied, inter_byte_timeout>> /\ applied \in BOOLEAN
  BY <1>1 DEF port, IInv, TypeOK
<1>5. "setPort" \in Kinds /\ "rlock" \in Pcs /\ "rlock" \notin ReadPcs \cup WritePcs
  BY DEF Kinds, OwnCalls, Pcs, ReadPcs, WritePcs
<1> QED
  BY <1>1, <1>3, <1>4, <1>5, CallBegins

LEMMA OpenStartsInv == ASSUME NEW t \in Threads, IInv, Open(t) PROVE IInv'
<1>1. Start(t, "open", 0, "reopen") /\ t = Owner /\ Quiet(t) /\ UNCHANGED port
  BY DEF Open
<1>2. pc'[t] = "reopen" /\ call'[t] = [kind |-> "open", size |-> 0] /\ pc[t] = "idle" /\ UNCHANGED <<got, base, written>>
  BY <1>1 DEF Start, Goto, IInv, TypeOK, progress
<1>3. LockOf(t)'
  BY <1>1, <1>2 DEF IInv, LockInv, LockOf, Holds, ReadPcs, WritePcs, ReadCalls
<1>4. UNCHANGED <<is_open, fd, applied, inter_byte_timeout>> /\ applied \in BOOLEAN
  BY <1>1 DEF port, IInv, TypeOK
<1>5. "open" \in Kinds /\ "reopen" \in Pcs /\ "reopen" \notin ReadPcs \cup WritePcs
  BY DEF Kinds, OwnCalls, Pcs, ReadPcs, WritePcs
<1> QED
  BY <1>1, <1>3, <1>4, <1>5, CallBegins

LEMMA SetInv == ASSUME NEW t \in Threads, IInv, Set(t) PROVE IInv'
<1>1. t = Owner /\ applied' = FALSE /\ UNCHANGED <<is_open, fd, inter_byte_timeout>>
  BY DEF Set
<1>2. CASE is_open
  <2>1. Start(t, "set", 0, "configure")
    BY <1>2 DEF Set
  <2>2. pc'[t] = "configure" /\ call'[t] = [kind |-> "set", size |-> 0] /\ pc[t] = "idle" /\ UNCHANGED <<got, base, written>>
    BY <2>1 DEF Start, Goto, IInv, TypeOK, progress
  <2>3. LockOf(t)'
    BY <1>1, <2>2 DEF IInv, LockInv, LockOf, Holds, ReadPcs, WritePcs, ReadCalls
  <2>4. "set" \in Kinds /\ "configure" \in Pcs /\ "configure" \notin ReadPcs \cup WritePcs
    BY DEF Kinds, OwnCalls, Pcs, ReadPcs, WritePcs
  <2> QED
    BY <1>1, <1>2, <2>1, <2>3, <2>4, CallBegins DEF IInv, TypeOK
<1>3. CASE ~is_open
  <2>1. UNCHANGED <<pc, call, timer, got, base, written, read_mutex, write_mutex, deviceSent, stopped, gone,
                    input, output, lastOut, torn, jumps>>
    BY <1>3 DEF Set, progress, mutexes, device, queues
  <2>2. TypeOK'
    BY <1>1, <2>1 DEF IInv, TypeOK
  <2>3. LockInv' /\ OpenInv'
    BY <2>1 DEF IInv, LockInv, LockOf, Holds, OpenInv, Opening, Quiet
  <2>4. RoundInv' /\ OrderInv'
    BY <2>1 DEF IInv, RoundInv, RoundOf, Wanted, Round, OrderInv, OrderOf, InputInv
  <2>5. WriteInv' /\ PortInv'
    BY <1>1, <1>3, <2>1 DEF IInv, WriteInv, WriteOf, Room, PortInv, Configured
  <2> QED
    BY <2>2, <2>3, <2>4, <2>5 DEF IInv
<1> QED
  BY <1>2, <1>3

(***************************************************************************)
(* Steps that change the port, the kernel's queues, the device or the      *)
(* clocks, and leave every thread in its call.                             *)
(***************************************************************************)
LEMMA AllAlone ==
  ASSUME TypeOK', IInv, UNCHANGED <<pc, call, got, base, written, mutexes, lastOut, torn>>,
         InputInv', PortInv',
         \A u \in Threads : /\ pc[u] \in ReadPcs => (input # <<>> => input' # <<>> \/ gone') /\ (gone => gone')
                            /\ got[u] # <<>> => gone' \/ (gone' = gone /\ deviceSent' - Len(input') = deviceSent - Len(input))
                            /\ pc[u] = "put" => (gone => gone') /\ (Room > 0 => gone' \/ Room' > 0)
  PROVE  IInv'
<1> USE DEF IInv
<1>1. \A u \in Threads : Alone(u)
  BY DEF Alone, mutexes
<1>2. LockInv' /\ OpenInv'
  BY <1>1, AloneLock DEF LockInv, OpenInv, Opening, Quiet
<1>3. RoundInv'
  BY <1>1, AloneRound DEF RoundInv
<1>4. OrderInv'
  BY <1>1, AloneOrder DEF OrderInv
<1>5. WriteInv'
  BY <1>1, AloneWrite DEF WriteInv
<1> QED
  BY <1>2, <1>3, <1>4, <1>5

LEMMA CloseInv == ASSUME NEW t \in Threads, IInv, Close(t) PROVE IInv'
<1>1. \A u \in Threads : pc[u] = "idle" /\ got[u] = <<>>
  BY DEF Close, Quiet, IInv, LockInv, LockOf, ReadPcs
<1>0. pc[Owner] = "idle"
  BY <1>1, SerialAssumption
<1>2. /\ input' = <<>> /\ output' = <<>> /\ Len(<<>>) = 0 /\ is_open' = FALSE /\ fd' = FALSE
      /\ UNCHANGED <<pc, call, progress, mutexes, applied, inter_byte_timeout, device, lastOut, torn, jumps>>
  BY DEF Close, CloseFd
<1>3. <<>> \in Seq(1..Bytes) /\ <<>> \in Seq(Threads)
  BY EmptySeq
<1>4. TypeOK'
  <2>1. Len(output') <= Capacity /\ input' \in Seq(1..Bytes) /\ output' \in Seq(Threads)
    BY <1>2, <1>3, SerialAssumption
  <2> QED
    BY <1>2, <2>1 DEF IInv, TypeOK, progress, mutexes, device
<1>5. InputInv' /\ PortInv'
  BY <1>0, <1>2, SerialAssumption DEF IInv, TypeOK, InputInv, PortInv, Configured, device
<1> QED
  BY <1>1, <1>2, <1>4, <1>5, AllAlone DEF ReadPcs, progress

LEMMA SetTimeoutInv == ASSUME NEW t \in Threads, IInv, SetTimeout(t) PROVE IInv'
<1>1. TypeOK'
  BY DEF SetTimeout, IInv, TypeOK, progress, mutexes, device, queues
<1>2. InputInv' /\ PortInv'
  BY DEF SetTimeout, IInv, OrderInv, InputInv, PortInv, Configured, device, queues
<1> QED
  BY <1>1, <1>2, AllAlone DEF SetTimeout, progress, mutexes, device, queues, Room

LEMMA DeviceSendsInv == ASSUME IInv, DeviceSends PROVE IInv'
<1>1. /\ deviceSent < Bytes /\ ~gone /\ deviceSent' = deviceSent + 1 /\ input' = Append(input, deviceSent + 1)
      /\ UNCHANGED <<pc, call, timer, got, base, written, read_mutex, write_mutex, is_open, fd, applied,
                     inter_byte_timeout, stopped, gone, output, lastOut, torn, jumps>>
  BY DEF DeviceSends, progress, mutexes, port
<1>2. deviceSent \in Nat /\ deviceSent + 1 \in 1..Bytes /\ input \in Seq(1..Bytes) /\ Len(input) \in Nat
  BY <1>1, SerialAssumption, LenProperties DEF IInv, TypeOK
<1>3. /\ input' \in Seq(1..Bytes) /\ Len(input') = Len(input) + 1
      /\ \A k \in 1..Len(input) : input'[k] = input[k]
      /\ input'[Len(input) + 1] = deviceSent + 1
  BY <1>1, <1>2, AppendProperties
<1>4. TypeOK'
  <2>1. deviceSent' \in 0..Bytes
    BY <1>1, <1>2
  <2> QED
    BY <1>1, <1>3, <2>1 DEF IInv, TypeOK
<1>5. InputInv'
  <2> SUFFICES ASSUME NEW k \in 1..(Len(input) + 1) PROVE input'[k] = deviceSent + 1 - (Len(input) + 1) + k
    BY <1>1, <1>2, <1>3 DEF IInv, OrderInv, InputInv
  <2>1. CASE k \in 1..Len(input)
    BY <1>2, <1>3, <2>1 DEF IInv, OrderInv, InputInv
  <2>2. CASE k = Len(input) + 1
    BY <1>2, <1>3, <2>2
  <2> QED
    BY <1>2, <2>1, <2>2
<1>6. input' # <<>>
  BY <1>2, <1>3, EmptySeq
<1>7. deviceSent' - Len(input') = deviceSent - Len(input) /\ Room' = Room
  BY <1>1, <1>2, <1>3 DEF Room
<1> QED
  BY <1>1, <1>4, <1>5, <1>6, <1>7, AllAlone DEF IInv, PortInv, Configured, mutexes

LEMMA TransmitInv == ASSUME IInv, Transmit PROVE IInv'
<1>1. /\ output # <<>> /\ output' = Tail(output)
      /\ UNCHANGED <<pc, call, timer, got, base, written, read_mutex, write_mutex, is_open, fd, applied,
                     inter_byte_timeout, deviceSent, stopped, gone, input, lastOut, torn, jumps>>
  BY DEF Transmit, progress, mutexes, port, device
<1>2. output' \in Seq(Threads) /\ Len(output') = Len(output) - 1 /\ Len(output) \in Nat
  BY <1>1, HeadTailProperties, LenProperties DEF IInv, TypeOK
<1>3. TypeOK'
  <2>1. Len(output') <= Capacity
    BY <1>2, SerialAssumption DEF IInv, TypeOK
  <2> QED
    BY <1>1, <1>2, <2>1 DEF IInv, TypeOK
<1>4. InputInv' /\ PortInv'
  BY <1>1 DEF IInv, OrderInv, InputInv, PortInv, Configured
<1>5. Room > 0 => Room' > 0
  BY <1>2, SerialAssumption DEF Room
<1> QED
  BY <1>1, <1>3, <1>4, <1>5, AllAlone DEF mutexes

LEMMA XonXoffInv == ASSUME IInv, XonXoff PROVE IInv'
<1>1. TypeOK'
  BY DEF XonXoff, IInv, TypeOK, progress, mutexes, port, queues
<1>2. InputInv' /\ PortInv'
  BY DEF XonXoff, IInv, OrderInv, InputInv, PortInv, Configured, port, queues
<1> QED
  BY <1>1, <1>2, AllAlone DEF XonXoff, progress, mutexes, queues, Room

LEMMA UnplugInv == ASSUME IInv, Unplug PROVE IInv'
<1>1. /\ gone' = TRUE /\ stopped' = FALSE /\ input' = <<>> /\ output' = <<>>
      /\ UNCHANGED <<pc, call, timer, got, base, written, read_mutex, write_mutex, is_open, fd, applied,
                     inter_byte_timeout, deviceSent, lastOut, torn, jumps>>
  BY DEF Unplug, progress, mutexes, port
<1>2. Len(<<>>) = 0 /\ <<>> \in Seq(1..Bytes) /\ <<>> \in Seq(Threads)
  BY EmptySeq
<1>3. TypeOK'
  <2>1. Len(output') <= Capacity /\ input' \in Seq(1..Bytes) /\ output' \in Seq(Threads)
    BY <1>1, <1>2, SerialAssumption
  <2> QED
    BY <1>1, <2>1 DEF IInv, TypeOK
<1>4. InputInv' /\ PortInv'
  BY <1>1, <1>2, SerialAssumption DEF IInv, TypeOK, InputInv, PortInv, Configured
<1> QED
  BY <1>1, <1>3, <1>4, AllAlone DEF mutexes

(* Time, and a setting of the clock.                                       *)
LEMMA ClockInv ==
  ASSUME IInv, UNCHANGED <<pc, call, got, base, written, mutexes, port, device, queues>>,
         timer' \in [Threads -> Timers], jumps' \in 0..MaxJumps
  PROVE  IInv'
<1>1. TypeOK'
  BY DEF IInv, TypeOK, Timers, mutexes, port, device, queues
<1>2. InputInv' /\ PortInv'
  BY DEF IInv, OrderInv, InputInv, PortInv, Configured, port, device, queues
<1> QED
  BY <1>1, <1>2, AllAlone DEF device, queues, Room

LEMMA TickInv == ASSUME IInv, Tick PROVE IInv'
<1>1. ASSUME NEW t \in Threads
      PROVE  [timer[t] EXCEPT !.left = @ - 1, !.wait = IF @ > 0 THEN @ - 1 ELSE 0, !.late = @ + 1] \in Timers
  <2>1. timer[t] \in Timers
    BY DEF IInv, TypeOK, Timers
  <2>2. /\ timer[t].left - 1 \in Int /\ timer[t].late + 1 \in Int
        /\ (IF timer[t].wait > 0 THEN timer[t].wait - 1 ELSE 0) \in Nat
    BY <2>1 DEF Timers
  <2> QED
    BY <2>1, <2>2 DEF Timers
<1>2. timer' \in [Threads -> Timers]
  BY <1>1 DEF Tick, IInv, TypeOK, Timers
<1> QED
  BY <1>2, ClockInv DEF Tick, IInv, TypeOK

LEMMA SetClockInv == ASSUME IInv, SetClock PROVE IInv'
<1>1. PICK d \in {-1, 1} :
        timer' = [t \in Threads |-> IF Timed(t)
          THEN [timer[t] EXCEPT !.left = @ + d, !.late = IF d > 0 THEN @ - d ELSE @] ELSE timer[t]]
  BY DEF SetClock
<1>2. ASSUME NEW t \in Threads
      PROVE  [timer[t] EXCEPT !.left = @ + d, !.late = IF d > 0 THEN @ - d ELSE @] \in Timers
  <2>1. timer[t] \in Timers
    BY DEF IInv, TypeOK, Timers
  <2>2. /\ timer[t].left + d \in Int
        /\ (IF d > 0 THEN timer[t].late - d ELSE timer[t].late) \in Int
    BY <2>1 DEF Timers
  <2> QED
    BY <2>1, <2>2 DEF Timers
<1>3. timer' \in [Threads -> Timers]
  BY <1>1, <1>2 DEF IInv, TypeOK, Timers
<1>4. jumps' \in 0..MaxJumps
  <2>1. jumps \in 0..MaxJumps
    BY DEF IInv, TypeOK
  <2>2. jumps < MaxJumps /\ jumps' = jumps + 1
    BY DEF SetClock
  <2> QED
    BY <2>1, <2>2, SerialAssumption
<1> QED
  BY <1>3, <1>4, ClockInv DEF SetClock

(***************************************************************************)
(* The owner's steps, and flushes: nobody else reads or writes meanwhile.  *)
(***************************************************************************)
LEMMA DiscardInv == ASSUME NEW t \in Threads, IInv, Discard(t) PROVE IInv'
<1> USE DEF IInv
<1>0. pc[t] = "discard" /\ LockOf(t) /\ End(t) /\ UNCHANGED <<port, device>>
  BY DEF Discard, LockInv
<1>1. \A u \in Threads \ {t} : Alone(u) /\ (lastOut = u => lastOut' = u)
  BY <1>0, EndFacts
<1>2. /\ got[t] = <<>> /\ written[t] = 0 /\ Len(<<>>) = 0 /\ <<>> \in Seq(1..Bytes) /\ <<>> \in Seq(Threads)
  BY <1>0, EmptySeq DEF LockOf, ReadPcs, WritePcs
<1>3. CASE /\ call[t].kind = "flushInput" /\ read_mutex = t /\ input' = <<>> /\ UNCHANGED <<output, torn>>
  <2>1. \A u \in Threads : got[u] = <<>> /\ pc[u] \notin ReadPcs
    BY <1>0, <1>2, <1>3 DEF LockInv, LockOf, Holds, ReadPcs
  <2>2. TypeOK'
    BY <1>0, <1>2, <1>3, EndType DEF TypeOK, port
  <2>3. LockInv' /\ OpenInv'
    BY <1>0, EndFrame
  <2>5. RoundInv'
    BY <1>0, <1>1, <2>1, AloneRound, EndThread DEF RoundInv
  <2>6. InputInv'
    BY <1>0, <1>2, <1>3, SerialAssumption DEF TypeOK, InputInv, device
  <2>7. OrderInv'
    BY <1>0, <1>1, <2>1, <2>6, AloneOrder, EndThread DEF OrderInv
  <2>8. WriteInv'
    <3> SUFFICES ASSUME NEW u \in Threads PROVE WriteOf(u)'
      BY <1>3 DEF WriteInv
    <3>1. CASE u = t
      BY <1>0, <3>1, EndThread
    <3>2. CASE u # t
      BY <1>0, <1>1, <1>3, <3>2, AloneWrite DEF WriteInv, WriteOf, Room, device
    <3> QED
      BY <3>1, <3>2
  <2>9. PortInv'
    BY <1>0, EndFacts, SerialAssumption DEF TypeOK, PortInv, Configured, Alone, port, device
  <2> QED
    BY <2>2, <2>3, <2>5, <2>7, <2>8, <2>9
<1>4. CASE /\ call[t].kind = "flushOutput" /\ write_mutex = t /\ output' = <<>> /\ torn' = torn \cup Halfway /\ UNCHANGED input
  <2>1. \A u \in Threads : written[u] = 0 /\ pc[u] \notin WritePcs
    BY <1>0, <1>2, <1>4 DEF LockInv, LockOf, Holds, WritePcs
  <2>2. Halfway = {} /\ torn' = {}
    BY <1>4, <2>1 DEF Halfway, WriteInv
  <2>3. Len(output') <= Capacity
    BY <1>2, <1>4, SerialAssumption
  <2>4. TypeOK'
    BY <1>0, <1>2, <1>4, <2>2, <2>3, EndType DEF TypeOK, port
  <2>5. LockInv' /\ OpenInv'
    BY <1>0, EndFrame
  <2>7. RoundInv'
    BY <1>0, <1>1, <1>4, AloneRound, EndThread DEF RoundInv, device
  <2>8. OrderInv'
    BY <1>0, <1>1, <1>4, AloneOrder, EndThread DEF OrderInv, InputInv, device
  <2>9. WriteInv'
    <3> SUFFICES ASSUME NEW u \in Threads PROVE WriteOf(u)'
      BY <2>2 DEF WriteInv
    <3>1. CASE u = t
      BY <1>0, <3>1, EndThread
    <3>2. CASE u # t
      BY <1>1, <2>1, <3>2 DEF WriteOf, WritePcs, Alone
    <3> QED
      BY <3>1, <3>2
  <2>10. PortInv'
    BY <1>0, EndFacts, SerialAssumption DEF TypeOK, PortInv, Configured, Alone, port, device
  <2> QED
    BY <2>4, <2>5, <2>7, <2>8, <2>9, <2>10
<1> QED
  BY <1>0, <1>3, <1>4 DEF Discard, LockOf, Holds

(* The end of an open or of a setter, whatever it made of the port.        *)
LEMMA OwnerEnds ==
  ASSUME NEW t \in Threads, IInv, pc[t] \in {"reopen", "configure"}, End(t),
         UNCHANGED <<inter_byte_timeout, device, input, output, torn>>,
         is_open' \in BOOLEAN, fd' \in BOOLEAN, applied' \in BOOLEAN, PortInv'
  PROVE  IInv'
<1> USE DEF IInv
<1>1. \A u \in Threads \ {t} : Alone(u) /\ (lastOut = u => lastOut' = u)
  BY EndFacts
<1>2. TypeOK'
  BY EndType DEF TypeOK
<1>3. LockInv' /\ OpenInv'
  BY EndFrame
<1>4. RoundInv'
  BY <1>1, AloneRound, EndThread DEF RoundInv, device
<1>5. OrderInv'
  BY <1>1, AloneOrder, EndThread DEF OrderInv, InputInv, device
<1>6. WriteInv'
  <2> SUFFICES ASSUME NEW u \in Threads PROVE WriteOf(u)'
    BY DEF WriteInv
  <2>1. CASE u = t
    BY <2>1, EndThread
  <2>2. CASE u # t
    BY <1>1, <2>2, AloneWrite DEF WriteInv, WriteOf, Room, device
  <2> QED
    BY <2>1, <2>2
<1> QED
  BY <1>2, <1>3, <1>4, <1>5, <1>6

LEMMA OpenFailsInv == ASSUME NEW t \in Threads, IInv, OpenFails(t) PROVE IInv'
<1>1. t = Owner
  BY DEF OpenFails, IInv, LockInv, LockOf
<1>2. /\ pc[Owner] # "configure" /\ fd' = is_open /\ UNCHANGED <<is_open, applied, gone>>
      /\ pc'[Owner] = "idle"
  BY <1>1, EndFacts DEF OpenFails, IInv, device
<1>3. PortInv'
  BY <1>2 DEF IInv, PortInv, Configured
<1> QED
  BY <1>3, OwnerEnds DEF OpenFails, IInv, TypeOK

LEMMA ReconfigureInv == ASSUME NEW t \in Threads, IInv, Reconfigure(t) PROVE IInv'
<1>0. t = Owner /\ pc'[Owner] = "idle"
  <2>1. t = Owner
    BY DEF Reconfigure, IInv, LockInv, LockOf
  <2>2. pc'[t] = "idle"
    BY EndFacts DEF Reconfigure, IInv
  <2> QED
    BY <2>1, <2>2
<1>1. CASE ~gone /\ applied' = TRUE /\ is_open' = TRUE /\ End(t)
  <2>1. PortInv'
    BY <1>0, <1>1 DEF Reconfigure, IInv, PortInv, Configured
  <2> QED
    BY <1>1, <2>1, OwnerEnds DEF Reconfigure, IInv, TypeOK
<1>2. CASE gone /\ End(t) /\ UNCHANGED <<applied, is_open>>
  <2>1. PortInv'
    BY <1>0, <1>2 DEF Reconfigure, IInv, PortInv, Configured, device
  <2> QED
    BY <1>2, <2>1, OwnerEnds DEF Reconfigure, IInv, TypeOK
<1> QED
  BY <1>1, <1>2 DEF Reconfigure

(* setPort has both mutexes, and an open the port to itself.               *)
LEMMA OwnerAlone ==
  ASSUME NEW t \in Threads, IInv, pc[t] \in {"setport", "reopen"}
  PROVE  /\ t = Owner /\ \A u \in Threads : got[u] = <<>> /\ written[u] = 0 /\ pc[u] \notin ReadPcs \cup WritePcs
         /\ Halfway = {}
<1> USE DEF IInv
<1>1. LockOf(t) /\ \A u \in Threads : LockOf(u)
  BY DEF LockInv
<1>2. t = Owner
  BY <1>1 DEF LockOf
<1>3. ASSUME NEW u \in Threads, u # t PROVE pc[u] \notin ReadPcs \cup WritePcs
  <2>1. CASE Opening
    BY <1>2, <1>3, <2>1 DEF OpenInv, Quiet, ReadPcs, WritePcs
  <2>2. CASE read_mutex = t /\ write_mutex = t
    BY <1>1, <1>3, <2>2 DEF LockOf, Holds
  <2> QED
    BY <1>1, <1>2, <2>1, <2>2 DEF LockOf, Holds, Opening
<1>4. pc[t] \notin ReadPcs \cup WritePcs
  BY DEF ReadPcs, WritePcs
<1>5. \A u \in Threads : pc[u] \notin ReadPcs \cup WritePcs
  BY <1>3, <1>4
<1>6. \A u \in Threads : got[u] = <<>> /\ written[u] = 0
  BY <1>1, <1>5 DEF LockOf
<1> QED
  BY <1>2, <1>5, <1>6 DEF Halfway

LEMMA OwnerMoves ==
  ASSUME NEW t \in Threads, NEW from \in {"setport", "reopen"}, NEW to \in {"reopen", "configure"},
         IInv, Goto(t, from, to), UNCHANGED <<call, progress, mutexes, inter_byte_timeout, deviceSent, stopped,
                                               lastOut, jumps>>,
         TypeOK', InputInv', PortInv', LockOf(t)', torn' = {}
  PROVE  IInv'
<1> USE DEF IInv
<1>1. pc[t] = from /\ pc'[t] = to /\ \A u \in Threads \ {t} : Alone(u)
  BY SerialAssumption DEF TypeOK, Goto, Alone, progress, mutexes
<1>2. \A u \in Threads : got[u] = <<>> /\ written[u] = 0 /\ pc[u] \notin ReadPcs \cup WritePcs
  BY <1>1, OwnerAlone
<1>3. pc'[t] \notin ReadPcs \cup WritePcs
  BY <1>1 DEF ReadPcs, WritePcs
<1>4. LockInv'
  BY <1>1, AloneLock DEF LockInv
<1>5. OpenInv'
  <2>1. Opening' => Opening
    BY <1>1, SerialAssumption DEF Opening, Alone
  <2>2. \A u \in Threads : pc[u] = "idle" => pc'[u] = "idle"
    BY <1>1 DEF Alone
  <2> QED
    BY <2>1, <2>2 DEF OpenInv, Quiet
<1>6. RoundInv'
  BY <1>1, <1>2, <1>3 DEF RoundInv, RoundOf, Alone
<1>7. OrderInv'
  <2>1. Len(<<>>) = 0 /\ \A u \in Threads : got'[u] = <<>>
    BY <1>2 DEF progress
  <2> QED
    BY <2>1 DEF OrderInv, OrderOf
<1>8. WriteInv'
  BY <1>1, <1>2, <1>3 DEF WriteInv, WriteOf, Alone, WritePcs, progress
<1> QED
  BY <1>4, <1>5, <1>6, <1>7, <1>8

LEMMA SetPortClosesInv == ASSUME NEW t \in Threads, IInv, SetPortCloses(t) PROVE IInv'
<1> USE DEF IInv
<1>1. CASE pc[t] = "setport" /\ End(t) /\ UNCHANGED <<port, device, input, output, torn>>
  BY <1>1, EndInv
<1>2. CASE /\ Goto(t, "setport", "reopen") /\ CloseFd /\ torn' = torn \cup Halfway
           /\ UNCHANGED <<call, progress, mutexes, applied, inter_byte_timeout, device, lastOut, jumps>>
  <2>1. pc[t] = "setport" /\ pc'[t] = "reopen" /\ pc' \in [Threads -> Pcs]
    BY <1>2 DEF Goto, TypeOK, Pcs
  <2>2. LockOf(t)'
    BY <1>2, <2>1 DEF LockInv, LockOf, Holds, ReadPcs, WritePcs, progress, mutexes
  <2>3. torn' = {}
    BY <1>2, <2>1, OwnerAlone DEF WriteInv
  <2>4. TypeOK'
    <3>1. Len(output') <= Capacity /\ input' \in Seq(1..Bytes) /\ output' \in Seq(Threads)
      BY <1>2, EmptySeq, SerialAssumption DEF CloseFd
    <3> QED
      BY <1>2, <2>1, <2>3, <3>1 DEF TypeOK, CloseFd, progress, mutexes, device, Pcs
  <2>5. InputInv' /\ PortInv'
    <3>1. pc'[Owner] = "reopen"
      BY <2>1, OwnerAlone
    <3> QED
      BY <1>2, <3>1, EmptySeq, SerialAssumption DEF TypeOK, InputInv, PortInv, Configured, CloseFd, device
  <2> QED
    BY <1>2, <2>2, <2>3, <2>4, <2>5, OwnerMoves DEF device
<1> QED
  BY <1>1, <1>2 DEF SetPortCloses

LEMMA OpenSucceedsInv == ASSUME NEW t \in Threads, IInv, OpenSucceeds(t) PROVE IInv'
<1> USE DEF IInv
<1>1. /\ Goto(t, "reopen", "configure") /\ ~is_open /\ fd' = TRUE /\ gone' = FALSE /\ applied' \in BOOLEAN
      /\ UNCHANGED <<call, progress, mutexes, is_open, inter_byte_timeout, deviceSent, stopped, queues, jumps>>
  BY DEF OpenSucceeds
<1>2. pc[t] = "reopen" /\ pc'[t] = "configure" /\ pc' \in [Threads -> Pcs]
  BY <1>1 DEF Goto, TypeOK, Pcs
<1>3. LockOf(t)'
  BY <1>1, <1>2 DEF LockInv, LockOf, Holds, ReadPcs, WritePcs, progress, mutexes
<1>4. TypeOK'
  BY <1>1, <1>2 DEF TypeOK, progress, mutexes, queues, Pcs
<1>5. InputInv' /\ PortInv' /\ torn' = {}
  BY <1>1 DEF OrderInv, InputInv, PortInv, Configured, WriteInv, queues
<1> QED
  BY <1>1, <1>3, <1>4, <1>5, OwnerMoves DEF queues

(***************************************************************************)
(* The theorems.                                                           *)
(***************************************************************************)
LEMMA InitInv == Init => IInv
<1> SUFFICES ASSUME Init PROVE IInv
  OBVIOUS
<1>1. Len(<<>>) = 0 /\ <<>> \in Seq(1..Bytes) /\ <<>> \in Seq(Threads)
  BY EmptySeq
<1>2. TypeOK
  <2>1. /\ call \in [Threads -> [kind : ReadCalls \cup OtherCalls \cup OwnCalls \cup {"write", "none"}, size : Nat]]
        /\ timer \in [Threads -> [left : Int, wait : Nat, late : Int]]
    BY DEF Init, NoCall, NoTimer
  <2>2. got \in [Threads -> Seq(1..Bytes)] /\ base \in [Threads -> Nat] /\ written \in [Threads -> Nat]
    BY <1>1 DEF Init
  <2>3. \A t \in Threads : Len(got[t]) <= call[t].size /\ written[t] <= call[t].size
    BY <1>1 DEF Init, NoCall
  <2>4. Len(output) <= Capacity /\ deviceSent \in 0..Bytes /\ jumps \in 0..MaxJumps
    BY <1>1, SerialAssumption DEF Init
  <2> QED
    BY <1>1, <2>1, <2>2, <2>3, <2>4 DEF Init, TypeOK
<1>3. LockInv /\ OpenInv
  BY SerialAssumption DEF Init, LockInv, LockOf, NoCall, ReadCalls, ReadPcs, WritePcs, OpenInv, Opening
<1>4. RoundInv /\ WriteInv
  BY DEF Init, RoundInv, RoundOf, ReadPcs, WriteInv, WriteOf
<1>5. OrderInv
  BY <1>1 DEF Init, OrderInv, InputInv, OrderOf
<1>6. PortInv
  BY SerialAssumption DEF Init, PortInv, Configured
<1> QED
  BY <1>2, <1>3, <1>4, <1>5, <1>6 DEF IInv

LEMMA StepInv == ASSUME NEW t \in Threads, IInv, Step(t) PROVE IInv'
<1>1. CASE NotOpen(t)
  BY <1>1, EndInv DEF NotOpen
<1>2. CASE Reading(t)
  <2>1. CASE ReadEnds(t) \/ AvailableThrows(t)
    BY <2>1, EndInv DEF ReadEnds, AvailableThrows
  <2>2. CASE Pause(t)
    BY <2>2, PauseInv DEF Pause
  <2> QED
    BY <1>2, <2>1, <2>2, LockReadInv, BeginReadInv, ReadLoopInv, NextRoundInv, SelectInv, TakeInv DEF Reading
<1>3. CASE Writing(t)
  <2>1. CASE WriteTimesOut(t)
    BY <2>1, EndInv DEF WriteTimesOut
  <2> QED
    BY <1>3, <2>1, LockWriteInv, BeginWriteInv, WriteLoopInv, WriteSelectInv, PutInv DEF Writing
<1>4. CASE Drain(t)
  BY <1>4, EndInv DEF Drain
<1>5. CASE Ioctl(t)
  BY <1>5, EndInv DEF Ioctl
<1>6. CASE Owning(t)
  BY <1>6, SetPortClosesInv, OpenSucceedsInv, OpenFailsInv, ReconfigureInv DEF Owning
<1> QED
  BY <1>1, <1>2, <1>3, <1>4, <1>5, <1>6, DiscardInv DEF Step

LEMMA NextInv == IInv /\ [Next]_vars => IInv'
<1> SUFFICES ASSUME IInv, [Next]_vars PROVE IInv'
  OBVIOUS
<1>1. ASSUME NEW t \in Threads,
             Ask(t) \/ Step(t) \/ Interrupt(t) \/ LineChange(t) \/ SetPort(t)
               \/ Open(t) \/ Close(t) \/ Set(t) \/ SetTimeout(t)
      PROVE  IInv'
  <2>1. CASE LineChange(t)
    BY <2>1, EndInv DEF LineChange
  <2> QED
    BY <1>1, <2>1, AskInv, StepInv, InterruptInv, SetPortInv, OpenStartsInv, CloseInv, SetInv, SetTimeoutInv
<1>2. CASE UNCHANGED vars
  <2>1. UNCHANGED <<pc, call, timer, got, base, written, mutexes, port, device, queues, jumps>>
    BY <1>2 DEF vars, progress
  <2>2. timer' \in [Threads -> Timers] /\ jumps' \in 0..MaxJumps
    BY <2>1 DEF IInv, TypeOK, Timers
  <2> QED
    BY <2>1, <2>2, ClockInv
<1> QED
  BY <1>1, <1>2, DeviceSendsInv, TransmitInv, XonXoffInv, UnplugInv, TickInv, SetClockInv DEF Next

(* All of the invariant holds of every behaviour of the library.           *)
THEOREM Invariance == Spec => []IInv
BY InitInv, NextInv, PTL DEF Spec

(* Every variable keeps its type; no call gets or gives more than it asked *)
(* for, and the kernel's queue never overflows.                            *)
THEOREM TypeCorrect == Spec => []TypeOK
<1>1. IInv => TypeOK
  BY DEF IInv
<1> QED
  BY <1>1, Invariance, PTL

(* The two mutexes are enough to keep the bytes of a read in the order the *)
(* device sent them, and a readline from reading past its line.            *)
THEOREM ReadsAreInOrder == Spec => []ReadsInOrder
<1>1. IInv => ReadsInOrder
  <2> SUFFICES ASSUME IInv, NEW t \in Threads
               PROVE  /\ \A k \in 1..(Len(got[t]) - 1) : got[t][k + 1] = got[t][k] + 1
                      /\ call[t].kind = "readline" => \A k \in 1..(Len(got[t]) - 1) : got[t][k] \notin Eols
    BY DEF ReadsInOrder
  <2>1. \A k \in 1..(Len(got[t]) - 1) : got[t][k + 1] = got[t][k] + 1
    BY DEF IInv, OrderInv, OrderOf
  <2>2. CASE pc[t] \in ReadPcs
    <3>1. /\ call[t].kind = "readline" => Len(got[t]) <= base[t] + 1 /\ \A k \in 1..base[t] : got[t][k] \notin Eols
          /\ base[t] \in Nat /\ Len(got[t]) \in Nat
      BY <2>2, ReaderFacts DEF RoundOf, Wanted, Round
    <3> QED
      BY <2>1, <3>1
  <2>3. CASE pc[t] \notin ReadPcs
    <3>1. got[t] = <<>> /\ Len(<<>>) = 0
      BY <2>3 DEF IInv, LockInv, LockOf
    <3> QED
      BY <2>1, <3>1
  <2> QED
    BY <2>2, <2>3
<1> QED
  BY <1>1, Invariance, PTL

(* No other call's byte gets between those of a write, and none of them is *)
(* thrown away before the write ends.                                      *)
THEOREM WritesAreWhole == Spec => []WritesInOne
<1>1. IInv => WritesInOne
  BY DEF IInv, WriteInv, WriteOf, WritesInOne
<1> QED
  BY <1>1, Invariance, PTL

(* An open port is configured, through every open, setPort and setter that *)
(* succeeds or fails.                                                      *)
THEOREM OpenIsConfigured == Spec => []Configured
<1>1. IInv => Configured
  BY DEF IInv, PortInv
<1> QED
  BY <1>1, Invariance, PTL

(* Where a read or a write ends, but for its loop, it ends because the     *)
(* port is not open or the device is gone.                                 *)
Throwing == {"begin", "select", "take", "wbegin", "put"}

(* A step is one thread's, and moves no other.                             *)
Call(t) == \/ Ask(t) \/ Step(t) \/ Interrupt(t) \/ LineChange(t) \/ SetPort(t)
           \/ Open(t) \/ Close(t) \/ Set(t) \/ SetTimeout(t)

LEMMA OthersStay ==
  ASSUME NEW t \in Threads, NEW u \in Threads, TypeOK, u # t, Call(u)
  PROVE  pc'[t] = pc[t]
<1>1. ASSUME NEW to, pc' = [pc EXCEPT ![u] = to] PROVE pc'[t] = pc[t]
  BY <1>1 DEF TypeOK
<1>2. ASSUME End(u) PROVE pc'[t] = pc[t]
  BY <1>2 DEF TypeOK, End
<1>3. CASE Reading(u) \/ NotOpen(u) \/ Interrupt(u)
  BY <1>1, <1>2, <1>3 DEF Reading, LockRead, BeginRead, ReadLoop, NextRound, ReadEnds, Select, AvailableThrows,
                          Pause, Take, NotOpen, Interrupt, Goto
<1>4. CASE Writing(u)
  BY <1>1, <1>2, <1>4 DEF Writing, LockWrite, BeginWrite, WriteLoop, WriteSelect, WriteTimesOut, Put, Goto
<1>5. CASE Owning(u) \/ Drain(u) \/ Discard(u) \/ Ioctl(u) \/ LineChange(u)
  BY <1>1, <1>2, <1>5 DEF Owning, SetPortCloses, OpenSucceeds, OpenFails, Reconfigure, Drain, Discard, Ioctl,
                          LineChange, Goto
<1>6. CASE Ask(u) \/ SetPort(u) \/ Open(u) \/ Close(u) \/ Set(u) \/ SetTimeout(u)
  BY <1>1, <1>6 DEF Ask, SetPort, Open, Close, Set, SetTimeout, Start, Goto
<1> QED
  BY <1>3, <1>4, <1>5, <1>6 DEF Call, Step

(* read and write never throw without a cause: a wait that ended in time   *)
(* has left a byte, or room for one, when the call comes to look.          *)
THEOREM NoBareThrow == Spec => ThrowsForCause
<1>1. IInv /\ [Next]_vars => [\A t \in Threads : pc[t] \in Throwing /\ pc'[t] = "idle" => gone \/ ~is_open]_vars
  <2> SUFFICES ASSUME IInv, Next, NEW t \in Threads, pc[t] \in Throwing, pc'[t] = "idle"
               PROVE  gone \/ ~is_open
    BY DEF Throwing
  <2> USE DEF Throwing
  <2>1. CASE Take(t)
    <3>1. pc[t] = "take"
      BY <2>1 DEF Take, Goto
    <3>2. RoundOf(t) /\ Wanted(t) \in Nat /\ Len(got[t]) \in Nat
      BY <3>1, ReaderFacts DEF ReadPcs
    <3>3. Len(got[t]) < Wanted(t) /\ (input # <<>> \/ gone)
      BY <3>1, <3>2 DEF RoundOf, ReadPcs
    <3>4. ~gone => Readable(t) # 0
      <4>1. input # <<>> => Len(input) \in Nat \ {0}
        BY EmptySeq DEF IInv, TypeOK
      <4> QED
        BY <3>2, <3>3, <4>1 DEF Readable, Least
    <3>5. ~gone => pc'[t] = "loop"
      BY <2>1, <3>4 DEF Take, Goto, IInv, TypeOK
    <3> QED
      BY <3>5
  <2>2. CASE Put(t)
    <3>1. pc[t] = "put"
      BY <2>2 DEF Put, Goto
    <3>2. Room > 0 \/ gone
      BY <3>1 DEF IInv, WriteInv, WriteOf
    <3>3. ~gone => Goto(t, "put", "wloop")
      <4>1. Room \in Int
        BY LenProperties, SerialAssumption DEF Room, IInv, TypeOK
      <4>2. Room # 0 \/ gone
        BY <3>2, <4>1
      <4> QED
        BY <2>2, <4>2 DEF Put
    <3> QED
      BY <3>3 DEF Goto, IInv, TypeOK
  <2>3. CASE NotOpen(t) \/ AvailableThrows(t)
    BY <2>3 DEF NotOpen, AvailableThrows
  <2>4. CASE \/ LockRead(t) \/ BeginRead(t) \/ ReadLoop(t) \/ NextRound(t) \/ ReadEnds(t) \/ Pause(t)
    BY <2>4 DEF LockRead, BeginRead, ReadLoop, NextRound, ReadEnds, Pause, Goto, IInv, TypeOK
  <2>5. CASE Select(t) \/ Interrupt(t)
    BY <2>5 DEF Select, Interrupt, Goto, IInv, TypeOK
  <2>6. CASE LockWrite(t) \/ BeginWrite(t) \/ WriteLoop(t) \/ WriteSelect(t)
    BY <2>6 DEF LockWrite, BeginWrite, WriteLoop, WriteSelect, Goto, IInv, TypeOK
  <2>7. CASE WriteTimesOut(t) \/ Drain(t) \/ Discard(t) \/ Ioctl(t) \/ LineChange(t)
    <3>1. CASE WriteTimesOut(t)
      BY <3>1 DEF WriteTimesOut
    <3> QED
      BY <2>7, <3>1 DEF Drain, Discard, Ioctl, LineChange
  <2>8. CASE Owning(t) \/ Ask(t) \/ SetPort(t) \/ Open(t) \/ Close(t) \/ Set(t) \/ SetTimeout(t)
    BY <2>8 DEF Owning, SetPortCloses, OpenSucceeds, OpenFails, Reconfigure, Ask, SetPort, Open, Close, Set,
                SetTimeout, Start, Goto
  <2>9. CASE Call(t)
    BY <2>1, <2>2, <2>3, <2>4, <2>5, <2>6, <2>7, <2>8, <2>9 DEF Call, Step, Reading, Writing
  <2>10. CASE \E u \in Threads \ {t} : Call(u)
    BY <2>10, OthersStay DEF IInv
  <2>11. CASE DeviceSends \/ Transmit \/ XonXoff \/ Unplug \/ Tick \/ SetClock
    BY <2>11 DEF DeviceSends, Transmit, XonXoff, Unplug, Tick, SetClock
  <2> QED
    BY <2>9, <2>10, <2>11 DEF Next, Call
<1> QED
  BY <1>1, Invariance, PTL DEF Spec, ThrowsForCause, Throwing
-----------------------------------------------------------------------------
(* Who has a mutex is in a call, and is not waiting for that one or for one *)
(* that is taken before it: a thread at rlock has none, a thread at wlock   *)
(* has read_mutex at most.  So no call ends, on whatever path, with a mutex *)
(* still taken; nobody waits for himself; and who waits for read_mutex      *)
(* waits for a call that works or waits for write_mutex, whose holder works *)
(* and waits for none: flush and setPort, which take both, and the calls    *)
(* that take one never wait for each other in a circle.                     *)
LocksInOrder ==
  /\ read_mutex # Nobody => pc[read_mutex] \notin {"idle", "rlock"}
  /\ write_mutex # Nobody => pc[write_mutex] \notin {"idle", "rlock", "wlock"}

(* A step between the locks and the end of a call, and one that begins a    *)
(* call, leaves the mutexes to whoever has them.                            *)
LEMMA OrderMoves ==
  ASSUME TypeOK, LocksInOrder, NEW t \in Threads, UNCHANGED mutexes,
         \/ UNCHANGED pc
         \/ \E to : /\ pc' = [pc EXCEPT ![t] = to]
                    /\ pc[t] = "idle" \/ to \notin {"idle", "rlock", "wlock"}
  PROVE  LocksInOrder'
BY DEF TypeOK, LocksInOrder, mutexes

(* The locks are scoped: a call that ends has none.                         *)
LEMMA OrderEnds == ASSUME TypeOK, LocksInOrder, NEW t \in Threads, End(t) PROVE LocksInOrder'
BY SerialAssumption DEF TypeOK, LocksInOrder, End

(* Taking a mutex.                                                          *)
LEMMA OrderLocks ==
  ASSUME TypeOK, LocksInOrder, NEW t \in Threads, LockRead(t) \/ LockWrite(t)
  PROVE  LocksInOrder'
<1> USE SerialAssumption DEF TypeOK, LocksInOrder, Goto
<1>1. CASE LockRead(t)
  BY <1>1 DEF LockRead
<1>2. CASE LockWrite(t)
  BY <1>2 DEF LockWrite
<1> QED
  BY <1>1, <1>2

LEMMA OrderStep == ASSUME TypeOK, LocksInOrder, NEW t \in Threads, Call(t) PROVE LocksInOrder'
<1>1. CASE LockRead(t) \/ LockWrite(t)
  BY <1>1, OrderLocks, Zenon
<1>2. CASE BeginRead(t) \/ ReadLoop(t) \/ NextRound(t) \/ ReadEnds(t) \/ Pause(t)
  BY <1>2, OrderMoves, OrderEnds DEF BeginRead, ReadLoop, NextRound, ReadEnds, Pause, Goto
<1>3. CASE Select(t) \/ AvailableThrows(t) \/ Take(t)
  BY <1>3, OrderMoves, OrderEnds DEF Select, AvailableThrows, Take, Goto
<1>4. CASE NotOpen(t) \/ Interrupt(t)
  BY <1>4, OrderMoves, OrderEnds DEF NotOpen, Interrupt, Goto
<1>5. CASE BeginWrite(t) \/ WriteLoop(t) \/ WriteSelect(t) \/ WriteTimesOut(t)
  BY <1>5, OrderMoves, OrderEnds DEF BeginWrite, WriteLoop, WriteSelect, WriteTimesOut, Goto
<1>6. CASE Put(t)
  BY <1>6, OrderMoves, OrderEnds DEF Put, Goto
<1>7. CASE SetPortCloses(t) \/ OpenSucceeds(t)
  BY <1>7, OrderMoves, OrderEnds DEF SetPortCloses, OpenSucceeds, Goto
<1>8. CASE OpenFails(t) \/ Reconfigure(t) \/ Drain(t) \/ Discard(t) \/ Ioctl(t) \/ LineChange(t)
  <2>1. End(t)
    BY <1>8 DEF OpenFails, Reconfigure, Drain, Discard, Ioctl, LineChange
  <2> QED
    BY <2>1, OrderEnds, Zenon
<1>9. CASE Ask(t) \/ SetPort(t) \/ Open(t)
  <2>1. PICK kind, size, to : Start(t, kind, size, to)
    BY <1>9 DEF Ask, SetPort, Open
  <2> QED
    BY <2>1, OrderMoves DEF Start, Goto
<1>10. CASE Set(t)
  BY <1>10, OrderMoves DEF Set, Start, Goto
<1>11. CASE Close(t) \/ SetTimeout(t)
  BY <1>11, OrderMoves DEF Close, SetTimeout
<1> QED
  BY <1>1, <1>2, <1>3, <1>4, <1>5, <1>6, <1>7, <1>8, <1>9, <1>10, <1>11
     DEF Call, Step, Reading, Writing, Owning

(* LocksInOrder for every number of threads and whatever they call.         *)
THEOREM NoCircleOfLocks == Spec => []LocksInOrder
<1>1. Init => LocksInOrder
  BY DEF Init, LocksInOrder
<1>2. IInv /\ LocksInOrder /\ [Next]_vars => LocksInOrder'
  <2> SUFFICES ASSUME TypeOK, LocksInOrder, [Next]_vars PROVE LocksInOrder'
    BY DEF IInv
  <2>1. CASE \E t \in Threads : Call(t)
    BY <2>1, OrderStep
  <2>2. CASE DeviceSends \/ Transmit \/ XonXoff \/ Unplug \/ Tick \/ SetClock \/ UNCHANGED vars
    BY <2>2 DEF DeviceSends, Transmit, XonXoff, Unplug, Tick, SetClock, vars, LocksInOrder, mutexes
  <2> QED
    BY <2>1, <2>2 DEF Next, Call
<1> QED
  BY <1>1, <1>2, Invariance, PTL DEF Spec
-----------------------------------------------------------------------------
(* Time.  A call that is timed is never later than its timer says, but for *)
(* settings of the clock; in pselect it is done waiting before it is late; *)
(* only the pause for the missing bytes may make it late, by their time on *)
(* the line.                                                               *)
TimeOf(t) ==
  /\ timer[t].late <= ByteTime * call[t].size
  /\ ~Timed(t) => timer[t].late <= 0
  /\ Timed(t) => timer[t].left + timer[t].late <= 0
  /\ pc[t] \in {"select", "wselect"} => timer[t].late + timer[t].wait <= 0
  /\ pc[t] = "pause" => timer[t].late + timer[t].wait <= ByteTime * call[t].size
TimeInv == \A t \in Threads : TimeOf(t)

LEMMA Products ==
  /\ \A n \in Nat : ByteTime * n \in Nat
  /\ \A m, n \in Nat : m <= n => ByteTime * m <= ByteTime * n
<1>1. ByteTime \in Nat
  BY SerialAssumption
<1>2. ASSUME NEW m \in Nat, NEW n \in Nat, m <= n PROVE ByteTime * m <= ByteTime * n
  <2>1. n - m \in Nat
    BY <1>2
  <2>2. ByteTime * (n - m) \in Nat /\ ByteTime * m \in Nat /\ ByteTime * n \in Nat
    BY <1>1, <2>1
  <2>3. ByteTime * n = ByteTime * m + ByteTime * (n - m)
    BY <1>1, <2>1
  <2> QED
    BY <2>2, <2>3
<1> QED
  BY <1>1, <1>2

LEMMA TimeTypes ==
  ASSUME NEW t \in Threads, IInv
  PROVE  /\ timer[t].left \in Int /\ timer[t].wait \in Nat /\ timer[t].late \in Int
         /\ call[t].size \in Nat /\ ByteTime * call[t].size \in Nat
<1>1. timer[t].left \in Int /\ timer[t].wait \in Nat /\ timer[t].late \in Int /\ call[t].size \in Nat
  BY DEF IInv, TypeOK
<1> QED
  BY <1>1, Products

(* The steps that leave the timer as it is, set it, or give it back.       *)
LEMMA SameTimer ==
  ASSUME NEW t \in Threads, TimeOf(t), timer'[t] = timer[t], call'[t] = call[t],
         Timed(t) <=> Timed(t)', pc'[t] \notin {"select", "wselect", "pause"} \/ pc'[t] = pc[t]
  PROVE  TimeOf(t)'
BY DEF TimeOf

LEMMA NewWait ==
  ASSUME NEW t \in Threads, IInv, TimeOf(t), NEW w \in Nat, Waiting(t, w), call'[t] = call[t],
         Timed(t), Timed(t)',
         pc'[t] \in {"select", "wselect"} => timer[t].late + w <= 0,
         pc'[t] = "pause" => timer[t].late + w <= ByteTime * call[t].size
  PROVE  TimeOf(t)'
<1>1. timer'[t].left = timer[t].left /\ timer'[t].wait = w /\ timer'[t].late = timer[t].late
  BY DEF Waiting, IInv, TypeOK
<1> QED
  BY <1>1 DEF TimeOf

LEMMA NewTimer ==
  ASSUME NEW t \in Threads, IInv, NEW n \in Nat, timer' = [timer EXCEPT ![t] = Timer(n)],
         call'[t] = call[t], pc'[t] \in {"loop", "wloop"}
  PROVE  TimeOf(t)'
<1>1. Total(n) \in Nat
  BY SerialAssumption DEF Total
<1>2. timer'[t].left = Total(n) /\ timer'[t].late = -Total(n)
  BY DEF IInv, TypeOK, Timer
<1> QED
  BY <1>1, <1>2, TimeTypes DEF TimeOf, Timed

LEMMA EndOfTime ==
  ASSUME NEW t \in Threads, IInv, End(t)
  PROVE  TimeOf(t)'
<1>1. pc'[t] = "idle" /\ timer'[t] = NoTimer /\ call'[t] = NoCall
  BY DEF End, IInv, TypeOK
<1>2. ByteTime * 0 \in Nat
  BY Products
<1> QED
  BY <1>1, <1>2 DEF TimeOf, Timed, NoTimer, NoCall

LEMMA StartOfTime ==
  ASSUME NEW t \in Threads, IInv, TimeOf(t), NEW kind, NEW size \in Nat,
         NEW to \in {"rlock", "wlock", "ioctl", "reopen", "configure"}, Start(t, kind, size, to)
  PROVE  TimeOf(t)'
<1>1. pc[t] = "idle" /\ pc'[t] = to /\ timer'[t] = timer[t] /\ call'[t].size = size
  BY DEF Start, Goto, progress, IInv, TypeOK
<1>2. timer[t].late <= 0
  BY <1>1 DEF TimeOf, Timed
<1> QED
  BY <1>1, <1>2, TimeTypes, Products DEF TimeOf, Timed

(* A read or a write, step by step.                                        *)
LEMMA ReadingTime ==
  ASSUME NEW t \in Threads, IInv, TimeOf(t), Reading(t) \/ Interrupt(t)
  PROVE  TimeOf(t)'
<1>1. ASSUME NEW from, NEW to, Goto(t, from, to) PROVE pc[t] = from /\ pc'[t] = to
  BY <1>1 DEF Goto, IInv, TypeOK
<1>2. CASE LockRead(t)
  <2>1. pc[t] = "rlock" /\ pc'[t] \in {"begin", "discard", "wlock"} /\ timer' = timer /\ call' = call
    BY <1>1, <1>2 DEF LockRead, progress
  <2> QED
    BY <2>1, SameTimer DEF Timed
<1>3. CASE BeginRead(t)
  <2>1. pc[t] = "begin" /\ pc'[t] = "loop"
    BY <1>1, <1>3 DEF BeginRead
  <2>2. Round(t) \in Nat
    BY <2>1, ReaderFacts DEF ReadPcs
  <2> QED
    BY <1>3, <2>1, <2>2, NewTimer DEF BeginRead
<1>4. CASE ReadLoop(t)
  <2>1. pc[t] = "loop" /\ pc'[t] = "select" /\ timer[t].left > 0
    BY <1>1, <1>4, TimeTypes DEF ReadLoop, RoundOver
  <2> DEFINE w == Least(timer[t].left, inter_byte_timeout)
  <2>2. w \in Nat /\ w <= timer[t].left
    <3>1. inter_byte_timeout \in Nat /\ timer[t].left \in Nat
      BY <2>1, InterByteType, TimeTypes
    <3> QED
      BY <3>1 DEF Least
  <2>3. timer[t].left + timer[t].late <= 0
    BY <2>1 DEF TimeOf, Timed
  <2>4. Waiting(t, w) /\ call' = call
    BY <1>4 DEF ReadLoop
  <2> HIDE DEF w
  <2>5. timer[t].late + w <= 0
    BY <2>2, <2>3, TimeTypes
  <2> QED
    BY <2>1, <2>2, <2>4, <2>5, NewWait DEF Timed
<1>5. CASE NextRound(t)
  <2>1. pc'[t] = "begin" /\ timer'[t] = NoTimer /\ call'[t] = call[t]
    BY <1>1, <1>5 DEF NextRound, IInv, TypeOK
  <2> QED
    BY <2>1, TimeTypes DEF TimeOf, Timed, NoTimer
<1>6. CASE ReadEnds(t) \/ AvailableThrows(t)
  BY <1>6, EndOfTime DEF ReadEnds, AvailableThrows
<1>7. CASE Select(t)
  <2>1. pc[t] = "select" /\ call' = call /\ pc'[t] \in {"pause", "take", "loop"}
    BY <1>1, <1>7 DEF Select
  <2>2. timer[t].late <= 0 /\ Timed(t)
    BY <2>1, TimeTypes DEF TimeOf, Timed
  <2>3. CASE pc'[t] = "pause"
    <3>1. Missing(t) > 0 /\ Waiting(t, ByteTime * Missing(t))
      BY <1>1, <1>7, <2>3 DEF Select
    <3>2. Missing(t) \in Nat /\ Missing(t) <= call[t].size
      <4>1. Wanted(t) <= call[t].size /\ Wanted(t) \in Nat /\ Len(got[t]) \in Nat /\ call[t].size \in Nat
        BY <2>1, ReaderFacts DEF ReadPcs, RoundOf
      <4>2. Len(input) \in Nat
        BY LenProperties DEF IInv, TypeOK
      <4> QED
        BY <3>1, <4>1, <4>2 DEF Missing
    <3>3. ByteTime * Missing(t) \in Nat /\ ByteTime * Missing(t) <= ByteTime * call[t].size
      <4>1. call[t].size \in Nat
        BY TimeTypes
      <4> QED
        BY <3>2, <4>1, Products, Zenon
    <3>4. timer[t].late + ByteTime * Missing(t) <= ByteTime * call[t].size
      <4>1. \A late \in Int, m, n \in Nat : late <= 0 /\ m <= n => late + m <= n
        OBVIOUS
      <4> QED
        BY <2>2, <3>3, <4>1, TimeTypes
    <3> QED
      BY <2>1, <2>2, <2>3, <3>1, <3>3, <3>4, NewWait DEF Timed
  <2>4. CASE pc'[t] # "pause"
    <3>1. pc'[t] \in {"take", "loop"} /\ Waiting(t, 0)
      BY <1>1, <1>7, <2>1, <2>4 DEF Select
    <3> QED
      BY <2>1, <2>2, <3>1, NewWait DEF Timed
  <2> QED
    BY <2>3, <2>4
<1>8. CASE Pause(t)
  <2>1. pc[t] = "pause" /\ pc'[t] = "take" /\ Waiting(t, 0) /\ call' = call
    BY <1>1, <1>8 DEF Pause
  <2> QED
    BY <2>1, NewWait DEF Timed
<1>9. CASE Take(t)
  <2>1. CASE End(t)
    BY <2>1, EndOfTime
  <2>2. CASE Goto(t, "take", "loop") /\ UNCHANGED <<call, timer>>
    BY <1>1, <2>2, SameTimer DEF Timed
  <2> QED
    BY <1>9, <2>1, <2>2 DEF Take
<1>10. CASE Interrupt(t)
  <2>1. CASE End(t)
    BY <2>1, EndOfTime
  <2>2. CASE /\ \/ Goto(t, "select", "loop") \/ Goto(t, "wselect", "wloop") \/ Goto(t, "pause", "take")
             /\ Waiting(t, 0) /\ call' = call
    <3>1. pc[t] \in {"select", "wselect", "pause"} /\ pc'[t] \in {"loop", "wloop", "take"}
      BY <1>1, <2>2
    <3> QED
      BY <2>2, <3>1, NewWait DEF Timed
  <2> QED
    BY <1>10, <2>1, <2>2 DEF Interrupt
<1> QED
  BY <1>2, <1>3, <1>4, <1>5, <1>6, <1>7, <1>8, <1>9, <1>10 DEF Reading

LEMMA WritingTime ==
  ASSUME NEW t \in Threads, IInv, TimeOf(t), Writing(t)
  PROVE  TimeOf(t)'
<1>1. ASSUME NEW from, NEW to, Goto(t, from, to) PROVE pc[t] = from /\ pc'[t] = to
  BY <1>1 DEF Goto, IInv, TypeOK
<1>2. CASE LockWrite(t)
  <2>1. pc[t] = "wlock" /\ pc'[t] \in {"wbegin", "drain", "setport", "discard"} /\ timer' = timer /\ call' = call
    BY <1>1, <1>2 DEF LockWrite, progress
  <2> QED
    BY <2>1, SameTimer DEF Timed
<1>3. CASE BeginWrite(t)
  <2>1. pc'[t] = "wloop" /\ call[t].size \in Nat
    BY <1>1, <1>3, TimeTypes DEF BeginWrite
  <2> QED
    BY <1>3, <2>1, NewTimer DEF BeginWrite
<1>4. CASE WriteLoop(t)
  <2>1. CASE written[t] = call[t].size \/ timer[t].left <= 0
    BY <1>4, <2>1, EndOfTime DEF WriteLoop
  <2>2. CASE ~(written[t] = call[t].size \/ timer[t].left <= 0)
    <3>1. pc[t] = "wloop" /\ pc'[t] = "wselect" /\ Waiting(t, timer[t].left) /\ call' = call
      BY <1>1, <1>4, <2>2 DEF WriteLoop
    <3>2. timer[t].left \in Nat /\ timer[t].late + timer[t].left <= 0
      BY <2>2, <3>1, TimeTypes DEF TimeOf, Timed
    <3> QED
      BY <3>1, <3>2, NewWait DEF Timed
  <2> QED
    BY <2>1, <2>2
<1>5. CASE WriteSelect(t)
  <2>1. pc[t] = "wselect" /\ pc'[t] = "put" /\ Waiting(t, 0) /\ call' = call
    BY <1>1, <1>5 DEF WriteSelect
  <2> QED
    BY <2>1, NewWait DEF Timed
<1>6. CASE WriteTimesOut(t)
  BY <1>6, EndOfTime DEF WriteTimesOut
<1>7. CASE Put(t)
  <2>1. CASE End(t)
    BY <2>1, EndOfTime
  <2>2. CASE Goto(t, "put", "wloop") /\ UNCHANGED <<call, timer>>
    BY <1>1, <2>2, SameTimer DEF Timed
  <2> QED
    BY <1>7, <2>1, <2>2 DEF Put
<1> QED
  BY <1>2, <1>3, <1>4, <1>5, <1>6, <1>7 DEF Writing

(* The calls that have no timer.                                           *)
LEMMA UntimedTime ==
  ASSUME NEW t \in Threads, IInv, TimeOf(t),
         \/ NotOpen(t) \/ Drain(t) \/ Discard(t) \/ Owning(t) \/ Ioctl(t) \/ LineChange(t)
         \/ Ask(t) \/ SetPort(t) \/ Open(t) \/ Close(t) \/ Set(t) \/ SetTimeout(t)
  PROVE  TimeOf(t)'
<1>1. CASE End(t)
  BY <1>1, EndOfTime
<1>2. ASSUME NEW from \in {"setport", "reopen"}, NEW to \in {"reopen", "configure"}, Goto(t, from, to),
             UNCHANGED <<call, progress>>
      PROVE  TimeOf(t)'
  <2>1. pc[t] = from /\ pc'[t] = to
    BY <1>2 DEF Goto, IInv, TypeOK
  <2> QED
    BY <1>2, <2>1, SameTimer DEF Timed, progress
<1>3. CASE UNCHANGED <<pc, call, progress>>
  BY <1>3, SameTimer DEF Timed, progress
<1>4. CASE Ask(t)
  <2>1. PICK a \in Asks[t], to \in {"rlock", "wlock", "ioctl"} : Start(t, a.kind, a.size, to)
    BY <1>4 DEF Ask
  <2>2. a.size \in Nat
    BY SerialAssumption
  <2> QED
    BY <2>1, <2>2, StartOfTime
<1>5. CASE SetPort(t) \/ Open(t)
  BY <1>5, StartOfTime DEF SetPort, Open
<1>6. CASE Set(t)
  BY <1>3, <1>6, StartOfTime DEF Set
<1>7. CASE Owning(t)
  BY <1>1, <1>2, <1>7 DEF Owning, SetPortCloses, OpenSucceeds, OpenFails, Reconfigure
<1> QED
  BY <1>1, <1>3, <1>4, <1>5, <1>6, <1>7 DEF NotOpen, Drain, Discard, Ioctl, LineChange, Close, SetTimeout

LEMMA OthersWait ==
  ASSUME NEW t \in Threads, NEW u \in Threads, TypeOK, u # t, Call(u)
  PROVE  call'[t] = call[t] /\ timer'[t] = timer[t]
<1>1. ASSUME NEW c, call' = [call EXCEPT ![u] = c] PROVE call'[t] = call[t]
  BY <1>1 DEF TypeOK
<1>2. ASSUME NEW c, timer' = [timer EXCEPT ![u] = c] \/ Waiting(u, c) PROVE timer'[t] = timer[t]
  BY <1>2 DEF TypeOK, Waiting
<1>3. ASSUME End(u) PROVE call'[t] = call[t] /\ timer'[t] = timer[t]
  BY <1>3 DEF TypeOK, End
<1>4. CASE Reading(u) \/ NotOpen(u) \/ Interrupt(u)
  BY <1>2, <1>3, <1>4 DEF Reading, LockRead, BeginRead, ReadLoop, NextRound, ReadEnds, Select, AvailableThrows,
                          Pause, Take, NotOpen, Interrupt, progress
<1>5. CASE Writing(u)
  BY <1>2, <1>3, <1>5 DEF Writing, LockWrite, BeginWrite, WriteLoop, WriteSelect, WriteTimesOut, Put, progress
<1>6. CASE Owning(u) \/ Drain(u) \/ Discard(u) \/ Ioctl(u) \/ LineChange(u)
  BY <1>3, <1>6 DEF Owning, SetPortCloses, OpenSucceeds, OpenFails, Reconfigure, Drain, Discard, Ioctl,
                    LineChange, progress
<1>7. CASE Ask(u) \/ SetPort(u) \/ Open(u) \/ Close(u) \/ Set(u) \/ SetTimeout(u)
  BY <1>1, <1>7 DEF Ask, SetPort, Open, Close, Set, SetTimeout, Start, progress
<1> QED
  BY <1>4, <1>5, <1>6, <1>7 DEF Call, Step

(* Time passes, or the clock is set.                                       *)
LEMMA TickTime ==
  ASSUME NEW t \in Threads, IInv, TimeOf(t), Tick
  PROVE  TimeOf(t)'
<1>1. pc' = pc /\ call' = call /\ ~Urgent(t)
  BY DEF Tick
<1>2. CASE ~Timed(t)
  <2>1. timer'[t] = timer[t]
    BY <1>2 DEF Tick
  <2> QED
    BY <1>1, <2>1, SameTimer DEF Timed
<1>3. CASE Timed(t)
  <2>1. /\ timer'[t].left = timer[t].left - 1 /\ timer'[t].late = timer[t].late + 1
        /\ timer'[t].wait = IF timer[t].wait > 0 THEN timer[t].wait - 1 ELSE 0
    BY <1>3 DEF Tick, IInv, TypeOK
  <2>2. Timed(t)'
    BY <1>1, <1>3 DEF Timed
  <2>3. timer[t].left + timer[t].late <= 0
    BY <1>3 DEF TimeOf
  <2>4. CASE pc[t] \in {"loop", "wloop"}
    BY <1>1, <2>1, <2>2, <2>3, <2>4, TimeTypes DEF TimeOf, Urgent
  <2>5. CASE pc[t] \in {"select", "wselect"}
    BY <1>1, <2>1, <2>2, <2>3, <2>5, TimeTypes DEF TimeOf, Urgent
  <2>6. CASE pc[t] = "pause"
    BY <1>1, <2>1, <2>2, <2>3, <2>6, TimeTypes DEF TimeOf, Urgent
  <2> QED
    BY <1>1, <1>3, <2>4, <2>5, <2>6 DEF Timed, Urgent
<1> QED
  BY <1>2, <1>3

LEMMA SetClockTime ==
  ASSUME NEW t \in Threads, IInv, TimeOf(t), SetClock
  PROVE  TimeOf(t)'
<1>1. pc' = pc /\ call' = call
  BY DEF SetClock
<1>2. PICK d \in {-1, 1} :
        timer' = [u \in Threads |-> IF Timed(u)
          THEN [timer[u] EXCEPT !.left = @ + d, !.late = IF d > 0 THEN @ - d ELSE @] ELSE timer[u]]
  BY DEF SetClock
<1>3. CASE ~Timed(t)
  BY <1>1, <1>2, <1>3, SameTimer DEF Timed
<1>4. CASE Timed(t)
  <2>1. /\ timer'[t].left = timer[t].left + d /\ timer'[t].wait = timer[t].wait
        /\ timer'[t].late = IF d > 0 THEN timer[t].late - d ELSE timer[t].late
    BY <1>2, <1>4 DEF IInv, TypeOK
  <2>2. Timed(t)'
    BY <1>1, <1>4 DEF Timed
  <2> QED
    BY <1>1, <1>4, <2>1, <2>2, TimeTypes DEF TimeOf
<1> QED
  BY <1>3, <1>4

LEMMA TimeNext == IInv /\ TimeInv /\ [Next]_vars => TimeInv'
<1> SUFFICES ASSUME IInv, TimeInv, [Next]_vars, NEW t \in Threads PROVE TimeOf(t)'
  BY DEF TimeInv
<1>1. TimeOf(t)
  BY DEF TimeInv
<1>2. CASE Call(t)
  BY <1>1, <1>2, ReadingTime, WritingTime, UntimedTime DEF Call, Step
<1>3. CASE \E u \in Threads \ {t} : Call(u)
  <2>1. pc'[t] = pc[t] /\ call'[t] = call[t] /\ timer'[t] = timer[t]
    BY <1>3, OthersStay, OthersWait DEF IInv
  <2> QED
    BY <1>1, <2>1, SameTimer DEF Timed
<1>4. CASE DeviceSends \/ Transmit \/ XonXoff \/ Unplug \/ UNCHANGED vars
  <2>1. UNCHANGED <<pc, call, progress>>
    BY <1>4 DEF DeviceSends, Transmit, XonXoff, Unplug, vars
  <2> QED
    BY <1>1, <2>1, SameTimer DEF Timed, progress
<1>5. CASE Tick \/ SetClock
  BY <1>1, <1>5, TickTime, SetClockTime
<1> QED
  BY <1>2, <1>3, <1>4, <1>5 DEF Next, Call

LEMMA TimeInit == Init => TimeInv
<1> SUFFICES ASSUME Init, NEW t \in Threads PROVE TimeOf(t)
  BY DEF TimeInv
<1>1. pc[t] = "idle" /\ timer[t] = NoTimer /\ call[t] = NoCall
  BY DEF Init
<1>2. ByteTime * 0 \in Nat
  BY Products
<1> QED
  BY <1>1, <1>2 DEF TimeOf, Timed, NoTimer, NoCall

(* A read or a write is late by the time of its bytes on the line at most, *)
(* however often the clock is set and however threads and signals come in  *)
(* between.                                                                *)
THEOREM CallsAreInTime == Spec => []InTime
<1>1. TimeInv => InTime
  BY DEF TimeInv, TimeOf, InTime
<1>2. IInv /\ IInv' /\ TimeInv /\ [Next]_vars => TimeInv'
  BY TimeNext
<1> QED
  BY <1>1, <1>2, TimeInit, Invariance, PTL DEF Spec
=============================================================================
