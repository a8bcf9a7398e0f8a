----------------------------- MODULE SerialPort -----------------------------
(***************************************************************************)
(* The serial library: a Serial object, its two mutexes, the calls the     *)
(* threads of a process make on it, the kernel's queues behind the         *)
(* descriptor, and two clocks.                                             *)
(*                                                                         *)
(* read and write measure their total timeout on CLOCK_REALTIME, which may *)
(* be set, and wait in pselect, whose timeout runs on its own.  reads hold *)
(* the read mutex, writes the write mutex; flush and setPort take both.    *)
(* open, close, the setters and the modem lines take none.                 *)
(*                                                                         *)
(* The kernel, the device and the clock are external, modelled from what   *)
(* unix.cc does with their answers.                                        *)
(***************************************************************************)
EXTENDS Integers, SequencesExt

CONSTANTS
  Threads,     (* The threads that use the object.                         *)
  Owner,       (* The one that opens, closes and configures it.            *)
  Nobody,      (* No thread.                                               *)
  Asks,        (* The calls each thread makes, apart from the owner's own. *)
  Bytes,       (* Bound: bytes the device sends, numbered in order.        *)
  Eols,        (* Those that end a line.                                   *)
  Capacity,    (* Bytes the kernel takes for output.                       *)
  InterBytes,  (* Values of inter_byte_timeout, Forever among them.        *)
  Forever,     (* Timeout::max().                                          *)
  TimeConstant, TimeMultiplier,  (* Of the total timeouts.                 *)
  ByteTime,    (* Time a byte takes on the line (byte_time_ns_).           *)
  MaxJumps     (* Bound: how often the real-time clock is set during a     *)
               (* call, or while calls overlap.                            *)

ReadCalls  == {"read", "readline", "readlines"}
OtherCalls == {"flush", "flushInput", "flushOutput", "signal", "waitForChange"}
OwnCalls   == {"open", "setPort", "set"}
NoCall     == [kind |-> "none", size |-> 0]

ASSUME SerialAssumption ==
  /\ Owner \in Threads /\ Nobody \notin Threads
  /\ Asks \in [Threads -> SUBSET ([kind : ReadCalls \cup {"write"}, size : Nat \ {0}]
                                \cup [kind : OtherCalls, size : {0}])]
  /\ Bytes \in Nat /\ Eols \subseteq 1..Bytes /\ Capacity \in Nat \ {0}
  /\ Forever \in Nat /\ InterBytes \subseteq 0..Forever
  /\ TimeConstant \in Nat /\ TimeMultiplier \in Nat /\ ByteTime \in Nat
  /\ MaxJumps \in Nat

VARIABLES
  pc, call,     (* Where each thread is, and in which call.                *)
  timer,        (* Its total timeout, and the wait it is in.               *)
  got, base,    (* Bytes of its read; how many before this round of it.    *)
  written,      (* Bytes of its write the kernel has taken.                *)
  read_mutex, write_mutex,
  is_open, fd,  (* Does the object say it is open; has it a descriptor.    *)
  applied,      (* Has the device the object's line settings.              *)
  inter_byte_timeout,
  input, output,(* The kernel's queues.                                    *)
  deviceSent,   (* The last byte the device sent.                          *)
  stopped,      (* The device has stopped the output (XOFF).               *)
  gone,         (* The device was unplugged.                               *)
  lastOut, torn,(* Ghost: whose byte the kernel took last; writes that     *)
                (* lost a byte while they were under way.                  *)
  jumps         (* Ghost, bounded: settings of the clock during the calls. *)

progress == <<timer, got, base, written>>
mutexes  == <<read_mutex, write_mutex>>
port     == <<is_open, fd, applied, inter_byte_timeout>>
device   == <<deviceSent, stopped, gone>>
queues   == <<input, output, lastOut, torn>>
vars == <<pc, call, progress, mutexes, port, device, queues, jumps>>

NoTimer   == [left |-> 0, wait |-> 0, late |-> 0]
Least(a, b) == IF a <= b THEN a ELSE b

(* Between the start of its total timeout and its end a call is timed.     *)
Timed(t) == pc[t] \in {"loop", "select", "pause", "take", "wloop", "wselect", "put"}

TypeOK ==
  /\ pc \in [Threads -> {"idle", "rlock", "wlock", "begin", "loop", "select", "pause",
                         "take", "wbegin", "wloop", "wselect", "put", "drain", "discard",
                         "setport", "reopen", "configure", "ioctl"}]
  /\ call \in [Threads -> [kind : ReadCalls \cup OtherCalls \cup OwnCalls \cup {"write", "none"}, size : Nat]]
  /\ timer \in [Threads -> [left : Int, wait : Nat, late : Int]]
  /\ got \in [Threads -> Seq(1..Bytes)] /\ base \in [Threads -> Nat]
  /\ written \in [Threads -> Nat]
  /\ \A t \in Threads : Len(got[t]) <= call[t].size /\ written[t] <= call[t].size
  /\ read_mutex \in Threads \cup {Nobody} /\ write_mutex \in Threads \cup {Nobody}
  /\ is_open \in BOOLEAN /\ fd \in BOOLEAN
  /\ applied \in BOOLEAN /\ inter_byte_timeout \in InterBytes
  /\ input \in Seq(1..Bytes) /\ output \in Seq(Threads) /\ Len(output) <= Capacity
  /\ deviceSent \in 0..Bytes /\ stopped \in BOOLEAN /\ gone \in BOOLEAN
  /\ lastOut \in Threads \cup {Nobody} /\ torn \subseteq Threads
  /\ jumps \in 0..MaxJumps

Init ==
  /\ pc = [t \in Threads |-> "idle"]
  /\ call = [t \in Threads |-> NoCall]
  /\ timer = [t \in Threads |-> NoTimer]
  /\ got = [t \in Threads |-> <<>>] /\ base = [t \in Threads |-> 0]
  /\ written = [t \in Threads |-> 0]
  /\ read_mutex = Nobody /\ write_mutex = Nobody
  /\ is_open = FALSE /\ fd = FALSE
  /\ applied \in BOOLEAN /\ inter_byte_timeout \in InterBytes
  /\ input = <<>> /\ output = <<>>
  /\ deviceSent = 0 /\ stopped = FALSE /\ gone = FALSE
  /\ lastOut = Nobody /\ torn = {}
  /\ jumps = 0

(***************************************************************************)
(* The start and the end of a call.  The locks are scoped: they are given  *)
(* back however the call ends, and what it had read is with the caller, or *)
(* lost when it throws.                                                    *)
(***************************************************************************)
Goto(t, from, to) ==
  /\ pc[t] = from
  /\ pc' = [pc EXCEPT ![t] = to]

(* open() and close() are made while no other call is under way: in the    *)
(* daemon io_mutex sees to that.                                           *)
Quiet(t)  == \A u \in Threads \ {t} : pc[u] = "idle"
Opening   == pc[Owner] # "idle" /\ call[Owner].kind = "open"

Start(t, kind, size, to) ==
  /\ ~Opening
  /\ Goto(t, "idle", to)
  /\ call' = [call EXCEPT ![t] = [kind |-> kind, size |-> size]]
  /\ torn' = torn \ {t}
  /\ UNCHANGED <<progress, mutexes, device, input, output, lastOut, jumps>>

End(t) ==
  /\ pc' = [pc EXCEPT ![t] = "idle"]
  /\ call' = [call EXCEPT ![t] = NoCall]
  /\ timer' = [timer EXCEPT ![t] = NoTimer]
  /\ got' = [got EXCEPT ![t] = <<>>] /\ base' = [base EXCEPT ![t] = 0]
  /\ written' = [written EXCEPT ![t] = 0]
  /\ read_mutex' = IF read_mutex = t THEN Nobody ELSE read_mutex
  /\ write_mutex' = IF write_mutex = t THEN Nobody ELSE write_mutex
  /\ lastOut' = IF lastOut = t THEN Nobody ELSE lastOut
  /\ jumps' = IF \E u \in Threads \ {t} : Timed(u) THEN jumps ELSE 0

Ask(t) == \E a \in Asks[t] :
  /\ a.kind = "signal" => is_open
  /\ Start(t, a.kind, a.size, CASE a.kind \in ReadCalls \cup {"flush", "flushInput"} -> "rlock"
                                [] a.kind \in {"write", "flushOutput"} -> "wlock"
                                [] OTHER -> "ioctl")
  /\ UNCHANGED port

SetPort(t) == t = Owner /\ Start(t, "setPort", 0, "rlock") /\ UNCHANGED port

(* Mutant: the reading calls take no mutex.                                *)
LockReadNever(t) ==
  /\ IF call[t].kind \in ReadCalls THEN UNCHANGED read_mutex
       ELSE read_mutex = Nobody /\ read_mutex' = t
  /\ Goto(t, "rlock", CASE call[t].kind \in ReadCalls -> "begin"
                        [] call[t].kind = "flushInput" -> "discard"
                        [] OTHER -> "wlock")
  /\ UNCHANGED <<call, progress, write_mutex, port, device, queues, jumps>>

LockRead(t) ==
  /\ read_mutex = Nobody
  /\ read_mutex' = t
  /\ Goto(t, "rlock", CASE call[t].kind \in ReadCalls -> "begin"
                        [] call[t].kind = "flushInput" -> "discard"
                        [] OTHER -> "wlock")
  /\ UNCHANGED <<call, progress, write_mutex, port, device, queues, jumps>>

(* Mutant: flushOutput takes no mutex.                                     *)
LockWriteUnlessFlushing(t) ==
  /\ IF call[t].kind = "flushOutput" THEN UNCHANGED write_mutex
       ELSE write_mutex = Nobody /\ write_mutex' = t
  /\ Goto(t, "wlock", CASE call[t].kind = "write" -> "wbegin"
                        [] call[t].kind = "flush" -> "drain"
                        [] call[t].kind = "setPort" -> "setport"
                        [] OTHER -> "discard")
  /\ UNCHANGED <<call, progress, read_mutex, port, device, queues, jumps>>

LockWrite(t) ==
  /\ write_mutex = Nobody
  /\ write_mutex' = t
  /\ Goto(t, "wlock", CASE call[t].kind = "write" -> "wbegin"
                        [] call[t].kind = "flush" -> "drain"
                        [] call[t].kind = "setPort" -> "setport"
                        [] OTHER -> "discard")
  /\ UNCHANGED <<call, progress, read_mutex, port, device, queues, jumps>>

(***************************************************************************)
(* read(): one round is one call of SerialImpl::read.  read makes one,     *)
(* readline and readlines one per byte, each with a total timeout of its   *)
(* own.                                                                    *)
(***************************************************************************)
Round(t)  == IF call[t].kind = "read" THEN call[t].size ELSE 1
Wanted(t) == base[t] + Round(t)
Total(n)  == TimeConstant + TimeMultiplier * n
Timer(n)  == [left |-> Total(n), wait |-> 0, late |-> -Total(n)]
Waiting(t, w) == timer' = [timer EXCEPT ![t].wait = w]

(* Mutant: read(2) is asked for all there is.                             *)
ReadableAll(t) == IF gone THEN 0 ELSE Len(input)

(* What read(2) gives: what there is, up to what is missing, and nothing   *)
(* from a device that is gone.                                             *)
Readable(t) == IF gone THEN 0 ELSE Least(Len(input), Wanted(t) - Len(got[t]))
Receive(t, n) ==
  /\ got' = [got EXCEPT ![t] = @ \o SubSeq(input, 1, n)]
  /\ input' = SubSeq(input, n + 1, Len(input))

NotOpen(t) ==
  /\ pc[t] \in {"begin", "wbegin", "drain", "discard"}
  /\ ~is_open
  /\ End(t)
  /\ UNCHANGED <<port, device, input, output, torn>>

(* Mutant: what is there already is taken a second time.                   *)
BeginReadTwice(t) ==
  /\ is_open
  /\ Goto(t, "begin", "loop")
  /\ timer' = [timer EXCEPT ![t] = Timer(Round(t))]
  /\ got' = [got EXCEPT ![t] = @ \o SubSeq(input, 1, Readable(t))]
  /\ UNCHANGED <<call, base, written, mutexes, port, device, queues, jumps>>

(* The pre-fill.                                                           *)
BeginRead(t) ==
  /\ is_open
  /\ Goto(t, "begin", "loop")
  /\ timer' = [timer EXCEPT ![t] = Timer(Round(t))]
  /\ Receive(t, Readable(t))
  /\ UNCHANGED <<call, base, written, mutexes, port, device, output, lastOut, torn, jumps>>

(* Mutant: the expired timeout is noticed only by a call without any byte. *)
RoundOverIfEmpty(t) == Len(got[t]) = Wanted(t) \/ (timer[t].left <= 0 /\ got[t] = <<>>)

RoundOver(t) == Len(got[t]) = Wanted(t) \/ timer[t].left <= 0

(* Mutant: readline goes on although a byte did not come.                  *)
LastRoundFull(t) ==
  \/ call[t].kind = "read"
  \/ Len(got[t]) = call[t].size
  \/ call[t].kind = "readline" /\ got[t] # <<>> /\ Last(got[t]) \in Eols

(* Does the round that is over end the call?  A read makes one; readline   *)
(* and readlines end when a byte did not come or there are enough of them, *)
(* readline at the end of a line, too.                                     *)
LastRound(t) ==
  \/ call[t].kind = "read"
  \/ Len(got[t]) = base[t]
  \/ Len(got[t]) = call[t].size
  \/ call[t].kind = "readline" /\ got[t] # <<>> /\ Last(got[t]) \in Eols

ReadLoop(t) ==
  /\ ~RoundOver(t)
  /\ Goto(t, "loop", "select")
  /\ Waiting(t, Least(timer[t].left, inter_byte_timeout))
  /\ UNCHANGED <<call, got, base, written, mutexes, port, device, queues, jumps>>

NextRound(t) ==
  /\ RoundOver(t) /\ ~LastRound(t)
  /\ Goto(t, "loop", "begin")
  /\ base' = [base EXCEPT ![t] = Len(got[t])]
  /\ timer' = [timer EXCEPT ![t] = NoTimer]
  /\ UNCHANGED <<call, got, written, mutexes, port, device, queues, jumps>>

ReadEnds(t) ==
  /\ pc[t] = "loop"
  /\ RoundOver(t) /\ LastRound(t)
  /\ End(t)
  /\ UNCHANGED <<port, device, input, output, torn>>

(* waitReadable ends with a byte, or a timeout.  A read of a fixed number  *)
(* of bytes waits for the missing ones to come in, unless an inter-byte    *)
(* timeout was asked for; available() throws when the device is gone.      *)
Missing(t) == Wanted(t) - Len(got[t]) - Len(input)

Select(t) ==
  /\ \/ /\ input # <<>> \/ gone
        /\ IF Round(t) > 1 /\ inter_byte_timeout = Forever /\ Missing(t) > 0
             THEN ~gone /\ Goto(t, "select", "pause") /\ Waiting(t, ByteTime * Missing(t))
             ELSE Goto(t, "select", "take") /\ Waiting(t, 0)
     \/ /\ input = <<>> /\ ~gone /\ timer[t].wait = 0
        /\ Goto(t, "select", "loop") /\ Waiting(t, 0)
  /\ UNCHANGED <<call, got, base, written, mutexes, port, device, queues, jumps>>

AvailableThrows(t) ==
  /\ pc[t] = "select" /\ gone
  /\ Round(t) > 1 /\ inter_byte_timeout = Forever
  /\ End(t)
  /\ UNCHANGED <<port, device, input, output, torn>>

(* waitByteTimes                                                           *)
Pause(t) ==
  /\ timer[t].wait = 0
  /\ Goto(t, "pause", "take")
  /\ Waiting(t, 0)
  /\ UNCHANGED <<call, got, base, written, mutexes, port, device, queues, jumps>>

(* Ready, but nothing there: the device must be gone.                      *)
Take(t) ==
  IF Readable(t) = 0
    THEN /\ pc[t] = "take"
         /\ End(t)
         /\ UNCHANGED <<port, device, input, output, torn>>
    ELSE /\ Goto(t, "take", "loop")
         /\ Receive(t, Readable(t))
         /\ UNCHANGED <<call, timer, base, written, mutexes, port, device,
                        output, lastOut, torn, jumps>>

Reading(t) ==
  \/ LockRead(t) \/ BeginRead(t) \/ ReadLoop(t) \/ NextRound(t) \/ ReadEnds(t)
  \/ Select(t) \/ AvailableThrows(t) \/ Pause(t) \/ Take(t)

(***************************************************************************)
(* write()                                                                 *)
(***************************************************************************)
BeginWrite(t) ==
  /\ is_open
  /\ Goto(t, "wbegin", "wloop")
  /\ timer' = [timer EXCEPT ![t] = Timer(call[t].size)]
  /\ UNCHANGED <<call, got, base, written, mutexes, port, device, queues, jumps>>

Room == Capacity - Len(output)

WriteLoop(t) ==
  IF written[t] = call[t].size \/ timer[t].left <= 0
    THEN /\ pc[t] = "wloop"
         /\ End(t)
         /\ UNCHANGED <<port, device, input, output, torn>>
    ELSE /\ Goto(t, "wloop", "wselect")
         /\ Waiting(t, timer[t].left)
         /\ UNCHANGED <<call, got, base, written, mutexes, port, device, queues, jumps>>

WriteSelect(t) ==
  /\ Room > 0 \/ gone
  /\ Goto(t, "wselect", "put")
  /\ Waiting(t, 0)
  /\ UNCHANGED <<call, got, base, written, mutexes, port, device, queues, jumps>>

WriteTimesOut(t) ==
  /\ pc[t] = "wselect"
  /\ Room = 0 /\ ~gone /\ timer[t].wait = 0
  /\ End(t)
  /\ UNCHANGED <<port, device, input, output, torn>>

(* write(2) takes some of the bytes, one at least.                         *)
Put(t) ==
  IF gone \/ Room = 0
    THEN /\ pc[t] = "put"
         /\ End(t)
         /\ UNCHANGED <<port, device, input, output, torn>>
    ELSE \E n \in 1..Least(Room, call[t].size - written[t]) :
         /\ Goto(t, "put", "wloop")
         /\ output' = output \o [k \in 1..n |-> t]
         /\ written' = [written EXCEPT ![t] = @ + n]
         /\ lastOut' = t
         /\ UNCHANGED <<call, timer, got, base, mutexes, port, device,
                        input, torn, jumps>>

Writing(t) ==
  \/ LockWrite(t) \/ BeginWrite(t) \/ WriteLoop(t) \/ WriteSelect(t) \/ WriteTimesOut(t) \/ Put(t)

(* A signal ends a wait: pselect and tcdrain answer EINTR.  read and write *)
(* look at the time again, the byte times are over, and flush returns with *)
(* output left.                                                            *)
Interrupt(t) ==
  \/ /\ \/ Goto(t, "select", "loop") \/ Goto(t, "wselect", "wloop") \/ Goto(t, "pause", "take")
     /\ Waiting(t, 0)
     /\ UNCHANGED <<call, got, base, written, mutexes, port, device, queues, jumps>>
  \/ /\ pc[t] = "drain" /\ is_open
     /\ End(t)
     /\ UNCHANGED <<port, device, input, output, torn>>

(***************************************************************************)
(* flush waits, without a timeout, until the line has taken the output;    *)
(* what tcdrain answers is not looked at.  flushInput and flushOutput      *)
(* throw away what the kernel holds.                                       *)
(***************************************************************************)
Drain(t) ==
  /\ pc[t] = "drain" /\ is_open
  /\ output = <<>> \/ gone
  /\ End(t)
  /\ UNCHANGED <<port, device, input, output, torn>>

(* The writes under way that have a byte among those thrown away.          *)
Halfway == {u \in Threads : written[u] > 0 /\ \E k \in DOMAIN output : output[k] = u}

Discard(t) ==
  /\ pc[t] = "discard" /\ is_open
  /\ End(t)
  /\ IF call[t].kind = "flushInput"
       THEN input' = <<>> /\ UNCHANGED <<output, torn>>
       ELSE output' = <<>> /\ torn' = torn \cup Halfway /\ UNCHANGED input
  /\ UNCHANGED <<port, device>>

(***************************************************************************)
(* The owner: open, close, setPort and the setters.  An open that fails in *)
(* reconfigurePort leaves its descriptor behind in an object that says it  *)
(* is not open; the next open overwrites it.                               *)
(***************************************************************************)
Open(t) ==
  /\ t = Owner /\ Quiet(t)
  /\ Start(t, "open", 0, "reopen")
  /\ UNCHANGED port

CloseFd == fd' = FALSE /\ is_open' = FALSE /\ input' = <<>> /\ output' = <<>>

Close(t) ==
  /\ t = Owner /\ Quiet(t) /\ pc[t] = "idle"
  /\ is_open
  /\ CloseFd
  /\ UNCHANGED <<pc, call, progress, mutexes, applied, inter_byte_timeout,
                 device, lastOut, torn, jumps>>

(* close(2) may fail on a device that is gone; the object stays open.      *)
SetPortCloses(t) ==
  \/ /\ is_open
     /\ Goto(t, "setport", "reopen")
     /\ CloseFd
     /\ torn' = torn \cup Halfway
     /\ UNCHANGED <<call, progress, mutexes, applied, inter_byte_timeout,
                    device, lastOut, jumps>>
  \/ /\ pc[t] = "setport"
     /\ \/ is_open /\ gone /\ End(t)
        \/ ~is_open /\ End(t)
     /\ UNCHANGED <<port, device, input, output, torn>>

(* The device open(2) finds has whatever settings it had.                  *)
OpenSucceeds(t) ==
  /\ ~is_open
  /\ Goto(t, "reopen", "configure")
  /\ fd' = TRUE /\ gone' = FALSE
  /\ applied' \in BOOLEAN
  /\ UNCHANGED <<call, progress, mutexes, is_open, inter_byte_timeout,
                 deviceSent, stopped, queues, jumps>>

(* Open already, or open(2) failed.                                        *)
OpenFails(t) ==
  /\ pc[t] = "reopen"
  /\ End(t)
  /\ fd' = is_open
  /\ UNCHANGED <<is_open, applied, inter_byte_timeout, device, input, output, torn>>

(* Mutant: a setter of an open port leaves the device as it is.            *)
SetObjectOnly(t) ==
  /\ t = Owner
  /\ ~Opening /\ pc[t] = "idle"
  /\ applied' = FALSE
  /\ UNCHANGED <<pc, call, progress, mutexes, is_open, fd, inter_byte_timeout, device,
                 queues, jumps>>

(* setBaudrate, setBytesize, setParity, setStopbits and setFlowcontrol     *)
(* change the object, and the device if it is open; setTimeout the object. *)
Set(t) ==
  /\ t = Owner
  /\ applied' = FALSE
  /\ IF is_open
       THEN Start(t, "set", 0, "configure")
       ELSE /\ ~Opening /\ pc[t] = "idle"
            /\ UNCHANGED <<pc, call, progress, mutexes, device, queues, jumps>>
  /\ UNCHANGED <<is_open, fd, inter_byte_timeout>>

SetTimeout(t) ==
  /\ t = Owner /\ pc[t] = "idle"
  /\ inter_byte_timeout' \in InterBytes
  /\ UNCHANGED <<pc, call, progress, mutexes, is_open, fd, applied,
                 device, queues, jumps>>

(* reconfigurePort, of open and of the setters; tcgetattr and the ioctls   *)
(* of a custom speed fail on a device that is gone.                        *)
Reconfigure(t) ==
  /\ pc[t] = "configure"
  /\ \/ /\ ~gone
        /\ applied' = TRUE /\ is_open' = TRUE
        /\ End(t)
     \/ /\ gone
        /\ End(t)
        /\ UNCHANGED <<applied, is_open>>
  /\ UNCHANGED <<fd, inter_byte_timeout, device, input, output, torn>>

Owning(t) ==
  SetPortCloses(t) \/ OpenSucceeds(t) \/ OpenFails(t) \/ Reconfigure(t)

(***************************************************************************)
(* The modem lines: sendBreak, setBreak, setRTS, setDTR, getCTS, getDSR,   *)
(* getRI and getCD look whether the port is open, then call ioctl, without *)
(* a mutex; waitForChange does not look, and waits for the other side.     *)
(***************************************************************************)
Ioctl(t) ==
  /\ pc[t] = "ioctl"
  /\ \/ (gone \/ ~fd) /\ End(t)
     \/ fd /\ ~gone /\ call[t].kind = "signal" /\ End(t)
  /\ UNCHANGED <<port, device, input, output, torn>>

LineChange(t) ==
  /\ pc[t] = "ioctl" /\ call[t].kind = "waitForChange"
  /\ fd /\ ~gone
  /\ End(t)
  /\ UNCHANGED <<port, device, input, output, torn>>

(***************************************************************************)
(* The device and the clocks.                                              *)
(***************************************************************************)
DeviceSends ==
  /\ deviceSent < Bytes /\ fd /\ ~gone
  /\ deviceSent' = deviceSent + 1
  /\ input' = Append(input, deviceSent + 1)
  /\ UNCHANGED <<pc, call, progress, mutexes, port, stopped, gone, output,
                 lastOut, torn, jumps>>

Transmit ==
  /\ output # <<>> /\ ~stopped
  /\ output' = Tail(output)
  /\ UNCHANGED <<pc, call, progress, mutexes, port, device, input, lastOut, torn, jumps>>

XonXoff ==
  /\ fd /\ ~gone
  /\ stopped' = ~stopped
  /\ UNCHANGED <<pc, call, progress, mutexes, port, deviceSent, gone, queues, jumps>>

(* The kernel hangs up: what it held in either direction is gone, too.     *)
Unplug ==
  /\ fd /\ ~gone
  /\ gone' = TRUE /\ stopped' = FALSE
  /\ input' = <<>> /\ output' = <<>>
  /\ UNCHANGED <<pc, call, progress, mutexes, port, deviceSent, lastOut, torn, jumps>>

(* What is left to do at once when a timeout is over.                      *)
Urgent(t) ==
  \/ pc[t] \in {"take", "put"}
  \/ pc[t] = "pause" /\ timer[t].wait = 0
  \/ pc[t] \in {"loop", "wloop"} /\ timer[t].left <= 0
  \/ pc[t] \in {"select", "wselect"} /\ timer[t].wait = 0 /\ timer[t].left <= 0

(* Time passes for every call; the steps of the program take none of it.   *)
Tick ==
  /\ \E t \in Threads : Timed(t)
  /\ \A t \in Threads : ~Urgent(t)
  /\ timer' = [t \in Threads |-> IF Timed(t)
       THEN [timer[t] EXCEPT !.left = @ - 1, !.wait = IF @ > 0 THEN @ - 1 ELSE 0, !.late = @ + 1] ELSE timer[t]]
  /\ UNCHANGED <<pc, call, got, base, written, mutexes, port, device, queues, jumps>>

(* The real-time clock is set: MillisecondTimer sees it, pselect does not. *)
SetClock ==
  /\ \E t \in Threads : Timed(t)
  /\ jumps < MaxJumps
  /\ jumps' = jumps + 1
  /\ \E d \in {-1, 1} :
       timer' = [t \in Threads |-> IF Timed(t)
         THEN [timer[t] EXCEPT !.left = @ + d, !.late = IF d > 0 THEN @ - d ELSE @] ELSE timer[t]]
  /\ UNCHANGED <<pc, call, got, base, written, mutexes, port, device, queues>>

Step(t) ==
  NotOpen(t) \/ Reading(t) \/ Writing(t) \/ Drain(t) \/ Discard(t) \/ Owning(t) \/ Ioctl(t)

Next ==
  \/ \E t \in Threads : Ask(t) \/ Step(t) \/ Interrupt(t) \/ LineChange(t) \/ SetPort(t)
                        \/ Open(t) \/ Close(t) \/ Set(t) \/ SetTimeout(t)
  \/ DeviceSends \/ Transmit \/ XonXoff \/ Unplug \/ Tick \/ SetClock

(* A thread inside a call runs on, the line sends, and time passes.        *)
Fairness ==
  /\ \A t \in Threads : WF_vars(Step(t))
  /\ WF_vars(Transmit)
  /\ SF_vars(Tick)

Spec     == Init /\ [][Next]_vars
FairSpec == Spec /\ Fairness

(***************************************************************************)
(* Properties.                                                             *)
(***************************************************************************)
(* A call gets, and keeps, bytes of the device that follow one another:    *)
(* no other read, flush or change of port comes in between, and a readline *)
(* reads nothing behind the end of its line.                               *)
ReadsInOrder ==
  \A t \in Threads :
    /\ \A k \in 1..(Len(got[t]) - 1) : got[t][k + 1] = got[t][k] + 1
    /\ call[t].kind = "readline" => \A k \in 1..(Len(got[t]) - 1) : got[t][k] \notin Eols

(* The bytes of a write follow one another in what the kernel takes, and   *)
(* none is thrown away while the write is under way.                       *)
WritesInOne ==
  \A t \in Threads : written[t] > 0 => lastOut = t /\ t \notin torn

(* read and write end when their total timeout has passed, by at most the  *)
(* time the missing bytes take on the line; a clock that is set back       *)
(* lengthens them by as much, one that is set forward never does.          *)
InTime == \A t \in Threads : timer[t].late <= ByteTime * call[t].size

(* read and write throw only for a reason: the port is not open, or its    *)
(* device is gone.  The daemon catches no exception of theirs.             *)
ThrowsForCause ==
  [][\A t \in Threads :
       pc[t] \in {"begin", "select", "take", "wbegin", "put"} /\ pc'[t] = "idle"
         => gone \/ ~is_open]_vars

(* An open port has its descriptor and, once a setter has returned, the    *)
(* settings of the object, whatever was set while it was closed and        *)
(* whichever opens failed.                                                 *)
Configured ==
  /\ is_open => fd
  /\ is_open /\ ~gone /\ pc[Owner] # "configure" => applied

(* A call that has its mutexes comes to an end, whether or not a byte      *)
(* comes or goes, how often a signal arrives, and though the clock may be  *)
(* set back; flush needs the device to let the output go, waitForChange    *)
(* something to wait for.                                                  *)
CallsEnd ==
  <>[](~stopped) => \A t \in Threads :
    (pc[t] \notin {"idle", "rlock", "wlock"} /\ call[t].kind # "waitForChange")
      ~> (pc[t] = "idle")
=============================================================================
