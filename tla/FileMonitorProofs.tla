------------------------- MODULE FileMonitorProofs --------------------------
(***************************************************************************)
(* No closed write is lost on its way to the sign, and each text goes to   *)
(* its slot, for any number of files, any queue and buffer, and any edits. *)
(***************************************************************************)
EXTENDS FileMonitor, WellFoundedInduction, SequenceTheorems, TLAPS

USE FileMonitorAssumption

-----------------------------------------------------------------------------
(* Sequences of events.                                                    *)

(* One turn of the loop that Known is.                                     *)
Turn(kept, events, n) ==
  IF n = 0 THEN <<>>
  ELSE IF KnownPath(events[n]) THEN Append(kept[n - 1], events[n]) ELSE kept[n - 1]

IsLoop(kept, events, last) == kept = [n \in 0..last |-> Turn(kept, events, n)]

(* A number of turns that is too many has a smallest one.                  *)
LEMMA Smallest ==
  ASSUME NEW S, S \subseteq Nat, S # {}
  PROVE  \E x \in S : \A y \in S : ~(y < x)
<1>1. PICK x \in S : \A y \in S : <<y, x>> \notin OpToRel(<, Nat)
  BY NatLessThanWellFounded, WFMin, Zenon
<1>2. ASSUME NEW y \in S PROVE ~(y < x)
  <2>1. <<y, x>> \notin {ss \in Nat \X Nat : ss[1] < ss[2]}
    BY <1>1 DEF OpToRel
  <2> QED
    BY <2>1
<1> QED
  BY <1>2

LEMMA LoopExists ==
  ASSUME NEW events
  PROVE  \A last \in Nat : \E kept : IsLoop(kept, events, last)
<1> DEFINE S == {n \in Nat : ~\E kept : IsLoop(kept, events, n)}
<1> SUFFICES ASSUME S # {} PROVE FALSE
  OBVIOUS
<1>1. PICK n \in S : \A m \in S : ~(m < n)
  BY Smallest
<1>2. CASE n = 0
  <2> DEFINE f == [k \in 0..0 |-> <<>>]
  <2>1. f = [k \in 0..0 |-> Turn(f, events, k)]
    BY DEF Turn
  <2> QED
    BY <1>1, <1>2, <2>1 DEF IsLoop
<1>3. CASE n # 0
  <2>1. n - 1 \in Nat /\ n - 1 < n /\ n \in Nat
    BY <1>1, <1>3
  <2>2. PICK f : IsLoop(f, events, n - 1)
    BY <1>1, <2>1
  <2> DEFINE g == [k \in 0..n |-> IF k = n THEN Turn(f, events, n) ELSE f[k]]
  <2>3. ASSUME NEW k \in 0..n PROVE g[k] = Turn(g, events, k)
    <3>1. k - 1 \in 0..(n - 1) => g[k - 1] = f[k - 1]
      BY <2>1
    <3>2. Turn(g, events, k) = Turn(f, events, k)
      BY <3>1, <2>1 DEF Turn
    <3>3. k # n => f[k] = Turn(f, events, k)
      BY <2>1, <2>2 DEF IsLoop
    <3> QED
      BY <3>2, <3>3
  <2>4. IsLoop(g, events, n)
    BY <2>3 DEF IsLoop
  <2> QED
    BY <1>1, <2>4
<1> QED
  BY <1>2, <1>3

LEMMA AppendElements ==
  ASSUME NEW S, NEW s \in Seq(S), NEW e \in S
  PROVE  Append(s, e) \in Seq(S) /\ Elements(Append(s, e)) = Elements(s) \cup {e}
<1> DEFINE a == Append(s, e)
<1>1. /\ a \in Seq(S) /\ DOMAIN a = 1..(Len(s) + 1) /\ DOMAIN s = 1..Len(s)
      /\ Len(s) \in Nat /\ a[Len(s) + 1] = e
      /\ \A k \in 1..Len(s) : a[k] = s[k]
  OBVIOUS
<1> HIDE DEF a
<1>2. \A k : k \in DOMAIN a <=> k \in DOMAIN s \/ k = Len(s) + 1
  BY <1>1
<1>3. ASSUME NEW x PROVE x \in Elements(a) <=> x \in Elements(s) \/ x = e
  BY <1>1, <1>2 DEF Elements
<1> QED
  BY <1>1, <1>3 DEF a

(* Each turn has kept the events with a path of those it has seen.         *)
LEMMA LoopKeeps ==
  ASSUME NEW events \in Seq(Events), NEW kept, IsLoop(kept, events, Len(events))
  PROVE  \A n \in 0..Len(events) :
           /\ kept[n] \in Seq(Slots)
           /\ Elements(kept[n]) = {events[k] : k \in 1..n} \ {Overflow}
<1> DEFINE Good(n) == /\ kept[n] \in Seq(Slots)
                      /\ Elements(kept[n]) = {events[k] : k \in 1..n} \ {Overflow}
           S == {n \in 0..Len(events) : ~Good(n)}
<1>0. Len(events) \in Nat
  OBVIOUS
<1>1. SUFFICES ASSUME S # {} PROVE FALSE
  OBVIOUS
<1>2. PICK n \in S : \A m \in S : ~(m < n)
  <2>1. S \subseteq Nat
    BY <1>0
  <2> HIDE DEF S
  <2> QED
    BY <1>1, <2>1, Smallest
<1>3. n \in 0..Len(events) /\ ~Good(n)
  BY <1>2
<1>4. kept[n] = Turn(kept, events, n)
  BY <1>3 DEF IsLoop
<1>5. n # 0
  <2> SUFFICES ASSUME n = 0 PROVE Good(n)
    BY <1>3
  <2>1. kept[n] = <<>>
    BY <1>4 DEF Turn
  <2> QED
    BY <2>1 DEF Elements
<1>6. n - 1 \in 0..Len(events) /\ n - 1 < n /\ n \in 1..Len(events)
  BY <1>0, <1>3, <1>5
<1>7. Good(n - 1)
  BY <1>2, <1>6
<1>8. {events[k] : k \in 1..n} = {events[k] : k \in 1..(n - 1)} \cup {events[n]}
  BY <1>6
<1>9. CASE events[n] = Overflow
  <2>1. kept[n] = kept[n - 1]
    BY <1>4, <1>5, <1>9 DEF Turn, KnownPath
  <2> QED
    BY <1>3, <1>7, <1>8, <1>9, <2>1
<1>10. CASE events[n] # Overflow
  <2>1. kept[n] = Append(kept[n - 1], events[n]) /\ events[n] \in Slots
    BY <1>4, <1>5, <1>6, <1>10 DEF Turn, KnownPath, Events
  <2>2. kept[n] \in Seq(Slots) /\ Elements(kept[n]) = Elements(kept[n - 1]) \cup {events[n]}
    BY <1>7, <2>1, AppendElements
  <2> QED
    BY <1>3, <1>7, <1>8, <1>10, <2>2
<1> QED
  BY <1>9, <1>10

LEMMA KnownElements ==
  ASSUME NEW events \in Seq(Events)
  PROVE  /\ Known(events) \in Seq(Slots)
         /\ Elements(Known(events)) = Elements(events) \ {Overflow}
<1> DEFINE kept == CHOOSE f : IsLoop(f, events, Len(events))
<1>1. Len(events) \in Nat /\ DOMAIN events = 1..Len(events)
  OBVIOUS
<1>2. IsLoop(kept, events, Len(events))
  BY <1>1, LoopExists
<1>3. Known(events) = kept[Len(events)]
  BY DEF Known, IsLoop, Turn
<1> HIDE DEF kept
<1>4. Known(events) \in Seq(Slots)
      /\ Elements(Known(events)) = {events[k] : k \in 1..Len(events)} \ {Overflow}
  <2>1. Len(events) \in 0..Len(events)
    BY <1>1
  <2>2. \A n \in 0..Len(events) :
          /\ kept[n] \in Seq(Slots)
          /\ Elements(kept[n]) = {events[k] : k \in 1..n} \ {Overflow}
    BY <1>2, LoopKeeps, Zenon
  <2> QED
    BY <1>3, <2>1, <2>2, Zenon
<1> QED
  BY <1>1, <1>4 DEF Elements

LEMMA ConcatElements ==
  ASSUME NEW S, NEW s \in Seq(S), NEW t \in Seq(S)
  PROVE  s \o t \in Seq(S) /\ Elements(s \o t) = Elements(s) \cup Elements(t)
<1> DEFINE c == s \o t
<1>1. /\ c \in Seq(S) /\ Len(s) \in Nat /\ Len(t) \in Nat
      /\ DOMAIN c = 1..(Len(s) + Len(t)) /\ DOMAIN s = 1..Len(s) /\ DOMAIN t = 1..Len(t)
      /\ \A k \in 1..(Len(s) + Len(t)) : c[k] = IF k <= Len(s) THEN s[k] ELSE t[k - Len(s)]
  BY ConcatProperties
<1> HIDE DEF c
<1>2. Elements(c) \subseteq Elements(s) \cup Elements(t)
  <2> SUFFICES ASSUME NEW k \in DOMAIN c PROVE c[k] \in Elements(s) \cup Elements(t)
    BY DEF Elements
  <2>1. CASE k <= Len(s)
    <3>1. k \in DOMAIN s /\ c[k] = s[k]
      BY <1>1, <2>1
    <3> QED
      BY <3>1 DEF Elements
  <2>2. CASE k > Len(s)
    <3>1. k - Len(s) \in DOMAIN t /\ c[k] = t[k - Len(s)]
      BY <1>1, <2>2
    <3> QED
      BY <3>1 DEF Elements
  <2> QED
    BY <1>1, <2>1, <2>2
<1>3. Elements(s) \subseteq Elements(c)
  <2> SUFFICES ASSUME NEW k \in DOMAIN s PROVE s[k] \in Elements(c)
    BY DEF Elements
  <2>1. k \in DOMAIN c /\ c[k] = s[k]
    BY <1>1
  <2> QED
    BY <2>1 DEF Elements
<1>4. Elements(t) \subseteq Elements(c)
  <2> SUFFICES ASSUME NEW k \in DOMAIN t PROVE t[k] \in Elements(c)
    BY DEF Elements
  <2>1. k + Len(s) \in DOMAIN c /\ c[k + Len(s)] = t[k]
    BY <1>1
  <2> QED
    BY <2>1 DEF Elements
<1> QED
  BY <1>1, <1>2, <1>3, <1>4 DEF c

LEMMA HeadElements ==
  ASSUME NEW S, NEW s \in Seq(S), s # <<>>
  PROVE  /\ Head(s) \in S /\ Tail(s) \in Seq(S)
         /\ Elements(s) = {Head(s)} \cup Elements(Tail(s))
<1> DEFINE t == Tail(s)
<1>1. /\ Head(s) \in S /\ Head(s) = s[1] /\ Len(s) \in Nat /\ Len(s) > 0
      /\ DOMAIN s = 1..Len(s)
  OBVIOUS
<1>2. t \in Seq(S) /\ DOMAIN t = 1..(Len(s) - 1) /\ \A k \in DOMAIN t : t[k] = s[k + 1]
  OBVIOUS
<1> HIDE DEF t
<1>3. ASSUME NEW k \in DOMAIN s PROVE s[k] \in {Head(s)} \cup Elements(t)
  <2>1. CASE k = 1
    BY <1>1, <2>1
  <2>2. CASE k # 1
    <3>1. k - 1 \in DOMAIN t /\ t[k - 1] = s[k]
      BY <1>1, <1>2, <2>2
    <3> QED
      BY <3>1 DEF Elements
  <2> QED
    BY <2>1, <2>2
<1>4. ASSUME NEW k \in DOMAIN t PROVE t[k] \in Elements(s)
  <2>1. k + 1 \in DOMAIN s /\ t[k] = s[k + 1]
    BY <1>1, <1>2
  <2> QED
    BY <2>1 DEF Elements
<1>5. Head(s) \in Elements(s)
  BY <1>1 DEF Elements
<1>6. Elements(s) = {Head(s)} \cup Elements(t)
  BY <1>3, <1>4, <1>5 DEF Elements
<1> QED
  BY <1>1, <1>2, <1>6 DEF t

(* What one read() takes and what it leaves make up the queue.             *)
LEMMA ReadElements ==
  ASSUME kernel \in Seq(Events), kernel # <<>>
  PROVE  /\ Batch \in Seq(Events) /\ Rest \in Seq(Events)
         /\ Elements(kernel) = Elements(Batch) \cup Elements(Rest)
         /\ Len(Rest) < Len(kernel)
<1>1. Len(kernel) \in Nat /\ Len(kernel) > 0
  OBVIOUS
<1>2. CASE Len(kernel) <= BufferMax
  <2>1. Batch = kernel /\ Rest = SubSeq(kernel, Len(kernel) + 1, Len(kernel))
    BY <1>2 DEF Batch, Rest
  <2>2. Rest = <<>>
    BY <1>1, <2>1
  <2>3. Elements(Rest) = {}
    BY <2>2 DEF Elements
  <2> QED
    BY <1>1, <2>1, <2>2, <2>3
<1>3. CASE Len(kernel) > BufferMax
  <2>1. Batch = SubSeq(kernel, 1, BufferMax)
    BY <1>1, <1>3 DEF Batch
  <2>2. Batch \in Seq(Events) /\ Len(Batch) = BufferMax
    BY <1>1, <1>3, <2>1
  <2>3. Rest = SubSeq(kernel, BufferMax + 1, Len(kernel))
    BY <2>2 DEF Rest
  <2>4. Rest \in Seq(Events) /\ Len(Rest) = Len(kernel) - BufferMax
    BY <1>1, <1>3, <2>3
  <2>5. /\ \A k \in 1..BufferMax : k \in DOMAIN kernel /\ Batch[k] = kernel[k]
        /\ \A k \in 1..(Len(kernel) - BufferMax) :
             k + BufferMax \in DOMAIN kernel /\ Rest[k] = kernel[k + BufferMax]
    BY <1>1, <1>3, <2>1, <2>3
  <2>6. /\ DOMAIN kernel = 1..Len(kernel) /\ DOMAIN Batch = 1..BufferMax
        /\ DOMAIN Rest = 1..(Len(kernel) - BufferMax)
    BY <1>1, <2>2, <2>4
  <2>7. ASSUME NEW k \in DOMAIN kernel PROVE kernel[k] \in Elements(Batch) \cup Elements(Rest)
    <3>1. CASE k <= BufferMax
      <4>1. k \in DOMAIN Batch /\ Batch[k] = kernel[k]
        BY <2>5, <2>6, <3>1
      <4> QED
        BY <4>1 DEF Elements
    <3>2. CASE k > BufferMax
      <4>1. k - BufferMax \in DOMAIN Rest /\ (k - BufferMax) + BufferMax = k
        BY <1>1, <2>6, <3>2
      <4>2. Rest[k - BufferMax] = kernel[k]
        BY <2>5, <2>6, <4>1
      <4> QED
        BY <4>1, <4>2 DEF Elements
    <3> QED
      BY <1>1, <2>6, <3>1, <3>2
  <2>8. Elements(Batch) \subseteq Elements(kernel) /\ Elements(Rest) \subseteq Elements(kernel)
    BY <2>5, <2>6 DEF Elements
  <2>9. Elements(kernel) = Elements(Batch) \cup Elements(Rest)
    BY <2>7, <2>8 DEF Elements
  <2> QED
    BY <1>1, <2>2, <2>4, <2>9
<1> QED
  BY <1>1, <1>2, <1>3

(* What the filter leaves behind was in the vector.                        *)
LEMMA SecondElements ==
  ASSUME NEW S, NEW s \in Seq(S)
  PROVE  EverySecond(s) \in Seq(S) /\ Elements(EverySecond(s)) \subseteq Elements(s)
<1>1. Len(s) \in Nat /\ Len(s) \div 2 \in Nat /\ DOMAIN s = 1..Len(s)
  OBVIOUS
<1>2. \A k \in 1..(Len(s) \div 2) : 2 * k \in DOMAIN s /\ s[2 * k] \in S
  BY <1>1
<1>3. EverySecond(s) \in Seq(S) /\ DOMAIN EverySecond(s) = 1..(Len(s) \div 2)
  BY <1>1, <1>2 DEF EverySecond
<1>4. \A k \in 1..(Len(s) \div 2) : EverySecond(s)[k] = s[2 * k]
  BY DEF EverySecond
<1> QED
  BY <1>2, <1>3, <1>4 DEF Elements

-----------------------------------------------------------------------------
(* The inductive invariant.                                                *)

(* One event more than the limit is in the queue only as an overflow.      *)
QueueInv == Len(kernel) > QueueMax => kernel[Len(kernel)] = Overflow

(* Every event is of a watch that has its path.                            *)
Arrived == (Elements(kernel) \ {Overflow}) \cup Elements(carried) \cup Elements(mEventQueue)

EventInv ==
  /\ \A w \in Arrived : mDirectorieMap[w] # None
  /\ pc \in {"event", "have"} => mDirectorieMap[wd] # None

(* The files that init has come to watch, or found missing.                *)
Done == IF pc = "clean" THEN {} ELSE 1..(i - 1)

(* The watches are numbered from 1 on, in the order of the files; each     *)
(* missing file moves those behind it one number down.                     *)
SetupInv ==
  /\ pc = "watch" => i \in Slots
  /\ Running => i = Messages + 1
  /\ ~Running => other = Slots
  /\ missing \subseteq Done
  /\ \A w \in Slots : mDirectorieMap[w] = None => \A v \in Slots : v > w => mDirectorieMap[v] = None
  /\ \A w \in Slots : mDirectorieMap[w] # None =>
       /\ mDirectorieMap[w] \in Done \ missing
       /\ mDirectorieMap[w] >= w
       /\ mDirectorieMap[w] > w <=> Misplaced(mDirectorieMap[w])
  /\ \A p \in Done \ missing : ~Misplaced(p) => mDirectorieMap[p] = p
  /\ missing # {} => \E w \in Done : mDirectorieMap[w] = None
  /\ \A v, w \in Slots : mDirectorieMap[v] = mDirectorieMap[w] /\ mDirectorieMap[v] # None => v = w

(* NothingLost, also for the text the monitor has in its hands.            *)
Owed(p) == p \notin other \/ (pc = "have" /\ wd = p)

FreshInv ==
  \A p \in Watched \ excused :
    Owed(p) /\ writing[p] # "open" => Pending(p) \/ UpToDate(p)

IInv == TypeOK /\ QueueInv /\ EventInv /\ SetupInv /\ FreshInv

LEMMA InitInv == Init => IInv
<1> SUFFICES ASSUME Init PROVE IInv
  OBVIOUS
<1> USE DEF Init
<1>1. TypeOK
  <2>1. Messages \in Nat /\ Messages > 0
    OBVIOUS
  <2>2. 1 \in Slots
    BY <2>1 DEF Slots
  <2>3. <<>> \in Seq(Events) /\ <<>> \in Seq(Slots) /\ Len(<<>>) = 0
    OBVIOUS
  <2> QED
    BY <2>1, <2>2, <2>3 DEF TypeOK, Contents
<1>2. QueueInv
  BY DEF QueueInv
<1>3. EventInv
  BY DEF EventInv, Arrived, Elements
<1>4. SetupInv
  BY DEF SetupInv, Done, Running
<1>5. FreshInv
  BY DEF FreshInv, Watched, Owed
<1> QED
  BY <1>1, <1>2, <1>3, <1>4, <1>5 DEF IInv

-----------------------------------------------------------------------------
(* The programs.                                                           *)

(* What an event does to the queue, and to what is excused.                *)
LEMMA QueuedElements ==
  ASSUME TypeOK, QueueInv, NEW w \in Slots
  PROVE  /\ Queued(w) \in Seq(Events) /\ Len(Queued(w)) <= QueueMax + 1
         /\ Len(Queued(w)) > QueueMax => Queued(w)[Len(Queued(w))] = Overflow
         /\ Elements(kernel) \subseteq Elements(Queued(w))
         /\ Elements(Queued(w)) \subseteq Elements(kernel) \cup {Overflow, w}
         /\ ~Full => w \in Elements(Queued(w))
<1> USE DEF TypeOK, QueueInv
<1>1. /\ kernel \in Seq(Events) /\ Len(kernel) \in Nat /\ Len(kernel) <= QueueMax + 1
      /\ QueueMax \in Nat /\ QueueMax > 0
      /\ Overflow \in Events /\ w \in Events
  BY DEF Events
<1>2. \A e \in Events : /\ Append(kernel, e) \in Seq(Events)
                        /\ Len(Append(kernel, e)) = Len(kernel) + 1
                        /\ Append(kernel, e)[Len(kernel) + 1] = e
                        /\ Elements(Append(kernel, e)) = Elements(kernel) \cup {e}
  BY <1>1, AppendElements
<1>3. CASE Full /\ kernel[Len(kernel)] = Overflow
  <2>1. Queued(w) = kernel
    BY <1>3 DEF Queued
  <2> QED
    BY <1>1, <1>3, <2>1
<1>4. CASE Full /\ kernel[Len(kernel)] # Overflow
  <2>1. Queued(w) = Append(kernel, Overflow)
    BY <1>4 DEF Queued
  <2>2. Len(kernel) <= QueueMax
    BY <1>1, <1>4
  <2> QED
    BY <1>1, <1>2, <1>4, <2>1, <2>2
<1>5. CASE ~Full /\ kernel # <<>> /\ kernel[Len(kernel)] = w
  <2>1. Queued(w) = kernel
    BY <1>5 DEF Queued
  <2>2. Len(kernel) \in DOMAIN kernel
    BY <1>1, <1>5
  <2>3. w \in Elements(kernel)
    BY <1>5, <2>2 DEF Elements
  <2> QED
    BY <1>1, <1>5, <2>1, <2>3
<1>6. CASE ~Full /\ ~(kernel # <<>> /\ kernel[Len(kernel)] = w)
  <2>1. Queued(w) = Append(kernel, w)
    BY <1>6 DEF Queued
  <2>2. Len(kernel) < QueueMax
    BY <1>1, <1>6 DEF Full
  <2> QED
    BY <1>1, <1>2, <1>6, <2>1, <2>2
<1> QED
  BY <1>3, <1>4, <1>5, <1>6

LEMMA EventQueued ==
  ASSUME TypeOK, QueueInv, NEW w \in Slots \cup {None}, NEW p \in Slots, Event(w, p)
  PROVE  /\ kernel' \in Seq(Events) /\ Len(kernel') <= QueueMax + 1 /\ QueueInv'
         /\ Elements(kernel) \subseteq Elements(kernel')
         /\ Elements(kernel') \subseteq Elements(kernel) \cup {Overflow} \cup ({w} \ {None})
         /\ excused' \subseteq Slots /\ excused \ {p} \subseteq excused'
         /\ p \in excused' \/ (w # None /\ w \in Elements(kernel'))
<1>1. None \notin Slots
  OBVIOUS
<1>2. CASE w = None
  BY <1>2 DEF Event, TypeOK, QueueInv
<1>3. CASE w # None /\ Full
  BY <1>1, <1>3, QueuedElements DEF Event, TypeOK, QueueInv
<1>4. CASE w # None /\ ~Full
  BY <1>1, <1>4, QueuedElements DEF Event, TypeOK, QueueInv
<1> QED
  BY <1>2, <1>3, <1>4

(* A watch is found by its path; each path has one.                        *)
LEMMA WatchOfWatched ==
  ASSUME TypeOK, SetupInv, NEW p \in Slots
  PROVE  /\ WatchOf(p) \in Slots \cup {None}
         /\ WatchOf(p) # None => mDirectorieMap[WatchOf(p)] = p
         /\ p \in Watched => WatchOf(p) = p
<1>1. CASE \E w \in Slots : mDirectorieMap[w] = p
  <2>1. WatchOf(p) \in Slots /\ mDirectorieMap[WatchOf(p)] = p
    BY <1>1 DEF WatchOf
  <2>2. ASSUME p \in Watched PROVE WatchOf(p) = p
    <3>1. mDirectorieMap[p] = p /\ mDirectorieMap[p] # None
      BY <2>2 DEF Watched
    <3> QED
      BY <2>1, <3>1 DEF SetupInv
  <2> QED
    BY <2>1, <2>2
<1>2. CASE ~\E w \in Slots : mDirectorieMap[w] = p
  BY <1>2 DEF WatchOf, Watched
<1> QED
  BY <1>1, <1>2

(* The programs leave the watches and the thread alone.                    *)
LEMMA SetupUnchanged ==
  ASSUME SetupInv, UNCHANGED <<mDirectorieMap, pc, i, missing>>, other \subseteq other' \/ Running,
         other' \subseteq Slots
  PROVE  SetupInv'
<1> QED
  BY DEF SetupInv, Done, Running, Misplaced

LEMMA OpenFileInv ==
  ASSUME IInv, NEW p \in Slots, OpenFile(p)
  PROVE  IInv'
<1> USE DEF OpenFile
<1>1. TypeOK'
  BY DEF IInv, TypeOK, Contents, Edit, reading, thread
<1>2. QueueInv' /\ EventInv'
  BY DEF IInv, QueueInv, EventInv, Arrived, reading, thread
<1>3. SetupInv'
  BY SetupUnchanged DEF IInv, TypeOK, thread
<1>4. FreshInv'
  <2> SUFFICES ASSUME NEW q \in Watched', q \notin excused', Owed(q)', writing'[q] # "open"
               PROVE  (Pending(q) \/ UpToDate(q))'
    BY DEF FreshInv
  <2>1. q # p /\ q \in Slots
    BY DEF IInv, TypeOK, Watched
  <2>2. q \in Watched \ excused /\ Owed(q) /\ writing[q] # "open" /\ content'[q] = content[q]
    BY <2>1 DEF IInv, TypeOK, Watched, Owed, thread
  <2>3. Pending(q) \/ UpToDate(q)
    BY <2>2 DEF IInv, FreshInv
  <2> QED
    BY <2>2, <2>3 DEF Pending, UpToDate, reading, thread
<1> QED
  BY <1>1, <1>2, <1>3, <1>4 DEF IInv

LEMMA WriteFileInv ==
  ASSUME IInv, NEW p \in Slots, WriteFile(p)
  PROVE  IInv'
<1> USE DEF WriteFile
<1>1. TypeOK'
  BY DEF IInv, TypeOK, Contents, reading, thread, tally
<1>2. QueueInv' /\ EventInv'
  BY DEF IInv, QueueInv, EventInv, Arrived, reading, thread
<1>3. SetupInv'
  BY SetupUnchanged DEF IInv, TypeOK, thread, tally
<1>4. FreshInv'
  <2> SUFFICES ASSUME NEW q \in Watched', q \notin excused', Owed(q)', writing'[q] # "open"
               PROVE  (Pending(q) \/ UpToDate(q))'
    BY DEF FreshInv
  <2>1. q # p /\ q \in Slots
    BY DEF IInv, TypeOK, Watched
  <2>2. q \in Watched \ excused /\ Owed(q) /\ writing[q] # "open" /\ content'[q] = content[q]
    BY <2>1 DEF IInv, TypeOK, Watched, Owed, thread, tally
  <2>3. Pending(q) \/ UpToDate(q)
    BY <2>2 DEF IInv, FreshInv
  <2> QED
    BY <2>2, <2>3 DEF Pending, UpToDate, reading, thread
<1> QED
  BY <1>1, <1>2, <1>3, <1>4 DEF IInv

(* A change of a file that a watch may have seen: in the queue is what was *)
(* there, and the file is excused or its event is there too.               *)
Changed(p) ==
  \/ \E w \in {WatchOf(p), None} : Event(w, p)
  \/ writing[p] = "stale" /\ UNCHANGED <<kernel, excused, content>>

LEMMA ChangedInv ==
  ASSUME IInv, NEW p \in Slots, Changed(p),
         content' \in [Slots -> Contents \cup {None}], \A q \in Slots \ {p} : content'[q] = content[q],
         writing' \in [Slots -> {"no", "open", "stale"}],
         \A q \in Slots \ {p} : writing'[q] = writing[q],
         attach' \in [Slots -> {"none", "file", "unlinked", "dead"}],
         edits' \in 0..MaxEdits,
         UNCHANGED <<mDirectorieMap, reading, clock, thread, shown, other, missing>>
  PROVE  IInv'
<1> USE DEF reading, thread
<1>1. /\ kernel' \in Seq(Events) /\ Len(kernel') <= QueueMax + 1 /\ QueueInv'
      /\ Elements(kernel) \subseteq Elements(kernel')
      /\ Elements(kernel') \subseteq Elements(kernel) \cup {Overflow} \cup ({WatchOf(p)} \ {None})
      /\ excused' \subseteq Slots /\ excused \ {p} \subseteq excused'
      /\ \/ p \in excused' \/ WatchOf(p) \in Elements(kernel')
         \/ writing[p] = "stale" /\ UNCHANGED <<kernel, excused, content>>
  <2>1. CASE \E w \in {WatchOf(p), None} : Event(w, p)
    <3>1. PICK w \in {WatchOf(p), None} : Event(w, p)
      BY <2>1
    <3>2. w \in Slots \cup {None}
      BY WatchOfWatched DEF IInv
    <3> QED
      BY <3>1, <3>2, EventQueued DEF IInv
  <2>2. CASE writing[p] = "stale" /\ UNCHANGED <<kernel, excused, content>>
    BY <2>2 DEF IInv, TypeOK, QueueInv
  <2> QED
    BY <2>1, <2>2 DEF Changed
<1>2. TypeOK'
  BY <1>1 DEF IInv, TypeOK
<1>3. EventInv'
  <2>1. WatchOf(p) # None => mDirectorieMap[WatchOf(p)] # None
    BY WatchOfWatched DEF IInv
  <2>2. Arrived' \subseteq Arrived \cup ({WatchOf(p)} \ {None})
    BY <1>1 DEF Arrived
  <2> QED
    BY <2>1, <2>2 DEF IInv, EventInv
<1>4. SetupInv'
  BY SetupUnchanged DEF IInv, TypeOK
<1>5. FreshInv'
  <2> SUFFICES ASSUME NEW q \in Watched', q \notin excused', Owed(q)', writing'[q] # "open"
               PROVE  (Pending(q) \/ UpToDate(q))'
    BY DEF FreshInv
  <2>1. q \in Watched /\ q \in Slots /\ Owed(q)
    BY DEF IInv, TypeOK, Watched, Owed
  <2>2. Pending(q) => Pending(q)'
    BY <1>1 DEF Pending
  <2>3. CASE q = p /\ WatchOf(p) \in Elements(kernel')
    BY <2>1, <2>3, WatchOfWatched DEF IInv, Pending
  <2>4. CASE q # p \/ (writing[p] = "stale" /\ UNCHANGED <<kernel, excused, content>>)
    <3>1. q \notin excused /\ writing[q] # "open" /\ content'[q] = content[q]
      BY <1>1, <2>1, <2>4 DEF IInv, TypeOK
    <3>2. Pending(q) \/ UpToDate(q)
      BY <2>1, <3>1 DEF IInv, FreshInv
    <3> QED
      BY <2>2, <3>1, <3>2 DEF UpToDate
  <2> QED
    BY <1>1, <2>3, <2>4
<1> QED
  BY <1>1, <1>2, <1>3, <1>4, <1>5 DEF IInv

LEMMA CloseFileInv ==
  ASSUME IInv, NEW p \in Slots, CloseFile(p)
  PROVE  IInv'
<1>1. Changed(p)
  <2>1. writing[p] \in {"open", "stale"}
    BY DEF CloseFile, IInv, TypeOK
  <2> QED
    BY <2>1 DEF CloseFile, Changed
<1>2. attach' \in [Slots -> {"none", "file", "unlinked", "dead"}]
  BY DEF CloseFile, IInv, TypeOK
<1>3. writing' \in [Slots -> {"no", "open", "stale"}]
      /\ \A q \in Slots \ {p} : writing'[q] = writing[q]
  BY DEF CloseFile, IInv, TypeOK
<1>4. /\ content' = content /\ edits' = edits
      /\ UNCHANGED <<mDirectorieMap, reading, clock, thread, shown, other, missing>>
  BY DEF CloseFile
<1>5. content \in [Slots -> Contents \cup {None}] /\ edits \in 0..MaxEdits
  BY DEF IInv, TypeOK
<1> QED
  BY <1>1, <1>2, <1>3, <1>4, <1>5, ChangedInv

LEMMA ReplaceInv ==
  ASSUME IInv, NEW p \in Slots, Replace(p)
  PROVE  IInv'
<1>1. Changed(p)
  BY DEF Replace, Unlink, Changed
<1>2. attach' \in [Slots -> {"none", "file", "unlinked", "dead"}]
  BY DEF Replace, Unlink, IInv, TypeOK
<1>3. writing' \in [Slots -> {"no", "open", "stale"}]
      /\ \A q \in Slots \ {p} : writing'[q] = writing[q]
  BY DEF Replace, Unlink, IInv, TypeOK
<1>4. content' \in [Slots -> Contents \cup {None}]
      /\ \A q \in Slots \ {p} : content'[q] = content[q]
  BY DEF Replace, IInv, TypeOK
<1>5. edits' \in 0..MaxEdits
      /\ UNCHANGED <<mDirectorieMap, reading, clock, thread, shown, other, missing>>
  BY DEF Replace, Edit, IInv, TypeOK
<1> QED
  BY <1>1, <1>2, <1>3, <1>4, <1>5, ChangedInv

LEMMA CliMessageInv ==
  ASSUME IInv, NEW p \in Slots, CliMessage(p)
  PROVE  IInv'
<1> USE DEF CliMessage, reading, thread, files
<1>1. TypeOK'
  BY DEF IInv, TypeOK, Edit
<1>2. QueueInv' /\ EventInv'
  BY DEF IInv, QueueInv, EventInv, Arrived
<1>3. SetupInv'
  BY SetupUnchanged DEF IInv, TypeOK
<1>4. FreshInv'
  <2> SUFFICES ASSUME NEW q \in Watched', q \notin excused', Owed(q)', writing'[q] # "open"
               PROVE  (Pending(q) \/ UpToDate(q))'
    BY DEF FreshInv
  <2>1. q \in Watched \ excused /\ Owed(q) /\ writing[q] # "open"
    BY DEF Watched, Owed
  <2>2. Pending(q) \/ UpToDate(q)
    BY <2>1 DEF IInv, FreshInv
  <2>3. q # p \/ (pc = "have" /\ wd = q)
    BY DEF Owed
  <2>4. (pc = "have" /\ wd = q) \/ shown'[q] = shown[q]
    BY <2>1, <2>3 DEF IInv, TypeOK, Watched
  <2> QED
    BY <2>2, <2>4 DEF Pending, UpToDate
<1> QED
  BY <1>1, <1>2, <1>3, <1>4 DEF IInv

-----------------------------------------------------------------------------
(* init.  Nothing on the sign comes from a file yet.                       *)

LEMMA FreshAtStart ==
  ASSUME other' = Slots, pc' # "have"
  PROVE  FreshInv'
  BY DEF FreshInv, Watched, Owed

LEMMA RemoveInv == IInv /\ Remove => IInv'
<1> SUFFICES ASSUME IInv, Remove PROVE IInv'
  OBVIOUS
<1> USE DEF Remove, reading, tally
<1>1. i \in Slots /\ i + 1 \in 1..(Messages + 1)
  BY DEF Slots
<1>2. TypeOK'
  BY <1>1 DEF IInv, TypeOK
<1>3. QueueInv' /\ EventInv'
  BY DEF IInv, QueueInv, EventInv, Arrived
<1>4. SetupInv'
  BY DEF IInv, SetupInv, Done, Running, Misplaced
<1>5. FreshInv'
  BY FreshAtStart DEF IInv, SetupInv, Running
<1> QED
  BY <1>2, <1>3, <1>4, <1>5 DEF IInv

LEMMA CleanedInv == IInv /\ Cleaned => IInv'
<1> SUFFICES ASSUME IInv, Cleaned PROVE IInv'
  OBVIOUS
<1> USE DEF Cleaned, reading, tally, files
<1>1. TypeOK'
  BY DEF IInv, TypeOK
<1>2. QueueInv' /\ EventInv'
  BY DEF IInv, QueueInv, EventInv, Arrived
<1>3. SetupInv'
  <2>1. Done = {} /\ Done' = {}
    BY DEF Done
  <2> QED
    BY <2>1 DEF IInv, SetupInv, Running, Misplaced
<1>4. FreshInv'
  BY FreshAtStart DEF IInv, SetupInv, Running
<1> QED
  BY <1>1, <1>2, <1>3, <1>4 DEF IInv

LEMMA CreateInv == IInv /\ Create => IInv'
<1> SUFFICES ASSUME IInv, Create PROVE IInv'
  OBVIOUS
<1> USE DEF Create, reading, tally
<1>1. TypeOK'
  BY DEF IInv, TypeOK, Contents
<1>2. QueueInv' /\ EventInv'
  BY DEF IInv, QueueInv, EventInv, Arrived
<1>3. SetupInv'
  <2>1. Done' = Done
    BY DEF Done
  <2> QED
    BY <2>1 DEF IInv, SetupInv, Running, Misplaced
<1>4. FreshInv'
  BY FreshAtStart DEF IInv, SetupInv, Running
<1> QED
  BY <1>1, <1>2, <1>3, <1>4 DEF IInv

LEMMA StartThreadInv == IInv /\ StartThread => IInv'
<1> SUFFICES ASSUME IInv, StartThread PROVE IInv'
  OBVIOUS
<1> USE DEF StartThread, reading, tally, files
<1>1. TypeOK'
  BY DEF IInv, TypeOK
<1>2. QueueInv' /\ EventInv'
  BY DEF IInv, QueueInv, EventInv, Arrived
<1>3. SetupInv'
  <2>1. Done' = Done
    BY DEF Done
  <2>2. i = Messages + 1
    BY DEF IInv, TypeOK, Slots
  <2> QED
    BY <2>1, <2>2 DEF IInv, SetupInv, Running, Misplaced
<1>4. FreshInv'
  BY FreshAtStart DEF IInv, SetupInv, Running
<1> QED
  BY <1>1, <1>2, <1>3, <1>4 DEF IInv

(* The number the next watch gets: that of its file as long as none was    *)
(* missing, a smaller one from then on.                                    *)
LEMMA NextWatch ==
  ASSUME IInv, pc = "watch"
  PROVE  /\ i \in Slots /\ Done = 1..(i - 1)
         /\ NextWd \in Unused /\ \A v \in Unused : NextWd <= v
         /\ missing = {} => NextWd = i
         /\ missing # {} => NextWd < i
         /\ mDirectorieMap[i] = None
<1>1. i \in Slots /\ Done = 1..(i - 1)
  BY DEF IInv, SetupInv, Done
<1>2. mDirectorieMap[i] = None
  <2> SUFFICES ASSUME mDirectorieMap[i] # None PROVE FALSE
    OBVIOUS
  <2>1. mDirectorieMap[i] \in 1..(i - 1) /\ mDirectorieMap[i] >= i
    BY <1>1 DEF IInv, SetupInv
  <2> QED
    BY <1>1, <2>1 DEF Slots
<1>3. NextWd \in Unused /\ \A v \in Unused : NextWd <= v
  <2>1. Unused \subseteq Nat /\ Unused # {}
    BY <1>1, <1>2 DEF Unused, Slots
  <2>2. PICK x \in Unused : \A v \in Unused : ~(v < x)
    BY <2>1, Smallest
  <2>3. \A v \in Unused : x <= v
    BY <2>1, <2>2
  <2> QED
    BY <2>3 DEF NextWd
<1>4. ASSUME missing = {} PROVE NextWd = i
  <2>1. ASSUME NEW p \in 1..(i - 1) PROVE mDirectorieMap[p] = p
    BY <1>1, <1>4, <2>1 DEF IInv, SetupInv, Misplaced
  <2>2. NextWd \notin 1..(i - 1)
    <3>1. None \notin 1..(i - 1)
      BY <1>1 DEF Slots
    <3> QED
      BY <1>3, <2>1, <3>1 DEF Unused
  <2>3. i \in Unused
    BY <1>1, <1>2 DEF Unused
  <2> QED
    BY <1>1, <1>3, <2>2, <2>3 DEF Unused, Slots
<1>5. ASSUME missing # {} PROVE NextWd < i
  <2>1. PICK w \in 1..(i - 1) : mDirectorieMap[w] = None
    BY <1>1, <1>5 DEF IInv, SetupInv
  <2>2. w \in Unused
    BY <1>1, <2>1 DEF Unused, Slots
  <2> QED
    BY <1>1, <1>3, <2>1, <2>2 DEF Unused, Slots
<1> QED
  BY <1>1, <1>2, <1>3, <1>4, <1>5

(* One more file that was not there.                                       *)
LEMMA MissingSetup ==
  ASSUME IInv, pc = "watch", pc' = "create", i' = i + 1, missing' = missing \cup {i},
         UNCHANGED <<mDirectorieMap, other>>
  PROVE  SetupInv'
<1>1. i \in Slots /\ i \in Nat /\ Done = 1..(i - 1) /\ mDirectorieMap[i] = None
  BY NextWatch DEF Slots
<1>2. Done' = 1..i /\ Done' = Done \cup {i} /\ i \notin Done
  <2>1. i >= 1 /\ i' - 1 = i
    BY <1>1 DEF Slots
  <2>2. Done' = 1..i
    BY <2>1 DEF Done
  <2> QED
    BY <1>1, <2>1, <2>2
<1>3. ASSUME NEW p \in Done PROVE Misplaced(p)' <=> Misplaced(p)
  <2>1. p < i
    BY <1>1, <1>3
  <2>2. ~(i < p)
    BY <1>1, <1>3, <2>1
  <2> QED
    BY <2>2 DEF Misplaced
<1>4. ASSUME NEW w \in Slots, mDirectorieMap[w] # None
      PROVE  /\ mDirectorieMap[w] \in Done' \ missing'
             /\ mDirectorieMap[w] >= w
             /\ mDirectorieMap[w] > w <=> Misplaced(mDirectorieMap[w])'
  <2>1. /\ mDirectorieMap[w] \in Done \ missing
        /\ mDirectorieMap[w] >= w
        /\ mDirectorieMap[w] > w <=> Misplaced(mDirectorieMap[w])
    BY <1>4 DEF IInv, SetupInv
  <2> QED
    BY <1>2, <1>3, <2>1
<1>5. ASSUME NEW p \in Done' \ missing', ~Misplaced(p)' PROVE mDirectorieMap[p] = p
  <2>1. p \in Done \ missing /\ ~Misplaced(p)
    BY <1>2, <1>3, <1>5
  <2> QED
    BY <2>1 DEF IInv, SetupInv
<1>6. missing' \subseteq Done' /\ i \in Done'
  BY <1>2 DEF IInv, SetupInv
<1> QED
  BY <1>1, <1>4, <1>5, <1>6 DEF IInv, SetupInv, Running

(* One more watch.                                                         *)
LEMMA WatchSetup ==
  ASSUME IInv, pc = "watch", pc' = "create", i' = i + 1, UNCHANGED <<missing, other>>,
         mDirectorieMap' = [mDirectorieMap EXCEPT ![NextWd] = i]
  PROVE  SetupInv'
<1> DEFINE w0 == NextWd
<1>1. /\ i \in Slots /\ i \in Nat /\ Done = 1..(i - 1) /\ mDirectorieMap[i] = None
      /\ w0 \in Slots /\ mDirectorieMap[w0] = None /\ w0 \in Nat
      /\ \A v \in Slots : mDirectorieMap[v] = None => w0 <= v
      /\ missing = {} => w0 = i
      /\ missing # {} => w0 < i
      /\ mDirectorieMap \in [Slots -> Slots \cup {None}]
  BY NextWatch DEF Slots, Unused, IInv, TypeOK
<1> HIDE DEF w0
<1>2. Done' = 1..i /\ Done' = Done \cup {i} /\ i \notin Done /\ missing \subseteq Done
  <2>1. i >= 1 /\ i' - 1 = i
    BY <1>1 DEF Slots
  <2>2. Done' = 1..i
    BY <2>1 DEF Done
  <2> QED
    BY <1>1, <2>1, <2>2 DEF IInv, SetupInv
<1>3. /\ mDirectorieMap'[w0] = i
      /\ \A w \in Slots \ {w0} : mDirectorieMap'[w] = mDirectorieMap[w]
  BY <1>1 DEF w0
<1>4. \A p : Misplaced(p)' <=> Misplaced(p)
  BY DEF Misplaced
<1>5. Misplaced(i) <=> missing # {}
  BY <1>1, <1>2 DEF Misplaced
<1>6. ASSUME NEW w \in Slots, mDirectorieMap'[w] = None, NEW v \in Slots, v > w
      PROVE  mDirectorieMap'[v] = None
  <2>1. w # w0 /\ mDirectorieMap[w] = None
    BY <1>1, <1>3, <1>6
  <2>2. w0 <= w /\ v # w0
    BY <1>1, <1>6, <2>1 DEF Slots
  <2>3. mDirectorieMap[v] = None
    BY <1>6, <2>1 DEF IInv, SetupInv
  <2> QED
    BY <1>3, <2>2, <2>3
<1>7. ASSUME NEW w \in Slots, mDirectorieMap'[w] # None
      PROVE  /\ mDirectorieMap'[w] \in Done' \ missing
             /\ mDirectorieMap'[w] >= w
             /\ mDirectorieMap'[w] > w <=> Misplaced(mDirectorieMap'[w])
  <2>1. CASE w = w0
    BY <1>1, <1>2, <1>3, <1>5, <2>1
  <2>2. CASE w # w0
    BY <1>2, <1>3, <1>7, <2>2 DEF IInv, SetupInv
  <2> QED
    BY <2>1, <2>2
<1>8. ASSUME NEW p \in Done' \ missing, ~Misplaced(p) PROVE mDirectorieMap'[p] = p
  <2>1. CASE p = i
    BY <1>1, <1>3, <1>5, <1>8, <2>1
  <2>2. CASE p # i
    <3>1. p \in Done \ missing /\ p \in Slots
      BY <1>1, <1>2, <2>2 DEF Slots
    <3>2. mDirectorieMap[p] = p
      BY <1>8, <3>1 DEF IInv, SetupInv
    <3>3. p # w0
      BY <1>1, <3>1, <3>2
    <3> QED
      BY <1>3, <3>1, <3>2, <3>3
  <2> QED
    BY <2>1, <2>2
<1>9. ASSUME missing # {} PROVE \E w \in Done' : mDirectorieMap'[w] = None
  BY <1>1, <1>2, <1>3, <1>9
<1>10. ASSUME NEW v \in Slots, NEW w \in Slots, mDirectorieMap'[v] = mDirectorieMap'[w],
              mDirectorieMap'[v] # None
       PROVE  v = w
  <2>1. ASSUME NEW u \in Slots, u # w0, mDirectorieMap'[u] # None PROVE mDirectorieMap'[u] # i
    <3>1. mDirectorieMap[u] \in Done
      BY <1>3, <2>1 DEF IInv, SetupInv
    <3> QED
      BY <1>2, <1>3, <2>1, <3>1
  <2>2. CASE v # w0 /\ w # w0
    BY <1>3, <1>10, <2>2 DEF IInv, SetupInv
  <2>3. CASE v = w0 \/ w = w0
    BY <1>3, <1>10, <2>1, <2>3
  <2> QED
    BY <2>2, <2>3
<1> QED
  BY <1>2, <1>4, <1>6, <1>7, <1>8, <1>9, <1>10 DEF IInv, SetupInv, Running

LEMMA WatchFileInv == IInv /\ WatchFile => IInv'
<1> SUFFICES ASSUME IInv, WatchFile PROVE IInv'
  OBVIOUS
<1> USE DEF WatchFile, reading
<1>1. i \in Slots /\ i + 1 \in 1..(Messages + 1) /\ NextWd \in Slots
  BY NextWatch DEF Slots, Unused
<1>2. mDirectorieMap \in [Slots -> Slots \cup {None}] /\ mDirectorieMap[NextWd] = None
  BY NextWatch DEF IInv, TypeOK, Unused
<1>3. TypeOK'
  <2>1. attach' \in [Slots -> {"none", "file", "unlinked", "dead"}] /\ missing' \subseteq Slots
        /\ mDirectorieMap' \in [Slots -> Slots \cup {None}]
    <3>1. /\ attach \in [Slots -> {"none", "file", "unlinked", "dead"}] /\ missing \subseteq Slots
          /\ mDirectorieMap \in [Slots -> Slots \cup {None}]
      BY DEF IInv, TypeOK
    <3>2. /\ missing' = missing \cup {i} \/ missing' = missing
          /\ attach' = [attach EXCEPT ![i] = "file"] \/ attach' = attach
          /\ \/ mDirectorieMap' = [mDirectorieMap EXCEPT ![NextWd] = i]
             \/ mDirectorieMap' = mDirectorieMap
      OBVIOUS
    <3>3. attach' \in [Slots -> {"none", "file", "unlinked", "dead"}] /\ missing' \subseteq Slots
      BY <1>1, <3>1, <3>2
    <3>4. mDirectorieMap' \in [Slots -> Slots \cup {None}]
      BY <1>1, <3>1, <3>2
    <3> QED
      BY <3>3, <3>4
  <2> QED
    BY <1>1, <2>1 DEF IInv, TypeOK
<1>4. QueueInv'
  BY DEF IInv, QueueInv
<1>5. EventInv'
  <2>1. \A w \in Slots : mDirectorieMap[w] # None => mDirectorieMap'[w] # None
    BY <1>1, <1>2
  <2>2. Arrived \subseteq Slots /\ Arrived' = Arrived
    BY DEF Arrived, Elements, IInv, TypeOK, Events
  <2> QED
    BY <2>1, <2>2 DEF IInv, EventInv
<1>6. SetupInv'
  BY MissingSetup, WatchSetup
<1>7. FreshInv'
  BY FreshAtStart DEF IInv, SetupInv, Running
<1> QED
  BY <1>3, <1>4, <1>5, <1>6, <1>7 DEF IInv

-----------------------------------------------------------------------------
(* getNextEvent and MonitorFiles.                                          *)

(* Whatever is in the kernel, the vector or the queue of the engine.       *)
LEMMA FoundElements ==
  ASSUME IInv, kernel # <<>>
  PROVE  /\ Found \in Seq(Slots)
         /\ Elements(Found) = Elements(carried) \cup (Elements(Batch) \ {Overflow})
         /\ Elements(Found) \subseteq Arrived
         /\ \A w \in Elements(Found) : mDirectorieMap[w] \in Slots
<1>1. Batch \in Seq(Events) /\ Elements(Batch) \subseteq Elements(kernel)
  BY ReadElements DEF IInv, TypeOK
<1>2. Known(Batch) \in Seq(Slots) /\ Elements(Known(Batch)) = Elements(Batch) \ {Overflow}
  BY <1>1, KnownElements
<1>3. carried \in Seq(Slots)
  BY DEF IInv, TypeOK
<1>4. Found \in Seq(Slots) /\ Elements(Found) = Elements(carried) \cup (Elements(Batch) \ {Overflow})
  BY <1>2, <1>3, ConcatElements DEF Found
<1>5. Elements(Found) \subseteq Arrived
  BY <1>1, <1>4 DEF Arrived
<1>6. ASSUME NEW w \in Elements(Found) PROVE mDirectorieMap[w] \in Slots
  <2>1. w \in Slots
    BY <1>4, <1>6 DEF Elements
  <2>2. mDirectorieMap[w] # None
    BY <1>5, <1>6 DEF IInv, EventInv
  <2> QED
    BY <2>1, <2>2 DEF IInv, TypeOK
<1> QED
  BY <1>4, <1>5, <1>6

LEMMA ReadInv == IInv /\ Read => IInv'
<1> SUFFICES ASSUME IInv, Read PROVE IInv'
  OBVIOUS
<1> USE DEF thread, files
<1>0. /\ pc = "wait" /\ pc' = pc /\ mEventQueue = <<>> /\ kernel # <<>> /\ kernel' = Rest
      /\ UNCHANGED <<content, writing, attach, mDirectorieMap, clock, i, wd, text, shown, edits,
                     other, missing>>
  BY DEF Read
<1>1. /\ Rest \in Seq(Events) /\ Len(Rest) < Len(kernel) /\ Len(Rest) \in Nat
      /\ Elements(kernel) = Elements(Batch) \cup Elements(Rest)
  BY <1>0, ReadElements DEF IInv, TypeOK
<1>2. /\ Found \in Seq(Slots) /\ Elements(Found) \subseteq Arrived
      /\ Elements(Found) = Elements(carried) \cup (Elements(Batch) \ {Overflow})
      /\ \A w \in Elements(Found) : mDirectorieMap[w] \in Slots
  BY <1>0, FoundElements
<1> DEFINE paths == {mDirectorieMap[w] : w \in Elements(Found)}
<1>3. paths \subseteq Slots
  BY <1>2
<1>4. \/ /\ carried' = EverySecond(Found) /\ excused' = excused \cup paths
         /\ UNCHANGED <<mEventQueue, mLastEventTime>>
      \/ /\ carried' = <<>> /\ mEventQueue' = Found /\ mLastEventTime' = clock
         /\ excused' = excused \ paths
  BY DEF Read
<1>5. /\ carried' \in Seq(Slots) /\ mEventQueue' \in Seq(Slots)
      /\ Elements(carried') \cup Elements(mEventQueue') \subseteq Elements(Found)
  <2>1. EverySecond(Found) \in Seq(Slots) /\ Elements(EverySecond(Found)) \subseteq Elements(Found)
    BY <1>2, SecondElements
  <2>2. Elements(<<>>) = {} /\ <<>> \in Seq(Slots)
    BY DEF Elements
  <2> QED
    BY <1>0, <1>2, <1>4, <2>1, <2>2
<1>6. excused' \subseteq Slots /\ mLastEventTime' \in 0..MaxClock
  BY <1>3, <1>4 DEF IInv, TypeOK
<1> HIDE DEF paths
<1>7. TypeOK'
  <2>1. Len(kernel') <= QueueMax + 1
    BY <1>0, <1>1 DEF IInv, TypeOK
  <2> QED
    BY <1>0, <1>1, <1>5, <1>6, <2>1 DEF IInv, TypeOK
<1>8. QueueInv'
  <2>1. Len(kernel) \in Nat /\ Len(kernel) <= QueueMax + 1
    BY DEF IInv, TypeOK
  <2> QED
    BY <1>0, <1>1, <2>1 DEF QueueInv
<1>9. EventInv'
  <2>1. Arrived' \subseteq Arrived
    BY <1>0, <1>1, <1>2, <1>5 DEF Arrived
  <2> QED
    BY <1>0, <2>1 DEF IInv, EventInv
<1>10. SetupInv'
  BY <1>0, SetupUnchanged DEF IInv, TypeOK
<1>11. FreshInv'
  <2> SUFFICES ASSUME NEW p \in Watched', p \notin excused', Owed(p)', writing'[p] # "open"
               PROVE  (Pending(p) \/ UpToDate(p))'
    BY DEF FreshInv
  <2>1. p \in Slots /\ p \in Watched /\ mDirectorieMap[p] = p /\ mDirectorieMap[p] # None
    BY <1>0 DEF Watched, IInv, TypeOK
  <2>2. p \in Elements(Found) => p \in paths
    BY <2>1 DEF paths
  <2>3. CASE p \in Elements(Found)
    <3>1. mEventQueue' = Found
      BY <1>4, <2>2, <2>3
    <3> QED
      BY <2>3, <3>1 DEF Pending
  <2>4. CASE p \notin Elements(Found)
    <3>1. p \notin paths
      <4> SUFFICES ASSUME p \in paths PROVE FALSE
        OBVIOUS
      <4>1. PICK w \in Elements(Found) : mDirectorieMap[w] = p
        BY DEF paths
      <4>2. w \in Slots
        BY <1>2 DEF Elements
      <4>3. w = p
        BY <2>1, <4>1, <4>2 DEF IInv, SetupInv
      <4> QED
        BY <2>4, <4>1, <4>3
    <3>2. p \notin excused
      BY <1>4, <3>1
    <3>3. Owed(p) /\ writing[p] # "open"
      BY <1>0 DEF Owed
    <3>4. Pending(p) \/ UpToDate(p)
      BY <2>1, <3>2, <3>3 DEF IInv, FreshInv
    <3>5. p # Overflow
      BY <2>1
    <3>6. ASSUME Pending(p) PROVE p \in Elements(kernel')
      <4>1. p \in Elements(kernel)
        BY <1>0, <3>6 DEF Pending, Elements
      <4> QED
        BY <1>0, <1>1, <1>2, <2>4, <3>5, <4>1
    <3>7. UpToDate(p) => UpToDate(p)'
      BY <1>0 DEF UpToDate
    <3> QED
      BY <3>4, <3>6, <3>7 DEF Pending
  <2> QED
    BY <2>3, <2>4
<1> QED
  BY <1>7, <1>8, <1>9, <1>10, <1>11 DEF IInv

LEMMA TakeInv == IInv /\ Take => IInv'
<1> SUFFICES ASSUME IInv, Take PROVE IInv'
  OBVIOUS
<1> USE DEF Take, files, tally
<1>1. /\ Head(mEventQueue) \in Slots /\ Tail(mEventQueue) \in Seq(Slots)
      /\ Elements(mEventQueue) = {Head(mEventQueue)} \cup Elements(Tail(mEventQueue))
  BY HeadElements DEF IInv, TypeOK
<1>2. TypeOK'
  BY <1>1 DEF IInv, TypeOK
<1>3. QueueInv'
  BY DEF IInv, QueueInv
<1>4. EventInv'
  BY <1>1 DEF IInv, EventInv, Arrived
<1>5. SetupInv'
  BY DEF IInv, SetupInv, Done, Running, Misplaced
<1>6. FreshInv'
  <2> SUFFICES ASSUME NEW p \in Watched', p \notin excused', Owed(p)', writing'[p] # "open"
               PROVE  (Pending(p) \/ UpToDate(p))'
    BY DEF FreshInv
  <2>1. p \in Watched \ excused /\ Owed(p) /\ writing[p] # "open"
    BY DEF Watched, Owed
  <2>2. Pending(p) \/ UpToDate(p)
    BY <2>1 DEF IInv, FreshInv
  <2>3. Pending(p) => Pending(p)'
    BY <1>1 DEF Pending
  <2>4. UpToDate(p) => UpToDate(p)'
    BY DEF UpToDate
  <2> QED
    BY <2>2, <2>3, <2>4
<1> QED
  BY <1>2, <1>3, <1>4, <1>5, <1>6 DEF IInv

LEMMA ReadTextInv == IInv /\ ReadText => IInv'
<1> SUFFICES ASSUME IInv, ReadText PROVE IInv'
  OBVIOUS
<1> USE DEF ReadText, files, tally, reading
<1>1. mDirectorieMap[wd] \in Slots /\ wd \in Slots
  BY DEF IInv, EventInv, TypeOK
<1>2. TypeOK'
  BY <1>1 DEF IInv, TypeOK, Contents
<1>3. QueueInv' /\ EventInv'
  BY DEF IInv, QueueInv, EventInv, Arrived
<1>4. SetupInv'
  BY DEF IInv, SetupInv, Done, Running, Misplaced
<1>5. FreshInv'
  <2> SUFFICES ASSUME NEW p \in Watched', p \notin excused', Owed(p)', writing'[p] # "open"
               PROVE  (Pending(p) \/ UpToDate(p))'
    BY DEF FreshInv
  <2>1. p \in Watched \ excused /\ writing[p] # "open" /\ mDirectorieMap[p] = p
    BY DEF Watched
  <2>2. CASE wd = p
    BY <2>1, <2>2 DEF UpToDate
  <2>3. CASE wd # p
    <3>1. Owed(p)
      BY <2>3 DEF Owed
    <3>2. Pending(p) \/ UpToDate(p)
      BY <2>1, <3>1 DEF IInv, FreshInv
    <3> QED
      BY <2>3, <3>2 DEF Pending, UpToDate
  <2> QED
    BY <2>2, <2>3
<1> QED
  BY <1>2, <1>3, <1>4, <1>5 DEF IInv

LEMMA ShowInv == IInv /\ Show => IInv'
<1> SUFFICES ASSUME IInv, Show PROVE IInv'
  OBVIOUS
<1> USE DEF Show, files, reading
<1>1. TypeOK'
  BY DEF IInv, TypeOK
<1>2. QueueInv' /\ EventInv'
  BY DEF IInv, QueueInv, EventInv, Arrived
<1>3. SetupInv'
  BY DEF IInv, SetupInv, Done, Running, Misplaced
<1>4. FreshInv'
  <2> SUFFICES ASSUME NEW p \in Watched', p \notin excused', Owed(p)', writing'[p] # "open"
               PROVE  (Pending(p) \/ UpToDate(p))'
    BY DEF FreshInv
  <2>1. p \in Slots /\ p \in Watched \ excused /\ writing[p] # "open" /\ Owed(p)
    BY DEF Watched, Owed
  <2>2. Pending(p) \/ UpToDate(p)
    BY <2>1 DEF IInv, FreshInv
  <2>3. shown'[p] = IF wd = p THEN text ELSE shown[p]
    BY <2>1 DEF IInv, TypeOK
  <2> QED
    BY <2>2, <2>3 DEF Pending, UpToDate
<1> QED
  BY <1>1, <1>2, <1>3, <1>4 DEF IInv

-----------------------------------------------------------------------------
(* The clock and restarts.                                                 *)

LEMMA ClockInv == IInv /\ Clock => IInv'
<1> SUFFICES ASSUME IInv, Clock PROVE IInv'
  OBVIOUS
<1> USE DEF Clock, files, reading, thread, tally
<1>1. TypeOK'
  BY DEF IInv, TypeOK
<1>2. QueueInv' /\ EventInv'
  BY DEF IInv, QueueInv, EventInv, Arrived
<1>3. SetupInv'
  BY DEF IInv, SetupInv, Done, Running, Misplaced
<1>4. FreshInv'
  BY DEF IInv, FreshInv, Watched, Owed, Pending, UpToDate
<1> QED
  BY <1>1, <1>2, <1>3, <1>4 DEF IInv

LEMMA RestartInv == IInv /\ Restart => IInv'
<1> SUFFICES ASSUME IInv, Restart PROVE IInv'
  OBVIOUS
<1> USE DEF Restart
<1>1. 1 \in Slots /\ <<>> \in Seq(Events) /\ <<>> \in Seq(Slots) /\ Len(<<>>) = 0
  BY DEF Slots
<1>2. TypeOK'
  <2>1. 1 \in 1..(Messages + 1) /\ 0 \in 0..MaxClock /\ 0 <= QueueMax + 1
    OBVIOUS
  <2> QED
    BY <1>1, <2>1 DEF IInv, TypeOK, Edit, Contents
<1>3. QueueInv' /\ EventInv'
  BY <1>1 DEF QueueInv, EventInv, Arrived, Elements
<1>4. SetupInv'
  BY DEF SetupInv, Done, Running
<1>5. FreshInv'
  BY FreshAtStart
<1> QED
  BY <1>2, <1>3, <1>4, <1>5 DEF IInv

LEMMA StutterInv == IInv /\ UNCHANGED vars => IInv'
<1> SUFFICES ASSUME IInv, UNCHANGED vars PROVE IInv'
  OBVIOUS
<1> USE DEF vars, files, reading, thread, tally
<1>1. TypeOK'
  BY DEF IInv, TypeOK
<1>2. QueueInv' /\ EventInv'
  BY DEF IInv, QueueInv, EventInv, Arrived
<1>3. SetupInv'
  BY DEF IInv, SetupInv, Done, Running, Misplaced
<1>4. FreshInv'
  BY DEF IInv, FreshInv, Watched, Owed, Pending, UpToDate
<1> QED
  BY <1>1, <1>2, <1>3, <1>4 DEF IInv

LEMMA NextInv == IInv /\ [Next]_vars => IInv'
<1> SUFFICES ASSUME IInv, [Next]_vars PROVE IInv'
  OBVIOUS
<1>1. ASSUME NEW p \in Slots,
             OpenFile(p) \/ WriteFile(p) \/ CloseFile(p) \/ Replace(p) \/ CliMessage(p)
      PROVE  IInv'
  BY <1>1, OpenFileInv, WriteFileInv, CloseFileInv, ReplaceInv, CliMessageInv
<1>2. CASE Setup
  BY <1>2, RemoveInv, CleanedInv, CreateInv, WatchFileInv, StartThreadInv DEF Setup
<1>3. CASE MonitorFiles
  BY <1>3, ReadInv, TakeInv, ReadTextInv, ShowInv DEF MonitorFiles
<1>4. CASE Clock
  BY <1>4, ClockInv
<1>5. CASE Restart
  BY <1>5, RestartInv
<1>6. CASE UNCHANGED vars
  BY <1>6, StutterInv
<1> QED
  BY <1>1, <1>2, <1>3, <1>4, <1>5, <1>6 DEF Next

-----------------------------------------------------------------------------

(* The inductive invariant holds in every reachable state.                 *)
THEOREM Invariance == Spec => []IInv
  BY InitInv, NextInv, PTL DEF Spec

(* Every variable keeps its type, and the queue its limit.                 *)
THEOREM TypeCorrect == Spec => []TypeOK
<1>1. IInv => TypeOK
  BY DEF IInv
<1> QED
  BY <1>1, Invariance, PTL

(* Between the program that closes a file and the sign no write is lost    *)
(* that inotify reported and getNextEvent did not filter out.              *)
THEOREM NoWriteIsLost == Spec => []NothingLost
<1>1. IInv => NothingLost
  <2> SUFFICES ASSUME IInv, Running, NEW p \in Watched \ (excused \cup other), writing[p] # "open"
               PROVE  Pending(p) \/ UpToDate(p)
    BY DEF NothingLost
  <2>1. Owed(p)
    BY DEF Owed
  <2> QED
    BY <2>1 DEF IInv, FreshInv
<1> QED
  BY <1>1, Invariance, PTL

(* A text goes to the slot of its file exactly for the files before the    *)
(* first one that was missing.                                             *)
THEOREM SlotsAreRight == Spec => []RightSlot
<1>1. IInv => RightSlot
  <2> SUFFICES ASSUME IInv, Running, NEW p \in Slots \ missing
               PROVE  IF Misplaced(p) THEN mDirectorieMap[p] # p ELSE mDirectorieMap[p] = p
    BY DEF RightSlot
  <2>1. Done = Slots
    BY DEF IInv, SetupInv, Running, Done, Slots
  <2>2. CASE ~Misplaced(p)
    BY <2>1, <2>2 DEF IInv, SetupInv
  <2>3. CASE Misplaced(p)
    <3> SUFFICES ASSUME mDirectorieMap[p] = p PROVE FALSE
      BY <2>3
    <3>1. mDirectorieMap[p] # None /\ p \in Nat
      BY DEF Slots
    <3>2. p > p
      BY <2>3, <3>1 DEF IInv, SetupInv
    <3> QED
      BY <3>1, <3>2
  <2> QED
    BY <2>2, <2>3
<1> QED
  BY <1>1, Invariance, PTL
-----------------------------------------------------------------------------
(* A replaced file.                                                        *)

(* The file of watch w was removed or replaced, and every event of it has  *)
(* been handled.                                                           *)
Deaf(w) ==
  /\ Running
  /\ mDirectorieMap[w] # None /\ attach[mDirectorieMap[w]] = "dead"
  /\ w \notin Arrived
  /\ ~(pc \in {"event", "have"} /\ wd = w)

(* From then on no text of that path reaches the sign any more, whatever   *)
(* is written there: until the process ends only a terminal changes the    *)
(* slot of the watch (mv, rm, or an editor that saves by renaming; inotify *)
(* watches the file, and the daemon never watches the path again).         *)
DeafForGood ==
  [][\A w \in Slots : Deaf(w) =>
       \/ ~Running'
       \/ Deaf(w)' /\ (shown'[w] = shown[w] \/ w \in other')]_vars

(* What a step must not do to a watch that is deaf.                        *)
LEMMA DeafFrame ==
  ASSUME NEW w \in Slots, Deaf(w), Running', mDirectorieMap' = mDirectorieMap,
         attach'[mDirectorieMap[w]] = attach[mDirectorieMap[w]],
         Arrived' \subseteq Arrived \cup (Events \ {w}),
         pc' \notin {"event", "have"} \/ wd' # w \/ (pc' = "have" /\ pc = "event" /\ wd' = wd)
  PROVE  Deaf(w)'
BY DEF Deaf

(* A file that is closed or replaced queues an event of its own watch only. *)
LEMMA DeafChanged ==
  ASSUME IInv, NEW w \in Slots, Deaf(w), NEW q \in Slots, CloseFile(q) \/ Replace(q)
  PROVE  Deaf(w)' /\ shown' = shown
<1> DEFINE p == mDirectorieMap[w]
<1>1. p \in Slots /\ attach[p] = "dead"
  BY DEF Deaf, IInv, TypeOK
<1>2. attach'[p] = attach[p] /\ shown' = shown
  BY <1>1 DEF CloseFile, Replace, Unlink, IInv, TypeOK
<1>3. \/ UNCHANGED kernel
      \/ \E v \in {WatchOf(q), None} : Event(v, q) /\ (q = p => v = None)
  BY <1>1 DEF CloseFile, Replace, Unlink
<1>4. Elements(kernel') \subseteq Elements(kernel) \cup (Events \ {w})
  <2>1. CASE UNCHANGED kernel
    BY <2>1
  <2>2. CASE \E v \in {WatchOf(q), None} : Event(v, q) /\ (q = p => v = None)
    <3>1. PICK v \in {WatchOf(q), None} : Event(v, q) /\ (q = p => v = None)
      BY <2>2
    <3>2. v \in Slots \cup {None} /\ (v # None => mDirectorieMap[v] = q)
      BY WatchOfWatched DEF IInv
    <3>3. v # w
      BY <3>1, <3>2
    <3>4. Elements(kernel') \subseteq Elements(kernel) \cup {Overflow} \cup ({v} \ {None})
      BY <3>1, <3>2, EventQueued DEF IInv
    <3> QED
      BY <3>2, <3>3, <3>4 DEF Events
  <2> QED
    BY <1>3, <2>1, <2>2
<1>5. UNCHANGED <<mDirectorieMap, carried, mEventQueue, pc, wd>>
  BY DEF CloseFile, Replace, reading, thread
<1>6. Arrived' \subseteq Arrived \cup (Events \ {w})
  BY <1>4, <1>5 DEF Arrived
<1>7. Running' /\ (pc' \notin {"event", "have"} \/ wd' # w)
  BY <1>5 DEF Deaf, Running
<1> QED
  BY <1>2, <1>5, <1>6, <1>7, DeafFrame

(* getNextEvent brings no event that was not on its way.                   *)
LEMMA DeafRead ==
  ASSUME IInv, NEW w \in Slots, Deaf(w), Read PROVE Deaf(w)' /\ shown' = shown
<1>1. /\ kernel # <<>> /\ kernel' = Rest /\ mEventQueue = <<>> /\ pc = "wait"
      /\ UNCHANGED <<mDirectorieMap, attach, pc, wd, shown>>
  BY DEF Read, files, thread
<1>2. Elements(Rest) \subseteq Elements(kernel)
  BY <1>1, ReadElements DEF IInv, TypeOK
<1>3. Found \in Seq(Slots) /\ Elements(Found) \subseteq Arrived
  BY <1>1, FoundElements
<1>4. Elements(EverySecond(Found)) \subseteq Elements(Found) /\ Elements(<<>>) = {}
  BY <1>3, SecondElements DEF Elements
<1>5. \/ carried' = EverySecond(Found) /\ mEventQueue' = <<>>
      \/ carried' = <<>> /\ mEventQueue' = Found
  BY <1>1 DEF Read
<1>6. Arrived' \subseteq Arrived
  BY <1>1, <1>2, <1>3, <1>4, <1>5 DEF Arrived
<1>7. Running' /\ pc' \notin {"event", "have"}
  BY <1>1 DEF Running
<1> QED
  BY <1>1, <1>6, <1>7, DeafFrame

LEMMA DeafTake ==
  ASSUME IInv, NEW w \in Slots, Deaf(w), Take PROVE Deaf(w)' /\ shown' = shown
<1>1. /\ mEventQueue # <<>> /\ wd' = Head(mEventQueue) /\ mEventQueue' = Tail(mEventQueue)
      /\ pc' = "event" /\ UNCHANGED <<mDirectorieMap, attach, kernel, carried, shown>>
  BY DEF Take, files
<1>2. Elements(mEventQueue) = {Head(mEventQueue)} \cup Elements(Tail(mEventQueue))
  BY <1>1, HeadElements DEF IInv, TypeOK
<1>3. Arrived' \subseteq Arrived /\ wd' \in Arrived
  BY <1>1, <1>2 DEF Arrived
<1>4. wd' # w
  BY <1>3 DEF Deaf
<1>5. Running'
  BY <1>1 DEF Running
<1> QED
  BY <1>1, <1>3, <1>4, <1>5, DeafFrame

(* DeafForGood for every number of files, every queue and buffer.          *)
THEOREM ReplacedFilesAreLost == Spec => DeafForGood
<1> DEFINE Still == \A w \in Slots : Deaf(w) =>
                      \/ ~Running'
                      \/ Deaf(w)' /\ (shown'[w] = shown[w] \/ w \in other')
<1>1. IInv /\ [Next]_vars => [Still]_vars
  <2> SUFFICES ASSUME IInv, Next, NEW w \in Slots, Deaf(w), Running'
               PROVE  Deaf(w)' /\ (shown'[w] = shown[w] \/ w \in other')
    OBVIOUS
  <2> USE DEF files, reading, thread, tally
  <2>1. ASSUME NEW q \in Slots, OpenFile(q) \/ WriteFile(q) \/ CliMessage(q)
        PROVE  Deaf(w)' /\ (shown'[w] = shown[w] \/ w \in other')
    <3>1. UNCHANGED <<attach, mDirectorieMap, kernel, carried, mEventQueue, pc, wd>>
      BY <2>1 DEF OpenFile, WriteFile, CliMessage
    <3>2. Deaf(w)'
      BY <3>1 DEF Deaf, Arrived, Running
    <3>3. shown'[w] = shown[w] \/ w \in other'
      BY <2>1 DEF OpenFile, WriteFile, CliMessage, IInv, TypeOK
    <3> QED
      BY <3>2, <3>3
  <2>2. ASSUME NEW q \in Slots, CloseFile(q) \/ Replace(q)
        PROVE  Deaf(w)' /\ shown' = shown
    BY <2>2, DeafChanged
  <2>3. ~Setup
    BY DEF Deaf, Running, Setup, Remove, Cleaned, Create, WatchFile, StartThread
  <2>4. CASE Read \/ Take
    BY <2>4, DeafRead, DeafTake
  <2>5. CASE ReadText
    BY <2>5 DEF ReadText, Deaf, Arrived, Running
  <2>6. CASE Show
    <3>1. wd # w /\ Deaf(w)'
      BY <2>6 DEF Show, Deaf, Arrived, Running
    <3> QED
      BY <2>6, <3>1 DEF Show, IInv, TypeOK
  <2>7. CASE Clock
    BY <2>7 DEF Clock, Deaf, Arrived, Running
  <2>8. ~Restart
    BY DEF Restart, Running
  <2> QED
    BY <2>1, <2>2, <2>3, <2>4, <2>5, <2>6, <2>7, <2>8 DEF Next, MonitorFiles
<1> QED
  BY <1>1, Invariance, PTL DEF Spec, DeafForGood
-----------------------------------------------------------------------------
(* The events in their turn.                                               *)

(* What MonitorFiles has still to do with the event it has in hand.        *)
Stage == CASE pc = "event" -> 2 [] pc = "have" -> 1 [] OTHER -> 0

(* The steps of EventsHandled: an event in the queue is never skipped,     *)
(* overtaken or dropped.  Whatever a step does, the event stays where it   *)
(* is, comes nearer to its turn, or is the one in hand, unless the process *)
(* ends; the k-th one is in hand after at most 3k of the thread's steps    *)
(* and the two of the event before it.                                     *)
EventsAdvance ==
  [][Running /\ Running' => \A k \in DOMAIN mEventQueue :
       \/ pc' = "event" /\ wd' = mEventQueue[k]
       \/ \E j \in DOMAIN mEventQueue' :
            /\ mEventQueue'[j] = mEventQueue[k]
            /\ \/ j = k /\ UNCHANGED <<pc, wd>>
               \/ 3 * j + Stage' < 3 * k + Stage]_vars

(* EventsAdvance for every number of files, every queue and buffer.        *)
THEOREM EventsComeInTurn == Spec => EventsAdvance
<1> DEFINE Nears == Running /\ Running' => \A k \in DOMAIN mEventQueue :
                      \/ pc' = "event" /\ wd' = mEventQueue[k]
                      \/ \E j \in DOMAIN mEventQueue' :
                           /\ mEventQueue'[j] = mEventQueue[k]
                           /\ \/ j = k /\ UNCHANGED <<pc, wd>>
                              \/ 3 * j + Stage' < 3 * k + Stage
<1>1. IInv /\ [Next]_vars => [Nears]_vars
  <2> SUFFICES ASSUME IInv, Next, Running, Running', NEW k \in DOMAIN mEventQueue
               PROVE  \/ pc' = "event" /\ wd' = mEventQueue[k]
                      \/ \E j \in DOMAIN mEventQueue' :
                           /\ mEventQueue'[j] = mEventQueue[k]
                           /\ \/ j = k /\ UNCHANGED <<pc, wd>>
                              \/ 3 * j + Stage' < 3 * k + Stage
    OBVIOUS
  <2> DEFINE q == mEventQueue
  <2>1. q \in Seq(Slots) /\ k \in 1..Len(q) /\ Len(q) \in Nat /\ q # <<>>
    BY DEF IInv, TypeOK
  <2>2. CASE UNCHANGED <<mEventQueue, pc, wd>>
    BY <2>2
  <2>3. CASE Take
    <3>1. /\ q' = Tail(q) /\ wd' = Head(q) /\ pc = "wait" /\ pc' = "event"
          /\ Stage = 0 /\ Stage' = 2
      BY <2>3 DEF Take, Stage
    <3>2. CASE k = 1
      BY <2>1, <3>1, <3>2
    <3>3. CASE k # 1
      <4>1. k - 1 \in DOMAIN Tail(q) /\ Tail(q)[k - 1] = q[k]
        BY <2>1, <3>3
      <4>2. 3 * (k - 1) + 2 < 3 * k + 0
        BY <2>1
      <4> QED
        BY <3>1, <4>1, <4>2
    <3> QED
      BY <3>2, <3>3
  <2>4. CASE ReadText \/ Show
    <3>1. UNCHANGED mEventQueue
      BY <2>4 DEF ReadText, Show, reading
    <3>2. Stage' < Stage /\ Stage \in Nat /\ Stage' \in Nat
      BY <2>4 DEF ReadText, Show, Stage
    <3>3. 3 * k + Stage' < 3 * k + Stage
      BY <2>1, <3>2
    <3> QED
      BY <3>1, <3>3
  <2>5. ~Setup /\ ~Restart /\ ~Read
    BY <2>1 DEF Running, Setup, Remove, Cleaned, Create, WatchFile, StartThread, Restart, Read
  <2>6. ASSUME NEW p \in Slots, OpenFile(p) \/ WriteFile(p) \/ CloseFile(p) \/ Replace(p) \/ CliMessage(p)
        PROVE  UNCHANGED <<mEventQueue, pc, wd>>
    BY <2>6 DEF OpenFile, WriteFile, CloseFile, Replace, CliMessage, reading, thread
  <2>7. CASE Clock
    BY <2>7, <2>2 DEF Clock, reading, thread
  <2> QED
    BY <2>2, <2>3, <2>4, <2>5, <2>6, <2>7 DEF Next, MonitorFiles
<1> QED
  BY <1>1, Invariance, PTL DEF Spec, EventsAdvance
=============================================================================
