--------------------------- MODULE LogFileProofs ---------------------------
(***************************************************************************)
(* Threads that log in turn keep the log file within its limit, and no     *)
(* rotation loses a line before a whole file of later ones was kept, for   *)
(* every number of threads, every limit and whatever mSize was by chance.  *)
(***************************************************************************)
EXTENDS LogFile, TLAPS, FiniteSetTheorems

(* Without an overlap one thread at most is in output.                     *)
AloneInv ==
  "overlap" \notin trouble =>
    \A t, u \in Threads : pc[t] \in InOutput /\ pc[u] \in InOutput => t = u

(* Until the output is configured only Main does anything, and it has no   *)
(* FILE yet to close.                                                      *)
PhaseInv ==
  IF configured
    THEN \A t \in Threads : pc[t] \notin {"off", "start"}
    ELSE /\ \A t \in Threads \ {Main} : pc[t] = "off"
         /\ pc[Main] \in {"off", "start", "close", "remove", "rename", "open"}
         /\ pc[Main] # "start" => mpFile = 0

(* Between a rotation and the next one the FILE is that of the log.        *)
FileInv ==
  (configured \/ pc[Main] = "start") =>
    \/ \E t \in Threads : pc[t] \in {"closed", "remove", "rename", "open"}
    \/ mpFile \in live /\ name["current"] # 0 /\ handles[mpFile] = name["current"]

(* mSize is never less than what is in the file, but for the line that is  *)
(* being counted and the file that is being moved away.                    *)
Size == Len(LinesOf("current"))

StartInv ==
  sized /\ ~configured /\ pc[Main] # "off" =>
    /\ Size <= mSize
    /\ pc[Main] \in {"open", "start"} => Size <= mMaxSize

MovedInv ==
  configured => \A t \in Threads :
    /\ pc[t] \in {"remove", "rename", "open"} => mSize = 0 /\ mpFile = 0
    /\ pc[t] = "open" => name["current"] = 0

CountInv ==
  sized /\ configured =>
    /\ (\A t \in Threads : pc[t] \notin {"load", "count", "remove", "rename"}) => Size <= mSize
    /\ \A t \in Threads :
         /\ pc[t] \in {"print", "write"} => mSize <= mMaxSize
         /\ pc[t] \in {"load", "count"} => Size <= mSize + 1
         /\ pc[t] = "count" => seen[t] = mSize
    /\ Size <= mMaxSize + 1

IInv ==
  /\ TypeOK /\ AloneInv /\ PhaseInv
  /\ "overlap" \notin trouble => FileInv /\ StartInv /\ MovedInv /\ CountInv

Pcs == InOutput \cup {"off", "start", "idle"}

-----------------------------------------------------------------------------
LEMMA InitInv == Init => IInv
<1> SUFFICES ASSUME Init PROVE IInv
  OBVIOUS
<1> USE LogFileAssumption DEF Init
<1>1. TypeOK
  <2>1. content \in Seq(Seq(1..lines)) /\ handles \in Seq(1..Len(content))
    OBVIOUS
  <2>2. name \in [Both -> Files] /\ mpFile \in 0..Len(handles) /\ live \subseteq 1..Len(handles)
    BY DEF Files
  <2>3. pc \in [Threads -> {"off"}] /\ pc[Main] = "off" /\ seen \in [Threads -> Int]
    OBVIOUS
  <2>4. name["current"] = 0 /\ configured = FALSE /\ sized = FALSE /\ trouble = {}
    BY DEF Both
  <2>5. mSize \in Int /\ lines \in 0..MaxLines /\ starts \in 0..MaxStarts /\ first \in 0..lines
    OBVIOUS
  <2> HIDE DEF Init
  <2> QED
    BY <2>1, <2>2, <2>3, <2>4, <2>5 DEF TypeOK, InOutput, Rotating
<1>2. AloneInv /\ PhaseInv
  BY DEF AloneInv, PhaseInv, InOutput, Rotating
<1>3. FileInv /\ StartInv /\ MovedInv /\ CountInv
  BY DEF FileInv, StartInv, MovedInv, CountInv
<1> QED
  BY <1>1, <1>2, <1>3 DEF IInv

(* One thread moves.  If threads still log in turn, it was the only one in *)
(* output, and so is it now.                                               *)
LEMMA Moves ==
  ASSUME IInv, NEW t \in Threads, NEW from, NEW to \in Pcs, Goto(t, from, to)
  PROVE  /\ pc[t] = from /\ pc' \in [Threads -> Pcs] /\ pc'[t] = to
         /\ \A u \in Threads \ {t} : pc'[u] = pc[u]
         /\ trouble' \subseteq {"overlap", "rotation"}
         /\ AloneInv'
         /\ "overlap" \notin trouble' =>
              /\ "overlap" \notin trouble
              /\ from \in InOutput \/ to \in InOutput =>
                   \A u \in Threads \ {t} : pc'[u] \notin InOutput
<1>1. /\ pc[t] = from /\ pc' \in [Threads -> Pcs] /\ pc'[t] = to
      /\ \A u \in Threads \ {t} : pc'[u] = pc[u]
  BY DEF Goto, IInv, TypeOK, Pcs
<1>2. trouble' \subseteq {"overlap", "rotation"}
  BY DEF Goto, Watch, IInv, TypeOK
<1>3. AloneInv'
  BY DEF Goto, Watch, AloneInv
<1>4. ASSUME "overlap" \notin trouble', NEW u \in Threads \ {t}, from \in InOutput \/ to \in InOutput
      PROVE  "overlap" \notin trouble /\ pc'[u] \notin InOutput
  <2>1. "overlap" \notin trouble
    BY <1>4 DEF Goto, Watch
  <2>2. CASE from \in InOutput
    <3>1. pc[u] \notin InOutput
      BY <1>1, <2>1, <2>2 DEF IInv, AloneInv
    <3> QED
      BY <1>1, <2>1, <3>1
  <2>3. CASE to \in InOutput
    BY <1>1, <1>3, <1>4, <2>1, <2>3 DEF AloneInv
  <2> QED
    BY <1>4, <2>1, <2>2, <2>3
<1>5. "overlap" \notin trouble' => "overlap" \notin trouble
  BY DEF Goto, Watch
<1> QED
  BY <1>1, <1>2, <1>3, <1>4, <1>5

LEMMA SizeIsNat == IInv => Size \in Nat
  BY DEF IInv, TypeOK, Size, LinesOf, Files, Both

(* Nobody but Main is anywhere before the output is configured.            *)
LEMMA Configured ==
  ASSUME IInv, NEW t \in Threads, pc[t] \in {"idle", "print", "write", "load", "count", "closed"}
  PROVE  configured
  BY DEF IInv, PhaseInv

(* Whoever rotates before that is Main.                                    *)
LEMMA OnlyMain ==
  ASSUME IInv, NEW t \in Threads, pc[t] # "off", ~configured
  PROVE  t = Main
  BY DEF IInv, PhaseInv

-----------------------------------------------------------------------------
(* Starts and ends.                                                        *)

LEMMA StartsInv == IInv /\ Start => IInv'
<1> SUFFICES ASSUME IInv, Start PROVE IInv'
  OBVIOUS
<1> USE LogFileAssumption
<1>1. ~configured /\ mpFile = 0 /\ \A t \in Threads : pc[t] = "off"
  BY DEF Start, IInv, PhaseInv
<1>2. Size \in Nat
  BY SizeIsNat
<1>3. PICK size \in (IF name["current"] = 0 THEN Garbage ELSE {Size}) :
        /\ mSize' = size
        /\ pc' = [pc EXCEPT ![Main] = IF size > mMaxStartupSize THEN "close" ELSE "open"]
  BY DEF Start, Size
<1>4. size \in Int
  BY <1>2, <1>3
<1>5. /\ \A t \in Threads \ {Main} : pc'[t] = "off"
      /\ pc'[Main] = IF size > mMaxStartupSize THEN "close" ELSE "open"
      /\ pc' \in [Threads -> Pcs]
  BY <1>1, <1>3 DEF IInv, TypeOK, Pcs, InOutput, Rotating
<1>6. Size' = Size
  BY DEF Start, disk, Size, LinesOf
<1>7. TypeOK'
  BY <1>1, <1>3, <1>4, <1>5 DEF Start, disk, IInv, TypeOK, Pcs, InOutput, Rotating, Files, Both
<1>8. AloneInv' /\ PhaseInv'
  BY <1>1, <1>5 DEF Start, AloneInv, PhaseInv, InOutput, Rotating
<1>9. FileInv' /\ MovedInv' /\ CountInv'
  BY <1>1, <1>5 DEF Start, FileInv, MovedInv, CountInv
<1>10. StartInv'
  <2> SUFFICES ASSUME sized'
               PROVE  Size' <= mSize' /\ (pc'[Main] \in {"open", "start"} => Size' <= mMaxSize)
    BY DEF StartInv
  <2>1. size = Size
    BY <1>3 DEF Start
  <2> QED
    BY <1>2, <1>3, <1>5, <1>6, <2>1
<1> QED
  BY <1>7, <1>8, <1>9, <1>10 DEF IInv

LEMMA SpawnInv == IInv /\ Spawn => IInv'
<1> SUFFICES ASSUME IInv, Spawn PROVE IInv'
  OBVIOUS
<1> USE LogFileAssumption
<1>1. ~configured
  BY DEF Spawn, IInv, PhaseInv
<1>2. TypeOK'
  BY DEF Spawn, output, disk, IInv, TypeOK, InOutput, Rotating, Files, Both
<1>3. AloneInv' /\ PhaseInv' /\ MovedInv'
  BY DEF Spawn, AloneInv, PhaseInv, MovedInv, InOutput, Rotating
<1>4. ASSUME "overlap" \notin trouble
      PROVE  FileInv' /\ StartInv' /\ CountInv'
  <2>1. \A t \in Threads : pc[t] \notin {"closed", "remove", "rename", "open"}
    BY <1>1 DEF Spawn, IInv, PhaseInv
  <2>2. FileInv'
    BY <1>4, <2>1 DEF Spawn, output, disk, IInv, FileInv
  <2>3. StartInv'
    BY DEF Spawn, StartInv
  <2>4. Size' = Size
    BY DEF Spawn, disk, Size, LinesOf
  <2>5. sized => Size <= mSize /\ Size <= mMaxSize
    BY <1>1, <1>4 DEF Spawn, IInv, StartInv
  <2>6. Size \in Nat
    BY <1>4, <2>1 DEF Spawn, IInv, FileInv, TypeOK, Size, LinesOf, Files, Both
  <2>7. CountInv'
    BY <2>4, <2>5, <2>6 DEF Spawn, output, CountInv
  <2> QED
    BY <2>2, <2>3, <2>7
<1> QED
  BY <1>2, <1>3, <1>4 DEF Spawn, IInv

LEMMA EndInv == IInv /\ End => IInv'
<1> SUFFICES ASSUME IInv, End PROVE IInv'
  OBVIOUS
<1> USE LogFileAssumption
<1>1. TypeOK'
  <2>1. mpFile' \in 0..Len(handles') /\ live' \subseteq 1..Len(handles') /\ mSize' \in Int
    BY DEF End, IInv, TypeOK
  <2>2. pc' \in [Threads -> {"off"}] /\ seen' \in [Threads -> Int]
    BY DEF End
  <2> QED
    BY <2>1, <2>2 DEF End, disk, IInv, TypeOK, InOutput, Rotating, Files
<1>2. AloneInv' /\ PhaseInv'
  BY DEF End, AloneInv, PhaseInv, InOutput, Rotating
<1>3. FileInv' /\ StartInv' /\ MovedInv' /\ CountInv'
  BY DEF End, FileInv, StartInv, MovedInv, CountInv
<1> QED
  BY <1>1, <1>2, <1>3 DEF IInv

-----------------------------------------------------------------------------
(* output().                                                               *)

LEMMA LogInv == ASSUME IInv, NEW t \in Threads, Log(t) PROVE IInv'
<1> DEFINE to == IF mSize > mMaxSize THEN "close" ELSE "print"
<1> USE LogFileAssumption
<1>1. Goto(t, "idle", to) /\ to \in Pcs
  BY DEF Log, Pcs, InOutput, Rotating
<1> HIDE DEF to
<1>2. /\ pc[t] = "idle" /\ pc' \in [Threads -> Pcs] /\ pc'[t] = to
      /\ \A u \in Threads \ {t} : pc'[u] = pc[u]
      /\ trouble' \subseteq {"overlap", "rotation"} /\ AloneInv'
      /\ "overlap" \notin trouble' =>
           "overlap" \notin trouble /\ \A u \in Threads \ {t} : pc'[u] \notin InOutput
  BY <1>1, Moves DEF InOutput, Rotating, to
<1>3. configured
  BY <1>2, Configured
<1>4. UNCHANGED <<seen, mpFile, mSize, handles, live, name, content, lines, starts, configured, first, sized>>
  BY DEF Log, output, disk
<1>5. Size' = Size
  BY <1>4 DEF Size, LinesOf
<1>6. TypeOK'
  BY <1>2, <1>3, <1>4 DEF IInv, TypeOK, Pcs, Files, Both
<1>7. PhaseInv'
  BY <1>2, <1>3, <1>4 DEF IInv, PhaseInv, to
<1>8. ASSUME "overlap" \notin trouble'
      PROVE  FileInv' /\ StartInv' /\ MovedInv' /\ CountInv'
  <2>1. \A u \in Threads : pc[u] \notin InOutput
    BY <1>2, <1>8 DEF InOutput, Rotating
  <2>2. FileInv /\ CountInv
    BY <1>2, <1>8 DEF IInv
  <2>3. FileInv'
    BY <1>3, <1>4, <2>1, <2>2 DEF FileInv, InOutput, Rotating
  <2>4. StartInv'
    BY <1>3, <1>4 DEF StartInv
  <2>5. \A u \in Threads : pc'[u] \notin {"load", "count", "remove", "rename", "open", "write"}
    BY <1>2, <2>1 DEF InOutput, Rotating, to
  <2>6. MovedInv'
    BY <2>5 DEF MovedInv
  <2>7. sized => Size <= mSize /\ Size <= mMaxSize + 1
    BY <1>3, <2>1, <2>2 DEF CountInv, InOutput, Rotating
  <2>8. \A u \in Threads : pc'[u] = "print" => mSize <= mMaxSize
    BY <1>2, <2>1 DEF InOutput, to, IInv, TypeOK
  <2>9. CountInv'
    BY <1>4, <1>5, <2>5, <2>7, <2>8 DEF CountInv
  <2> QED
    BY <2>3, <2>4, <2>6, <2>9
<1> QED
  BY <1>2, <1>6, <1>7, <1>8 DEF IInv

LEMMA ReachInv == ASSUME IInv, NEW t \in Threads, Reach(t) PROVE IInv'
<1> DEFINE to == IF mpFile = 0 THEN "idle" ELSE "write"
<1> USE LogFileAssumption
<1>1. Goto(t, "print", to) /\ to \in Pcs
  BY DEF Reach, Pcs, InOutput, Rotating
<1> HIDE DEF to
<1>2. /\ pc[t] = "print" /\ pc' \in [Threads -> Pcs] /\ pc'[t] = to
      /\ \A u \in Threads \ {t} : pc'[u] = pc[u]
      /\ trouble' \subseteq {"overlap", "rotation"} /\ AloneInv'
      /\ "overlap" \notin trouble' =>
           "overlap" \notin trouble /\ \A u \in Threads \ {t} : pc'[u] \notin InOutput
  BY <1>1, Moves DEF InOutput, Rotating
<1>3. configured
  BY <1>2, Configured
<1>4. UNCHANGED <<seen, mpFile, mSize, handles, live, name, content, lines, starts, configured, first, sized>>
  BY DEF Reach, output, disk
<1>5. Size' = Size
  BY <1>4 DEF Size, LinesOf
<1>6. TypeOK'
  BY <1>2, <1>3, <1>4 DEF IInv, TypeOK, Pcs, Files, Both
<1>7. PhaseInv'
  BY <1>2, <1>3, <1>4 DEF IInv, PhaseInv, to
<1>8. ASSUME "overlap" \notin trouble'
      PROVE  FileInv' /\ StartInv' /\ MovedInv' /\ CountInv'
  <2>1. \A u \in Threads \ {t} : pc[u] \notin InOutput /\ pc'[u] \notin InOutput
    BY <1>2, <1>8
  <2>2. FileInv /\ CountInv
    BY <1>2, <1>8 DEF IInv
  <2>3. FileInv'
    BY <1>2, <1>3, <1>4, <2>1, <2>2 DEF FileInv, InOutput, Rotating
  <2>4. StartInv'
    BY <1>3, <1>4 DEF StartInv
  <2>5. \A u \in Threads : pc'[u] \notin {"load", "count", "remove", "rename", "open", "print"}
    BY <1>2, <2>1 DEF InOutput, Rotating, to
  <2>6. MovedInv'
    BY <2>5 DEF MovedInv
  <2>7. sized => Size <= mSize /\ mSize <= mMaxSize /\ Size <= mMaxSize + 1
    BY <1>2, <1>3, <2>1, <2>2 DEF CountInv, InOutput, Rotating
  <2>8. CountInv'
    BY <1>4, <1>5, <2>5, <2>7 DEF CountInv
  <2> QED
    BY <2>3, <2>4, <2>6, <2>8
<1> QED
  BY <1>2, <1>6, <1>7, <1>8 DEF IInv

(* A line more, in the log if threads log in turn.                         *)
LEMMA WriteInv == ASSUME IInv, NEW t \in Threads, Write(t) PROVE IInv'
<1> USE LogFileAssumption
<1>1. Goto(t, "write", "load") /\ "load" \in Pcs
  BY DEF Write, Pcs, InOutput, Rotating
<1>2. /\ pc[t] = "write" /\ pc' \in [Threads -> Pcs] /\ pc'[t] = "load"
      /\ \A u \in Threads \ {t} : pc'[u] = pc[u]
      /\ trouble' \subseteq {"overlap", "rotation"} /\ AloneInv'
      /\ "overlap" \notin trouble' =>
           "overlap" \notin trouble /\ \A u \in Threads \ {t} : pc'[u] \notin InOutput
  BY <1>1, Moves DEF InOutput, Rotating
<1>3. configured
  BY <1>2, Configured
<1>4. /\ UNCHANGED <<seen, mpFile, mSize, handles, live, name, starts, configured, first, sized>>
      /\ lines' = lines + 1 /\ lines < MaxLines
  BY DEF Write, output
<1>5. /\ content' \in Seq(Seq(1..lines')) /\ Len(content') = Len(content)
      /\ mpFile \in live => content' = [content EXCEPT ![handles[mpFile]] = Append(@, lines + 1)]
  <2>1. content \in Seq(Seq(1..lines')) /\ lines + 1 \in 1..lines'
    <3>1. lines \in Nat /\ lines' = lines + 1 /\ content \in Seq(Seq(1..lines))
      BY <1>4 DEF IInv, TypeOK
    <3>2. Seq(1..lines) \subseteq Seq(1..lines')
      BY <3>1
    <3> QED
      BY <3>1, <3>2
  <2>2. ASSUME NEW f \in 1..Len(content)
        PROVE  /\ [content EXCEPT ![f] = Append(@, lines + 1)] \in Seq(Seq(1..lines'))
               /\ Len([content EXCEPT ![f] = Append(@, lines + 1)]) = Len(content)
    BY <2>1
  <2>3. \A h \in live : handles[h] \in 1..Len(content)
    BY DEF IInv, TypeOK
  <2>4. CASE mpFile \in live
    <3>1. content' = [content EXCEPT ![handles[mpFile]] = Append(@, lines + 1)]
      BY <2>4 DEF Write, AppendLine
    <3> QED
      BY <2>2, <2>3, <2>4, <3>1
  <2>5. CASE mpFile \notin live
    <3>1. CASE UNCHANGED content
      BY <2>1, <2>5, <3>1
    <3>2. CASE \E h \in live : AppendLine(handles[h], lines + 1)
      <4>1. PICK h \in live : content' = [content EXCEPT ![handles[h]] = Append(@, lines + 1)]
        BY <3>2 DEF AppendLine
      <4> QED
        BY <2>2, <2>3, <2>5, <4>1
    <3> QED
      BY <2>5, <3>1, <3>2 DEF Write
  <2> QED
    BY <2>4, <2>5
<1>6. TypeOK'
  <2>1. lines' \in 0..MaxLines /\ first' \in 0..lines'
    BY <1>4 DEF IInv, TypeOK
  <2> QED
    BY <1>2, <1>3, <1>4, <1>5, <2>1 DEF IInv, TypeOK, Pcs, Files, Both
<1>7. PhaseInv'
  BY <1>2, <1>3, <1>4 DEF IInv, PhaseInv
<1>8. ASSUME "overlap" \notin trouble'
      PROVE  FileInv' /\ StartInv' /\ MovedInv' /\ CountInv'
  <2>1. \A u \in Threads \ {t} : pc[u] \notin InOutput /\ pc'[u] \notin InOutput
    BY <1>2, <1>8
  <2>2. FileInv /\ CountInv
    BY <1>2, <1>8 DEF IInv
  <2>3. mpFile \in live /\ name["current"] # 0 /\ handles[mpFile] = name["current"]
    BY <1>2, <1>3, <2>1, <2>2 DEF FileInv, InOutput, Rotating
  <2>4. FileInv' /\ StartInv'
    BY <1>3, <1>4, <2>3 DEF FileInv, StartInv
  <2>5. \A u \in Threads : pc'[u] \notin {"count", "remove", "rename", "open", "print", "write"}
    BY <1>2, <2>1 DEF InOutput, Rotating
  <2>6. MovedInv'
    BY <2>5 DEF MovedInv
  <2>7. sized => Size <= mSize /\ mSize <= mMaxSize
    BY <1>2, <1>3, <2>1, <2>2 DEF CountInv, InOutput, Rotating
  <2>8. Size' = Size + 1 /\ Size \in Nat
    <3>1. name["current"] \in 1..Len(content) /\ content[name["current"]] \in Seq(1..lines)
      BY <2>3 DEF IInv, TypeOK, Files, Both
    <3>2. content'[name["current"]] = Append(content[name["current"]], lines + 1)
      <4>1. DOMAIN content = 1..Len(content)
        BY DEF IInv, TypeOK
      <4> QED
        BY <1>5, <2>3, <3>1, <4>1
    <3> QED
      BY <1>4, <2>3, <3>1, <3>2 DEF Size, LinesOf
  <2>9. CountInv'
    BY <1>2, <1>4, <2>5, <2>7, <2>8 DEF CountInv, IInv, TypeOK
  <2> QED
    BY <2>4, <2>6, <2>9
<1> QED
  BY <1>2, <1>6, <1>7, <1>8 DEF IInv

LEMMA LoadInv == ASSUME IInv, NEW t \in Threads, Load(t) PROVE IInv'
<1> USE LogFileAssumption
<1>1. Goto(t, "load", "count") /\ "count" \in Pcs
  BY DEF Load, Pcs, InOutput, Rotating
<1>2. /\ pc[t] = "load" /\ pc' \in [Threads -> Pcs] /\ pc'[t] = "count"
      /\ \A u \in Threads \ {t} : pc'[u] = pc[u]
      /\ trouble' \subseteq {"overlap", "rotation"} /\ AloneInv'
      /\ "overlap" \notin trouble' =>
           "overlap" \notin trouble /\ \A u \in Threads \ {t} : pc'[u] \notin InOutput
  BY <1>1, Moves DEF InOutput, Rotating
<1>3. configured
  BY <1>2, Configured
<1>4. /\ UNCHANGED <<mpFile, mSize, handles, live, name, content, lines, starts, configured, first, sized>>
      /\ seen' \in [Threads -> Int] /\ seen'[t] = mSize
  BY DEF Load, output, disk, IInv, TypeOK
<1>5. Size' = Size
  BY <1>4 DEF Size, LinesOf
<1>6. TypeOK'
  BY <1>2, <1>3, <1>4 DEF IInv, TypeOK, Pcs, Files, Both
<1>7. PhaseInv'
  BY <1>2, <1>3, <1>4 DEF IInv, PhaseInv
<1>8. ASSUME "overlap" \notin trouble'
      PROVE  FileInv' /\ StartInv' /\ MovedInv' /\ CountInv'
  <2>1. \A u \in Threads \ {t} : pc[u] \notin InOutput /\ pc'[u] \notin InOutput
    BY <1>2, <1>8
  <2>2. FileInv /\ CountInv
    BY <1>2, <1>8 DEF IInv
  <2>3. FileInv' /\ StartInv'
    BY <1>2, <1>3, <1>4, <2>1, <2>2 DEF FileInv, StartInv, InOutput, Rotating
  <2>4. \A u \in Threads : pc'[u] \notin {"remove", "rename", "open", "print", "write"}
    BY <1>2, <2>1 DEF InOutput, Rotating
  <2>5. MovedInv'
    BY <2>4 DEF MovedInv
  <2>6. \A u \in Threads : pc'[u] = "count" => u = t
    BY <2>1 DEF InOutput
  <2>7. CountInv'
    BY <1>2, <1>3, <1>4, <1>5, <2>2, <2>4, <2>6 DEF CountInv
  <2> QED
    BY <2>3, <2>5, <2>7
<1> QED
  BY <1>2, <1>6, <1>7, <1>8 DEF IInv

LEMMA CountsInv == ASSUME IInv, NEW t \in Threads, Count(t) PROVE IInv'
<1> USE LogFileAssumption
<1>1. Goto(t, "count", "idle") /\ "idle" \in Pcs
  BY DEF Count, Pcs, InOutput, Rotating
<1>2. /\ pc[t] = "count" /\ pc' \in [Threads -> Pcs] /\ pc'[t] = "idle"
      /\ \A u \in Threads \ {t} : pc'[u] = pc[u]
      /\ trouble' \subseteq {"overlap", "rotation"} /\ AloneInv'
      /\ "overlap" \notin trouble' =>
           "overlap" \notin trouble /\ \A u \in Threads \ {t} : pc'[u] \notin InOutput
  BY <1>1, Moves DEF InOutput, Rotating
<1>3. configured
  BY <1>2, Configured
<1>4. /\ UNCHANGED <<seen, mpFile, handles, live, name, content, lines, starts, configured, first, sized>>
      /\ mSize' = seen[t] + 1 /\ mSize' \in Int
  BY DEF Count, disk, IInv, TypeOK
<1>5. Size' = Size
  BY <1>4 DEF Size, LinesOf
<1>6. TypeOK'
  BY <1>2, <1>3, <1>4 DEF IInv, TypeOK, Pcs, Files, Both
<1>7. PhaseInv'
  BY <1>2, <1>3, <1>4 DEF IInv, PhaseInv
<1>8. ASSUME "overlap" \notin trouble'
      PROVE  FileInv' /\ StartInv' /\ MovedInv' /\ CountInv'
  <2>1. \A u \in Threads \ {t} : pc[u] \notin InOutput /\ pc'[u] \notin InOutput
    BY <1>2, <1>8
  <2>2. FileInv /\ CountInv
    BY <1>2, <1>8 DEF IInv
  <2>3. FileInv' /\ StartInv'
    BY <1>2, <1>3, <1>4, <2>1, <2>2 DEF FileInv, StartInv, InOutput, Rotating
  <2>4. \A u \in Threads : pc'[u] \notin InOutput
    BY <1>2, <2>1 DEF InOutput, Rotating
  <2>5. MovedInv'
    BY <2>4 DEF MovedInv, InOutput, Rotating
  <2>6. sized => Size <= mSize' /\ Size <= mMaxSize + 1
    BY <1>2, <1>3, <1>4, <2>2 DEF CountInv
  <2>7. CountInv'
    BY <1>4, <1>5, <2>4, <2>6 DEF CountInv, InOutput
  <2> QED
    BY <2>3, <2>5, <2>7
<1> QED
  BY <1>2, <1>6, <1>7, <1>8 DEF IInv
-----------------------------------------------------------------------------
(* rotate().                                                               *)

LEMMA CloseInv == ASSUME IInv, NEW t \in Threads, Close(t) PROVE IInv'
<1> DEFINE to == IF mpFile = 0 THEN "remove" ELSE "closed"
<1> USE LogFileAssumption
<1>1. Goto(t, "close", to) /\ to \in Pcs
  BY DEF Close, Pcs, InOutput, Rotating
<1> HIDE DEF to
<1>2. /\ pc[t] = "close" /\ pc' \in [Threads -> Pcs] /\ pc'[t] = to
      /\ \A u \in Threads \ {t} : pc'[u] = pc[u]
      /\ trouble' \subseteq {"overlap", "rotation"} /\ AloneInv'
      /\ "overlap" \notin trouble' =>
           "overlap" \notin trouble /\ \A u \in Threads \ {t} : pc'[u] \notin InOutput
  BY <1>1, Moves DEF InOutput, Rotating
<1>3. ~configured => t = Main /\ to = "remove"
  BY <1>2, OnlyMain DEF IInv, PhaseInv, to
<1>4. UNCHANGED <<seen, mpFile, mSize, handles, name, content, lines, starts, configured, first, sized>>
      /\ live' \subseteq live
  BY DEF Close, disk
<1>5. Size' = Size
  BY <1>4 DEF Size, LinesOf
<1>6. to \in {"remove", "closed"}
  BY DEF to
<1>7. TypeOK'
  BY <1>2, <1>3, <1>4, <1>6 DEF IInv, TypeOK, Pcs, InOutput, Rotating, Files, Both
<1>8. PhaseInv'
  BY <1>2, <1>3, <1>4, <1>6 DEF IInv, PhaseInv
<1>9. ASSUME "overlap" \notin trouble'
      PROVE  FileInv' /\ StartInv' /\ MovedInv' /\ CountInv'
  <2>1. \A u \in Threads \ {t} : pc[u] \notin InOutput /\ pc'[u] \notin InOutput
    BY <1>2, <1>9
  <2>2. FileInv /\ StartInv /\ CountInv
    BY <1>2, <1>9 DEF IInv
  <2>3. FileInv'
    BY <1>2, <1>6 DEF FileInv
  <2>4. StartInv'
    BY <1>2, <1>3, <1>4, <1>5, <2>2 DEF StartInv
  <2>5. configured => to = "closed"
    BY <1>2, <2>1, <2>2 DEF FileInv, InOutput, Rotating, to, IInv, TypeOK
  <2>6. MovedInv'
    BY <1>2, <1>4, <2>1, <2>5 DEF MovedInv, InOutput, Rotating
  <2>7. CountInv'
    BY <1>2, <1>4, <1>5, <2>1, <2>2, <2>5 DEF CountInv, InOutput, Rotating
  <2> QED
    BY <2>3, <2>4, <2>6, <2>7
<1> QED
  BY <1>2, <1>7, <1>8, <1>9 DEF IInv

LEMMA ClosedInv == ASSUME IInv, NEW t \in Threads, Closed(t) PROVE IInv'
<1> USE LogFileAssumption
<1>1. Goto(t, "closed", "remove") /\ "remove" \in Pcs
  BY DEF Closed, Pcs, InOutput, Rotating
<1>2. /\ pc[t] = "closed" /\ pc' \in [Threads -> Pcs] /\ pc'[t] = "remove"
      /\ \A u \in Threads \ {t} : pc'[u] = pc[u]
      /\ trouble' \subseteq {"overlap", "rotation"} /\ AloneInv'
      /\ "overlap" \notin trouble' =>
           "overlap" \notin trouble /\ \A u \in Threads \ {t} : pc'[u] \notin InOutput
  BY <1>1, Moves DEF InOutput, Rotating
<1>3. configured
  BY <1>2, Configured
<1>4. /\ UNCHANGED <<seen, handles, live, name, content, lines, starts, configured, first, sized>>
      /\ mpFile' = 0 /\ mSize' = 0
  BY DEF Closed, disk
<1>5. Size' = Size
  BY <1>4 DEF Size, LinesOf
<1>6. TypeOK'
  BY <1>2, <1>3, <1>4 DEF IInv, TypeOK, Pcs, Files, Both
<1>7. PhaseInv'
  BY <1>2, <1>3, <1>4 DEF IInv, PhaseInv
<1>8. ASSUME "overlap" \notin trouble'
      PROVE  FileInv' /\ StartInv' /\ MovedInv' /\ CountInv'
  <2>1. \A u \in Threads \ {t} : pc'[u] \notin InOutput
    BY <1>2, <1>8
  <2>2. CountInv
    BY <1>2, <1>8 DEF IInv
  <2>3. FileInv' /\ StartInv'
    BY <1>2, <1>3, <1>4 DEF FileInv, StartInv
  <2>4. MovedInv'
    BY <1>2, <1>4, <2>1 DEF MovedInv, InOutput, Rotating
  <2>5. CountInv'
    BY <1>2, <1>3, <1>4, <1>5, <2>1, <2>2 DEF CountInv, InOutput, Rotating
  <2> QED
    BY <2>3, <2>4, <2>5
<1> QED
  BY <1>2, <1>6, <1>7, <1>8 DEF IInv

LEMMA RemoveInv == ASSUME IInv, NEW t \in Threads, Remove(t) PROVE IInv'
<1> USE LogFileAssumption
<1>1. Goto(t, "remove", "rename") /\ "rename" \in Pcs
  BY DEF Remove, Pcs, InOutput, Rotating
<1>2. /\ pc[t] = "remove" /\ pc' \in [Threads -> Pcs] /\ pc'[t] = "rename"
      /\ \A u \in Threads \ {t} : pc'[u] = pc[u]
      /\ trouble' \subseteq {"overlap", "rotation"} /\ AloneInv'
      /\ "overlap" \notin trouble' =>
           "overlap" \notin trouble /\ \A u \in Threads \ {t} : pc'[u] \notin InOutput
  BY <1>1, Moves DEF InOutput, Rotating
<1>3. ~configured => t = Main
  BY <1>2, OnlyMain
<1>4. /\ UNCHANGED <<seen, mpFile, mSize, handles, live, content, lines, starts, configured, first, sized>>
      /\ name' \in [Both -> Files] /\ name'["old"] = 0 /\ name'["current"] = name["current"]
  BY DEF Remove, output, IInv, TypeOK, Files, Both
<1>5. Size' = Size
  BY <1>4 DEF Size, LinesOf
<1>6. TypeOK'
  BY <1>2, <1>3, <1>4 DEF IInv, TypeOK, Pcs, InOutput, Rotating, Files
<1>7. PhaseInv'
  BY <1>2, <1>3, <1>4 DEF IInv, PhaseInv
<1>8. ASSUME "overlap" \notin trouble'
      PROVE  FileInv' /\ StartInv' /\ MovedInv' /\ CountInv'
  <2>1. \A u \in Threads \ {t} : pc'[u] \notin InOutput
    BY <1>2, <1>8
  <2>2. StartInv /\ MovedInv /\ CountInv
    BY <1>2, <1>8 DEF IInv
  <2>3. FileInv'
    BY <1>2 DEF FileInv
  <2>4. StartInv'
    BY <1>2, <1>3, <1>4, <1>5, <2>2 DEF StartInv
  <2>5. MovedInv'
    BY <1>2, <1>4, <2>1, <2>2 DEF MovedInv, InOutput, Rotating
  <2>6. CountInv'
    BY <1>2, <1>4, <1>5, <2>1, <2>2 DEF CountInv, InOutput, Rotating
  <2> QED
    BY <2>3, <2>4, <2>5, <2>6
<1> QED
  BY <1>2, <1>6, <1>7, <1>8 DEF IInv

LEMMA RenameInv == ASSUME IInv, NEW t \in Threads, Rename(t) PROVE IInv'
<1> USE LogFileAssumption
<1>1. Goto(t, "rename", "open") /\ "open" \in Pcs
  BY DEF Rename, Pcs, InOutput, Rotating
<1>2. /\ pc[t] = "rename" /\ pc' \in [Threads -> Pcs] /\ pc'[t] = "open"
      /\ \A u \in Threads \ {t} : pc'[u] = pc[u]
      /\ trouble' \subseteq {"overlap", "rotation"} /\ AloneInv'
      /\ "overlap" \notin trouble' =>
           "overlap" \notin trouble /\ \A u \in Threads \ {t} : pc'[u] \notin InOutput
  BY <1>1, Moves DEF InOutput, Rotating
<1>3. ~configured => t = Main
  BY <1>2, OnlyMain
<1>4. /\ UNCHANGED <<seen, mpFile, mSize, handles, live, content, lines, starts, configured, first, sized>>
      /\ name' \in [Both -> Files] /\ name'["current"] = 0
  BY DEF Rename, output, IInv, TypeOK, Files, Both
<1>5. Size' = 0 /\ Size \in Nat
  BY <1>4, SizeIsNat DEF Size, LinesOf
<1>6. TypeOK'
  BY <1>2, <1>3, <1>4 DEF IInv, TypeOK, Pcs, InOutput, Rotating, Files
<1>7. PhaseInv'
  BY <1>2, <1>3, <1>4 DEF IInv, PhaseInv
<1>8. ASSUME "overlap" \notin trouble'
      PROVE  FileInv' /\ StartInv' /\ MovedInv' /\ CountInv'
  <2>1. \A u \in Threads \ {t} : pc'[u] \notin InOutput
    BY <1>2, <1>8
  <2>2. StartInv /\ MovedInv /\ CountInv
    BY <1>2, <1>8 DEF IInv
  <2>3. FileInv'
    BY <1>2 DEF FileInv
  <2>4. StartInv'
    BY <1>2, <1>3, <1>4, <1>5, <2>2 DEF StartInv, IInv, TypeOK
  <2>5. MovedInv'
    BY <1>2, <1>4, <2>1, <2>2 DEF MovedInv, InOutput, Rotating
  <2>6. CountInv'
    BY <1>2, <1>4, <1>5, <2>1, <2>2 DEF CountInv, MovedInv, InOutput, Rotating
  <2> QED
    BY <2>3, <2>4, <2>5, <2>6
<1> QED
  BY <1>2, <1>6, <1>7, <1>8 DEF IInv

LEMMA OpenInv == ASSUME IInv, NEW t \in Threads, Open(t) PROVE IInv'
<1> DEFINE to == IF configured THEN "print" ELSE "start"
<1> USE LogFileAssumption
<1>1. Goto(t, "open", to) /\ to \in Pcs
  BY DEF Open, Pcs, InOutput, Rotating
<1> HIDE DEF to
<1>2. /\ pc[t] = "open" /\ pc' \in [Threads -> Pcs] /\ pc'[t] = to
      /\ \A u \in Threads \ {t} : pc'[u] = pc[u]
      /\ trouble' \subseteq {"overlap", "rotation"} /\ AloneInv'
      /\ "overlap" \notin trouble' =>
           "overlap" \notin trouble /\ \A u \in Threads \ {t} : pc'[u] \notin InOutput
  BY <1>1, Moves DEF InOutput, Rotating
<1>3. ~configured => t = Main
  BY <1>2, OnlyMain
<1>4. UNCHANGED <<seen, mSize, lines, starts, configured, first>> /\ sized' = (sized \/ configured)
  BY DEF Open
<1>5. /\ content' \in Seq(Seq(1..lines')) /\ Len(content') >= Len(content)
      /\ name' \in [Both -> Files'] /\ name'["current"] # 0 /\ name'["current"] # name'["old"]
      /\ Size' = Size
  <2>1. CASE name["current"] = 0
    <3>1. content' = Append(content, <<>>) /\ name' = [name EXCEPT !["current"] = Len(content) + 1]
      BY <2>1 DEF Open
    <3>2. /\ content' \in Seq(Seq(1..lines)) /\ Len(content') = Len(content) + 1
          /\ content'[Len(content) + 1] = <<>>
      BY <3>1 DEF IInv, TypeOK
    <3>3. /\ name' \in [Both -> Files'] /\ name'["current"] = Len(content) + 1
          /\ name'["old"] \in 0..Len(content)
      BY <3>1, <3>2 DEF IInv, TypeOK, Files, Both
    <3> QED
      BY <1>4, <2>1, <3>2, <3>3 DEF Size, LinesOf, IInv, TypeOK
  <2>2. CASE name["current"] # 0
    BY <1>4, <2>2 DEF Open, disk, IInv, TypeOK, Files, Size, LinesOf
  <2> QED
    BY <2>1, <2>2
<1>6. /\ handles' \in Seq(1..Len(content')) /\ mpFile' = Len(handles) + 1
      /\ Len(handles') = Len(handles) + 1
      /\ handles'[mpFile'] = name'["current"] /\ live' = live \cup {mpFile'}
  <2>1. name'["current"] \in 1..Len(content') /\ handles \in Seq(1..Len(content'))
    <3>1. handles \in Seq(1..Len(content)) /\ 1..Len(content) \subseteq 1..Len(content')
      BY <1>5 DEF IInv, TypeOK
    <3> QED
      BY <1>5, <3>1 DEF Files, Both
  <2> QED
    BY <2>1 DEF Open
<1>7. TypeOK'
  <2>1. live' \subseteq 1..Len(handles') /\ mpFile' \in 0..Len(handles')
    <3>1. Len(handles) \in Nat /\ live \subseteq 1..Len(handles)
      BY DEF IInv, TypeOK
    <3>2. Len(handles') \in Nat /\ mpFile' \in 1..Len(handles')
      BY <1>6, <3>1
    <3>3. ASSUME NEW h \in live' PROVE h \in 1..Len(handles')
      <4>1. h \in live \/ h = mpFile'
        BY <1>6, <3>3, Zenon
      <4>2. h \in live => h \in 1..Len(handles) /\ Len(handles') = Len(handles) + 1
        BY <1>6, <3>1
      <4> QED
        BY <3>1, <3>2, <4>1, <4>2
    <3> QED
      BY <3>2, <3>3
  <2> QED
    BY <1>2, <1>3, <1>4, <1>5, <1>6, <2>1 DEF IInv, TypeOK, Pcs, InOutput, Rotating, to
<1>8. PhaseInv'
  BY <1>2, <1>3, <1>4 DEF IInv, PhaseInv, to
<1>9. ASSUME "overlap" \notin trouble'
      PROVE  FileInv' /\ StartInv' /\ MovedInv' /\ CountInv'
  <2>1. \A u \in Threads \ {t} : pc'[u] \notin InOutput
    BY <1>2, <1>9
  <2>2. StartInv /\ MovedInv
    BY <1>2, <1>9 DEF IInv
  <2>3. FileInv'
    BY <1>5, <1>6 DEF FileInv
  <2>4. StartInv'
    BY <1>2, <1>3, <1>4, <1>5, <2>2 DEF StartInv
  <2>5. \A u \in Threads : pc'[u] \notin {"write", "load", "count", "remove", "rename", "open"}
    BY <1>2, <2>1 DEF InOutput, Rotating, to
  <2>6. MovedInv'
    BY <2>5 DEF MovedInv
  <2>7. configured => mSize = 0 /\ Size = 0
    BY <1>2, <2>2 DEF MovedInv, Size, LinesOf
  <2>8. CountInv'
    BY <1>4, <1>5, <2>5, <2>7 DEF CountInv
  <2> QED
    BY <2>3, <2>4, <2>6, <2>8
<1> QED
  BY <1>2, <1>7, <1>8, <1>9 DEF IInv

-----------------------------------------------------------------------------
LEMMA StepInv == IInv /\ [Next]_vars => IInv'
<1> SUFFICES ASSUME IInv, [Next]_vars PROVE IInv'
  OBVIOUS
<1>1. CASE Start
  BY <1>1, StartsInv
<1>2. CASE Spawn
  BY <1>2, SpawnInv
<1>3. CASE Killed
  BY <1>3, EndInv DEF Killed
<1>4. CASE \E t \in Threads : Log(t) \/ Reach(t) \/ Write(t) \/ Load(t) \/ Count(t)
  BY <1>4, LogInv, ReachInv, WriteInv, LoadInv, CountsInv
<1>5. CASE \E t \in Threads : Undefined(t) \/ OpenFails(t)
  BY <1>5, EndInv DEF Undefined, OpenFails
<1>6. CASE \E t \in Threads : Close(t) \/ Closed(t) \/ Remove(t) \/ Rename(t) \/ Open(t)
  BY <1>6, CloseInv, ClosedInv, RemoveInv, RenameInv, OpenInv
<1>7. CASE UNCHANGED vars
  BY <1>7 DEF vars, output, disk, IInv, TypeOK, AloneInv, PhaseInv, FileInv, StartInv,
              MovedInv, CountInv, Size, LinesOf, Files
<1> QED
  BY <1>1, <1>2, <1>3, <1>4, <1>5, <1>6, <1>7 DEF Next

(* The invariant holds of every run of the log.                            *)
THEOREM Invariance == Spec => []IInv
  BY InitInv, StepInv, PTL DEF Spec

(* Every variable has a value of its kind.                                 *)
THEOREM TypeCorrect == Spec => []TypeOK
<1>1. IInv => TypeOK
  BY DEF IInv
<1> QED
  BY <1>1, Invariance, PTL

(* Threads that log in turn keep the file within its limit and one line,   *)
(* from the first rotation or from a start that found a file, whatever     *)
(* mSize was before and however often the process is killed and started.   *)
THEOREM LogIsBounded == Spec => []Bounded
<1>1. IInv => Bounded
  BY LogFileAssumption DEF IInv, CountInv, Bounded, Size
<1> QED
  BY <1>1, Invariance, PTL

-----------------------------------------------------------------------------
(***************************************************************************)
(* What survives a rotation.                                               *)
(***************************************************************************)
(* The lines of the two files.                                             *)
Old     == LinesOf("old")
Current == LinesOf("current")

(* Threads that have written a line and not yet counted it.                *)
Counting == {t \in Threads : pc[t] \in {"load", "count"}}
Uncounted == Cardinality(Counting)

TurnInv ==
  \A t, u \in Threads : t # u /\ pc[u] \in Rotating => pc[t] \notin InOutput

OldIsGone == \A t \in Threads : pc[t] = "rename" => name["old"] = 0

Unwritten == lines = first

BootInv == ~configured /\ pc[Main] # "off" => Unwritten

(* The last k lines are those of this life, and enough of them.            *)
Latest(k) ==
  /\ k <= lines - first /\ EndsWith(k)
  /\ k < lines - first => k > mMaxSize

(* Once the old file has a line of this life, mSize is never more than what *)
(* is in the current one, with every line under way counted: whoever finds  *)
(* it too large may remove the old file.                                    *)
Earned(k) ==
  configured /\ k > Size =>
    /\ mSize + Uncounted <= Size
    /\ \A t \in Threads :
         /\ pc[t] = "count" => seen[t] + Uncounted <= Size
         /\ pc[t] \in {"close", "closed", "remove"} => Size > mMaxSize

Remains == \E k \in 0..Len(Logged) : Latest(k) /\ Earned(k)

KeepInv ==
  /\ BootInv
  /\ "rotation" \notin trouble =>
       /\ TurnInv /\ FileInv /\ MovedInv /\ OldIsGone /\ Remains

-----------------------------------------------------------------------------
(* The files.                                                              *)

LoggedFacts ==
  /\ lines \in Nat /\ first \in 0..lines
  /\ Old \in Seq(1..lines) /\ Current \in Seq(1..lines) /\ Logged \in Seq(1..lines)
  /\ Len(Logged) = Len(Old) + Len(Current) /\ Size = Len(Current)
  /\ Len(Old) \in Nat /\ Size \in Nat /\ Len(Logged) \in Nat
  /\ \A i \in 1..Len(Logged) :
       Logged[i] = IF i <= Len(Old) THEN Old[i] ELSE Current[i - Len(Old)]

(* The two files are sequences of lines, and Logged is both, in order.     *)
LEMMA LoggedIs == TypeOK => LoggedFacts
<1> SUFFICES ASSUME TypeOK PROVE LoggedFacts
  OBVIOUS
<1>1. lines \in Nat /\ first \in 0..lines
  BY LogFileAssumption DEF TypeOK
<1>2. ASSUME NEW w \in Both PROVE LinesOf(w) \in Seq(1..lines)
  <2>1. CASE name[w] = 0
    BY <2>1 DEF LinesOf
  <2>2. CASE name[w] # 0
    <3>1. name[w] \in 1..Len(content)
      BY <2>2 DEF TypeOK, Files
    <3> QED
      BY <2>2, <3>1 DEF TypeOK, LinesOf
  <2> QED
    BY <2>1, <2>2
<1>3. /\ Old \in Seq(1..lines) /\ Current \in Seq(1..lines)
      /\ Logged = Old \o Current /\ Size = Len(Current)
  BY <1>2 DEF Both, Old, Current, Logged, Size
<1> QED
  BY <1>1, <1>3 DEF LoggedFacts

(* The same of the successor state.                                        *)
LEMMA LoggedIsNext == TypeOK' => LoggedFacts'
BY LoggedIs, PTL

(* Before this life has written anything all there is is older.            *)
LEMMA NothingYet == TypeOK /\ Unwritten => Remains
<1> SUFFICES ASSUME TypeOK, Unwritten PROVE Remains
  OBVIOUS
<1>1. lines \in Nat /\ lines = first /\ Logged \in Seq(1..lines) /\ Size \in Nat /\ Len(Logged) \in Nat
  BY LoggedIs DEF LoggedFacts, Unwritten
<1>2. EndsWith(0)
  BY <1>1 DEF EndsWith
<1>3. Latest(0) /\ Earned(0)
  BY <1>1, <1>2 DEF Latest, Earned
<1> QED
  BY <1>1, <1>3 DEF Remains

(* The same of the successor state.                                        *)
LEMMA NothingYetNext == TypeOK' /\ Unwritten' => Remains'
BY NothingYet, PTL

(* Finitely many threads have a line to count.                             *)
LEMMA CountingIsFinite == IsFiniteSet(Counting) /\ Uncounted \in Nat
<1>1. IsFiniteSet(Counting)
  BY FS_Subset, LogFileAssumption DEF Counting
<1> QED
  BY <1>1, FS_CardinalityType DEF Uncounted

(* None has, if none is between its write and its count.                   *)
LEMMA NobodyCounts ==
  ASSUME \A t \in Threads : pc[t] \notin {"load", "count"} PROVE Uncounted = 0
<1>1. Counting = {}
  BY DEF Counting
<1> QED
  BY <1>1, FS_EmptySet DEF Uncounted

(* The same of the successor state.                                        *)
LEMMA NobodyCountsNext ==
  ASSUME \A t \in Threads : pc'[t] \notin {"load", "count"} PROVE Uncounted' = 0
<1>1. Counting' = {}
  BY DEF Counting
<1> QED
  BY <1>1, FS_EmptySet DEF Uncounted

(* A step that none of them takes part in leaves their number alone.       *)
LEMMA SameCounting ==
  ASSUME \A t \in Threads : pc'[t] \in {"load", "count"} <=> pc[t] \in {"load", "count"}
  PROVE  Uncounted' = Uncounted
<1>1. Counting' = Counting
  BY DEF Counting
<1> QED
  BY <1>1 DEF Uncounted

-----------------------------------------------------------------------------
(* Whoever rotates does so alone, as long as there is no trouble.          *)
LEMMA Turns ==
  ASSUME NEW t \in Threads, NEW from, NEW to, Goto(t, from, to), "rotation" \notin trouble'
  PROVE  "rotation" \notin trouble /\ TurnInv'
BY DEF Goto, Watch, TurnInv

(* The initial states satisfy it.                                          *)
LEMMA InitKeep == Init => KeepInv
<1> SUFFICES ASSUME Init PROVE KeepInv
  OBVIOUS
<1>1. TypeOK
  BY InitInv DEF IInv
<1>2. Remains
  BY <1>1, NothingYet DEF Init, Unwritten
<1> USE LogFileAssumption DEF Init
<1>3. BootInv /\ TurnInv /\ OldIsGone
  BY DEF BootInv, TurnInv, OldIsGone, Rotating
<1>4. FileInv /\ MovedInv
  BY DEF FileInv, MovedInv
<1> QED
  BY <1>2, <1>3, <1>4 DEF KeepInv

(* A step that touches no file keeps what is in them.                      *)
LEMMA SameFiles ==
  ASSUME UNCHANGED <<name, content, lines, first>>
  PROVE  /\ Size' = Size /\ Logged' = Logged
         /\ \A k : Latest(k)' <=> Latest(k)
BY DEF Size, Logged, LinesOf, Latest, EndsWith

(* Where the steps of output and rotate leave the other threads.           *)
LEMMA Alone ==
  ASSUME IInv, KeepInv, NEW t \in Threads, NEW from, NEW to \in Pcs, Goto(t, from, to)
  PROVE  /\ pc[t] = from /\ pc' \in [Threads -> Pcs] /\ pc'[t] = to
         /\ \A u \in Threads \ {t} : pc'[u] = pc[u]
         /\ "rotation" \notin trouble' =>
              /\ "rotation" \notin trouble /\ TurnInv /\ TurnInv'
              /\ from \in Rotating => \A u \in Threads \ {t} : pc[u] \notin InOutput
              /\ to \in Rotating => \A u \in Threads \ {t} : pc'[u] \notin InOutput
              /\ from \in InOutput \/ to \in InOutput =>
                   \A u \in Threads \ {t} : pc'[u] \notin Rotating
<1>1. /\ pc[t] = from /\ pc' \in [Threads -> Pcs] /\ pc'[t] = to
      /\ \A u \in Threads \ {t} : pc'[u] = pc[u]
  BY DEF Goto, IInv, TypeOK, Pcs
<1>2. "rotation" \notin trouble' => "rotation" \notin trouble /\ TurnInv /\ TurnInv'
  BY Turns DEF KeepInv
<1> QED
  BY <1>1, <1>2 DEF TurnInv

(* A thread rotates only when mSize, and so the file, has more lines than  *)
(* mMaxSize.                                                               *)
LEMMA KeepLog == ASSUME IInv, KeepInv, NEW t \in Threads, Log(t) PROVE KeepInv'
<1> DEFINE to == IF mSize > mMaxSize THEN "close" ELSE "print"
<1> USE LogFileAssumption
<1>1. Goto(t, "idle", to) /\ to \in {"close", "print"} /\ to \in Pcs
  BY DEF Log, Pcs, InOutput, Rotating
<1>2. to = "close" => mSize > mMaxSize
  OBVIOUS
<1> HIDE DEF to
<1>3. pc[t] = "idle" /\ pc' \in [Threads -> Pcs] /\ pc'[t] = to
      /\ \A u \in Threads \ {t} : pc'[u] = pc[u]
  BY <1>1, Alone
<1>4. configured
  BY <1>3, Configured
<1>5. UNCHANGED <<seen, mpFile, mSize, handles, live, name, content, lines, starts, configured, first, sized>>
  BY DEF Log, output, disk
<1>6. Size' = Size /\ Logged' = Logged /\ \A k : Latest(k)' <=> Latest(k)
  BY <1>5, SameFiles
<1>7. BootInv'
  BY <1>4, <1>5 DEF BootInv
<1>8. ASSUME "rotation" \notin trouble'
      PROVE  TurnInv' /\ FileInv' /\ MovedInv' /\ OldIsGone' /\ Remains'
  <2>1. /\ "rotation" \notin trouble /\ TurnInv'
        /\ \A u \in Threads : pc'[u] \in Rotating => u = t /\ to = "close"
    BY <1>1, <1>3, <1>8, Alone DEF InOutput, Rotating
  <2>2. FileInv /\ Remains
    BY <2>1 DEF KeepInv
  <2>3. mpFile \in live /\ name["current"] # 0 /\ handles[mpFile] = name["current"]
    BY <1>3, <1>4, <2>1, <2>2 DEF FileInv, Rotating
  <2>4. FileInv' /\ MovedInv' /\ OldIsGone'
    BY <1>3, <1>5, <2>1, <2>3 DEF FileInv, MovedInv, OldIsGone, Rotating
  <2>5. Uncounted' = Uncounted /\ Uncounted \in Nat
    BY <1>1, <1>3, SameCounting, CountingIsFinite
  <2>6. PICK k \in 0..Len(Logged) : Latest(k) /\ Earned(k)
    BY <2>2 DEF Remains
  <2>7. Earned(k)'
    <3> SUFFICES ASSUME k > Size
                 PROVE  /\ mSize + Uncounted <= Size
                        /\ \A u \in Threads :
                             /\ pc'[u] = "count" => seen[u] + Uncounted <= Size
                             /\ pc'[u] \in {"close", "closed", "remove"} => Size > mMaxSize
      BY <1>5, <1>6, <2>5 DEF Earned
    <3>1. mSize + Uncounted <= Size /\ \A u \in Threads : pc[u] = "count" => seen[u] + Uncounted <= Size
      BY <1>4, <2>6 DEF Earned
    <3>2. mSize \in Int /\ Size \in Nat
      BY LoggedIs DEF IInv, TypeOK, LoggedFacts
    <3>3. to = "close" => Size > mMaxSize
      BY <1>2, <2>5, <3>1, <3>2
    <3> QED
      BY <1>1, <1>3, <2>1, <3>1, <3>3 DEF Rotating
  <2> QED
    BY <1>6, <2>1, <2>4, <2>6, <2>7 DEF Remains
<1> QED
  BY <1>7, <1>8 DEF KeepInv

(* The way to the FILE changes nothing.                                    *)
LEMMA KeepReach == ASSUME IInv, KeepInv, NEW t \in Threads, Reach(t) PROVE KeepInv'
<1> DEFINE to == IF mpFile = 0 THEN "idle" ELSE "write"
<1> USE LogFileAssumption
<1>1. Goto(t, "print", to) /\ to \in {"idle", "write"} /\ to \in Pcs
  BY DEF Reach, Pcs, InOutput, Rotating
<1> HIDE DEF to
<1>3. pc[t] = "print" /\ pc' \in [Threads -> Pcs] /\ pc'[t] = to
      /\ \A u \in Threads \ {t} : pc'[u] = pc[u]
  BY <1>1, Alone
<1>4. configured
  BY <1>3, Configured
<1>5. UNCHANGED <<seen, mpFile, mSize, handles, live, name, content, lines, starts, configured, first, sized>>
  BY DEF Reach, output, disk
<1>6. Size' = Size /\ Logged' = Logged /\ \A k : Latest(k)' <=> Latest(k)
  BY <1>5, SameFiles
<1>7. BootInv'
  BY <1>4, <1>5 DEF BootInv
<1>8. ASSUME "rotation" \notin trouble'
      PROVE  TurnInv' /\ FileInv' /\ MovedInv' /\ OldIsGone' /\ Remains'
  <2>1. /\ "rotation" \notin trouble /\ TurnInv'
        /\ \A u \in Threads : pc'[u] \notin Rotating /\ pc[u] \notin Rotating
    BY <1>1, <1>3, <1>8, Alone DEF InOutput, Rotating
  <2>2. FileInv /\ Remains
    BY <2>1 DEF KeepInv
  <2>4. FileInv' /\ MovedInv' /\ OldIsGone'
    BY <1>4, <1>5, <2>1, <2>2 DEF FileInv, MovedInv, OldIsGone, Rotating
  <2>5. Uncounted' = Uncounted
    BY <1>1, <1>3, SameCounting
  <2>6. PICK k \in 0..Len(Logged) : Latest(k) /\ Earned(k)
    BY <2>2 DEF Remains
  <2>7. \A u \in Threads : pc'[u] = "count" => pc[u] = "count"
    BY <1>1, <1>3
  <2>8. Earned(k)'
    BY <1>5, <1>6, <2>1, <2>5, <2>6, <2>7 DEF Earned, Rotating
  <2> QED
    BY <1>6, <2>1, <2>4, <2>6, <2>8 DEF Remains
<1> QED
  BY <1>7, <1>8 DEF KeepInv

(* mSize is read, and is no more than it was when it was read.             *)
LEMMA KeepLoad == ASSUME IInv, KeepInv, NEW t \in Threads, Load(t) PROVE KeepInv'
<1> USE LogFileAssumption
<1>1. Goto(t, "load", "count") /\ "count" \in Pcs
  BY DEF Load, Pcs, InOutput, Rotating
<1>3. pc[t] = "load" /\ pc' \in [Threads -> Pcs] /\ pc'[t] = "count"
      /\ \A u \in Threads \ {t} : pc'[u] = pc[u]
  BY <1>1, Alone
<1>4. configured
  BY <1>3, Configured
<1>5. /\ UNCHANGED <<mpFile, mSize, handles, live, name, content, lines, starts, configured, first, sized>>
      /\ seen'[t] = mSize /\ \A u \in Threads \ {t} : seen'[u] = seen[u]
  BY DEF Load, output, disk, IInv, TypeOK
<1>6. Size' = Size /\ Logged' = Logged /\ \A k : Latest(k)' <=> Latest(k)
  BY <1>5, SameFiles
<1>7. BootInv'
  BY <1>4, <1>5 DEF BootInv
<1>8. ASSUME "rotation" \notin trouble'
      PROVE  TurnInv' /\ FileInv' /\ MovedInv' /\ OldIsGone' /\ Remains'
  <2>1. /\ "rotation" \notin trouble /\ TurnInv'
        /\ \A u \in Threads : pc'[u] \notin Rotating /\ pc[u] \notin Rotating
    BY <1>1, <1>3, <1>8, Alone DEF InOutput, Rotating
  <2>2. FileInv /\ Remains
    BY <2>1 DEF KeepInv
  <2>4. FileInv' /\ MovedInv' /\ OldIsGone'
    BY <1>4, <1>5, <2>1, <2>2 DEF FileInv, MovedInv, OldIsGone, Rotating
  <2>5. Uncounted' = Uncounted
    BY <1>1, <1>3, SameCounting
  <2>6. PICK k \in 0..Len(Logged) : Latest(k) /\ Earned(k)
    BY <2>2 DEF Remains
  <2>7. \A u \in Threads \ {t} : pc'[u] = "count" => pc[u] = "count"
    BY <1>1, <1>3
  <2>8. Earned(k)'
    BY <1>5, <1>6, <2>1, <2>5, <2>6, <2>7 DEF Earned, Rotating
  <2> QED
    BY <1>6, <2>1, <2>4, <2>6, <2>8 DEF Remains
<1> QED
  BY <1>7, <1>8 DEF KeepInv

(* A store of an old value loses a line of another thread, never gains one. *)
LEMMA KeepCount == ASSUME IInv, KeepInv, NEW t \in Threads, Count(t) PROVE KeepInv'
<1> USE LogFileAssumption
<1>1. Goto(t, "count", "idle") /\ "idle" \in Pcs
  BY DEF Count, Pcs, InOutput, Rotating
<1>3. pc[t] = "count" /\ pc' \in [Threads -> Pcs] /\ pc'[t] = "idle"
      /\ \A u \in Threads \ {t} : pc'[u] = pc[u]
  BY <1>1, Alone
<1>4. configured
  BY <1>3, Configured
<1>5. /\ UNCHANGED <<seen, mpFile, handles, live, name, content, lines, starts, configured, first, sized>>
      /\ mSize' = seen[t] + 1
  BY DEF Count, disk
<1>6. Size' = Size /\ Logged' = Logged /\ \A k : Latest(k)' <=> Latest(k)
  BY <1>5, SameFiles
<1>7. BootInv'
  BY <1>4, <1>5 DEF BootInv
<1>8. ASSUME "rotation" \notin trouble'
      PROVE  TurnInv' /\ FileInv' /\ MovedInv' /\ OldIsGone' /\ Remains'
  <2>1. /\ "rotation" \notin trouble /\ TurnInv'
        /\ \A u \in Threads : pc'[u] \notin Rotating /\ pc[u] \notin Rotating
    <3>1. "rotation" \notin trouble /\ TurnInv /\ TurnInv'
          /\ \A u \in Threads \ {t} : pc'[u] \notin Rotating
      BY <1>1, <1>8, Alone DEF InOutput, Rotating
    <3> QED
      BY <1>3, <3>1 DEF Rotating
  <2>2. FileInv /\ Remains
    BY <2>1 DEF KeepInv
  <2>4. FileInv' /\ MovedInv' /\ OldIsGone'
    BY <1>4, <1>5, <2>1, <2>2 DEF FileInv, MovedInv, OldIsGone, Rotating
  <2>5. Uncounted' = Uncounted - 1 /\ Uncounted \in Nat
    <3>1. Counting' = Counting \ {t} /\ t \in Counting
      BY <1>3 DEF Counting
    <3> QED
      BY <3>1, FS_RemoveElement, CountingIsFinite DEF Uncounted
  <2>6. PICK k \in 0..Len(Logged) : Latest(k) /\ Earned(k)
    BY <2>2 DEF Remains
  <2>7. \A u \in Threads : pc'[u] = "count" => pc[u] = "count"
    BY <1>1, <1>3
  <2>8. Earned(k)'
    <3> SUFFICES ASSUME k > Size
                 PROVE  /\ seen[t] + 1 + (Uncounted - 1) <= Size
                        /\ \A u \in Threads : pc'[u] = "count" => seen[u] + (Uncounted - 1) <= Size
      BY <1>5, <1>6, <2>1, <2>5 DEF Earned, Rotating
    <3>1. \A u \in Threads : pc[u] = "count" => seen[u] + Uncounted <= Size
      BY <1>4, <2>6 DEF Earned
    <3>2. \A u \in Threads : seen[u] \in Int
      BY DEF IInv, TypeOK
    <3>3. Size \in Nat
      BY LoggedIs DEF IInv, LoggedFacts
    <3> QED
      BY <1>3, <2>5, <2>7, <3>1, <3>2, <3>3
  <2> QED
    BY <1>6, <2>1, <2>4, <2>6, <2>8 DEF Remains
<1> QED
  BY <1>7, <1>8 DEF KeepInv

(* A new line is the latest one of this life, at the end of the current file. *)
LEMMA KeepWrite == ASSUME IInv, KeepInv, NEW t \in Threads, Write(t) PROVE KeepInv'
<1> USE LogFileAssumption
<1>1. Goto(t, "write", "load") /\ "load" \in Pcs
  BY DEF Write, Pcs, InOutput, Rotating
<1>3. pc[t] = "write" /\ pc' \in [Threads -> Pcs] /\ pc'[t] = "load"
      /\ \A u \in Threads \ {t} : pc'[u] = pc[u]
  BY <1>1, Alone
<1>4. configured
  BY <1>3, Configured
<1>5. /\ UNCHANGED <<seen, mpFile, mSize, handles, live, name, starts, configured, first, sized>>
      /\ lines' = lines + 1
  BY DEF Write, output
<1>7. BootInv'
  BY <1>4, <1>5 DEF BootInv
<1>8. ASSUME "rotation" \notin trouble'
      PROVE  TurnInv' /\ FileInv' /\ MovedInv' /\ OldIsGone' /\ Remains'
  <2>1. /\ "rotation" \notin trouble /\ TurnInv'
        /\ \A u \in Threads : pc'[u] \notin Rotating /\ pc[u] \notin Rotating
    BY <1>1, <1>3, <1>8, Alone DEF InOutput, Rotating
  <2>2. FileInv /\ Remains
    BY <2>1 DEF KeepInv
  <2>3. mpFile \in live /\ name["current"] # 0 /\ handles[mpFile] = name["current"]
    BY <1>4, <2>1, <2>2 DEF FileInv, Rotating
  <2>4. FileInv' /\ MovedInv' /\ OldIsGone'
    BY <1>5, <2>1, <2>3 DEF FileInv, MovedInv, OldIsGone, Rotating
  <2>5. Uncounted' = Uncounted + 1 /\ Uncounted \in Nat
    <3>1. Counting' = Counting \cup {t} /\ t \notin Counting
      BY <1>3 DEF Counting
    <3> QED
      BY <3>1, FS_AddElement, CountingIsFinite DEF Uncounted
  <2>6. PICK k \in 0..Len(Logged) : Latest(k) /\ Earned(k)
    BY <2>2 DEF Remains
  <2>7. LoggedFacts /\ LoggedFacts'
    BY LoggedIs, LoggedIsNext, WriteInv DEF IInv
  <2>8. Old' = Old /\ Current' = Append(Current, lines + 1)
    <3>1. /\ name["current"] \in 1..Len(content) /\ name["old"] \in 0..Len(content)
          /\ name["current"] # name["old"]
          /\ content \in Seq(Seq(1..lines))
      BY <2>3 DEF IInv, TypeOK, Files, Both
    <3>2. content' = [content EXCEPT ![name["current"]] = Append(@, lines + 1)]
      BY <2>3 DEF Write, AppendLine
    <3>3. /\ content'[name["current"]] = Append(content[name["current"]], lines + 1)
          /\ name["old"] # 0 => content'[name["old"]] = content[name["old"]]
      BY <3>1, <3>2
    <3> QED
      BY <1>5, <2>3, <3>3 DEF LinesOf, Old, Current
  <2>9. /\ Size' = Size + 1 /\ Size \in Nat
        /\ Len(Logged') = Len(Logged) + 1
        /\ Logged'[Len(Logged) + 1] = lines + 1
        /\ \A i \in 1..Len(Logged) : Logged'[i] = Logged[i]
    <3>1. /\ Size' = Len(Current') /\ Len(Logged') = Len(Old') + Len(Current')
          /\ \A i \in 1..Len(Logged') :
               Logged'[i] = IF i <= Len(Old') THEN Old'[i] ELSE Current'[i - Len(Old')]
      BY <2>7 DEF LoggedFacts
    <3>2. /\ Size = Len(Current) /\ Size \in Nat /\ Len(Old) \in Nat
          /\ Len(Logged) = Len(Old) + Len(Current) /\ Current \in Seq(1..lines)
          /\ \A i \in 1..Len(Logged) :
               Logged[i] = IF i <= Len(Old) THEN Old[i] ELSE Current[i - Len(Old)]
      BY <2>7 DEF LoggedFacts
    <3>3. /\ Len(Current') = Len(Current) + 1 /\ Current'[Len(Current) + 1] = lines + 1
          /\ \A i \in 1..Len(Current) : Current'[i] = Current[i]
      BY <2>8, <3>2
    <3>4. Size' = Size + 1 /\ Len(Logged') = Len(Logged) + 1
      BY <2>8, <3>1, <3>2, <3>3
    <3>5. Logged'[Len(Logged) + 1] = lines + 1
      BY <2>8, <3>1, <3>2, <3>3
    <3>6. ASSUME NEW i \in 1..Len(Logged) PROVE Logged'[i] = Logged[i]
      BY <2>8, <3>1, <3>2, <3>3
    <3> QED
      BY <3>2, <3>4, <3>5, <3>6
  <2>10. k + 1 \in 0..Len(Logged') /\ Latest(k + 1)'
    <3>1. DOMAIN Logged = 1..Len(Logged) /\ DOMAIN Logged' = 1..Len(Logged') /\ Len(Logged) \in Nat
          /\ lines \in Nat /\ first \in 0..lines
      BY <2>7 DEF LoggedFacts
    <3>2. EndsWith(k) /\ k <= lines - first
      BY <2>6 DEF Latest
    <3>3. EndsWith(k + 1)'
      <4> SUFFICES ASSUME NEW i \in 1..(Len(Logged) + 1)
                   PROVE  IF i <= Len(Logged) + 1 - (k + 1) THEN Logged'[i] <= first
                          ELSE Logged'[i] = lines + 1 - (Len(Logged) + 1) + i
        BY <1>5, <2>9, <3>1 DEF EndsWith
      <4>1. CASE i = Len(Logged) + 1
        BY <2>9, <3>1, <4>1
      <4>2. CASE i \in 1..Len(Logged)
        BY <2>9, <3>1, <3>2, <4>2 DEF EndsWith
      <4> QED
        BY <3>1, <4>1, <4>2
    <3> QED
      BY <1>5, <2>6, <2>9, <3>1, <3>3 DEF Latest
  <2>11. Earned(k + 1)'
    <3> SUFFICES ASSUME k + 1 > Size + 1
                 PROVE  /\ mSize + (Uncounted + 1) <= Size + 1
                        /\ \A u \in Threads : pc'[u] = "count" => seen[u] + (Uncounted + 1) <= Size + 1
      BY <1>5, <2>1, <2>5, <2>9 DEF Earned, Rotating
    <3>1. k > Size
      BY <2>9
    <3>2. /\ mSize + Uncounted <= Size
          /\ \A u \in Threads : pc[u] = "count" => seen[u] + Uncounted <= Size
      BY <1>4, <2>6, <3>1 DEF Earned
    <3>3. \A u \in Threads : pc'[u] = "count" => pc[u] = "count"
      BY <1>3
    <3>4. mSize \in Int /\ \A u \in Threads : seen[u] \in Int
      BY DEF IInv, TypeOK
    <3> QED
      BY <2>5, <2>9, <3>2, <3>3, <3>4
  <2> QED
    BY <2>1, <2>4, <2>10, <2>11 DEF Remains
<1> QED
  BY <1>7, <1>8 DEF KeepInv

(* The steps of a rotation that do not touch the files.                    *)
LEMMA KeepClose == ASSUME IInv, KeepInv, NEW t \in Threads, Close(t) PROVE KeepInv'
<1> DEFINE to == IF mpFile = 0 THEN "remove" ELSE "closed"
<1> USE LogFileAssumption
<1>1. Goto(t, "close", to) /\ to \in {"remove", "closed"} /\ to \in Pcs /\ (to = "remove" => mpFile = 0)
  BY DEF Close, Pcs, InOutput, Rotating
<1> HIDE DEF to
<1>3. pc[t] = "close" /\ pc' \in [Threads -> Pcs] /\ pc'[t] = to
      /\ \A u \in Threads \ {t} : pc'[u] = pc[u]
  BY <1>1, Alone
<1>5. UNCHANGED <<seen, mpFile, mSize, handles, name, content, lines, starts, configured, first, sized>>
  BY DEF Close, disk
<1>6. Size' = Size /\ Logged' = Logged /\ \A k : Latest(k)' <=> Latest(k)
  BY <1>5, SameFiles
<1>7. BootInv'
  <2>1. pc[Main] # "off" <=> pc'[Main] # "off"
    BY <1>1, <1>3
  <2> QED
    BY <1>5, <2>1 DEF KeepInv, BootInv, Unwritten
<1>8. ASSUME "rotation" \notin trouble'
      PROVE  TurnInv' /\ FileInv' /\ MovedInv' /\ OldIsGone' /\ Remains'
  <2>1. /\ "rotation" \notin trouble /\ TurnInv'
        /\ \A u \in Threads \ {t} : pc'[u] \notin InOutput /\ pc[u] \notin InOutput
    BY <1>1, <1>3, <1>8, Alone DEF InOutput, Rotating
  <2>2. FileInv /\ Remains
    BY <2>1 DEF KeepInv
  <2>3. configured => mpFile # 0
    BY <1>3, <2>1, <2>2 DEF FileInv, InOutput, Rotating, IInv, TypeOK
  <2>4. FileInv' /\ MovedInv' /\ OldIsGone'
    BY <1>1, <1>3, <1>5, <2>1, <2>3 DEF FileInv, MovedInv, OldIsGone, InOutput, Rotating
  <2>5. Uncounted' = Uncounted
    BY <1>1, <1>3, SameCounting
  <2>6. PICK k \in 0..Len(Logged) : Latest(k) /\ Earned(k)
    BY <2>2 DEF Remains
  <2>8. Earned(k)'
    BY <1>1, <1>3, <1>5, <1>6, <2>1, <2>5, <2>6 DEF Earned, InOutput, Rotating
  <2> QED
    BY <1>6, <2>1, <2>4, <2>6, <2>8 DEF Remains
<1> QED
  BY <1>7, <1>8 DEF KeepInv

(* close() resets mSize, and nobody else has a line to count.              *)
LEMMA KeepClosed == ASSUME IInv, KeepInv, NEW t \in Threads, Closed(t) PROVE KeepInv'
<1> USE LogFileAssumption
<1>1. Goto(t, "closed", "remove") /\ "remove" \in Pcs
  BY DEF Closed, Pcs, InOutput, Rotating
<1>3. pc[t] = "closed" /\ pc' \in [Threads -> Pcs] /\ pc'[t] = "remove"
      /\ \A u \in Threads \ {t} : pc'[u] = pc[u]
  BY <1>1, Alone
<1>4. configured
  BY <1>3, Configured
<1>5. /\ UNCHANGED <<seen, handles, live, name, content, lines, starts, configured, first, sized>>
      /\ mpFile' = 0 /\ mSize' = 0
  BY DEF Closed, disk
<1>6. Size' = Size /\ Logged' = Logged /\ \A k : Latest(k)' <=> Latest(k)
  BY <1>5, SameFiles
<1>7. BootInv'
  BY <1>4, <1>5 DEF BootInv
<1>8. ASSUME "rotation" \notin trouble'
      PROVE  TurnInv' /\ FileInv' /\ MovedInv' /\ OldIsGone' /\ Remains'
  <2>1. /\ "rotation" \notin trouble /\ TurnInv'
        /\ \A u \in Threads \ {t} : pc'[u] \notin InOutput /\ pc[u] \notin InOutput
    BY <1>1, <1>3, <1>8, Alone DEF InOutput, Rotating
  <2>2. FileInv /\ Remains
    BY <2>1 DEF KeepInv
  <2>4. FileInv' /\ MovedInv' /\ OldIsGone'
    BY <1>1, <1>3, <1>5, <2>1 DEF FileInv, MovedInv, OldIsGone, InOutput, Rotating
  <2>5. Uncounted' = 0
    BY <1>3, <2>1, NobodyCountsNext DEF InOutput
  <2>6. PICK k \in 0..Len(Logged) : Latest(k) /\ Earned(k)
    BY <2>2 DEF Remains
  <2>7. Size \in Nat
    BY LoggedIs DEF IInv, LoggedFacts
  <2>8. Earned(k)'
    BY <1>1, <1>3, <1>4, <1>5, <1>6, <2>1, <2>5, <2>6, <2>7 DEF Earned, InOutput, Rotating
  <2> QED
    BY <1>6, <2>1, <2>4, <2>6, <2>8 DEF Remains
<1> QED
  BY <1>7, <1>8 DEF KeepInv

(* The old file goes only when the current one alone is enough.            *)
LEMMA KeepRemove == ASSUME IInv, KeepInv, NEW t \in Threads, Remove(t) PROVE KeepInv'
<1> USE LogFileAssumption
<1>1. Goto(t, "remove", "rename") /\ "rename" \in Pcs
  BY DEF Remove, Pcs, InOutput, Rotating
<1>3. pc[t] = "remove" /\ pc' \in [Threads -> Pcs] /\ pc'[t] = "rename"
      /\ \A u \in Threads \ {t} : pc'[u] = pc[u]
  BY <1>1, Alone
<1>5. /\ UNCHANGED <<seen, mpFile, mSize, handles, live, content, lines, starts, configured, first, sized>>
      /\ name' = [name EXCEPT !["old"] = 0]
  BY DEF Remove, output
<1>6. name'["old"] = 0 /\ name'["current"] = name["current"]
  BY <1>5 DEF IInv, TypeOK, Both
<1>7. BootInv'
  <2>1. pc[Main] # "off" <=> pc'[Main] # "off"
    BY <1>1, <1>3
  <2> QED
    BY <1>5, <2>1 DEF KeepInv, BootInv, Unwritten
<1>8. ASSUME "rotation" \notin trouble'
      PROVE  TurnInv' /\ FileInv' /\ MovedInv' /\ OldIsGone' /\ Remains'
  <2>1. /\ "rotation" \notin trouble /\ TurnInv'
        /\ \A u \in Threads \ {t} : pc'[u] \notin InOutput /\ pc[u] \notin InOutput
    BY <1>1, <1>3, <1>8, Alone DEF InOutput, Rotating
  <2>2. FileInv /\ MovedInv /\ Remains
    BY <2>1 DEF KeepInv
  <2>4. FileInv' /\ MovedInv' /\ OldIsGone'
    BY <1>3, <1>5, <1>6, <2>1, <2>2 DEF FileInv, MovedInv, OldIsGone, InOutput, Rotating
  <2>5. CASE ~configured
    <3>1. t = Main /\ lines' = first'
      BY <1>3, <1>5, <2>5, OnlyMain DEF KeepInv, BootInv, Unwritten
    <3> QED
      BY <2>1, <2>4, <3>1, NothingYetNext, RemoveInv DEF IInv, Unwritten
  <2>6. CASE configured
    <3>1. PICK k \in 0..Len(Logged) : Latest(k) /\ Earned(k)
      BY <2>2 DEF Remains
    <3>2. LoggedFacts /\ LoggedFacts'
      BY LoggedIs, LoggedIsNext, RemoveInv DEF IInv
    <3>3. Old' = <<>> /\ Current' = Current
      BY <1>5, <1>6 DEF LinesOf, Old, Current
    <3>4. /\ Size' = Size /\ Size \in Nat /\ Len(Logged) \in Nat /\ Size <= Len(Logged)
          /\ Len(Logged') = Size
          /\ \A i \in 1..Size : Logged'[i] = Logged[Len(Logged) - Size + i]
      <4>1. /\ Size' = Len(Current') /\ Len(Logged') = Len(Old') + Len(Current')
            /\ \A i \in 1..Len(Logged') :
                 Logged'[i] = IF i <= Len(Old') THEN Old'[i] ELSE Current'[i - Len(Old')]
        BY <3>2 DEF LoggedFacts
      <4>2. /\ Size = Len(Current) /\ Size \in Nat /\ Len(Old) \in Nat
            /\ Len(Logged) = Len(Old) + Len(Current)
            /\ \A i \in 1..Len(Logged) :
                 Logged[i] = IF i <= Len(Old) THEN Old[i] ELSE Current[i - Len(Old)]
        BY <3>2 DEF LoggedFacts
      <4>3. Size' = Size /\ Len(Logged') = Size
        BY <3>3, <4>1, <4>2
      <4>4. ASSUME NEW i \in 1..Size PROVE Logged'[i] = Logged[Len(Logged) - Size + i]
        <5>1. Logged'[i] = Current[i]
          BY <3>3, <4>1, <4>2
        <5>2. /\ Len(Logged) - Size + i \in 1..Len(Logged)
              /\ ~(Len(Logged) - Size + i <= Len(Old))
              /\ Len(Logged) - Size + i - Len(Old) = i
          BY <4>2
        <5> QED
          BY <4>2, <5>1, <5>2
      <4> QED
        BY <4>2, <4>3, <4>4
    <3>5. /\ DOMAIN Logged = 1..Len(Logged) /\ DOMAIN Logged' = 1..Size
          /\ lines \in Nat /\ first \in 0..lines
      BY <3>2, <3>4 DEF LoggedFacts
    <3>6. k \in Nat /\ EndsWith(k) /\ k <= lines - first
      BY <3>1, <3>4 DEF Latest
    <3>m. PICK m : m = IF k <= Size THEN k ELSE Size
      OBVIOUS
    <3>7. EndsWith(m)'
      <4> SUFFICES ASSUME NEW i \in 1..Size
                   PROVE  IF i <= Size - m THEN Logged'[i] <= first
                          ELSE Logged'[i] = lines - Size + i
        BY <1>5, <3>4, <3>5 DEF EndsWith
      <4>1. Len(Logged) - Size + i \in 1..Len(Logged)
        BY <3>4
      <4>2. Logged'[i] = Logged[Len(Logged) - Size + i] /\ m \in Nat /\ m <= Size
        BY <3>m, <3>4, <3>6
      <4>3. CASE i <= Size - m
        <5>1. k = m \/ (m = Size /\ k > Size)
          BY <3>m, <3>6
        <5>2. Len(Logged) - Size + i <= Len(Logged) - k
          BY <3>4, <3>6, <4>3, <5>1
        <5> QED
          BY <3>5, <3>6, <4>1, <4>2, <4>3, <5>2 DEF EndsWith
      <4>4. CASE ~(i <= Size - m)
        <5>1. ~(Len(Logged) - Size + i <= Len(Logged) - k)
          BY <3>m, <3>4, <3>6, <4>4
        <5>2. Logged[Len(Logged) - Size + i] = lines - Len(Logged) + (Len(Logged) - Size + i)
          BY <3>5, <3>6, <4>1, <5>1 DEF EndsWith
        <5> QED
          BY <3>4, <3>5, <4>2, <4>4, <5>2
      <4> QED
        BY <4>3, <4>4
    <3>8. Latest(m)'
      <4>1. k > Size => Size > mMaxSize
        BY <1>3, <2>6, <3>1 DEF Earned
      <4> QED
        BY <1>5, <3>m, <3>1, <3>4, <3>5, <3>6, <3>7, <4>1 DEF Latest
    <3>9. m \in 0..Len(Logged') /\ Earned(m)'
      BY <3>m, <3>4, <3>6 DEF Earned
    <3> QED
      BY <2>1, <2>4, <3>8, <3>9 DEF Remains
  <2> QED
    BY <2>5, <2>6
<1> QED
  BY <1>7, <1>8 DEF KeepInv

(* The current file takes the place of the one that was removed.           *)
LEMMA KeepRename == ASSUME IInv, KeepInv, NEW t \in Threads, Rename(t) PROVE KeepInv'
<1> USE LogFileAssumption
<1>1. Goto(t, "rename", "open") /\ "open" \in Pcs
  BY DEF Rename, Pcs, InOutput, Rotating
<1>3. pc[t] = "rename" /\ pc' \in [Threads -> Pcs] /\ pc'[t] = "open"
      /\ \A u \in Threads \ {t} : pc'[u] = pc[u]
  BY <1>1, Alone
<1>5. UNCHANGED <<seen, mpFile, mSize, handles, live, content, lines, starts, configured, first, sized>>
  BY DEF Rename, output
<1>7. BootInv'
  <2>1. pc[Main] # "off" <=> pc'[Main] # "off"
    BY <1>1, <1>3
  <2> QED
    BY <1>5, <2>1 DEF KeepInv, BootInv, Unwritten
<1>8. ASSUME "rotation" \notin trouble'
      PROVE  TurnInv' /\ FileInv' /\ MovedInv' /\ OldIsGone' /\ Remains'
  <2>1. /\ "rotation" \notin trouble /\ TurnInv'
        /\ \A u \in Threads \ {t} : pc'[u] \notin InOutput /\ pc[u] \notin InOutput
    BY <1>1, <1>3, <1>8, Alone DEF InOutput, Rotating
  <2>2. FileInv /\ MovedInv /\ OldIsGone /\ Remains
    BY <2>1 DEF KeepInv
  <2>3. /\ name["old"] = 0 /\ name'["current"] = 0 /\ name'["old"] = name["current"]
    BY <1>3, <2>2 DEF OldIsGone, Rename
  <2>4. FileInv' /\ MovedInv' /\ OldIsGone'
    BY <1>3, <1>5, <2>1, <2>2, <2>3 DEF FileInv, MovedInv, OldIsGone, InOutput, Rotating
  <2>5. Old = <<>> /\ Current' = <<>> /\ Old' = Current
    BY <1>5, <2>3 DEF Old, Current, LinesOf
  <2>6. LoggedFacts /\ LoggedFacts'
    BY LoggedIs, LoggedIsNext, RenameInv DEF IInv
  <2>7. Logged' = Logged /\ Size' = 0
    <3>1. Len(Logged') = Len(Logged) /\ Size' = 0 /\ Len(Old') = Len(Logged)
      BY <2>5, <2>6 DEF LoggedFacts
    <3>2. ASSUME NEW i \in 1..Len(Logged) PROVE Logged'[i] = Logged[i]
      <4>1. Logged[i] = Current[i]
        BY <2>5, <2>6 DEF LoggedFacts
      <4>2. Logged'[i] = Old'[i]
        BY <2>6, <3>1 DEF LoggedFacts
      <4> QED
        BY <2>5, <4>1, <4>2
    <3>3. Logged \in Seq(1..lines) /\ Logged' \in Seq(1..lines)
      BY <1>5, <2>6 DEF LoggedFacts
    <3> QED
      BY <3>1, <3>2, <3>3
  <2>8. PICK k \in 0..Len(Logged) : Latest(k) /\ Earned(k)
    BY <2>2 DEF Remains
  <2>9. Latest(k)'
    BY <1>5, <2>7, <2>8 DEF Latest, EndsWith
  <2>10. Uncounted' = 0
    BY <1>3, <2>1, NobodyCountsNext DEF InOutput
  <2>11. Earned(k)'
    BY <1>3, <1>5, <2>1, <2>2, <2>7, <2>10 DEF Earned, MovedInv, InOutput, Rotating
  <2> QED
    BY <2>1, <2>4, <2>7, <2>8, <2>9, <2>11 DEF Remains
<1> QED
  BY <1>7, <1>8 DEF KeepInv

(* A new FILE, for the file there is or for a new one.                     *)
LEMMA KeepOpen == ASSUME IInv, KeepInv, NEW t \in Threads, Open(t) PROVE KeepInv'
<1> DEFINE to == IF configured THEN "print" ELSE "start"
<1> USE LogFileAssumption
<1>1. Goto(t, "open", to) /\ to \in {"print", "start"} /\ to \in Pcs
  BY DEF Open, Pcs, InOutput, Rotating
<1> HIDE DEF to
<1>3. pc[t] = "open" /\ pc' \in [Threads -> Pcs] /\ pc'[t] = to
      /\ \A u \in Threads \ {t} : pc'[u] = pc[u]
  BY <1>1, Alone
<1>5. /\ UNCHANGED <<seen, mSize, lines, starts, configured, first>>
      /\ handles' = Append(handles, name'["current"]) /\ mpFile' = Len(handles) + 1
      /\ live' = live \cup {Len(handles) + 1}
  BY DEF Open
<1>6. /\ name'["current"] # 0 /\ Old' = Old /\ Current' = Current
  <2>1. CASE name["current"] = 0
    <3>1. content' = Append(content, <<>>) /\ name' = [name EXCEPT !["current"] = Len(content) + 1]
      BY <2>1 DEF Open
    <3>2. /\ content'[Len(content) + 1] = <<>>
          /\ \A f \in 1..Len(content) : content'[f] = content[f]
          /\ Len(content) \in Nat
      BY <3>1 DEF IInv, TypeOK
    <3>3. /\ name'["current"] = Len(content) + 1 /\ name'["old"] = name["old"]
          /\ name["old"] \in 0..Len(content)
      BY <3>1 DEF IInv, TypeOK, Files, Both
    <3> QED
      BY <2>1, <3>2, <3>3 DEF LinesOf, Old, Current
  <2>2. CASE name["current"] # 0
    BY <2>2 DEF Open, disk, LinesOf, Old, Current
  <2> QED
    BY <2>1, <2>2
<1>7. BootInv'
  <2>1. pc[Main] # "off" <=> pc'[Main] # "off"
    BY <1>1, <1>3
  <2> QED
    BY <1>5, <2>1 DEF KeepInv, BootInv, Unwritten
<1>8. ASSUME "rotation" \notin trouble'
      PROVE  TurnInv' /\ FileInv' /\ MovedInv' /\ OldIsGone' /\ Remains'
  <2>1. /\ "rotation" \notin trouble /\ TurnInv'
        /\ \A u \in Threads \ {t} : pc'[u] \notin InOutput /\ pc[u] \notin InOutput
    <3>1. /\ "rotation" \notin trouble /\ TurnInv'
          /\ \A u \in Threads \ {t} : pc[u] \notin InOutput
      BY <1>1, <1>8, Alone DEF InOutput, Rotating
    <3> QED
      BY <1>3, <3>1
  <2>2. MovedInv /\ Remains
    BY <2>1 DEF KeepInv
  <2>3. FileInv'
    <3>1. handles'[mpFile'] = name'["current"] /\ mpFile' \in live'
      BY <1>5 DEF IInv, TypeOK
    <3> QED
      BY <1>6, <3>1 DEF FileInv
  <2>4. MovedInv' /\ OldIsGone'
    BY <1>1, <1>3, <1>5, <2>1 DEF MovedInv, OldIsGone, InOutput, Rotating
  <2>5. Logged' = Logged /\ Size' = Size /\ Size \in Nat
    <3>1. LoggedFacts
      BY LoggedIs DEF IInv
    <3>2. Logged = Old \o Current /\ Size = Len(Current)
      BY DEF Logged, Old, Current, Size
    <3>3. Logged' = Old' \o Current' /\ Size' = Len(Current')
      BY DEF Logged, Old, Current, Size
    <3> QED
      BY <1>6, <3>1, <3>2, <3>3 DEF LoggedFacts
  <2>6. PICK k \in 0..Len(Logged) : Latest(k) /\ Earned(k)
    BY <2>2 DEF Remains
  <2>7. Latest(k)'
    BY <1>5, <2>5, <2>6 DEF Latest, EndsWith
  <2>8. Uncounted' = 0
    BY <1>1, <1>3, <2>1, NobodyCountsNext DEF InOutput
  <2>9. Earned(k)'
    BY <1>1, <1>3, <1>5, <2>1, <2>2, <2>5, <2>8 DEF Earned, MovedInv, InOutput, Rotating
  <2> QED
    BY <2>1, <2>3, <2>4, <2>5, <2>6, <2>7, <2>9 DEF Remains
<1> QED
  BY <1>7, <1>8 DEF KeepInv

(* A start has written nothing yet; an end changes no file.                *)
LEMMA KeepStart == IInv /\ KeepInv /\ Start => KeepInv'
<1> SUFFICES ASSUME IInv, KeepInv, Start PROVE KeepInv'
  OBVIOUS
<1> USE LogFileAssumption
<1>1. ~configured /\ \A t \in Threads : pc[t] = "off"
  BY DEF Start, IInv, PhaseInv
<1>2. /\ \A t \in Threads \ {Main} : pc'[t] = "off"
      /\ pc'[Main] \in {"close", "open"} /\ ~configured'
  BY <1>1 DEF Start, IInv, TypeOK
<1>3. Unwritten' /\ BootInv'
  BY DEF Start, BootInv, Unwritten
<1>4. TurnInv' /\ FileInv' /\ MovedInv' /\ OldIsGone'
  BY <1>2 DEF TurnInv, FileInv, MovedInv, OldIsGone, InOutput, Rotating
<1>5. Remains'
  BY <1>3, NothingYetNext, StartsInv DEF IInv
<1> QED
  BY <1>3, <1>4, <1>5 DEF KeepInv

(* The other threads start before the first line of this life.             *)
LEMMA KeepSpawn == IInv /\ KeepInv /\ Spawn => KeepInv'
<1> SUFFICES ASSUME IInv, KeepInv, Spawn PROVE KeepInv'
  OBVIOUS
<1> USE LogFileAssumption
<1>1. /\ ~configured /\ Unwritten /\ configured'
      /\ \A t \in Threads : pc[t] \notin {"closed", "remove", "rename", "open"}
  BY DEF Spawn, IInv, PhaseInv, KeepInv, BootInv
<1>2. UNCHANGED <<mpFile, mSize, handles, live, name, lines, first, trouble>>
      /\ \A t \in Threads : pc'[t] = "idle"
  BY DEF Spawn, output, disk
<1>3. Unwritten' /\ BootInv'
  BY <1>1, <1>2 DEF BootInv, Unwritten
<1>4. TurnInv' /\ MovedInv' /\ OldIsGone'
  BY <1>2 DEF TurnInv, MovedInv, OldIsGone, InOutput, Rotating
<1>5. Remains'
  BY <1>3, NothingYetNext, SpawnInv DEF IInv
<1>6. "rotation" \notin trouble => FileInv'
  <2>1. pc[Main] = "start"
    BY DEF Spawn
  <2> QED
    BY <1>1, <1>2, <2>1 DEF FileInv, KeepInv
<1> QED
  BY <1>2, <1>3, <1>4, <1>5, <1>6 DEF KeepInv

(* The end of the process.                                                 *)
LEMMA KeepEnd == IInv /\ KeepInv /\ End => KeepInv'
<1> SUFFICES ASSUME IInv, KeepInv, End PROVE KeepInv'
  OBVIOUS
<1> USE LogFileAssumption
<1>1. /\ UNCHANGED <<name, content, lines, first, trouble>> /\ ~configured'
      /\ \A t \in Threads : pc'[t] = "off"
  BY DEF End, disk
<1>2. Size' = Size /\ Logged' = Logged /\ \A k : Latest(k)' <=> Latest(k)
  BY <1>1, SameFiles
<1>3. BootInv' /\ TurnInv' /\ FileInv' /\ MovedInv' /\ OldIsGone'
  BY <1>1 DEF BootInv, TurnInv, FileInv, MovedInv, OldIsGone, InOutput, Rotating
<1>4. \A k : Earned(k)'
  BY <1>1 DEF Earned
<1>5. Remains => Remains'
  BY <1>2, <1>4 DEF Remains
<1> QED
  BY <1>1, <1>3, <1>5 DEF KeepInv

(* Every step keeps what survives a rotation.                              *)
LEMMA StepKeep == IInv /\ KeepInv /\ [Next]_vars => KeepInv'
<1> SUFFICES ASSUME IInv, KeepInv, [Next]_vars PROVE KeepInv'
  OBVIOUS
<1>1. CASE Start
  BY <1>1, KeepStart
<1>2. CASE Spawn
  BY <1>2, KeepSpawn
<1>3. CASE Killed
  BY <1>3, KeepEnd DEF Killed
<1>4. CASE \E t \in Threads : Log(t) \/ Reach(t) \/ Write(t) \/ Load(t) \/ Count(t)
  BY <1>4, KeepLog, KeepReach, KeepWrite, KeepLoad, KeepCount
<1>5. CASE \E t \in Threads : Undefined(t) \/ OpenFails(t)
  BY <1>5, KeepEnd DEF Undefined, OpenFails
<1>6. CASE \E t \in Threads : Close(t) \/ Closed(t) \/ Remove(t) \/ Rename(t) \/ Open(t)
  BY <1>6, KeepClose, KeepClosed, KeepRemove, KeepRename, KeepOpen
<1>7. CASE UNCHANGED vars
  <2>1. Size' = Size /\ Logged' = Logged /\ \A k : Latest(k)' <=> Latest(k)
    BY <1>7, SameFiles DEF vars, disk
  <2>2. Uncounted' = Uncounted
    BY <1>7, SameCounting DEF vars
  <2>3. Remains' <=> Remains
    BY <1>7, <2>1, <2>2 DEF Remains, Earned, vars, output
  <2>4. /\ BootInv => BootInv'
        /\ TurnInv => TurnInv'
        /\ OldIsGone => OldIsGone'
        /\ FileInv => FileInv'
        /\ MovedInv => MovedInv'
    BY <1>7 DEF BootInv, Unwritten, TurnInv, OldIsGone, FileInv, MovedInv, vars, output, disk
  <2> QED
    BY <1>7, <2>3, <2>4 DEF KeepInv, vars
<1> QED
  BY <1>1, <1>2, <1>3, <1>4, <1>5, <1>6, <1>7 DEF Next

(* The two files hold the latest lines of this life, each once and in      *)
(* order, and a whole file of them when older ones are gone, as long as    *)
(* nobody logs while another thread rotates (OutputFile::output, rotate).  *)
THEOREM LogIsKept == Spec => []Kept
<1>1. KeepInv => Kept
  BY DEF KeepInv, Remains, Latest, Kept
<1> QED
  BY <1>1, InitInv, InitKeep, StepInv, StepKeep, PTL DEF Spec
=============================================================================
