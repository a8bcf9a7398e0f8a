-------------------------- MODULE LifecycleProofs ---------------------------
(***************************************************************************)
(* Safety of the configuration and of the accept loop, for any set of      *)
(* directories, ports, texts, files and clients.                           *)
(***************************************************************************)
EXTENDS Lifecycle, FiniteSetTheorems, TLAPS

(* Settings in which load() has replaced every key that was not there.     *)
Full == {c \in Contents : c.port # Absent /\ c.monitorpath # Absent /\ c.level # Absent}

(* A process that runs has full settings, and so has what save() wrote     *)
(* down; as long as that is known, the file holds it.  Only a process      *)
(* saves.                                                                  *)
SettingsInv ==
  /\ SettingsTypeOK
  /\ up => ctx \in Full
  /\ saved # Torn => saved \in Full /\ file[Etc] = saved
  /\ saving => up /\ saved = Torn
  /\ WholeFileWhileUp
  /\ LoadsWhatWasSaved

(* Every connection that is open has been counted.                         *)
ListenerInv ==
  /\ ListenerTypeOK
  /\ Cardinality(Connected) <= threads

IInv == SettingsInv /\ ListenerInv

(* What load() makes of a file it does not throw at is full.               *)
LEMMA LoadedIsFull ==
  ASSUME NEW c \in Contents \cup {Torn}, ~LoadFails(c), NEW garbage \in BOOLEAN
  PROVE  /\ c \in Contents
         /\ Loaded(c, garbage) \in Full
<1> USE SettingsAssumption
<1>1. c \in Contents
  BY DEF LoadFails
<1>2. Given(c.port, DefaultPort) \in (Ports \cup {DefaultPort, Empty}) \/ Given(c.port, DefaultPort) = Empty
  BY <1>1 DEF Given, Contents
<1>3. Given(c.port, DefaultPort) # Absent
  BY <1>1 DEF Given, Contents
<1>4. Given(c.monitorpath, DefaultMon) \in Dirs
  BY <1>1 DEF LoadFails
<1>5. Given(c.level, "CRIT") \in Levels
  BY <1>1 DEF Given, Contents, Levels
<1>6. (IF c.logpath = Empty THEN DefaultLog ELSE LogFile(Given(c.logpath, DefaultLog))) \in LogPaths
  <2>1. CASE c.logpath = Empty
    BY <2>1 DEF LogPaths
  <2>2. CASE c.logpath # Empty
    <3>1. Given(c.logpath, DefaultLog) # Empty
      BY <2>2 DEF Given, LogPaths
    <3>2. Given(c.logpath, DefaultLog) \in Dirs
      BY <1>1, <3>1 DEF LoadFails
    <3> QED
      BY <2>2, <3>2 DEF LogPaths
  <2> QED
    BY <2>1, <2>2
<1>7. (c.console \/ garbage) \in BOOLEAN /\ c.startup \in Texts
  BY <1>1 DEF Contents
<1>8. Loaded(c, garbage) \in Contents
  BY <1>2, <1>4, <1>5, <1>6, <1>7 DEF Loaded, Contents
<1>9. /\ Loaded(c, garbage).port # Absent
      /\ Loaded(c, garbage).monitorpath # Absent
      /\ Loaded(c, garbage).level # Absent
  BY <1>3, <1>4, <1>5 DEF Loaded
<1> QED
  BY <1>1, <1>8, <1>9 DEF Full

LEMMA SettingsInitInv == SettingsInit => SettingsInv
BY SettingsAssumption DEF SettingsInit, SettingsInv, SettingsTypeOK, WholeFileWhileUp, LoadsWhatWasSaved

(* A start takes over the file, if it is whole.                            *)
LEMMA StartInv == SettingsInv /\ Start => SettingsInv'
<1> SUFFICES ASSUME SettingsInv, Start PROVE SettingsInv'
  OBVIOUS
<1> DEFINE c == file[cfgpath]
<1>1. PICK garbage \in BOOLEAN :
        LET l == Loaded(c, garbage)
        IN  IF l.logpath \in Dirs
              THEN whyDown' = "log not opened" /\ UNCHANGED <<up, ctx, sp>>
              ELSE IF l.port = Empty
                     THEN whyDown' = "no port" /\ UNCHANGED <<up, ctx, sp>>
                     ELSE /\ up' = TRUE /\ whyDown' = "" /\ ctx' = l /\ sp' = l.port
  BY DEF Start
<1>2. c \in Contents \cup {Torn} /\ ~LoadFails(c) /\ ~up /\ ~saving
  BY DEF Start, SettingsInv, SettingsTypeOK
<1>3. c \in Contents /\ Loaded(c, garbage) \in Full
  BY <1>2, LoadedIsFull
<1>4. changed' = FALSE /\ UNCHANGED <<file, cfgpath, saving, saved>>
  BY DEF Start
<1>5. CASE UNCHANGED <<up, ctx, sp>>
  <2>1. whyDown' \in {"log not opened", "no port", ""}
    BY <1>1
  <2> QED
    BY <1>2, <1>4, <1>5, <2>1
    DEF SettingsInv, SettingsTypeOK, WholeFileWhileUp, LoadsWhatWasSaved
<1>6. CASE ~UNCHANGED <<up, ctx, sp>>
  <2>1. /\ up' = TRUE /\ whyDown' = "" /\ ctx' = Loaded(c, garbage)
        /\ sp' = Loaded(c, garbage).port /\ Loaded(c, garbage).port # Empty
    BY <1>1, <1>6
  <2>2. sp' \in Ports \cup {DefaultPort, "null"}
    BY <1>3, <2>1 DEF Full, Contents
  <2>3. SettingsTypeOK'
    BY <1>2, <1>4, <2>1, <2>2 DEF SettingsInv, SettingsTypeOK
  <2>4. WholeFileWhileUp'
    BY <1>3, <1>4, SettingsAssumption DEF WholeFileWhileUp
  <2>5. ASSUME saved # Torn, cfgpath = Etc
        PROVE  /\ ctx'.port = saved.port /\ ctx'.monitorpath = saved.monitorpath
               /\ ctx'.startup = saved.startup /\ ctx'.level = saved.level
               /\ saved.console => ctx'.console
    <3>1. c = saved /\ saved \in Full
      BY <2>5 DEF SettingsInv
    <3>2. /\ ctx'.port = Given(c.port, DefaultPort)
          /\ ctx'.monitorpath = Given(c.monitorpath, DefaultMon)
          /\ ctx'.startup = c.startup /\ ctx'.level = Given(c.level, "CRIT")
          /\ ctx'.console = (c.console \/ garbage)
      BY <2>1 DEF Loaded
    <3> QED
      BY <3>1, <3>2 DEF Given, Full
  <2>6. LoadsWhatWasSaved'
    BY <1>4, <2>5 DEF LoadsWhatWasSaved
  <2> QED
    BY <1>2, <1>3, <1>4, <2>1, <2>3, <2>4, <2>6 DEF SettingsInv
<1> QED
  BY <1>5, <1>6

LEMMA StartFailsInv == SettingsInv /\ StartFails => SettingsInv'
<1> SUFFICES ASSUME SettingsInv, StartFails PROVE SettingsInv'
  OBVIOUS
<1>1. ~up /\ whyDown' = "config not loaded"
      /\ UNCHANGED <<file, cfgpath, up, ctx, sp, saving, saved, changed>>
  BY DEF StartFails
<1>2. SettingsTypeOK'
  BY <1>1 DEF SettingsInv, SettingsTypeOK
<1>3. WholeFileWhileUp' /\ LoadsWhatWasSaved'
  BY <1>1 DEF WholeFileWhileUp, LoadsWhatWasSaved
<1> QED
  BY <1>1, <1>2, <1>3 DEF SettingsInv

LEMMA StopInv == SettingsInv /\ Stop => SettingsInv'
BY DEF Stop, SettingsInv, SettingsTypeOK, WholeFileWhileUp, LoadsWhatWasSaved

(* A set command keeps the settings full.                                  *)
LEMMA SetInv ==
  ASSUME SettingsInv, SetPort \/ SetMonitor \/ SetLogFileDir \/ SetStartup
  PROVE  SettingsInv'
<1> USE SettingsAssumption
<1>1. up /\ ctx \in Full
  BY DEF SetPort, SetMonitor, SetLogFileDir, SetStartup, Set, SettingsInv
<1>2. ctx' \in Full
  <2>1. CASE SetPort
    BY <1>1, <2>1 DEF SetPort, Set, Full, Contents
  <2>2. CASE SetMonitor
    BY <1>1, <2>2 DEF SetMonitor, Set, Full, Contents
  <2>3. CASE SetLogFileDir
    BY <1>1, <2>3 DEF SetLogFileDir, Set, Full, Contents, LogPaths
  <2>4. CASE SetStartup
    BY <1>1, <2>4 DEF SetStartup, Set, Full, Contents
  <2> QED
    BY <2>1, <2>2, <2>3, <2>4
<1>3. changed' = TRUE /\ UNCHANGED <<file, cfgpath, up, whyDown, sp, saving, saved>>
  BY DEF SetPort, SetMonitor, SetLogFileDir, SetStartup, Set
<1> QED
  BY <1>1, <1>2, <1>3 DEF SettingsInv, SettingsTypeOK, WholeFileWhileUp, LoadsWhatWasSaved

LEMMA SaveOpenInv == SettingsInv /\ SaveOpen => SettingsInv'
<1> SUFFICES ASSUME SettingsInv, SaveOpen PROVE SettingsInv'
  OBVIOUS
<1>1. up /\ saving' = TRUE /\ file' = [file EXCEPT ![Etc] = Torn] /\ saved' = Torn
      /\ UNCHANGED <<cfgpath, up, whyDown, ctx, sp, changed>>
  BY DEF SaveOpen
<1>2. SettingsTypeOK'
  BY <1>1 DEF SettingsInv, SettingsTypeOK
<1>3. WholeFileWhileUp' /\ LoadsWhatWasSaved'
  BY <1>1 DEF WholeFileWhileUp, LoadsWhatWasSaved
<1> QED
  BY <1>1, <1>2, <1>3 DEF SettingsInv

(* What is written is full, and then it is what the context holds.         *)
LEMMA SaveWriteInv == SettingsInv /\ SaveWrite => SettingsInv'
<1> SUFFICES ASSUME SettingsInv, SaveWrite PROVE SettingsInv'
  OBVIOUS
<1> USE SettingsAssumption
<1>1. up /\ ctx \in Full /\ ctx \in Contents /\ ctx # Torn
  BY DEF SettingsInv, SaveWrite, Full
<1>2. file' = [file EXCEPT ![Etc] = ctx] /\ saved' = ctx /\ saving' = FALSE /\ changed' = FALSE
      /\ UNCHANGED <<cfgpath, up, whyDown, ctx, sp>>
  BY DEF SaveWrite
<1>3. file' \in [Files -> Contents \cup {Torn}] /\ file'[Etc] = ctx
  BY <1>1, <1>2 DEF SettingsInv, SettingsTypeOK
<1>4. SettingsTypeOK'
  BY <1>1, <1>2, <1>3 DEF SettingsInv, SettingsTypeOK
<1>5. WholeFileWhileUp' /\ LoadsWhatWasSaved'
  BY <1>1, <1>2, <1>3 DEF WholeFileWhileUp, LoadsWhatWasSaved
<1> QED
  BY <1>1, <1>2, <1>3, <1>4, <1>5 DEF SettingsInv

(***************************************************************************)
(* The accept loop.                                                        *)
(***************************************************************************)
LEMMA ConnectedFinite == IsFiniteSet(Connected) /\ Cardinality(Connected) \in Nat
<1>1. IsFiniteSet(Connected)
  BY ListenerAssumption, FS_Subset DEF Connected
<1> QED
  BY <1>1, FS_CardinalityType

LEMMA ListenerInitInv == ListenerInit => ListenerInv
<1> SUFFICES ASSUME ListenerInit PROVE ListenerInv
  OBVIOUS
<1>1. Connected = {}
  BY DEF ListenerInit, Connected
<1>2. Cardinality(Connected) = 0
  BY <1>1, FS_EmptySet
<1> QED
  BY <1>2, ListenerAssumption DEF ListenerInit, ListenerInv, ListenerTypeOK

LEMMA AcceptInv == ASSUME ListenerInv, NEW k \in Terminals, Accept(k) PROVE ListenerInv'
<1> USE ListenerAssumption
<1>1. ListenerTypeOK'
  BY DEF ListenerInv, ListenerTypeOK, Accept
<1>2. CASE threads < max_cli
  <2>1. Connected' = Connected \cup {k} /\ threads' = threads + 1
    BY <1>2 DEF Accept, Connected, ListenerInv, ListenerTypeOK
  <2>2. Cardinality(Connected') <= Cardinality(Connected) + 1
    <3> DEFINE C == Connected
    <3>1. IsFiniteSet(C) /\ Cardinality(C) \in Nat
      BY ConnectedFinite
    <3> HIDE DEF C
    <3>2. Cardinality(C \cup {k}) = IF k \in C THEN Cardinality(C) ELSE Cardinality(C) + 1
      BY <3>1, FS_AddElement
    <3>3. Cardinality(C \cup {k}) <= Cardinality(C) + 1
      BY <3>1, <3>2
    <3> QED
      BY <2>1, <3>3 DEF C
  <2>3. Cardinality(Connected') \in Nat
    BY <2>1, ConnectedFinite, FS_AddElement, FS_CardinalityType
  <2> QED
    BY <1>1, <2>1, <2>2, <2>3, ConnectedFinite DEF ListenerInv, ListenerTypeOK
<1>3. CASE ~(threads < max_cli)
  <2>1. Connected' = Connected /\ threads' = threads
    BY <1>3 DEF Accept, Connected, ListenerInv, ListenerTypeOK
  <2> QED
    BY <1>1, <2>1 DEF ListenerInv
<1> QED
  BY <1>2, <1>3

LEMMA AcceptFailsInv == ASSUME ListenerInv, AcceptFails PROVE ListenerInv'
<1> USE ListenerAssumption
<1>1. Connected' = Connected /\ threads' = threads + 1 /\ threads < max_cli
  BY DEF AcceptFails, Connected
<1>2. ListenerTypeOK'
  BY <1>1 DEF ListenerInv, ListenerTypeOK, AcceptFails
<1> QED
  BY <1>1, <1>2, ConnectedFinite DEF ListenerInv, ListenerTypeOK

LEMMA HangupInv == ASSUME ListenerInv, NEW k \in Terminals, Hangup(k) PROVE ListenerInv'
<1>1. Connected' \subseteq Connected /\ threads' = threads
  BY DEF Hangup, Connected, ListenerInv, ListenerTypeOK
<1>2. Cardinality(Connected') <= Cardinality(Connected) /\ Cardinality(Connected') \in Nat
  BY <1>1, ConnectedFinite, FS_Subset, FS_CardinalityType
<1>3. ListenerTypeOK'
  BY DEF ListenerInv, ListenerTypeOK, Hangup
<1> QED
  BY <1>1, <1>2, <1>3, ConnectedFinite DEF ListenerInv, ListenerTypeOK

(* The end of the process ends every connection.                           *)
LEMMA EndInv == ASSUME IInv, End PROVE IInv'
<1>1. SettingsInv'
  BY StopInv DEF End, IInv
<1>2. Connected' = {} /\ threads' = 0
  BY DEF End, Connected
<1>3. Cardinality(Connected') = 0
  BY <1>2, FS_EmptySet
<1>4. ListenerTypeOK'
  BY ListenerAssumption DEF End, ListenerTypeOK
<1> QED
  BY <1>1, <1>2, <1>3, <1>4 DEF IInv, ListenerInv

LEMMA NextInv == IInv /\ [Next]_vars => IInv'
<1> SUFFICES ASSUME IInv, [Next]_vars PROVE IInv'
  OBVIOUS
<1>1. ASSUME UNCHANGED listener, SettingsInv' PROVE IInv'
  BY <1>1 DEF IInv, ListenerInv, ListenerTypeOK, Connected, listener
<1>2. ASSUME UNCHANGED settings, ListenerInv' PROVE IInv'
  BY <1>2 DEF IInv, SettingsInv, SettingsTypeOK, WholeFileWhileUp, LoadsWhatWasSaved, settings
<1>3. CASE Begin
  BY <1>1, <1>3, StartInv, StartFailsInv DEF Begin, IInv
<1>4. CASE End
  BY <1>4, EndInv
<1>5. CASE Serve
  BY <1>2, <1>5, AcceptInv, AcceptFailsInv, HangupInv DEF Serve, IInv
<1>6. CASE Command
  BY <1>1, <1>6, SetInv, SaveOpenInv, SaveWriteInv DEF Command, IInv
<1>7. CASE UNCHANGED vars
  BY <1>1, <1>7
  DEF vars, settings, IInv, SettingsInv, SettingsTypeOK, WholeFileWhileUp, LoadsWhatWasSaved
<1> QED
  BY <1>3, <1>4, <1>5, <1>6, <1>7 DEF Next

(* The inductive invariant holds in every reachable state (lmbd.hpp load   *)
(* and save, the set commands, the accept loop of main()).                 *)
THEOREM Invariance == Spec => []IInv
<1>1. Init => IInv
  BY SettingsInitInv, ListenerInitInv DEF Init, IInv
<1> QED
  BY <1>1, NextInv, PTL DEF Spec

(* Every variable keeps its type; in particular save() writes only what    *)
(* load() can read key by key.                                             *)
THEOREM TypeCorrect == Spec => []TypeOK
<1>1. IInv => TypeOK
  BY DEF IInv, SettingsInv, ListenerInv, TypeOK
<1> QED
  BY <1>1, Invariance, PTL

(* No start gets past a file a save was cut short in (load, save).         *)
THEOREM FileIsWhole == Spec => []WholeFileWhileUp
<1>1. IInv => WholeFileWhileUp
  BY DEF IInv, SettingsInv
<1> QED
  BY <1>1, Invariance, PTL

(* A start loads what save() wrote down.                                   *)
THEOREM SavedIsLoaded == Spec => []LoadsWhatWasSaved
<1>1. IInv => LoadsWhatWasSaved
  BY DEF IInv, SettingsInv
<1> QED
  BY <1>1, Invariance, PTL

(* main()'s accept loop serves no more than max_cli clients, though        *)
(* Clients is never emptied.                                               *)
THEOREM NoMoreThanMax == Spec => []AtMostMax
<1>1. IInv => AtMostMax
  BY ConnectedFinite, ListenerAssumption DEF IInv, ListenerInv, ListenerTypeOK, AtMostMax
<1> QED
  BY <1>1, Invariance, PTL
-----------------------------------------------------------------------------
(* What the two refutations leave, for every installation.                 *)

(* Exactly those configurations that "save" wrote can be loaded again that *)
(* have a directory for the log; and a process that came up, and has set   *)
(* nothing, has none: load() has put a file name there (lmbd.hpp, load and *)
(* save).                                                                  *)
LoadsWithLogDirectory ==
  /\ saved # Torn => (LoadFails(file[Etc]) <=> saved.logpath \notin Dirs)
  /\ up /\ ~changed /\ ~saving /\ saved = Torn => ctx.logpath \notin Dirs

(* The other paths are those load() accepts.                               *)
Loadable(c) == c \in Contents /\ c.monitorpath \in Dirs /\ c.logpath \in LogPaths

PathInv ==
  /\ up => Loadable(ctx)
  /\ saved # Torn => Loadable(saved)
  /\ up /\ ~changed /\ ~saving /\ saved = Torn => ctx.logpath \notin Dirs

LEMMA LoadedIsLoadable ==
  ASSUME NEW c \in Contents \cup {Torn}, ~LoadFails(c), NEW garbage \in BOOLEAN
  PROVE  Loadable(Loaded(c, garbage))
<1> USE SettingsAssumption
<1>1. c \in Contents /\ Loaded(c, garbage) \in Contents
  BY LoadedIsFull DEF Full
<1>2. Loaded(c, garbage).monitorpath \in Dirs
  BY <1>1 DEF LoadFails, Loaded
<1>3. Loaded(c, garbage).logpath \in LogPaths
  <2>1. CASE c.logpath = Empty
    BY <2>1 DEF Loaded, LogPaths
  <2>2. CASE c.logpath # Empty
    <3>1. Given(c.logpath, DefaultLog) # Empty
      BY <2>2 DEF Given, LogPaths
    <3>2. Given(c.logpath, DefaultLog) \in Dirs
      BY <1>1, <3>1 DEF LoadFails
    <3> QED
      BY <2>2, <3>2 DEF Loaded, LogPaths
  <2> QED
    BY <2>1, <2>2
<1> QED
  BY <1>1, <1>2, <1>3 DEF Loadable

(* load() throws at a file of these if the log's path is no directory, and *)
(* at nothing else.                                                        *)
LEMMA LoadableFails ==
  ASSUME NEW c, Loadable(c) PROVE LoadFails(c) <=> c.logpath \notin Dirs
<1>1. c # Torn /\ c.monitorpath # Absent /\ c.logpath # Absent /\ c.logpath # Empty
  BY SettingsAssumption DEF Loadable
<1> QED
  BY <1>1 DEF Loadable, LoadFails, Given

(* The commands that set a path set a directory.                           *)
LEMMA SetLoadable ==
  ASSUME Loadable(ctx), SetPort \/ SetMonitor \/ SetLogFileDir \/ SetStartup
  PROVE  Loadable(ctx')
<1> USE DEF Set, Loadable, Contents
<1>1. CASE SetPort
  BY <1>1 DEF SetPort
<1>2. CASE SetMonitor
  BY <1>2 DEF SetMonitor
<1>3. CASE SetLogFileDir
  BY <1>3 DEF SetLogFileDir, LogPaths
<1>4. CASE SetStartup
  BY <1>4 DEF SetStartup
<1> QED
  BY <1>1, <1>2, <1>3, <1>4

LEMMA PathNext == ASSUME SettingsInv, PathInv, [Next]_vars PROVE PathInv'
<1>1. CASE Start
  <2>1. file[cfgpath] \in Contents \cup {Torn} /\ ~LoadFails(file[cfgpath])
    BY <1>1 DEF Start, SettingsInv, SettingsTypeOK
  <2>2. CASE UNCHANGED <<up, ctx, sp>>
    BY <1>1, <2>2 DEF Start, PathInv
  <2>3. CASE ~UNCHANGED <<up, ctx, sp>>
    <3>1. PICK garbage \in BOOLEAN : ctx' = Loaded(file[cfgpath], garbage) /\ ctx'.logpath \notin Dirs
      BY <1>1, <2>3 DEF Start
    <3>2. Loadable(ctx')
      BY <2>1, <3>1, LoadedIsLoadable
    <3> QED
      BY <1>1, <3>1, <3>2 DEF Start, PathInv
  <2> QED
    BY <2>2, <2>3
<1>2. CASE StartFails
  BY <1>2 DEF StartFails, PathInv
<1>3. CASE Stop
  <2>1. ~up' /\ saved' = saved
    BY <1>3 DEF Stop
  <2> QED
    BY <2>1 DEF PathInv
<1>4. CASE SetPort \/ SetMonitor \/ SetLogFileDir \/ SetStartup
  <2>1. up /\ up' /\ changed' /\ saved' = saved
    BY <1>4 DEF SetPort, SetMonitor, SetLogFileDir, SetStartup, Set
  <2> QED
    BY <1>4, <2>1, SetLoadable DEF PathInv
<1>5. CASE SaveOpen
  BY <1>5 DEF SaveOpen, PathInv
<1>6. CASE SaveWrite
  <2>1. up /\ Loadable(ctx) /\ ctx # Torn
    BY <1>6, SettingsAssumption DEF SaveWrite, SettingsInv, PathInv, Loadable
  <2> QED
    BY <1>6, <2>1 DEF SaveWrite, PathInv
<1>7. CASE UNCHANGED settings
  BY <1>7 DEF settings, PathInv
<1>8. UNCHANGED vars => UNCHANGED settings
  BY DEF vars
<1>9. Next => \/ Start \/ StartFails \/ Stop \/ SaveOpen \/ SaveWrite \/ UNCHANGED settings
              \/ SetPort \/ SetMonitor \/ SetLogFileDir \/ SetStartup
  BY DEF Next, Begin, End, Serve, Command
<1> QED
  BY <1>1, <1>2, <1>3, <1>4, <1>5, <1>6, <1>7, <1>8, <1>9

(* LoadsWithLogDirectory for every installation: what the refutation of    *)
(* SavedConfigLoads comes to.                                              *)
THEOREM SavedNeedsLogDirectory == Spec => []LoadsWithLogDirectory
<1>1. Init => PathInv
  BY DEF Init, SettingsInit, PathInv
<1>2. IInv /\ PathInv /\ [Next]_vars => PathInv'
  BY PathNext DEF IInv
<1>3. IInv /\ PathInv => LoadsWithLogDirectory
  BY LoadableFails DEF IInv, SettingsInv, PathInv, LoadsWithLogDirectory
<1> QED
  BY <1>1, <1>2, <1>3, Invariance, PTL DEF Spec

(* A process that has accepted max_cli connections serves nobody any more  *)
(* but those it serves, until it ends, though all of them may have gone    *)
(* (main(): Clients only grows).                                           *)
FullForGood ==
  [][threads = max_cli => \/ ~up'
                          \/ threads' = max_cli /\ Connected' \subseteq Connected]_vars

(* FullForGood for every max_cli and any number of clients: what the       *)
(* refutation of DroppedOnlyAtMax comes to.                                *)
THEOREM FullStaysFull == Spec => FullForGood
<1> DEFINE Shut == threads = max_cli =>
                     ~up' \/ (threads' = max_cli /\ Connected' \subseteq Connected)
<1>1. IInv /\ [Next]_vars => [Shut]_vars
  <2> SUFFICES ASSUME IInv, Next, threads = max_cli, up'
               PROVE  threads' = max_cli /\ Connected' \subseteq Connected
    OBVIOUS
  <2>1. max_cli \in Nat /\ conn \in [Terminals -> {"none", "open", "dropped"}]
    BY ListenerAssumption DEF IInv, ListenerInv, ListenerTypeOK
  <2>2. CASE Begin \/ Command
    BY <2>2 DEF Begin, Command, listener, Connected
  <2>3. CASE End
    BY <2>3 DEF End, Stop
  <2>4. CASE AcceptFails
    BY <2>1, <2>4 DEF AcceptFails
  <2>5. ASSUME NEW k \in Terminals, Accept(k) \/ Hangup(k)
        PROVE  threads' = max_cli /\ Connected' \subseteq Connected
    BY <2>1, <2>5 DEF Accept, Hangup, Connected
  <2> QED
    BY <2>2, <2>3, <2>4, <2>5 DEF Next, Serve
<1> QED
  BY <1>1, Invariance, PTL DEF Spec, FullForGood
=============================================================================
