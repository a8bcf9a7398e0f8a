------------------------------ MODULE Settings ------------------------------
(***************************************************************************)
(* The configuration: the file it is loaded from, the copy in LMBCTX that  *)
(* the "set" commands change, "save", and what a start makes of the file.  *)
(*                                                                         *)
(* A path is a directory, or a directory with the name of the log file     *)
(* appended: load() turns the first into the second, save() writes down    *)
(* whichever the context holds.                                            *)
(***************************************************************************)
EXTENDS Naturals

CONSTANTS
  Dirs,         (* The directories that exist.                             *)
  DefaultLog,   (* /var/log/LMBd/, the LogPath of a file without one.      *)
  DefaultMon,   (* /var/spool/LMBd, its monitorpath.                       *)
  Ports,        (* The attached serial ports list_ports() finds.           *)
  DefaultPort,  (* /dev/ttyUSB0.                                           *)
  Texts,        (* Start-up messages.                                      *)
  Etc,          (* /etc/LMBd.conf, where save() writes.                    *)
  Files,        (* The files --config may name.                            *)
  Empty,        (* The empty string, as a port or a LogPath.               *)
  Absent,       (* A key the file does not have.                           *)
  Torn,         (* A file whose writing was cut short.                     *)
  FirstFiles    (* What a file may hold when the system is installed.      *)

Levels      == {"DBUG", "INFO", "NOTE", "WARN", "EROR", "CRIT"}
LogFile(d)  == <<d, "LMBd.Log">>
LogPaths    == Dirs \cup {DefaultLog} \cup {LogFile(d) : d \in Dirs}
Contents    == [port : Ports \cup {DefaultPort, Absent, Empty},
                monitorpath : Dirs \cup {DefaultMon, Absent},
                logpath : LogPaths \cup {Absent, Empty},
                console : BOOLEAN,
                level : Levels \cup {Absent},
                startup : Texts]

ASSUME SettingsAssumption ==
  /\ Etc \in Files
  /\ FirstFiles \subseteq Contents
  /\ Torn \notin Contents
  /\ Absent \notin Dirs \cup Ports \cup LogPaths
  /\ Absent \notin Levels /\ Absent # DefaultPort /\ Empty \notin LogPaths

VARIABLES
  file,       (* What each configuration file holds.                       *)
  cfgpath,    (* The file this installation starts with.                   *)
  up,         (* The process runs.                                         *)
  whyDown,    (* How its last start or run ended.                          *)
  ctx,        (* The settings in LMBCTX.                                   *)
  sp,         (* The port the Serial object was made for.                  *)
  saving,     (* save() has opened the file and not yet written it.        *)
  saved,      (* Ghost: the settings the last completed save wrote down.   *)
  changed     (* Ghost: set since they were loaded or saved.               *)

settings == <<file, cfgpath, up, whyDown, ctx, sp, saving, saved, changed>>

Given(value, default) == IF value = Absent THEN default ELSE value

(* What load() finds of a path, and what it throws at.                     *)
LoadFails(c) ==
  c # Torn => \/ Given(c.monitorpath, DefaultMon) \notin Dirs
              \/ Given(c.logpath, DefaultLog) \notin Dirs \cup {Empty}

(* A level name toLevel does not know, the default "Warning" among them,   *)
(* is CRIT.  consolelog is written only when it is true, and is else what  *)
(* the memory held.                                                        *)
Loaded(c, garbage) ==
  [port        |-> Given(c.port, DefaultPort),
   monitorpath |-> Given(c.monitorpath, DefaultMon),
   logpath     |-> IF c.logpath = Empty THEN DefaultLog
                   ELSE LogFile(Given(c.logpath, DefaultLog)),
   console     |-> c.console \/ garbage,
   level       |-> Given(c.level, "CRIT"),
   startup     |-> c.startup]

SettingsInit ==
  /\ file \in [Files -> FirstFiles]
  /\ cfgpath \in Files
  /\ up = FALSE
  /\ whyDown = "never started"
  /\ ctx = Loaded(file[cfgpath], FALSE)
  /\ sp = "null"
  /\ saving = FALSE
  /\ saved = Torn
  /\ changed = FALSE

(* systemd starts the process: load, the log file, the first driver        *)
(* session, which makes the Serial object or dereferences NULL.            *)
Start ==
  /\ ~up
  /\ ~LoadFails(file[cfgpath])
  /\ \E garbage \in BOOLEAN :
       LET c == Loaded(file[cfgpath], garbage)
       IN  IF c.logpath \in Dirs
             THEN whyDown' = "log not opened" /\ UNCHANGED <<up, ctx, sp>>
             ELSE IF c.port = Empty
                    THEN whyDown' = "no port" /\ UNCHANGED <<up, ctx, sp>>
                    ELSE /\ up' = TRUE /\ whyDown' = "" /\ ctx' = c /\ sp' = c.port
  /\ changed' = FALSE
  /\ UNCHANGED <<file, cfgpath, saving, saved>>

(* Mutant: main() goes on with its defaults when load() throws.            *)
StartAnyway ==
  /\ ~up /\ LoadFails(file[cfgpath])
  /\ up' = TRUE /\ whyDown' = "" /\ sp' = ctx.port
  /\ UNCHANGED <<file, cfgpath, ctx, saving, saved, changed>>

StartFails ==
  /\ ~up /\ LoadFails(file[cfgpath])
  /\ whyDown' = "config not loaded"
  /\ UNCHANGED <<file, cfgpath, up, ctx, sp, saving, saved, changed>>

(* The process ends, perhaps in the middle of a save.                      *)
Stop ==
  /\ up
  /\ up' = FALSE /\ whyDown' = "stopped" /\ sp' = "null" /\ saving' = FALSE
  /\ UNCHANGED <<file, cfgpath, ctx, saved, changed>>

(* The commands.  Each holds io_mutex, so none runs during a save.         *)
Set(c) ==
  /\ up /\ ~saving
  /\ ctx' = c
  /\ changed' = TRUE
  /\ UNCHANGED <<file, cfgpath, up, whyDown, sp, saving, saved>>

SetPort       == \E p \in Ports : Set([ctx EXCEPT !.port = p])
SetMonitor    == \E d \in Dirs : Set([ctx EXCEPT !.monitorpath = d])
SetLogFileDir == \E d \in Dirs : Set([ctx EXCEPT !.logpath = d])
SetStartup    == \E t \in Texts : Set([ctx EXCEPT !.startup = t])

(* write_json truncates the file, then writes it.                          *)
SaveOpen ==
  /\ up /\ ~saving
  /\ saving' = TRUE
  /\ file' = [file EXCEPT ![Etc] = Torn]
  /\ saved' = Torn
  /\ UNCHANGED <<cfgpath, up, whyDown, ctx, sp, changed>>

(* Mutant: the start-up messages are not written.                          *)
SaveWriteWithoutStartup ==
  /\ saving
  /\ saving' = FALSE
  /\ \E t \in Texts : file' = [file EXCEPT ![Etc] = [ctx EXCEPT !.startup = t]]
  /\ saved' = ctx
  /\ changed' = FALSE
  /\ UNCHANGED <<cfgpath, up, whyDown, ctx, sp>>

SaveWrite ==
  /\ saving
  /\ saving' = FALSE
  /\ file' = [file EXCEPT ![Etc] = ctx]
  /\ saved' = ctx
  /\ changed' = FALSE
  /\ UNCHANGED <<cfgpath, up, whyDown, ctx, sp>>

SettingsNext ==
  \/ Start \/ StartFails \/ Stop
  \/ SetPort \/ SetMonitor \/ SetLogFileDir \/ SetStartup
  \/ SaveOpen \/ SaveWrite

SettingsTypeOK ==
  /\ file \in [Files -> Contents \cup {Torn}]
  /\ cfgpath \in Files
  /\ up \in BOOLEAN /\ saving \in BOOLEAN /\ changed \in BOOLEAN
  /\ whyDown \in {"", "never started", "stopped", "config not loaded", "log not opened", "no port"}
  /\ saved = Torn \/ saved \in Contents
  /\ sp \in Ports \cup {DefaultPort, "null"}

(* What "save" wrote down and a start loads again are the same settings,   *)
(* as long as the start finds the file save() writes.  Except for the log: *)
(* load() appends the file name, and a file that lacks ConsoleLogging true *)
(* leaves consolelog to chance.                                            *)
LoadsWhatWasSaved ==
  up /\ ~changed /\ ~saving /\ saved # Torn /\ cfgpath = Etc =>
    /\ ctx.port = saved.port /\ ctx.monitorpath = saved.monitorpath
    /\ ctx.startup = saved.startup /\ ctx.level = saved.level
    /\ saved.console => ctx.console

(* A process that runs, and is not in the middle of a save, has a whole    *)
(* configuration file: when a save was cut short by the end of the         *)
(* process, no start gets past load(), and nothing repairs the file.       *)
WholeFileWhileUp == up /\ ~saving /\ cfgpath = Etc => file[Etc] # Torn

(* A configuration written by "save" can be loaded: the daemon that saved  *)
(* it comes up again.                                                      *)
SavedConfigLoads == saved # Torn => ~LoadFails(file[Etc])
=============================================================================
