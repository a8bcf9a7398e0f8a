---------------------------- MODULE MCLifecycle -----------------------------
(* Constants for model checking Lifecycle.                                 *)
EXTENDS Lifecycle

CONSTANTS d1, d2, p1, a, b, other

TwoDirs == {d1, d2}
OnePort == {p1}
TwoTexts == {a, b}
TwoFiles == {Etc, other}

Installed(log, port) ==
  [port |-> port, monitorpath |-> d1, logpath |-> log, console |-> FALSE,
   level |-> "INFO", startup |-> a]

(* A complete file, one that names no log, one with an empty LogPath, and  *)
(* one without a port.                                                     *)
First == {Installed(d1, DefaultPort), Installed(Absent, Absent),
          Installed(Empty, DefaultPort), Installed(d1, Empty)}
Complete == {Installed(d1, DefaultPort)}
=============================================================================
