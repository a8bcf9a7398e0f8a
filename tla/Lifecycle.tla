----------------------------- MODULE Lifecycle ------------------------------
(***************************************************************************)
(* The process over its starts and ends, seen from its terminals: a "set"  *)
(* or "save" needs a connection, and a connection needs a process that     *)
(* loaded its configuration.  The end of the process ends all of them.     *)
(***************************************************************************)
EXTENDS Settings, Listener

vars == <<settings, listener>>

Init == SettingsInit /\ ListenerInit

Begin == (Start \/ StartFails) /\ UNCHANGED listener

End ==
  /\ Stop
  /\ conn' = [k \in Terminals |-> "none"]
  /\ threads' = 0

Serve ==
  /\ up
  /\ AcceptFails \/ \E k \in Terminals : Accept(k) \/ Hangup(k)
  /\ UNCHANGED settings

(* A command that has begun is finished even if its client goes.           *)
Command ==
  /\ Connected # {} \/ saving
  /\ SetPort \/ SetMonitor \/ SetLogFileDir \/ SetStartup \/ SaveOpen \/ SaveWrite
  /\ UNCHANGED listener

Next == Begin \/ End \/ Serve \/ Command

Spec == Init /\ [][Next]_vars

TypeOK == SettingsTypeOK /\ ListenerTypeOK
=============================================================================
