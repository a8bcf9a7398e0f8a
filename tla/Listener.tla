------------------------------ MODULE Listener ------------------------------
(***************************************************************************)
(* main()'s accept loop.  Every accepted connection gets a thread, whose   *)
(* handle goes into LMBCTX::Clients; the loop compares the length of that  *)
(* vector with max_cli.                                                    *)
(***************************************************************************)
EXTENDS Naturals, FiniteSets

CONSTANTS
  Terminals,  (* The clients that connect.                                 *)
  max_cli     (* 5 in main().                                              *)

ASSUME ListenerAssumption == max_cli \in Nat \ {0} /\ IsFiniteSet(Terminals)

VARIABLES
  conn,       (* What each client has: no connection, an open one, or one  *)
              (* the daemon dropped.                                       *)
  threads     (* Clients.size().                                           *)

listener == <<conn, threads>>

Connected == {k \in Terminals : conn[k] = "open"}

ListenerInit ==
  /\ conn = [k \in Terminals |-> "none"]
  /\ threads = 0

(* Mutant: the comparison lets one more in.                                *)
AcceptOneMore(k) ==
  /\ conn[k] = "none"
  /\ IF threads <= max_cli
       THEN conn' = [conn EXCEPT ![k] = "open"] /\ threads' = threads + 1
       ELSE conn' = [conn EXCEPT ![k] = "dropped"] /\ UNCHANGED threads

Accept(k) ==
  /\ conn[k] = "none"
  /\ IF threads < max_cli
       THEN conn' = [conn EXCEPT ![k] = "open"] /\ threads' = threads + 1
       ELSE conn' = [conn EXCEPT ![k] = "dropped"] /\ UNCHANGED threads

(* accept() failed and returned -1, which the loop takes for a connection: *)
(* a thread starts on it and ends at once.                                 *)
AcceptFails ==
  /\ threads < max_cli
  /\ threads' = threads + 1
  /\ UNCHANGED conn

(* The client goes, and its thread ends; the vector keeps the handle.      *)
Hangup(k) ==
  /\ conn[k] # "none"
  /\ conn' = [conn EXCEPT ![k] = "none"]
  /\ UNCHANGED threads

ListenerTypeOK ==
  /\ conn \in [Terminals -> {"none", "open", "dropped"}]
  /\ threads \in 0..max_cli

(* No more than max_cli clients are served at a time, however they come    *)
(* and go.                                                                 *)
AtMostMax == Cardinality(Connected) <= max_cli

(* A connection is dropped only when max_cli clients are being served      *)
(* ("Dropping Client Connection as we are at our Max").                    *)
DroppedOnlyAtMax ==
  [][\A k \in Terminals : conn[k] = "none" /\ conn'[k] = "dropped"
       => Cardinality(Connected) = max_cli]_listener
=============================================================================
