---------------------------- MODULE MessageBoard ----------------------------
(***************************************************************************)
(* What the daemon promises its users while the serial line works: the     *)
(* sign is an array of message slots, and "message <pos> <text>",          *)
(* "clear <pos>" and a write to a monitored file each replace one slot, as *)
(* if the replacement happened at one instant between the moment the       *)
(* request is made and the moment it returns.  While a slot is being       *)
(* rewritten it may show a mixture of two texts; no other slot may, and    *)
(* only one slot is rewritten at a time.                                   *)
(*                                                                         *)
(* LMBd.tla is the program, and is shown to implement this specification.  *)
(***************************************************************************)
EXTENDS Naturals

CONSTANTS
  Users,      (* Whoever can make a request: a CLI session, the file       *)
              (* monitor, the start-up code.                               *)
  Slots,      (* The positions the sign has.                               *)
  Positions,  (* The positions a request may name.                         *)
  Text,       (* The texts a slot can show.                                *)
  Empty,      (* A slot that shows nothing.                                *)
  Changing,   (* A slot that is being rewritten.                           *)
  Quiet,      (* A user that has no request.                               *)
  Returned,   (* A user whose request has taken effect or was refused.     *)
  Nobody      (* No user is rewriting a slot.                              *)

Contents == Text \cup {Empty}
Requests == [pos : Positions, msg : Contents]

VARIABLES
  shown,      (* What each slot of the sign shows.                         *)
  want,       (* What each user is waiting for.                            *)
  writer      (* The user whose request is rewriting a slot.               *)

vars == <<shown, want, writer>>

Init ==
  /\ shown = [p \in Slots |-> Empty]
  /\ want = [u \in Users |-> Quiet]
  /\ writer = Nobody

Ask(u) ==
  /\ want[u] = Quiet
  /\ \E r \in Requests : want' = [want EXCEPT ![u] = r]
  /\ UNCHANGED <<shown, writer>>

(* A request takes effect in two steps, Begin and Finish: between them     *)
(* nobody else's request can start.                                        *)
Begin(u) ==
  /\ want[u] \in Requests
  /\ want[u].pos \in Slots
  /\ writer = Nobody
  /\ writer' = u
  /\ shown' = [shown EXCEPT ![want[u].pos] = Changing]
  /\ UNCHANGED want

Finish(u) ==
  /\ writer = u
  /\ writer' = Nobody
  /\ shown' = [shown EXCEPT ![want[u].pos] = want[u].msg]
  /\ want' = [want EXCEPT ![u] = Returned]

Refuse(u) ==
  /\ want[u] \in Requests
  /\ want[u].pos \notin Slots
  /\ want' = [want EXCEPT ![u] = Returned]
  /\ UNCHANGED <<shown, writer>>

Return(u) ==
  /\ want[u] = Returned
  /\ want' = [want EXCEPT ![u] = Quiet]
  /\ UNCHANGED <<shown, writer>>

Next == \E u \in Users : Ask(u) \/ Begin(u) \/ Finish(u) \/ Refuse(u) \/ Return(u)

Spec == Init /\ [][Next]_vars
=============================================================================
