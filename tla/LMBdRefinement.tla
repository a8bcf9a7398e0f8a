--------------------------- MODULE LMBdRefinement ---------------------------
(***************************************************************************)
(* The daemon implements MessageBoard while the line works: what the sign  *)
(* physically displays - its lit slots and their packets - changes as one  *)
(* atomic replacement per request would have it, for every interleaving of *)
(* CLI sessions, the file monitor and main()'s start-up messages.          *)
(***************************************************************************)
EXTENDS LMBd

CONSTANTS Changing, Quiet, Returned

(* The values MessageBoard tells apart.                                    *)
ASSUME BoardAssumption ==
  /\ Changing \notin Contents
  /\ {Quiet, Returned} \cap Jobs = {}
  /\ Quiet # Returned

(* The slot between setMessage's change of the context and the mask.       *)
Rewriting(p) == \E t \in Threads : pc[t] \in {"send", "mask"} /\ job[t].pos = p

(* What has to be true of the world outside: nothing fails but the start   *)
(* of the monitor, and no command names position 0.                        *)
Works == Faults \subseteq {"monitor"} /\ 0 \notin Positions

(* On a working line the sign mirrors the context, except for the one slot *)
(* that is being rewritten: there the context already has the request.     *)
Mirror ==
  /\ line = "up" /\ missed = {} /\ StaysUp
  /\ \A t \in Threads :
       /\ pc[t] \in {"set", "send", "mask"} => greeted
       /\ pc[t] = "send" => job[t].msg # Empty
       /\ pc[t] \in {"send", "mask"} =>
            /\ displayedmsgs[job[t].pos] = job[t].msg
            /\ job[t].pos \in msgdisplay <=> job[t].msg # Empty
  /\ \A p \in Slots : ~Rewriting(p) => (p \in mask <=> p \in msgdisplay)

(* A packet mix of two texts maps to the packets themselves, which is no   *)
(* value MessageBoard lets a slot have.                                    *)
Displayed(p) ==
  CASE Rewriting(p)                               -> Changing
    [] ~Rewriting(p) /\ p \notin mask             -> Empty
    [] OTHER -> IF \E m \in Contents : page[p] = Whole(m)
                  THEN CHOOSE m \in Contents : page[p] = Whole(m)
                  ELSE page[p]

Asked(t) ==
  CASE job[t] # NoJob /\ pc[t] \in {"want", "open", "query", "set", "send", "mask"} -> job[t]
    [] job[t] # NoJob /\ pc[t] = "fini" -> Returned
    [] OTHER -> Quiet

Writer ==
  IF \E t \in Threads : pc[t] \in {"send", "mask"}
    THEN CHOOSE t \in Threads : pc[t] \in {"send", "mask"}
    ELSE Nobody

Board == INSTANCE MessageBoard WITH
  Users <- Threads,
  Positions <- Positions \cup Slots,
  shown <- [p \in Slots |-> Displayed(p)],
  want <- [t \in Threads |-> Asked(t)],
  writer <- Writer

(* Every behaviour of the daemon on a blank sign and a working line is one *)
(* of the abstract sign (Driver_DX::setMessage under io_mutex).            *)
ImplementsBoard == Board!Spec
=============================================================================
