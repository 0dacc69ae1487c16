------------------------------- MODULE PourPromise -------------------------------
(***************************************************************************)
(* What a coffee pour promises, whatever happens to Redis, PostgreSQL or   *)
(* the physics service (requirements 5 and 6 of the design, kept by the    *)
(* coffee_pour handler): it is settled once, either refused or shown to    *)
(* the whole room, and only a simulated stain that was shown is kept.      *)
(***************************************************************************)

CONSTANT Pour

VARIABLES
  outcome,   \* [Pour -> "none", "refused", "simulated" or "simplified"]
  kept       \* pours whose stain is kept for those who come later

promise == <<outcome, kept>>

Start == outcome = [p \in Pour |-> "none"] /\ kept = {}

Refuse(p) ==
  /\ outcome[p] = "none"
  /\ outcome' = [outcome EXCEPT ![p] = "refused"]
  /\ UNCHANGED kept

Show(p) ==
  /\ outcome[p] = "none"
  /\ \E stain \in {"simulated", "simplified"} : outcome' = [outcome EXCEPT ![p] = stain]
  /\ UNCHANGED kept

Keep(p) ==
  /\ outcome[p] = "simulated" /\ p \notin kept
  /\ kept' = kept \cup {p}
  /\ UNCHANGED outcome

Promise == Start /\ [][\E p \in Pour : Refuse(p) \/ Show(p) \/ Keep(p)]_promise

=============================================================================
