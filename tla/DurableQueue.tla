---------------------------- MODULE DurableQueue ----------------------------
(***************************************************************************)
(* What the inbound queue promises, whatever its leases, workers, retries  *)
(* and restarts do: a message is accepted while there is room, stays open  *)
(* until it is finished or buried as failed, a finished message is never   *)
(* worked on again, and a buried one only after it is accepted again.      *)
(***************************************************************************)
EXTENDS Integers, FiniteSets

CONSTANTS Messages, Capacity

VARIABLE phase

TypeOK == phase \in [Messages -> {"absent", "open", "finished", "buried"}]

OpenMessages == {m \in Messages : phase[m] = "open"}

Init == phase = [m \in Messages |-> "absent"]

Accept(m) ==
  /\ phase[m] \in {"absent", "buried"}
  /\ Cardinality(OpenMessages) < Capacity
  /\ phase' = [phase EXCEPT ![m] = "open"]

Finish(m) ==
  /\ phase[m] = "open"
  /\ phase' = [phase EXCEPT ![m] = "finished"]

Bury(m) ==
  /\ phase[m] = "open"
  /\ phase' = [phase EXCEPT ![m] = "buried"]

Next == \E m \in Messages : Accept(m) \/ Finish(m) \/ Bury(m)

Spec == Init /\ [][Next]_phase
=============================================================================
