---------------------------- MODULE TwoStepDesk ----------------------------
(***************************************************************************)
(* What is promised of an action that one message prepares and another     *)
(* decides: a shipping or payment action of the owner, the order summary   *)
(* of a customer.  One action waits at a time, it is decided once, one     *)
(* message decides one action, and what became of it is never changed.     *)
(* A message is named by its event key.                                    *)
(***************************************************************************)
EXTENDS Naturals

CONSTANTS Messages, None

VARIABLES
  action,    \* the action a message prepared
  decidedBy  \* the message that decided it

vars == <<action, decidedBy>>

Waits(a) == action[a] = "waiting"

\* One action may wait already.
Init ==
  /\ action \in [Messages -> {"none", "waiting"}]
  /\ \A a, b \in Messages : Waits(a) /\ Waits(b) => a = b
  /\ decidedBy = [a \in Messages |-> None]

\* A new action replaces the one that waits.
Prepare(m) ==
  /\ action[m] = "none"
  /\ action' = [a \in Messages |-> IF a = m THEN "waiting"
                                   ELSE IF Waits(a) THEN "gone" ELSE action[a]]
  /\ UNCHANGED decidedBy

\* It is carried out, or given up.
Decide(m, a) ==
  /\ Waits(a)
  /\ \A b \in Messages : decidedBy[b] # m
  /\ \E how \in {"done", "gone"} : action' = [action EXCEPT ![a] = how]
  /\ decidedBy' = [decidedBy EXCEPT ![a] = m]

\* Time runs out, or it is withdrawn by a message that leaves no trace.
Drop(a) ==
  /\ Waits(a)
  /\ action' = [action EXCEPT ![a] = "gone"]
  /\ UNCHANGED decidedBy

Next ==
  \/ \E m \in Messages : Prepare(m) \/ Drop(m)
  \/ \E m, a \in Messages : Decide(m, a)

Spec == Init /\ [][Next]_vars
=============================================================================
