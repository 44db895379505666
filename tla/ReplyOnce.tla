------------------------------ MODULE ReplyOnce ------------------------------
(***************************************************************************)
(* What the send ledger promises about messages over an unreliable         *)
(* provider: a message is with the provider at most once at a time, it is  *)
(* handed over again only when the provider has refused it, and it reaches *)
(* the recipient at most once.                                             *)
(***************************************************************************)
CONSTANT Replies

VARIABLES
  attempt,  \* "open", "tried", "confirmed" or "unknown", for each reply
  transit,  \* replies the provider may still deliver
  arrived   \* replies the recipient has

vars == <<attempt, transit, arrived>>

Attempts == {"open", "tried", "confirmed", "unknown"}

Init ==
  /\ attempt = [k \in Replies |-> "open"]
  /\ transit = {}
  /\ arrived = {}

HandOver(k) ==
  /\ attempt[k] = "open" /\ k \notin arrived \cup transit
  /\ attempt' = [attempt EXCEPT ![k] = "tried"]
  /\ transit' = transit \cup {k}
  /\ UNCHANGED arrived

Arrive(k) ==
  /\ k \in transit /\ k \notin arrived
  /\ transit' = transit \ {k}
  /\ arrived' = arrived \cup {k}
  /\ UNCHANGED attempt

\* The provider refused it: it may be tried again.
Refuse(k) ==
  /\ attempt[k] = "tried" /\ k \in transit
  /\ attempt' = [attempt EXCEPT ![k] = "open"]
  /\ transit' = transit \ {k}
  /\ UNCHANGED arrived

Confirm(k) ==
  /\ attempt[k] = "tried" /\ k \in arrived
  /\ attempt' = [attempt EXCEPT ![k] = "confirmed"]
  /\ UNCHANGED <<transit, arrived>>

GiveUp(k) ==
  /\ attempt[k] = "tried"
  /\ attempt' = [attempt EXCEPT ![k] = "unknown"]
  /\ UNCHANGED <<transit, arrived>>

Next ==
  \E k \in Replies : HandOver(k) \/ Arrive(k) \/ Refuse(k) \/ Confirm(k) \/ GiveUp(k)

Spec == Init /\ [][Next]_vars
=============================================================================
