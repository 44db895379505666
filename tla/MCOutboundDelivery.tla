------------------------- MODULE MCOutboundDelivery -------------------------
(* Small instances of OutboundDelivery for TLC. *)
EXTENDS OutboundDelivery, TLC

CONSTANTS turn, turn2, stop, start, busy, busy2, alert, c1, s1, s2, b1, b2

OneCustomer == [k \in Keys |-> c1]
KindOf ==
  turn :> "turn" @@ turn2 :> "turn" @@ stop :> "stop" @@ start :> "start"
  @@ busy :> "busy" @@ busy2 :> "busy" @@ alert :> "alert"

Consents == {{turn, stop, start}}
Everything == {{turn, turn2}, {turn, stop, start}, {busy, busy2}, {turn, busy}, {turn, alert}}
=============================================================================
