--------------------------- MODULE MCInboundQueue ---------------------------
(* Small instances of InboundQueue for TLC. *)
EXTENDS InboundQueue, TLC

CONSTANTS question, question2, command, stop, start, w1, w2, r1, r2

KindOf ==
  [e \in Events |-> CASE e = command -> "owner" [] e = stop -> "stop" [] e = start -> "start"
                      [] OTHER -> "customer"]

Together == {Events}
WithConsent == {{question, command}, {question, stop, start}}

SlotSymmetry == Permutations({w1, w2}) \cup Permutations({r1, r2})
=============================================================================
