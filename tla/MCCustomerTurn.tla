--------------------------- MODULE MCCustomerTurn ---------------------------
(* Small instances of CustomerTurn for TLC. *)
EXTENDS CustomerTurn, TLC

CONSTANTS first, order, question, payment, confirmation

\* What an answer to each message may do; the first one is not answered here.
AllKinds ==
  first :> {} @@
  order :> {<<"prepare">>} @@
  question :> {<<>>, <<"show">>} @@
  payment :> {<<"claim", "owner">>} @@
  confirmation :> {<<"reply">>, <<"confirm", "reply">>}
OneAtATime == {{order}, {question}, {payment}, {confirmation}}

\* An order, and its confirmation before the order is answered.
OrderThenConfirm ==
  [m \in Turns |->
     CASE m = order -> {<<"prepare">>} [] m = confirmation -> {<<"confirm">>} [] OTHER -> {}]
Together == {{order, confirmation}}

\* A question, answered in words.
Worded == [m \in Turns |-> IF m = question THEN {<<"reply">>} ELSE {}]
Alone == {{question}}
=============================================================================
