---------------------------- MODULE MCOwnerTurn ----------------------------
(* Small instances of OwnerTurn for TLC. *)
EXTENDS OwnerTurn, TLC

CONSTANTS
  ship, shipAgain, confirmShip, cancelShip,
  approve, approveAgain, confirmApprove, cancelPayment, question

Fulfilment == {ship, shipAgain, confirmShip, cancelShip}
DeskOf == [m \in Turns |->
             IF m \in Fulfilment THEN "fulfilment"
             ELSE IF m = question THEN "none" ELSE "payment"]
Job == [m \in Turns |->
          CASE m \in {ship, shipAgain, approve, approveAgain} -> "prepare"
            [] m \in {confirmShip, confirmApprove} -> "confirm"
            [] m \in {cancelShip, cancelPayment} -> "cancel"
            [] OTHER -> "ask"]
Answers == [m \in Turns |->
              IF m = question THEN {<<>>, <<"report">>, <<"words", "other words">>} ELSE {}]

Case(before, then) == [waiting |-> before, coming |-> then]
Everything ==
  {Case({ship}, {shipAgain, confirmShip}), Case({ship}, {shipAgain, cancelShip}),
   Case({approve}, {approveAgain, confirmApprove}), Case({approve}, {cancelPayment}),
   Case({approve}, {question})}
=============================================================================
