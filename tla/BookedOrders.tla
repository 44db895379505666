---------------------------- MODULE BookedOrders ----------------------------
(***************************************************************************)
(* What the order book promises of an order, whatever customers, owner,    *)
(* payment provider, courier and imports do: it takes its units from the   *)
(* shelf once and only if they are all there, its items and its total      *)
(* stand from then on, and it gives back what it took, once, if it is      *)
(* cancelled before it is sent.                                            *)
(***************************************************************************)
EXTENDS Integers

CONSTANTS Orders, Products

VARIABLES
  stage,  \* of an order
  items,  \* its quantities
  bill,   \* its total
  shelf   \* units of a product that nobody holds

vars == <<stage, items, bill, shelf>>

Nothing == [p \in Products |-> 0]

Init ==
  /\ stage \in [Orders -> {"absent", "placed", "reserved"}]
  /\ items \in [Orders -> [Products -> Nat]]
  /\ bill \in [Orders -> Nat]
  /\ shelf \in [Products -> Nat]
  /\ \A o \in Orders : stage[o] = "absent" => items[o] = Nothing /\ bill[o] = 0

\* The units of an order leave the shelf together, or not at all.
Take(o) ==
  /\ \A p \in Products : items'[o][p] <= shelf[p]
  /\ stage' = [stage EXCEPT ![o] = "reserved"]
  /\ shelf' = [p \in Products |-> shelf[p] - items'[o][p]]

\* A new order, of any items and total.
Book(o) ==
  /\ stage[o] = "absent"
  /\ items'[o] \in [Products -> Nat] /\ items' = [items EXCEPT ![o] = items'[o]]
  /\ bill'[o] \in Nat /\ bill' = [bill EXCEPT ![o] = bill'[o]]
  /\ Take(o)

\* An old one, placed without its units.
Reserve(o) ==
  /\ stage[o] = "placed" /\ Take(o)
  /\ UNCHANGED <<items, bill>>

Send(o) ==
  /\ stage[o] = "reserved"
  /\ stage' = [stage EXCEPT ![o] = "sent"]
  /\ UNCHANGED <<items, bill, shelf>>

Cancel(o) ==
  /\ stage[o] \in {"placed", "reserved"}
  /\ stage' = [stage EXCEPT ![o] = "cancelled"]
  /\ shelf' = IF stage[o] = "placed" THEN shelf
              ELSE [p \in Products |-> shelf[p] + items[o][p]]
  /\ UNCHANGED <<items, bill>>

Count ==
  /\ shelf' \in [Products -> Nat]
  /\ UNCHANGED <<stage, items, bill>>

Next == Count \/ \E o \in Orders : Book(o) \/ Reserve(o) \/ Send(o) \/ Cancel(o)

Spec == Init /\ [][Next]_vars
=============================================================================
