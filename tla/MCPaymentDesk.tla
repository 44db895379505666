--------------------------- MODULE MCPaymentDesk ---------------------------
(* Small instances of PaymentDesk for TLC. *)
EXTENDS PaymentDesk

CONSTANTS c1, p1, o1, o2, k1, k2, k3, x1, x2, y1, y2, y3, y4, y5, y6, y7, y8, y9,
          y10, y11, r1

OneCustomer == [o \in Orders |-> c1]
TwoUnits == {EmptyBasket, [p \in Products |-> 2]}
CostOf(b, q) == MapThenSumSet(LAMBDA p : b[p] * q[p], Products)
NoText == [m \in OwnerMessages |-> CHOOSE t \in Commands : TRUE]

\* The payment of the first order, told again without order or method, and an
\* instalment on the second order.
Claim(o, a, m) == [customer |-> c1, order |-> o, amount |-> a, method |-> m, reference |-> None,
                   closing |-> o = None]
Payments == [k \in Claims |-> CASE k = k1 -> Claim(o1, 2, "bank")
                                [] k = k2 -> Claim(None, 2, "unknown")
                                [] OTHER -> Claim(o2, 1, "wallet")]
CashAndBank == [o \in Orders |-> IF o = o1 THEN "bank" ELSE "cod"]

Pay(v, d, k, ref) == [verb |-> v, decision |-> d, claim |-> k, reference |-> ref]
Decisions ==
  [m \in PayMessages |->
     CASE m = y1 -> Pay("prepare", "approve", k1, x1)
       [] m = y2 -> Pay("confirm", "approve", k1, x1)
       [] m = y3 -> Pay("prepare", "reverse", k1, None)
       [] m = y4 -> Pay("confirm", "reverse", k1, None)
       [] m = y5 -> Pay("prepare", "approve", k2, x1)
       [] m = y6 -> Pay("confirm", "approve", k2, x1)
       [] m = y7 -> Pay("prepare", "reject", k3, None)
       [] m = y8 -> Pay("confirm", "reject", k3, None)
       [] m = y10 -> Pay("prepare", "approve", k3, x2)
       [] m = y11 -> Pay("confirm", "approve", k3, x2)
       [] OTHER -> Pay("cancel", "reject", k1, None)]

OrderOfCase == [r \in RefundCases |-> o1]

\* Two old orders of two units each, and three units on the shelf.
MCShopInit ==
  /\ ShopInit
  /\ \A p \in Products : stock[p] = 3
  /\ \A o \in Orders : basket[o] # EmptyBasket /\ order[o] # "confirmed"

MCShopSpec == MCShopInit /\ [][ShopNext]_shopVars
=============================================================================
