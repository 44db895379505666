---------------------------- MODULE MCOrderBook ----------------------------
(* Small instances of OrderBook for TLC. *)
EXTENDS OrderBook, FiniteSetsExt, TLC

CONSTANTS c1, c2, p1, p2, m1, m2, m3, old, w1, w2, w3, w4

BuyerOf == [o \in Orders |-> IF o = old THEN c2 ELSE c1]

\* Nothing, two of one product, one of each.
OneOrBoth == {EmptyBasket, [p \in Products |-> IF p = p1 THEN 2 ELSE 0], [p \in Products |-> 1]}

CostOf(b, q) == MapThenSumSet(LAMBDA p : b[p] * q[p], Products)

\* The messages of one customer are alike.
MessageSymmetry == Permutations({m1, m2})

Line(s, pr, a) == [stock |-> s, price |-> pr, active |-> a]
DearerOrCheaper == {[p \in {p1} |-> Line(1, 2, TRUE)], [p \in Products |-> Line(2, 1, p = p1)]}

Command(v, o, t) == [verb |-> v, order |-> o, target |-> t]
ShipOrDeliver ==
  [w \in OwnerMessages |->
     CASE w = w1 -> Command("prepare", old, "shipped")
       [] w = w2 -> Command("confirm", old, "shipped")
       [] w = w3 -> Command("prepare", old, "delivered")
       [] OTHER -> Command("cancel", old, "shipped")]

\* One unit of everything on the shelf, an old order of one of each.
MCInit ==
  /\ Init
  /\ \A p \in Products : stock[p] = 1 + basket[old][p] /\ price[p] = 1 /\ basket[old][p] = 1
  /\ order[old] # "confirmed"

\* Where the owner is silent, a third message brings one more summary after an
\* order was booked: what the confirmation that booked it meets when it is run again.
Quiet == \A w \in OwnerMessages : intent[w] = "none"
LateSummary ==
  draft'[m3] # "none" =>
    /\ Quiet'
    /\ \A d \in Messages : bookedBy'[d] # m3
    /\ draft[m3] # "none" \/ \E d \in Messages : bookedBy[d] # None

MCOrderSpec == MCInit /\ [][OrderNext /\ LateSummary]_orderBookVars
=============================================================================
