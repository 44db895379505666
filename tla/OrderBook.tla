----------------------------- MODULE OrderBook -----------------------------
(***************************************************************************)
(* Drafts, orders, stock and what each order is owed: the order tools of   *)
(* customers (tools/orders.ts), the state machine every status change goes *)
(* through (orders.ts), the owner's two-step shipping commands             *)
(* (fulfilment-commands.ts) and inventory imports (inventory.ts).          *)
(*                                                                         *)
(* Each of them is one IMMEDIATE transaction, so it is one action here;    *)
(* what interleaves is the order of customers, redelivered messages,       *)
(* owner, courier and imports between a summary and its confirmation.      *)
(* A draft is named by the message that prepared it, and so is the order   *)
(* booked from it.                                                         *)
(***************************************************************************)
EXTENDS Integers, FiniteSets

CONSTANTS
  Customers, Products,
  Messages,       \* customers' messages: a draft is prepared by one of them
  Legacy,         \* orders already in the database
  Buyer,          \* the customer of a message or of an old order
  Baskets,        \* quantities by product
  Prices,
  Cost(_, _),     \* total of a basket at a price list
  Files,          \* inventory files: for some products price, stock, active
  MaxQty,
  OwnerMessages,
  Text,           \* Text[m]: the exact command of an owner's message
  None

Orders == Messages \cup Legacy
OrderStatuses == {"placed", "confirmed", "paid", "shipped", "delivered", "cancelled"}
Commands == [verb : {"prepare", "confirm", "cancel"}, order : Orders,
             target : {"shipped", "delivered"}]

\* Price lists.
Quotes == [Products -> Prices]

ASSUME OrderBookAssumption ==
  /\ Messages \cap Legacy = {}
  /\ None \notin Messages \cup OwnerMessages
  /\ Buyer \in [Orders -> Customers]
  /\ MaxQty \in Nat
  /\ Baskets \subseteq [Products -> 0..MaxQty]
  /\ [p \in Products |-> 0] \in Baskets
  /\ Prices \subseteq Nat
  /\ \A b \in Baskets, q \in Quotes : Cost(b, q) \in Nat
  /\ Text \in [OwnerMessages -> Commands]
  /\ \A f \in Files : /\ DOMAIN f \subseteq Products
                     /\ f \in [DOMAIN f -> [stock : Nat, price : Prices, active : BOOLEAN]]
  /\ IsFiniteSet(Orders)

VARIABLES
  stock, active, price,  \* products
  supplied,  \* units of a product on hand at its last import, held ones included
  draft,     \* order_drafts.status, by the message that prepared it
  basket,    \* items of the draft, and of the order booked from it
  quote,     \* their prices
  bookedBy,  \* confirmed_event_key
  overdue,   \* awaiting drafts past ORDER_DRAFT_TTL_HOURS
  order,     \* orders.status
  owed,      \* debits minus credits of the ledger rows of an order
  intent,    \* order_fulfilment_intents.status, by source_event_key
  from,      \* from_status
  usedBy,    \* confirm_event_key
  lapsed     \* pending intents older than ten minutes

shelfVars == <<stock, active, price, supplied>>
draftVars == <<draft, basket, quote, bookedBy, overdue>>
orderVars == <<order, owed>>
intentVars == <<intent, from, usedBy, lapsed>>
orderBookVars == <<shelfVars, draftVars, orderVars, intentVars>>

DraftStates == {"none", "awaiting_confirmation", "superseded", "confirmed"}
IntentStates == {"none", "pending", "confirmed", "cancelled", "expired"}

TypeOK ==
  /\ stock \in [Products -> Nat]
  /\ active \in [Products -> BOOLEAN]
  /\ price \in Quotes
  /\ supplied \in [Products -> Nat]
  /\ draft \in [Messages -> DraftStates]
  /\ basket \in [Orders -> Baskets]
  /\ quote \in [Orders -> Quotes]
  /\ bookedBy \in [Messages -> Messages \cup {None}]
  /\ overdue \subseteq Messages
  /\ order \in [Orders -> OrderStatuses \cup {"absent"}]
  /\ owed \in [Orders -> Int]
  /\ intent \in [OwnerMessages -> IntentStates]
  /\ from \in [OwnerMessages -> OrderStatuses \cup {"absent"}]
  /\ usedBy \in [OwnerMessages -> OwnerMessages \cup {None}]
  /\ lapsed \subseteq OwnerMessages

-----------------------------------------------------------------------------
(* The state machine of orders. *)

Total(o) == Cost(basket[o], quote[o])

\* Mutation of Allowed: a shipped order may still be cancelled.
AllowedAfterShipping(current, next) ==
  next \in CASE current = "placed" -> {"confirmed", "cancelled"}
             [] current = "confirmed" -> {"paid", "cancelled"}
             [] current = "paid" -> {"shipped", "cancelled"}
             [] current = "shipped" -> {"delivered", "cancelled"}
             [] OTHER -> {}

\* ALLOWED_TRANSITIONS.
Allowed(current, next) ==
  next \in CASE current = "placed" -> {"confirmed", "cancelled"}
             [] current = "confirmed" -> {"paid", "cancelled"}
             [] current = "paid" -> {"shipped", "cancelled"}
             [] current = "shipped" -> {"delivered"}
             [] OTHER -> {}

\* Statuses whose units have left `stock`.
Holding == {"confirmed", "paid", "shipped", "delivered"}

\* The units of a product that orders took.
Units(o, p) == {o} \X (1 .. basket[o][p])
HeldUnits(p) == UNION {Units(o, p) : o \in {x \in Orders : order[x] \in Holding}}
Held(p) == Cardinality(HeldUnits(p))

\* Mutation of InStock: the check forgets the quantity.
SomeInStock(b) == \A p \in Products : b[p] > 0 => stock[p] > 0

InStock(b) == \A p \in Products : b[p] <= stock[p]

Reserve(b) == stock' = [p \in Products |-> stock[p] - b[p]]

\* Mutation of Restocked: any cancellation puts the units back.
RestockedAlways(o) == stock' = [p \in Products |-> stock[p] + basket[o][p]]

\* An order cancelled before it was confirmed had reserved nothing.
Restocked(o) ==
  stock' = IF order[o] = "placed" THEN stock
           ELSE [p \in Products |-> stock[p] + basket[o][p]]

\* Mutation of Credited: only a reserved order is credited.
CreditedIfReserved(o) ==
  owed' = [owed EXCEPT ![o] = IF order[o] = "placed" THEN @ ELSE @ - Total(o)]

\* Mutation of Credited: the debt is struck off instead of reversed.
CreditedOutstanding(o) == owed' = [owed EXCEPT ![o] = 0]

\* The debit was written at creation, so any cancellation reverses it.
Credited(o) == owed' = [owed EXCEPT ![o] = @ - Total(o)]

\* transitionOrderStatus: status, stock and ledger in one transaction, all or
\* nothing.
Transition(o, next) ==
  /\ Allowed(order[o], next)
  /\ order' = [order EXCEPT ![o] = next]
  /\ CASE next = "confirmed" -> InStock(basket[o]) /\ Reserve(basket[o]) /\ UNCHANGED owed
       [] next = "cancelled" -> Restocked(o) /\ Credited(o)
       [] OTHER -> UNCHANGED <<stock, owed>>

-----------------------------------------------------------------------------

EmptyBasket == [p \in Products |-> 0]

Init ==
  /\ price \in Quotes
  /\ basket \in {[o \in Orders |-> IF o \in Legacy THEN b ELSE EmptyBasket] : b \in Baskets}
  /\ quote = [o \in Orders |-> price]
  /\ order \in {[o \in Orders |-> IF o \in Legacy THEN s ELSE "absent"]
                  : s \in {"placed", "confirmed", "paid"}}
  /\ owed = [o \in Orders |-> IF o \in Legacy THEN Total(o) ELSE 0]
  /\ stock \in {[p \in Products |-> n] : n \in 0..MaxQty}
  /\ supplied = [p \in Products |-> stock[p] + Held(p)]
  /\ active = [p \in Products |-> TRUE]
  /\ draft = [m \in Messages |-> "none"]
  /\ bookedBy = [m \in Messages |-> None]
  /\ overdue = {}
  /\ intent = [m \in OwnerMessages |-> "none"]
  /\ from = [m \in OwnerMessages |-> "absent"]
  /\ usedBy = [m \in OwnerMessages |-> None]
  /\ lapsed = {}

-----------------------------------------------------------------------------
(* Customers. *)

Available(b) == \A p \in Products : b[p] > 0 => active[p]

\* Mutation of Superseded: the older summary stays open.
NotSuperseded(c) == draft

\* A customer has one summary to confirm.
Superseded(c) ==
  [d \in Messages |-> IF Buyer[d] = c /\ draft[d] = "awaiting_confirmation"
                      THEN "superseded" ELSE draft[d]]

\* Mutation of PrepareOrder: a turn that runs again prepares its summary again.
PrepareOrderAgain(m) ==
  /\ draft[m] # "awaiting_confirmation"
  /\ \E b \in Baskets :
       /\ b # EmptyBasket /\ Available(b) /\ InStock(b)
       /\ basket' = [basket EXCEPT ![m] = b]
  /\ quote' = [quote EXCEPT ![m] = price]
  /\ draft' = [Superseded(Buyer[m]) EXCEPT ![m] = "awaiting_confirmation"]
  /\ UNCHANGED <<shelfVars, bookedBy, overdue, orderVars, intentVars>>

\* prepare_order.  A message that prepared a draft before gets that one back,
\* and nothing changes.
PrepareOrder(m) ==
  /\ draft[m] = "none"
  /\ \E b \in Baskets :
       /\ b # EmptyBasket /\ Available(b) /\ InStock(b)
       /\ basket' = [basket EXCEPT ![m] = b]
  /\ quote' = [quote EXCEPT ![m] = price]
  /\ draft' = [Superseded(Buyer[m]) EXCEPT ![m] = "awaiting_confirmation"]
  /\ UNCHANGED <<shelfVars, bookedBy, overdue, orderVars, intentVars>>

DraftExpires(d) ==
  /\ draft[d] = "awaiting_confirmation" /\ d \notin overdue
  /\ overdue' = overdue \cup {d}
  /\ UNCHANGED <<shelfVars, draft, basket, quote, bookedBy, orderVars, intentVars>>

PricesStand(d) == \A p \in Products : basket[d][p] > 0 => quote[d][p] = price[p]

\* Mutation of Confirmable: a message may confirm once more, another summary.
ConfirmableAgain(m, d) ==
  /\ Buyer[d] = Buyer[m] /\ draft[d] = "awaiting_confirmation" /\ d \notin overdue
  /\ d # m

\* What message m may confirm: not what it prepared itself, and once.
Confirmable(m, d) ==
  /\ Buyer[d] = Buyer[m] /\ draft[d] = "awaiting_confirmation" /\ d \notin overdue
  /\ d # m
  /\ \A e \in Messages : bookedBy[e] # m

\* confirm_order, by the model or the turn's closing step: the order is booked
\* and its stock reserved, or nothing changes.
ConfirmOrder(m, d) ==
  /\ Confirmable(m, d)
  /\ Available(basket[d]) /\ PricesStand(d) /\ InStock(basket[d])
  /\ draft' = [draft EXCEPT ![d] = "confirmed"]
  /\ bookedBy' = [bookedBy EXCEPT ![d] = m]
  /\ order' = [order EXCEPT ![d] = "confirmed"]
  /\ owed' = [owed EXCEPT ![d] = @ + Total(d)]
  /\ Reserve(basket[d])
  /\ UNCHANGED <<active, price, supplied, basket, quote, overdue, intentVars>>

\* update_order_status: the customer's own order, confirmed or cancelled.
CustomerChangesOrder(o) ==
  /\ \E next \in {"confirmed", "cancelled"} : Transition(o, next)
  /\ UNCHANGED <<active, price, supplied, draftVars, intentVars>>

-----------------------------------------------------------------------------
(* Payment provider, courier and inventory. *)

\* checkTransitionAuthority: what an integration may report.
IntegrationReports(o) ==
  /\ \E next \in {"paid", "shipped", "delivered"} : Transition(o, next)
  /\ UNCHANGED <<active, price, supplied, draftVars, intentVars>>

\* importInventoryCsv: the file's rows replace price, stock and availability.
ImportInventory(file) ==
  LET listed == DOMAIN file
  IN /\ stock' = [p \in Products |-> IF p \in listed THEN file[p].stock ELSE stock[p]]
     /\ supplied' = [p \in Products |->
                       IF p \in listed THEN file[p].stock + Held(p) ELSE supplied[p]]
     /\ price' = [p \in Products |-> IF p \in listed THEN file[p].price ELSE price[p]]
     /\ active' = [p \in Products |-> IF p \in listed THEN file[p].active ELSE active[p]]
     /\ UNCHANGED <<draftVars, orderVars, intentVars>>

-----------------------------------------------------------------------------
(* The owner's two-step commands. *)

IntentLapses(i) ==
  /\ intent[i] = "pending" /\ i \notin lapsed
  /\ lapsed' = lapsed \cup {i}
  /\ UNCHANGED <<shelfVars, draftVars, orderVars, intent, from, usedBy>>

\* expireOldIntents.
Expired ==
  [i \in OwnerMessages |-> IF intent[i] = "pending" /\ i \in lapsed THEN "expired" ELSE intent[i]]

\* pendingIntent.
Waiting == {i \in OwnerMessages : intent[i] = "pending" /\ i \notin lapsed}

\* The older action is cancelled for the new one.
Replaced == [i \in OwnerMessages |-> IF i \in Waiting THEN "cancelled" ELSE Expired[i]]

\* A command that prepared an action before is answered and changes nothing,
\* and so does one the state machine refuses.
PrepareFulfilment(m) ==
  LET t == Text[m]
  IN /\ t.verb = "prepare"
     /\ intent[m] = "none"
     /\ Allowed(order[t.order], t.target)
     /\ intent' = [Replaced EXCEPT ![m] = "pending"]
     /\ from' = [from EXCEPT ![m] = order[t.order]]
     /\ UNCHANGED <<shelfVars, draftVars, orderVars, usedBy, lapsed>>

Fresh(m) == \A i \in OwnerMessages : usedBy[i] # m

Matches(m, i) == Text[i].order = Text[m].order /\ Text[i].target = Text[m].target

\* The action waiting is the one named: it is applied, or given up when the
\* order has moved on.
ConfirmFulfilment(m, i) ==
  LET o == Text[m].order
  IN /\ Text[m].verb = "confirm" /\ Fresh(m)
     /\ i \in Waiting /\ Matches(m, i)
     /\ IF order[o] = from[i]
        THEN /\ Transition(o, Text[m].target)
             /\ intent' = [Expired EXCEPT ![i] = "confirmed"]
        ELSE /\ intent' = [Expired EXCEPT ![i] = "cancelled"]
             /\ UNCHANGED <<order, stock, owed>>
     /\ usedBy' = [usedBy EXCEPT ![i] = m]
     /\ UNCHANGED <<active, price, supplied, draftVars, from, lapsed>>

\* A confirmation without its action only tidies up what has expired.
ConfirmNothing(m) ==
  /\ Text[m].verb \in {"confirm", "cancel"} /\ Fresh(m)
  /\ Text[m].verb = "confirm" => ~\E i \in Waiting : Matches(m, i)
  /\ Text[m].verb = "cancel" => Waiting = {}
  /\ intent' = Expired
  /\ UNCHANGED <<shelfVars, draftVars, orderVars, from, usedBy, lapsed>>

CancelFulfilment(m, i) ==
  /\ Text[m].verb = "cancel" /\ Fresh(m)
  /\ i \in Waiting
  /\ intent' = [Expired EXCEPT ![i] = "cancelled"]
  /\ usedBy' = [usedBy EXCEPT ![i] = m]
  /\ UNCHANGED <<shelfVars, draftVars, orderVars, from, lapsed>>

-----------------------------------------------------------------------------

CustomerNext ==
  \/ \E m \in Messages : PrepareOrder(m) \/ DraftExpires(m)
  \/ \E m, d \in Messages : ConfirmOrder(m, d)
  \/ \E o \in Orders : CustomerChangesOrder(o)

OwnerNext ==
  \/ \E m \in OwnerMessages : PrepareFulfilment(m) \/ ConfirmNothing(m) \/ IntentLapses(m)
  \/ \E m, i \in OwnerMessages : ConfirmFulfilment(m, i) \/ CancelFulfilment(m, i)

OutsideNext ==
  \/ \E o \in Orders : IntegrationReports(o)
  \/ \E file \in Files : ImportInventory(file)

OrderNext == CustomerNext \/ OwnerNext \/ OutsideNext

OrderSpec == Init /\ [][OrderNext]_orderBookVars

-----------------------------------------------------------------------------
(* Properties. *)

\* Every unit is on the shelf or held by exactly the orders that reserved it:
\* confirming takes all items or none, cancelling gives back once what was
\* taken and nothing else, over any order of bookings, cancellations, shipments
\* and imports (transitionOrderStatus).
StockAccounted == \A p \in Products : stock[p] + Held(p) = supplied[p]

\* What an order that stands was booked for.
Price(o) == IF order[o] \in {"absent", "cancelled"} THEN 0 ELSE Total(o)

\* Without payments a live order is owed its total and a cancelled or unbooked
\* one nothing: the debit of the booking is reversed once, from any status.
DebtMatchesOrder == \A o \in Orders : owed[o] = Price(o)

\* A message books at most one order however often its turn is run again, and
\* never the summary it asked for itself (confirmPendingOrderDraft).
OneBookingPerMessage ==
  \A d, e \in Messages :
    bookedBy[d] # None => bookedBy[d] # d /\ (bookedBy[e] = bookedBy[d] => e = d)

\* A customer never has two summaries that a confirmation could mean, and the
\* owner never two shipping actions.
OneOpenChoice ==
  /\ \A d, e \in Messages :
       /\ draft[d] = "awaiting_confirmation" /\ draft[e] = "awaiting_confirmation"
       /\ Buyer[d] = Buyer[e]
       => d = e
  /\ \A i, j \in OwnerMessages : intent[i] = "pending" /\ intent[j] = "pending" => i = j

\* What the owner was told is shipped or delivered stays so: no later
\* cancellation, redelivered confirmation or replaced action takes it back.
ReportedFulfilmentStands ==
  \A i \in OwnerMessages : intent[i] = "confirmed" =>
    order[Text[i].order] \in {Text[i].target, "delivered"}

-----------------------------------------------------------------------------
(* The promise. *)

Stage(o) ==
  CASE order[o] \in {"confirmed", "paid"} -> "reserved"
    [] order[o] \in {"shipped", "delivered"} -> "sent"
    [] OTHER -> order[o]

Booked == INSTANCE BookedOrders WITH
  stage <- [o \in Orders |-> Stage(o)],
  items <- [o \in Orders |-> IF order[o] = "absent" THEN EmptyBasket ELSE basket[o]],
  bill <- [o \in Orders |-> IF order[o] = "absent" THEN 0 ELSE Total(o)],
  shelf <- stock

\* A draft is turned into an order once, with units that are all there; neither a
\* later summary nor a later price changes an order, and whoever cancels it,
\* from whatever status, gives back what it took (confirmPendingOrderDraft,
\* transitionOrderStatus).
ImplementsBookedOrders == Booked!Spec

\* A lapsed intent is gone, although its row says so only after the next message.
ActionAtDesk(i) ==
  CASE intent[i] = "pending" -> IF i \in lapsed THEN "gone" ELSE "waiting"
    [] intent[i] = "confirmed" -> "done"
    [] intent[i] \in {"cancelled", "expired"} -> "gone"
    [] OTHER -> "none"

ShippingDesk == INSTANCE TwoStepDesk WITH
  Messages <- OwnerMessages,
  action <- [i \in OwnerMessages |-> ActionAtDesk(i)],
  decidedBy <- usedBy

\* A shipping action is decided once and by one message, the one that waits is
\* the last one prepared, and none comes back (handleOwnerFulfilmentCommand).
ImplementsShippingDesk == ShippingDesk!Spec

DraftAtDesk(d) ==
  CASE draft[d] = "awaiting_confirmation" -> IF d \in overdue THEN "gone" ELSE "waiting"
    [] draft[d] = "superseded" -> "gone"
    [] draft[d] = "confirmed" -> "done"
    [] OTHER -> "none"

MessagesOf(c) == {m \in Messages : Buyer[m] = c}

DraftDesk(c) == INSTANCE TwoStepDesk WITH
  Messages <- MessagesOf(c),
  action <- [d \in MessagesOf(c) |-> DraftAtDesk(d)],
  decidedBy <- [d \in MessagesOf(c) |-> bookedBy[d]]

\* Whatever the other customers do, a customer's summary is booked once and by one
\* message of his own, the one that waits is the last one prepared, and none comes
\* back (prepareOrderDraft, confirmPendingOrderDraft).
ImplementsDraftDesks == \A c \in Customers : DraftDesk(c)!Spec
=============================================================================
