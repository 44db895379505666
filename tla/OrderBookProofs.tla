-------------------------- MODULE OrderBookProofs --------------------------
(***************************************************************************)
(* Proofs about OrderBook for any number of customers, messages, products, *)
(* orders and owner commands, and any prices, baskets and inventory files. *)
(***************************************************************************)
EXTENDS OrderBook, FiniteSetTheorems, TLAPS

-----------------------------------------------------------------------------
(* Baskets and totals. *)

\* A booked quantity is a natural number (aggregateDraftItems).
LEMMA QuantityTyped ==
  ASSUME TypeOK, NEW o \in Orders, NEW p \in Products
  PROVE  basket[o][p] \in Nat
<1>1. basket[o] \in [Products -> 0..MaxQty]
  BY OrderBookAssumption DEF TypeOK
<1> QED
  BY <1>1, OrderBookAssumption

\* The total of an order is a natural number (validateOrderItems).
LEMMA TotalTyped ==
  ASSUME TypeOK, NEW o \in Orders
  PROVE  Total(o) \in Nat
<1>1. basket[o] \in Baskets /\ quote[o] \in Quotes
  BY DEF TypeOK
<1> QED
  BY <1>1, OrderBookAssumption DEF Total

\* The units of an order are as many as its quantity.
LEMMA UnitsFinite ==
  ASSUME TypeOK, NEW o \in Orders, NEW p \in Products
  PROVE  IsFiniteSet(Units(o, p)) /\ Cardinality(Units(o, p)) = basket[o][p]
<1> DEFINE n == basket[o][p]
<1>1. n \in Nat
  BY QuantityTyped
<1> HIDE DEF n
<1>2. IsFiniteSet(1..n) /\ Cardinality(1..n) = n
  BY <1>1, FS_Interval
<1>3. IsFiniteSet({o}) /\ Cardinality({o}) = 1
  BY FS_Singleton
<1>4. /\ IsFiniteSet({o} \X (1..n))
      /\ Cardinality({o} \X (1..n)) = Cardinality({o}) * Cardinality(1..n)
  BY <1>2, <1>3, FS_Product
<1>5. Cardinality({o} \X (1..n)) = n
  BY <1>1, <1>2, <1>3, <1>4
<1> QED
  BY <1>4, <1>5 DEF Units, n

HoldingOrders == {o \in Orders : order[o] \in Holding}

\* The units that a set of orders took.
TakenBy(S, p) == UNION {Units(o, p) : o \in S}

\* The units taken by any set of orders are finitely many.
LEMMA TakenFinite ==
  ASSUME basket \in [Orders -> Baskets], NEW p \in Products, NEW S, S \subseteq Orders
  PROVE  IsFiniteSet(TakenBy(S, p)) /\ Cardinality(TakenBy(S, p)) \in Nat
<1>1. IsFiniteSet(Orders) /\ IsFiniteSet(0..MaxQty)
  BY OrderBookAssumption, FS_Interval
<1>2. IsFiniteSet(Orders \X (0..MaxQty))
  BY <1>1, FS_Product
<1>3. ASSUME NEW x \in S PROVE Units(x, p) \subseteq Orders \X (0..MaxQty)
  <2>1. basket[x][p] \in 0..MaxQty
    BY OrderBookAssumption
  <2> QED
    BY <2>1, OrderBookAssumption DEF Units
<1>4. TakenBy(S, p) \in SUBSET (Orders \X (0..MaxQty))
  BY <1>3 DEF TakenBy
<1>5. IsFiniteSet(TakenBy(S, p))
  BY <1>2, <1>4, FS_Subset
<1> QED
  BY <1>5, FS_CardinalityType

\* The held units are those the holding orders took.
LEMMA HeldIsTaken == \A p : Held(p) = Cardinality(TakenBy(HoldingOrders, p))
BY DEF Held, HeldUnits, TakenBy, HoldingOrders

\* Only finitely many units are held.
LEMMA HeldFinite == basket \in [Orders -> Baskets] => \A p \in Products : Held(p) \in Nat
<1>1. HoldingOrders \subseteq Orders
  BY DEF HoldingOrders
<1> QED
  BY <1>1, TakenFinite, HeldIsTaken

-----------------------------------------------------------------------------
(* Types. *)

\* A transition keeps the tables typed: a confirmation reserves only what is
\* there, a cancellation adds (transitionOrderStatus).
LEMMA TransitionTyped ==
  ASSUME TypeOK, NEW o \in Orders, NEW next \in OrderStatuses, Transition(o, next)
  PROVE  /\ stock' \in [Products -> Nat]
         /\ order' \in [Orders -> OrderStatuses \cup {"absent"}]
         /\ owed' \in [Orders -> Int]
<1>1. order' \in [Orders -> OrderStatuses \cup {"absent"}]
  BY DEF TypeOK, Transition
<1>2. stock \in [Products -> Nat] /\ owed \in [Orders -> Int]
  BY DEF TypeOK
<1>3. CASE next = "confirmed"
  <2>1. InStock(basket[o]) /\ Reserve(basket[o]) /\ UNCHANGED owed
    BY <1>3 DEF Transition
  <2>2. ASSUME NEW p \in Products PROVE stock[p] - basket[o][p] \in Nat
    BY <1>2, <2>1, QuantityTyped DEF InStock
  <2>3. stock' \in [Products -> Nat]
    BY <2>1, <2>2 DEF Reserve
  <2> QED
    BY <1>1, <1>2, <2>1, <2>3
<1>4. CASE next = "cancelled"
  <2>1. Restocked(o) /\ Credited(o)
    BY <1>4 DEF Transition
  <2>2. ASSUME NEW p \in Products PROVE stock[p] + basket[o][p] \in Nat
    BY <1>2, QuantityTyped
  <2>3. stock' \in [Products -> Nat]
    BY <1>2, <2>1, <2>2 DEF Restocked
  <2>4. owed' \in [Orders -> Int]
    BY <1>2, <2>1, TotalTyped DEF Credited
  <2> QED
    BY <1>1, <2>3, <2>4
<1>5. CASE next \notin {"confirmed", "cancelled"}
  <2>1. UNCHANGED <<stock, owed>>
    BY <1>5 DEF Transition
  <2> QED
    BY <1>1, <1>2, <2>1
<1> QED
  BY <1>3, <1>4, <1>5

\* The first state is typed.
LEMMA InitTyped == Init => TypeOK
<1> SUFFICES ASSUME Init PROVE TypeOK
  OBVIOUS
<1>1. price \in Quotes /\ quote = [o \in Orders |-> price]
  BY DEF Init
<1>2. EmptyBasket \in Baskets
  BY OrderBookAssumption DEF EmptyBasket
<1>3. basket \in [Orders -> Baskets]
  BY <1>2 DEF Init
<1>4. order \in [Orders -> OrderStatuses \cup {"absent"}]
  BY DEF Init, OrderStatuses
<1>5. stock \in [Products -> Nat]
  BY OrderBookAssumption DEF Init
<1>6. quote \in [Orders -> Quotes]
  BY <1>1
<1>7. ASSUME NEW o \in Orders PROVE Total(o) \in Nat
  BY <1>3, <1>6, OrderBookAssumption DEF Total
<1>8. owed \in [Orders -> Int]
  BY <1>7 DEF Init
<1>9. \A p \in Products : Held(p) \in Nat
  BY <1>3, HeldFinite
<1>10. supplied \in [Products -> Nat]
  <2>1. \A p \in Products : stock[p] + Held(p) \in Nat
    BY <1>5, <1>9
  <2> QED
    BY <2>1 DEF Init
<1>11. /\ active \in [Products -> BOOLEAN]
       /\ draft \in [Messages -> DraftStates]
       /\ bookedBy \in [Messages -> Messages \cup {None}]
       /\ overdue \subseteq Messages
       /\ intent \in [OwnerMessages -> IntentStates]
       /\ from \in [OwnerMessages -> OrderStatuses \cup {"absent"}]
       /\ usedBy \in [OwnerMessages -> OwnerMessages \cup {None}]
       /\ lapsed \subseteq OwnerMessages
  BY DEF Init, DraftStates, IntentStates
<1> QED
  BY <1>1, <1>3, <1>4, <1>5, <1>6, <1>8, <1>10, <1>11 DEF TypeOK

\* A booking takes only what is on the shelf.
LEMMA ReserveTyped ==
  ASSUME TypeOK, NEW o \in Orders, InStock(basket[o]), Reserve(basket[o])
  PROVE  stock' \in [Products -> Nat]
<1>1. stock \in [Products -> Nat]
  BY DEF TypeOK
<1>2. ASSUME NEW p \in Products PROVE stock[p] - basket[o][p] \in Nat
  BY <1>1, QuantityTyped DEF InStock
<1> QED
  BY <1>2 DEF Reserve

\* Customers keep the tables typed (tools/orders.ts).
LEMMA CustomerTyped == TypeOK /\ CustomerNext => TypeOK'
<1> SUFFICES ASSUME TypeOK, CustomerNext PROVE TypeOK'
  OBVIOUS
<1>0. Messages \subseteq Orders
  BY DEF Orders
<1>1. ASSUME NEW m \in Messages, PrepareOrder(m) PROVE TypeOK'
  <2>1. basket' \in [Orders -> Baskets]
    BY <1>0, <1>1 DEF TypeOK, PrepareOrder
  <2>2. quote' \in [Orders -> Quotes]
    BY <1>0, <1>1 DEF TypeOK, PrepareOrder
  <2>3. Superseded(Buyer[m]) \in [Messages -> DraftStates]
    BY DEF TypeOK, Superseded, DraftStates
  <2>4. draft' \in [Messages -> DraftStates]
    BY <1>1, <2>3 DEF PrepareOrder, DraftStates
  <2> QED
    BY <1>1, <2>1, <2>2, <2>4 DEF TypeOK, PrepareOrder, shelfVars, orderVars, intentVars
<1>2. ASSUME NEW m \in Messages, DraftExpires(m) PROVE TypeOK'
  BY <1>2 DEF TypeOK, DraftExpires, shelfVars, orderVars, intentVars
<1>3. ASSUME NEW m \in Messages, NEW d \in Messages, ConfirmOrder(m, d) PROVE TypeOK'
  <2>1. stock' \in [Products -> Nat]
    BY <1>0, <1>3, ReserveTyped DEF ConfirmOrder
  <2>2. draft' \in [Messages -> DraftStates]
    BY <1>3 DEF TypeOK, ConfirmOrder, DraftStates
  <2>3. bookedBy' \in [Messages -> Messages \cup {None}]
    BY <1>3 DEF TypeOK, ConfirmOrder
  <2>4. order' \in [Orders -> OrderStatuses \cup {"absent"}]
    BY <1>3 DEF TypeOK, ConfirmOrder, OrderStatuses
  <2>5. owed' \in [Orders -> Int]
    <3>1. Total(d) \in Nat
      BY <1>0, TotalTyped
    <3>2. owed \in [Orders -> Int] /\ d \in Orders
      BY <1>0 DEF TypeOK
    <3>3. owed[d] + Total(d) \in Int
      BY <3>1, <3>2
    <3> QED
      BY <1>3, <3>2, <3>3 DEF ConfirmOrder
  <2> QED
    BY <1>3, <2>1, <2>2, <2>3, <2>4, <2>5 DEF TypeOK, ConfirmOrder, intentVars
<1>4. ASSUME NEW o \in Orders, CustomerChangesOrder(o) PROVE TypeOK'
  <2>1. PICK next \in {"confirmed", "cancelled"} : Transition(o, next)
    BY <1>4 DEF CustomerChangesOrder
  <2>2. next \in OrderStatuses
    BY DEF OrderStatuses
  <2>3. /\ stock' \in [Products -> Nat]
        /\ order' \in [Orders -> OrderStatuses \cup {"absent"}]
        /\ owed' \in [Orders -> Int]
    BY <2>1, <2>2, TransitionTyped
  <2> QED
    BY <1>4, <2>3 DEF TypeOK, CustomerChangesOrder, draftVars, intentVars
<1> QED
  BY <1>1, <1>2, <1>3, <1>4 DEF CustomerNext

\* So do the owner's commands (fulfilment-commands.ts).
LEMMA OwnerTyped == TypeOK /\ OwnerNext => TypeOK'
<1> SUFFICES ASSUME TypeOK, OwnerNext PROVE TypeOK'
  OBVIOUS
<1>1. Expired \in [OwnerMessages -> IntentStates]
  BY DEF TypeOK, Expired, IntentStates
<1>2. Replaced \in [OwnerMessages -> IntentStates]
  BY <1>1 DEF Replaced, IntentStates
<1>3. ASSUME NEW m \in OwnerMessages
      PROVE Text[m].order \in Orders /\ Text[m].target \in {"shipped", "delivered"}
  <2>1. Text[m] \in Commands
    BY OrderBookAssumption
  <2> QED
    BY <2>1 DEF Commands
<1>4. ASSUME NEW m \in OwnerMessages, PrepareFulfilment(m) PROVE TypeOK'
  <2>1. intent' \in [OwnerMessages -> IntentStates]
    BY <1>2, <1>4 DEF PrepareFulfilment, IntentStates
  <2>2. from' \in [OwnerMessages -> OrderStatuses \cup {"absent"}]
    BY <1>3, <1>4 DEF TypeOK, PrepareFulfilment
  <2> QED
    BY <1>4, <2>1, <2>2 DEF TypeOK, PrepareFulfilment, shelfVars, draftVars, orderVars
<1>5. ASSUME NEW m \in OwnerMessages, ConfirmNothing(m) PROVE TypeOK'
  BY <1>1, <1>5 DEF TypeOK, ConfirmNothing, shelfVars, draftVars, orderVars
<1>6. ASSUME NEW m \in OwnerMessages, IntentLapses(m) PROVE TypeOK'
  BY <1>6 DEF TypeOK, IntentLapses, shelfVars, draftVars, orderVars
<1>7. ASSUME NEW m \in OwnerMessages, NEW i \in OwnerMessages, ConfirmFulfilment(m, i)
      PROVE TypeOK'
  <2>1. intent' \in [OwnerMessages -> IntentStates]
    BY <1>1, <1>7 DEF ConfirmFulfilment, IntentStates
  <2>2. usedBy' \in [OwnerMessages -> OwnerMessages \cup {None}]
    BY <1>7 DEF TypeOK, ConfirmFulfilment
  <2>3. /\ stock' \in [Products -> Nat]
        /\ order' \in [Orders -> OrderStatuses \cup {"absent"}]
        /\ owed' \in [Orders -> Int]
    <3>1. CASE order[Text[m].order] = from[i]
      <4>1. Transition(Text[m].order, Text[m].target)
        BY <1>7, <3>1 DEF ConfirmFulfilment
      <4>2. Text[m].order \in Orders /\ Text[m].target \in OrderStatuses
        BY <1>3 DEF OrderStatuses
      <4> QED
        BY <4>1, <4>2, TransitionTyped
    <3>2. CASE order[Text[m].order] # from[i]
      BY <1>7, <3>2 DEF TypeOK, ConfirmFulfilment
    <3> QED
      BY <3>1, <3>2
  <2> QED
    BY <1>7, <2>1, <2>2, <2>3 DEF TypeOK, ConfirmFulfilment, draftVars
<1>8. ASSUME NEW m \in OwnerMessages, NEW i \in OwnerMessages, CancelFulfilment(m, i)
      PROVE TypeOK'
  <2>1. intent' \in [OwnerMessages -> IntentStates]
    BY <1>1, <1>8 DEF CancelFulfilment, IntentStates
  <2> QED
    BY <1>8, <2>1 DEF TypeOK, CancelFulfilment, shelfVars, draftVars, orderVars
<1> QED
  BY <1>4, <1>5, <1>6, <1>7, <1>8 DEF OwnerNext

\* And payment provider, courier and imports (orders.ts, inventory.ts).
LEMMA OutsideTyped == TypeOK /\ OutsideNext => TypeOK'
<1> SUFFICES ASSUME TypeOK, OutsideNext PROVE TypeOK'
  OBVIOUS
<1>1. ASSUME NEW o \in Orders, IntegrationReports(o) PROVE TypeOK'
  <2>1. PICK next \in {"paid", "shipped", "delivered"} : Transition(o, next)
    BY <1>1 DEF IntegrationReports
  <2>2. next \in OrderStatuses
    BY DEF OrderStatuses
  <2>3. /\ stock' \in [Products -> Nat]
        /\ order' \in [Orders -> OrderStatuses \cup {"absent"}]
        /\ owed' \in [Orders -> Int]
    BY <2>1, <2>2, TransitionTyped
  <2> QED
    BY <1>1, <2>3 DEF TypeOK, IntegrationReports, draftVars, intentVars
<1>2. ASSUME NEW file \in Files, ImportInventory(file) PROVE TypeOK'
  <2>1. ASSUME NEW p \in DOMAIN file
        PROVE  file[p] \in [stock : Nat, price : Prices, active : BOOLEAN]
    BY OrderBookAssumption
  <2>2. ASSUME NEW p \in DOMAIN file
        PROVE  file[p].stock \in Nat /\ file[p].price \in Prices /\ file[p].active \in BOOLEAN
    BY <2>1
  <2>3. stock' \in [Products -> Nat]
    BY <1>2, <2>2 DEF TypeOK, ImportInventory
  <2>4. price' \in Quotes
    BY <1>2, <2>2 DEF TypeOK, ImportInventory, Quotes
  <2>5. active' \in [Products -> BOOLEAN]
    BY <1>2, <2>2, Zenon DEF TypeOK, ImportInventory
  <2>6. supplied' \in [Products -> Nat]
    <3>1. \A p \in DOMAIN file : p \in Products => file[p].stock + Held(p) \in Nat
      BY <2>2, HeldFinite DEF TypeOK
    <3> DEFINE s == [p \in Products |->
                       IF p \in DOMAIN file THEN file[p].stock + Held(p) ELSE supplied[p]]
    <3>2. supplied \in [Products -> Nat]
      BY DEF TypeOK
    <3>3. s \in [Products -> Nat]
      BY <3>1, <3>2
    <3> QED
      BY <1>2, <3>3 DEF ImportInventory
  <2> QED
    BY <1>2, <2>3, <2>4, <2>5, <2>6 DEF TypeOK, ImportInventory, draftVars, orderVars, intentVars
<1> QED
  BY <1>1, <1>2 DEF OutsideNext

\* Every step keeps every table typed.
LEMMA NextTyped == TypeOK /\ [OrderNext]_orderBookVars => TypeOK'
<1>1. TypeOK /\ UNCHANGED orderBookVars => TypeOK'
  BY DEF TypeOK, orderBookVars, shelfVars, draftVars, orderVars, intentVars
<1> QED
  BY <1>1, CustomerTyped, OwnerTyped, OutsideTyped DEF OrderNext

\* Stock never goes below zero and no total is lost: every table of the shop
\* keeps its type whatever customers, owner, courier and imports do.
THEOREM TypeCorrect == OrderSpec => []TypeOK
<1> QED
  BY InitTyped, NextTyped, PTL DEF OrderSpec

-----------------------------------------------------------------------------
(* Bookings and open choices. *)

\* Only a confirmation touches bookings (confirmPendingOrderDraft).
LEMMA BookingStep ==
  ASSUME [OrderNext]_orderBookVars
  PROVE  \/ bookedBy' = bookedBy
         \/ \E m, d \in Messages : ConfirmOrder(m, d)
BY Zenon DEF OrderNext, CustomerNext, OwnerNext, OutsideNext, PrepareOrder, DraftExpires,
   CustomerChangesOrder, PrepareFulfilment, ConfirmNothing, IntentLapses, ConfirmFulfilment,
   CancelFulfilment, IntegrationReports, ImportInventory, orderBookVars, draftVars

\* Nobody confirms with a message that confirmed before, or asked for the summary.
LEMMA BookedOnceStep ==
  TypeOK /\ OneBookingPerMessage /\ [OrderNext]_orderBookVars => OneBookingPerMessage'
<1> SUFFICES ASSUME TypeOK, OneBookingPerMessage, [OrderNext]_orderBookVars
             PROVE  OneBookingPerMessage'
  OBVIOUS
<1>1. CASE bookedBy' = bookedBy
  BY <1>1 DEF OneBookingPerMessage
<1>2. ASSUME NEW m \in Messages, NEW d \in Messages, ConfirmOrder(m, d)
      PROVE  OneBookingPerMessage'
  <2>1. d # m /\ \A e \in Messages : bookedBy[e] # m
    BY <1>2 DEF ConfirmOrder, Confirmable
  <2>2. \A e \in Messages : bookedBy'[e] = IF e = d THEN m ELSE bookedBy[e]
    BY <1>2 DEF ConfirmOrder, TypeOK
  <2> QED
    BY <2>1, <2>2 DEF OneBookingPerMessage
<1> QED
  BY <1>1, <1>2, BookingStep

\* A message books at most one order however often its turn is run again, and
\* never the summary it asked for itself.
THEOREM BookedOnce == OrderSpec => []OneBookingPerMessage
<1>1. Init => OneBookingPerMessage
  BY DEF Init, OneBookingPerMessage
<1> QED
  BY <1>1, BookedOnceStep, TypeCorrect, PTL DEF OrderSpec

\* One summary of a customer is open.
OneSummary ==
  \A d, e \in Messages :
    /\ draft[d] = "awaiting_confirmation" /\ draft[e] = "awaiting_confirmation"
    /\ Buyer[d] = Buyer[e]
    => d = e

\* One shipping action is pending.
OneAction == \A i, j \in OwnerMessages : intent[i] = "pending" /\ intent[j] = "pending" => i = j

\* A new summary closes the customer's older one; nothing else opens one.
LEMMA SummaryStep == TypeOK /\ OneSummary /\ [OrderNext]_orderBookVars => OneSummary'
<1> SUFFICES ASSUME TypeOK, OneSummary, [OrderNext]_orderBookVars PROVE OneSummary'
  OBVIOUS
<1>1. CASE draft' = draft
  BY <1>1 DEF OneSummary
<1>2. ASSUME NEW m \in Messages, PrepareOrder(m) PROVE OneSummary'
  <2>1. \A d \in Messages :
          draft'[d] = IF d = m THEN "awaiting_confirmation" ELSE Superseded(Buyer[m])[d]
    BY <1>2 DEF PrepareOrder, Superseded
  <2>2. ASSUME NEW d \in Messages, d # m, draft'[d] = "awaiting_confirmation"
        PROVE  draft[d] = "awaiting_confirmation" /\ Buyer[d] # Buyer[m]
    BY <2>1, <2>2 DEF Superseded
  <2> QED
    BY <2>2 DEF OneSummary
<1>3. ASSUME NEW m \in Messages, NEW d \in Messages, ConfirmOrder(m, d) PROVE OneSummary'
  <2>1. \A e \in Messages : draft'[e] = "awaiting_confirmation" => draft[e] = "awaiting_confirmation"
    BY <1>3 DEF TypeOK, ConfirmOrder
  <2> QED
    BY <2>1 DEF OneSummary
<1>4. \/ draft' = draft
      \/ \E m \in Messages : PrepareOrder(m)
      \/ \E m, d \in Messages : ConfirmOrder(m, d)
  BY Zenon DEF OrderNext, CustomerNext, OwnerNext, OutsideNext, DraftExpires,
     CustomerChangesOrder, PrepareFulfilment, ConfirmNothing, IntentLapses, ConfirmFulfilment,
     CancelFulfilment, IntegrationReports, ImportInventory, orderBookVars, draftVars
<1> QED
  BY <1>1, <1>2, <1>3, <1>4

\* A new action replaces the one waiting, or the one that ran out unnoticed.
LEMMA ActionStep == TypeOK /\ OneAction /\ [OrderNext]_orderBookVars => OneAction'
<1> SUFFICES ASSUME TypeOK, OneAction, [OrderNext]_orderBookVars PROVE OneAction'
  OBVIOUS
<1>1. CASE intent' = intent
  BY <1>1 DEF OneAction
<1>2. ASSUME NEW i \in OwnerMessages, Expired[i] = "pending" PROVE intent[i] = "pending"
  BY <1>2 DEF Expired
<1>3. ASSUME NEW i \in OwnerMessages PROVE Replaced[i] # "pending"
  BY DEF Replaced, Expired, Waiting
<1>4. ASSUME NEW m \in OwnerMessages, PrepareFulfilment(m) PROVE OneAction'
  <2>1. \A i \in OwnerMessages : intent'[i] = IF i = m THEN "pending" ELSE Replaced[i]
    BY <1>4 DEF PrepareFulfilment, Replaced
  <2> QED
    BY <1>3, <2>1 DEF OneAction
<1>5. ASSUME \A i \in OwnerMessages : intent'[i] = "pending" => Expired[i] = "pending"
      PROVE  OneAction'
  BY <1>2, <1>5 DEF OneAction
<1>6. ASSUME NEW m \in OwnerMessages, ConfirmNothing(m) PROVE OneAction'
  BY <1>5, <1>6 DEF ConfirmNothing
<1>7. ASSUME NEW m \in OwnerMessages, NEW i \in OwnerMessages,
             ConfirmFulfilment(m, i) \/ CancelFulfilment(m, i)
      PROVE  OneAction'
  <2>1. \A j \in OwnerMessages : intent'[j] = "pending" => Expired[j] = "pending"
    BY <1>7 DEF ConfirmFulfilment, CancelFulfilment, Expired
  <2> QED
    BY <1>5, <2>1
<1>8. \/ intent' = intent
      \/ \E m \in OwnerMessages : PrepareFulfilment(m) \/ ConfirmNothing(m)
      \/ \E m, i \in OwnerMessages : ConfirmFulfilment(m, i) \/ CancelFulfilment(m, i)
  BY Zenon DEF OrderNext, CustomerNext, OwnerNext, OutsideNext, PrepareOrder, DraftExpires,
     ConfirmOrder, CustomerChangesOrder, IntentLapses, IntegrationReports, ImportInventory,
     orderBookVars, intentVars
<1> QED
  BY <1>1, <1>4, <1>6, <1>7, <1>8

\* A customer never has two summaries that a yes could mean, and the owner never
\* two shipping actions that a confirmation could mean.
THEOREM OneChoice == OrderSpec => []OneOpenChoice
<1>1. Init => OneSummary /\ OneAction
  BY DEF Init, OneSummary, OneAction
<1>2. OneSummary /\ OneAction => OneOpenChoice
  BY DEF OneSummary, OneAction, OneOpenChoice
<1> QED
  BY <1>1, <1>2, SummaryStep, ActionStep, TypeCorrect, PTL DEF OrderSpec

-----------------------------------------------------------------------------
(* What a step does to the orders. *)

Moved(o, next) == Transition(o, next) /\ UNCHANGED <<supplied, draft, basket, quote>>
OrdersUntouched == UNCHANGED <<order, owed, stock, supplied, draft, basket, quote>>

\* An order is booked, moved along its state machine, or left alone.
LEMMA StepKinds ==
  ASSUME TypeOK, [OrderNext]_orderBookVars
  PROVE  \/ OrdersUntouched
         \/ \E m \in Messages : PrepareOrder(m)
         \/ \E m, d \in Messages : ConfirmOrder(m, d)
         \/ \E o \in Orders, next \in OrderStatuses : Moved(o, next)
         \/ \E file \in Files : ImportInventory(file)
<1>1. CASE UNCHANGED orderBookVars
  BY <1>1 DEF orderBookVars, orderVars, draftVars, shelfVars, OrdersUntouched
<1>2. ASSUME NEW m \in Messages, DraftExpires(m) PROVE OrdersUntouched
  BY <1>2 DEF DraftExpires, orderVars, shelfVars, OrdersUntouched
<1>3. ASSUME NEW o \in Orders, CustomerChangesOrder(o) \/ IntegrationReports(o)
      PROVE  \E next \in OrderStatuses : Moved(o, next)
  <2>1. PICK next \in {"confirmed", "cancelled", "paid", "shipped", "delivered"} :
               Transition(o, next)
    BY <1>3 DEF CustomerChangesOrder, IntegrationReports
  <2> QED
    BY <1>3, <2>1 DEF CustomerChangesOrder, IntegrationReports, draftVars, OrderStatuses, Moved
<1>4. ASSUME NEW m \in OwnerMessages,
             PrepareFulfilment(m) \/ ConfirmNothing(m) \/ IntentLapses(m)
      PROVE  OrdersUntouched
  BY <1>4 DEF PrepareFulfilment, ConfirmNothing, IntentLapses, orderVars, draftVars, shelfVars,
     OrdersUntouched
<1>5. ASSUME NEW m \in OwnerMessages, NEW i \in OwnerMessages, CancelFulfilment(m, i)
      PROVE  OrdersUntouched
  BY <1>5 DEF CancelFulfilment, orderVars, draftVars, shelfVars, OrdersUntouched
<1>6. ASSUME NEW m \in OwnerMessages, NEW i \in OwnerMessages, ConfirmFulfilment(m, i)
      PROVE  OrdersUntouched \/ \E o \in Orders, next \in OrderStatuses : Moved(o, next)
  <2>1. Text[m].order \in Orders /\ Text[m].target \in OrderStatuses
    BY OrderBookAssumption DEF Commands, OrderStatuses
  <2> QED
    BY <1>6, <2>1 DEF ConfirmFulfilment, draftVars, OrdersUntouched, Moved
<1> QED
  BY <1>1, <1>2, <1>3, <1>4, <1>5, <1>6 DEF OrderNext, CustomerNext, OwnerNext, OutsideNext

\* The state machine leaves no final status and enters none twice.
LEMMA MoveTyped ==
  ASSUME TypeOK, NEW o \in Orders, NEW next \in OrderStatuses, Moved(o, next)
  PROVE  /\ \A x \in Orders : order'[x] = IF x = o THEN next ELSE order[x]
         /\ order[o] \in {"placed", "confirmed", "paid", "shipped"}
         /\ order[o] = "shipped" => next = "delivered"
         /\ next = "confirmed" => order[o] = "placed"
         /\ next \in {"paid", "shipped", "delivered"} => order[o] \in Holding
         /\ next = "cancelled" /\ order[o] # "placed" => order[o] \in Holding
         /\ next # "placed"
<1>1. Allowed(order[o], next) /\ order' = [order EXCEPT ![o] = next]
  BY DEF Moved, Transition
<1>2. order[o] \in OrderStatuses \cup {"absent"}
  BY DEF TypeOK
<1>3. order \in [Orders -> OrderStatuses \cup {"absent"}]
  BY DEF TypeOK
<1>4. \A x \in Orders : order'[x] = IF x = o THEN next ELSE order[x]
  BY <1>1, <1>3
<1> QED
  BY <1>1, <1>2, <1>4 DEF Allowed, OrderStatuses, Holding

\* Only a confirmed summary has an order.
BookedInv == \A d \in Messages : draft[d] # "confirmed" => order[d] = "absent"

\* At first nothing is booked from a summary.
LEMMA BookedInit == Init => BookedInv
<1>1. Init => \A d \in Messages : d \notin Legacy /\ d \in Orders
  BY OrderBookAssumption DEF Orders
<1> QED
  BY <1>1 DEF Init, BookedInv

\* An order exists once its summary is confirmed, and not before (orders.ts).
LEMMA BookedStep == TypeOK /\ BookedInv /\ [OrderNext]_orderBookVars => BookedInv'
<1> SUFFICES ASSUME TypeOK, BookedInv, [OrderNext]_orderBookVars PROVE BookedInv'
  OBVIOUS
<1>0. Messages \subseteq Orders
  BY DEF Orders
<1>1. CASE OrdersUntouched
  BY <1>1 DEF OrdersUntouched, BookedInv
<1>2. ASSUME NEW m \in Messages, PrepareOrder(m) PROVE BookedInv'
  <2>1. \A d \in Messages : draft'[d] # "confirmed" => draft[d] # "confirmed"
    BY <1>2 DEF PrepareOrder, Superseded
  <2>2. order' = order
    BY <1>2 DEF PrepareOrder, orderVars
  <2> QED
    BY <2>1, <2>2 DEF BookedInv
<1>3. ASSUME NEW m \in Messages, NEW d \in Messages, ConfirmOrder(m, d) PROVE BookedInv'
  <2>1. /\ \A e \in Messages : draft'[e] = IF e = d THEN "confirmed" ELSE draft[e]
        /\ \A e \in Messages : order'[e] = IF e = d THEN "confirmed" ELSE order[e]
    BY <1>0, <1>3 DEF ConfirmOrder, TypeOK
  <2> QED
    BY <2>1 DEF BookedInv
<1>4. ASSUME NEW o \in Orders, NEW next \in OrderStatuses, Moved(o, next) PROVE BookedInv'
  <2>1. draft' = draft
    BY <1>4 DEF Moved
  <2> QED
    BY <1>0, <1>4, <2>1, MoveTyped DEF BookedInv
<1>5. ASSUME NEW file \in Files, ImportInventory(file) PROVE BookedInv'
  BY <1>5 DEF ImportInventory, draftVars, orderVars, BookedInv
<1> QED
  BY <1>1, <1>2, <1>3, <1>4, <1>5, StepKinds

\* A summary being prepared or confirmed has no order yet.
LEMMA NotBookedYet ==
  ASSUME TypeOK, BookedInv
  PROVE  /\ \A m \in Messages : PrepareOrder(m) => order[m] = "absent"
         /\ \A m, d \in Messages : ConfirmOrder(m, d) => order[d] = "absent"
BY DEF BookedInv, PrepareOrder, ConfirmOrder, Confirmable

-----------------------------------------------------------------------------
(* What an order is owed. *)

\* A new summary changes the basket of its own message only.
LEMMA PrepareKeepsOthers ==
  ASSUME TypeOK, NEW m \in Messages, PrepareOrder(m), NEW o \in Orders, o # m
  PROVE  basket'[o] = basket[o] /\ quote'[o] = quote[o]
BY DEF TypeOK, PrepareOrder

\* Old orders owe their total (orders in the tables before the ledger's use).
LEMMA DebtInit == Init => DebtMatchesOrder
<1> SUFFICES ASSUME Init, NEW o \in Orders
             PROVE  owed[o] = Price(o)
  BY DEF DebtMatchesOrder
<1>1. owed[o] = IF o \in Legacy THEN Total(o) ELSE 0
  BY DEF Init
<1>2. order[o] = "absent" <=> o \notin Legacy
  BY DEF Init
<1>3. order[o] # "cancelled"
  BY DEF Init
<1> QED
  BY <1>1, <1>2, <1>3 DEF Price

\* A price is a natural number.
LEMMA PriceTyped == ASSUME TypeOK, NEW o \in Orders PROVE Price(o) \in Nat
BY TotalTyped DEF Price

\* Bookings debit the total, cancellations reverse it, nothing else touches it:
\* what is owed and what the order costs move together, whatever was paid.
LEMMA DebtMoves ==
  ASSUME TypeOK, BookedInv, [OrderNext]_orderBookVars, NEW o \in Orders
  PROVE  owed'[o] = owed[o] + (Price(o)' - Price(o))
<1>0. /\ Messages \subseteq Orders /\ owed \in [Orders -> Int]
      /\ order \in [Orders -> OrderStatuses \cup {"absent"}]
  BY DEF Orders, TypeOK
<1>1. owed[o] \in Int /\ Price(o) \in Nat
  BY <1>0, PriceTyped
<1>2. ASSUME owed'[o] = owed[o], Price(o)' = Price(o)
      PROVE  owed'[o] = owed[o] + (Price(o)' - Price(o))
  BY <1>1, <1>2
<1>3. CASE UNCHANGED <<order, owed, basket, quote>>
  BY <1>2, <1>3 DEF Price, Total
<1>4. ASSUME NEW m \in Messages, PrepareOrder(m)
      PROVE  owed'[o] = owed[o] + (Price(o)' - Price(o))
  <2>1. order' = order /\ owed' = owed /\ order[m] = "absent"
    BY <1>4, NotBookedYet DEF PrepareOrder, orderVars
  <2>2. CASE o = m
    BY <1>2, <2>1, <2>2 DEF Price
  <2>3. CASE o # m
    BY <1>2, <1>4, <2>1, <2>3, PrepareKeepsOthers DEF Price, Total
  <2> QED
    BY <2>2, <2>3
<1>5. ASSUME NEW m \in Messages, NEW d \in Messages, ConfirmOrder(m, d)
      PROVE  owed'[o] = owed[o] + (Price(o)' - Price(o))
  <2>1. order[d] = "absent" /\ d \in Orders
    BY <1>0, <1>5, NotBookedYet
  <2>2. Total(o)' = Total(o) /\ Total(d) \in Nat
    BY <1>5, <2>1, TotalTyped DEF ConfirmOrder, Total
  <2>3. owed'[o] = IF o = d THEN owed[o] + Total(d) ELSE owed[o]
    BY <1>0, <1>5 DEF ConfirmOrder
  <2>4. order'[o] = IF o = d THEN "confirmed" ELSE order[o]
    BY <1>0, <1>5 DEF ConfirmOrder
  <2> QED
    BY <1>1, <1>2, <2>1, <2>2, <2>3, <2>4 DEF Price
<1>6. ASSUME NEW x \in Orders, NEW next \in OrderStatuses, Moved(x, next)
      PROVE  owed'[o] = owed[o] + (Price(o)' - Price(o))
  <2>1. Total(o)' = Total(o) /\ Total(x) \in Nat
    BY <1>6, TotalTyped DEF Moved, Total
  <2>2. owed' = IF next = "cancelled" THEN [owed EXCEPT ![x] = owed[x] - Total(x)] ELSE owed
    BY <1>6 DEF Moved, Transition, Credited
  <2>3. owed'[o] = IF o = x /\ next = "cancelled" THEN owed[o] - Total(o) ELSE owed[o]
    BY <1>0, <2>2
  <2>4. /\ order'[o] = IF o = x THEN next ELSE order[o]
        /\ order[x] \notin {"absent", "cancelled"}
    BY <1>6, MoveTyped
  <2>5. next # "absent"
    BY DEF OrderStatuses
  <2> QED
    BY <1>1, <1>2, <2>1, <2>3, <2>4, <2>5 DEF Price
<1>7. ASSUME NEW file \in Files, ImportInventory(file)
      PROVE  owed'[o] = owed[o] + (Price(o)' - Price(o))
  BY <1>3, <1>7 DEF ImportInventory, draftVars, orderVars
<1> QED
  BY <1>3, <1>4, <1>5, <1>6, <1>7, StepKinds DEF OrdersUntouched

\* So without payments the two stay equal.
LEMMA DebtStep ==
  TypeOK /\ BookedInv /\ DebtMatchesOrder /\ [OrderNext]_orderBookVars => DebtMatchesOrder'
<1> SUFFICES ASSUME TypeOK, BookedInv, DebtMatchesOrder, [OrderNext]_orderBookVars,
                    NEW o \in Orders
             PROVE  owed'[o] = Price(o)'
  BY DEF DebtMatchesOrder
<1>1. owed[o] = Price(o) /\ Price(o) \in Nat /\ Price(o)' \in Nat
  <2>1. TypeOK'
    BY NextTyped
  <2>2. Price(o)' \in Nat
    <3>1. (TypeOK => Price(o) \in Nat)'
      BY PriceTyped, PTL
    <3> QED
      BY <2>1, <3>1
  <2> QED
    BY <2>2, PriceTyped DEF DebtMatchesOrder
<1> QED
  BY <1>1, DebtMoves

\* A live order is owed its total, and a cancelled one nothing: the debit of a
\* booking is reversed exactly once, from whatever status it is cancelled.
THEOREM DebtsReversedOnce == OrderSpec => []DebtMatchesOrder
<1> QED
  BY DebtInit, DebtStep, BookedInit, BookedStep, TypeCorrect, PTL DEF OrderSpec

-----------------------------------------------------------------------------
(* Where the units are. *)

\* Orders share no unit: one more order takes its quantity more.
LEMMA OneMoreOrder ==
  ASSUME TypeOK, NEW p \in Products, NEW S, S \subseteq Orders, NEW o \in Orders, o \notin S
  PROVE  Cardinality(TakenBy(S \cup {o}, p)) = Cardinality(TakenBy(S, p)) + basket[o][p]
<1> DEFINE A == TakenBy(S, p)
           B == Units(o, p)
<1>1. IsFiniteSet(A) /\ Cardinality(A) \in Nat
  BY TakenFinite DEF TypeOK
<1>2. TakenBy(S \cup {o}, p) = A \cup B
  BY DEF TakenBy
<1>3. A \cap B = {}
  BY DEF TakenBy, Units
<1>4. IsFiniteSet(B) /\ Cardinality(B) = basket[o][p] /\ basket[o][p] \in Nat
  BY UnitsFinite, QuantityTyped
<1> HIDE DEF A, B
<1>5. Cardinality(A \cup B) = Cardinality(A) + Cardinality(B) - Cardinality(A \cap B)
  BY <1>1, <1>4, FS_Union
<1>6. Cardinality(A \cap B) = 0
  BY <1>3, FS_EmptySet
<1>7. Cardinality(A \cup B) = Cardinality(A) + basket[o][p]
  BY <1>1, <1>4, <1>5, <1>6
<1> QED
  BY <1>2, <1>7 DEF A

\* And so they are after a step that leaves the holding orders' baskets.
LEMMA HeldIsTakenAfter ==
  ASSUME NEW p, \A o \in HoldingOrders' : basket'[o][p] = basket[o][p]
  PROVE  Held(p)' = Cardinality(TakenBy(HoldingOrders', p))
<1>1. HeldUnits(p)' = UNION {Units(o, p)' : o \in HoldingOrders'}
  BY DEF HeldUnits, HoldingOrders
<1>2. \A o \in HoldingOrders' : Units(o, p)' = Units(o, p)
  BY DEF Units
<1>3. HeldUnits(p)' = TakenBy(HoldingOrders', p)
  BY <1>1, <1>2 DEF TakenBy
<1> QED
  BY <1>3 DEF Held

\* Nothing is held, taken or given back by a step that books and frees no order.
LEMMA HeldSame ==
  ASSUME NEW p, HoldingOrders' = HoldingOrders,
         \A o \in HoldingOrders : basket'[o][p] = basket[o][p]
  PROVE  Held(p)' = Held(p)
BY HeldIsTaken, HeldIsTakenAfter

\* A booking holds what it takes.
LEMMA HeldGrows ==
  ASSUME TypeOK, NEW p \in Products, NEW o \in Orders, o \notin HoldingOrders,
         HoldingOrders' = HoldingOrders \cup {o}, basket' = basket
  PROVE  Held(p)' = Held(p) + basket[o][p]
<1>1. HoldingOrders \subseteq Orders
  BY DEF HoldingOrders
<1>2. Cardinality(TakenBy(HoldingOrders \cup {o}, p))
      = Cardinality(TakenBy(HoldingOrders, p)) + basket[o][p]
  BY <1>1, OneMoreOrder
<1> QED
  BY <1>2, HeldIsTaken, HeldIsTakenAfter

\* A cancellation frees what was held.
LEMMA HeldShrinks ==
  ASSUME TypeOK, NEW p \in Products, NEW o \in Orders, o \in HoldingOrders,
         HoldingOrders' = HoldingOrders \ {o}, basket' = basket
  PROVE  Held(p) = Held(p)' + basket[o][p] /\ Held(p)' \in Nat
<1> DEFINE S == HoldingOrders \ {o}
<1>1. S \subseteq Orders /\ o \notin S /\ S \cup {o} = HoldingOrders
  BY DEF HoldingOrders
<1>2. Held(p)' = Cardinality(TakenBy(S, p))
  BY HeldIsTakenAfter
<1> HIDE DEF S
<1>3. Cardinality(TakenBy(S \cup {o}, p)) = Cardinality(TakenBy(S, p)) + basket[o][p]
  BY <1>1, OneMoreOrder
<1>4. Cardinality(TakenBy(S, p)) \in Nat
  BY <1>1, TakenFinite DEF TypeOK
<1> QED
  BY <1>1, <1>2, <1>3, <1>4, HeldIsTaken

\* At first the supply is what is on the shelf and what old orders hold.
LEMMA StockInit == Init => StockAccounted
BY DEF Init, StockAccounted

\* A booking moves its units from the shelf to the order.
LEMMA BookingAccounted ==
  ASSUME TypeOK, StockAccounted, NEW o \in Orders, o \notin HoldingOrders,
         HoldingOrders' = HoldingOrders \cup {o}, UNCHANGED <<basket, supplied>>,
         InStock(basket[o]), Reserve(basket[o])
  PROVE  StockAccounted'
<1> SUFFICES ASSUME NEW p \in Products PROVE stock'[p] + Held(p)' = supplied'[p]
  BY DEF StockAccounted
<1>1. Held(p)' = Held(p) + basket[o][p]
  BY HeldGrows
<1>2. stock'[p] = stock[p] - basket[o][p]
  BY DEF Reserve
<1>3. stock[p] \in Nat /\ Held(p) \in Nat /\ basket[o][p] \in Nat
  BY HeldFinite, QuantityTyped DEF TypeOK
<1> QED
  BY <1>1, <1>2, <1>3 DEF StockAccounted

\* No step loses or invents a unit.
LEMMA StockStep ==
  TypeOK /\ BookedInv /\ StockAccounted /\ [OrderNext]_orderBookVars => StockAccounted'
<1> SUFFICES ASSUME TypeOK, BookedInv, StockAccounted, [OrderNext]_orderBookVars
             PROVE  StockAccounted'
  OBVIOUS
<1>0. Messages \subseteq Orders
  BY DEF Orders
<1>1. ASSUME UNCHANGED <<stock, supplied, basket>>, HoldingOrders' = HoldingOrders
      PROVE  StockAccounted'
  BY <1>1, HeldSame DEF StockAccounted
<1>2. ASSUME NEW m \in Messages, PrepareOrder(m) PROVE StockAccounted'
  <2>1. UNCHANGED <<stock, supplied, order>>
    BY <1>2 DEF PrepareOrder, shelfVars, orderVars
  <2>2. order[m] = "absent"
    BY <1>2, NotBookedYet
  <2>3. HoldingOrders' = HoldingOrders
    BY <2>1 DEF HoldingOrders
  <2>4. \A o \in HoldingOrders : o \in Orders /\ o # m
    BY <2>2 DEF HoldingOrders, Holding
  <2>5. \A o \in HoldingOrders : basket'[o] = basket[o]
    BY <1>2, <2>4, PrepareKeepsOthers
  <2>6. \A p \in Products : Held(p)' = Held(p)
    BY <2>3, <2>5, HeldSame
  <2> QED
    BY <2>1, <2>6 DEF StockAccounted
<1>3. ASSUME NEW m \in Messages, NEW d \in Messages, ConfirmOrder(m, d) PROVE StockAccounted'
  <2>1. order[d] = "absent" /\ d \in Orders
    BY <1>0, <1>3, NotBookedYet
  <2>2. \A o \in Orders : order'[o] = IF o = d THEN "confirmed" ELSE order[o]
    BY <1>3 DEF ConfirmOrder, TypeOK
  <2>3. d \notin HoldingOrders /\ HoldingOrders' = HoldingOrders \cup {d}
    BY <2>1, <2>2 DEF HoldingOrders, Holding
  <2> QED
    BY <1>3, <2>1, <2>3, BookingAccounted DEF ConfirmOrder
<1>4. ASSUME NEW o \in Orders, NEW next \in OrderStatuses, Moved(o, next) PROVE StockAccounted'
  <2>1. \A x \in Orders : order'[x] = IF x = o THEN next ELSE order[x]
    BY <1>4, MoveTyped
  <2>2. CASE next = "confirmed"
    <3>1. order[o] = "placed"
      BY <1>4, <2>2, MoveTyped
    <3>2. o \notin HoldingOrders /\ HoldingOrders' = HoldingOrders \cup {o}
      BY <2>1, <2>2, <3>1 DEF HoldingOrders, Holding
    <3>3. InStock(basket[o]) /\ Reserve(basket[o])
      BY <1>4, <2>2 DEF Moved, Transition
    <3> QED
      BY <1>4, <3>2, <3>3, BookingAccounted DEF Moved
  <2>3. CASE next = "cancelled"
    <3>1. Restocked(o)
      BY <1>4, <2>3 DEF Moved, Transition
    <3>2. CASE order[o] = "placed"
      <4>1. HoldingOrders' = HoldingOrders
        BY <2>1, <2>3, <3>2 DEF HoldingOrders, Holding
      <4>2. stock' = stock
        BY <3>1, <3>2 DEF Restocked
      <4> QED
        BY <1>1, <1>4, <4>1, <4>2 DEF Moved
    <3>3. CASE order[o] # "placed"
      <4>1. order[o] \in Holding
        BY <1>4, <2>3, <3>3, MoveTyped
      <4>2. o \in HoldingOrders /\ HoldingOrders' = HoldingOrders \ {o}
        BY <2>1, <2>3, <4>1 DEF HoldingOrders, Holding
      <4> SUFFICES ASSUME NEW p \in Products PROVE stock'[p] + Held(p)' = supplied'[p]
        BY DEF StockAccounted
      <4>3. Held(p) = Held(p)' + basket[o][p] /\ Held(p)' \in Nat
        BY <1>4, <4>2, HeldShrinks DEF Moved
      <4>4. stock'[p] = stock[p] + basket[o][p]
        BY <3>1, <3>3 DEF Restocked
      <4>5. stock[p] \in Nat /\ basket[o][p] \in Nat
        BY QuantityTyped DEF TypeOK
      <4>6. stock[p] + Held(p) = supplied[p] /\ supplied' = supplied
        BY <1>4 DEF StockAccounted, Moved
      <4> QED
        BY <4>3, <4>4, <4>5, <4>6
    <3> QED
      BY <3>2, <3>3
  <2>4. CASE next \in {"paid", "shipped", "delivered"}
    <3>1. order[o] \in Holding
      BY <1>4, <2>4, MoveTyped
    <3>2. HoldingOrders' = HoldingOrders
      BY <2>1, <2>4, <3>1 DEF HoldingOrders, Holding
    <3>3. stock' = stock
      BY <1>4, <2>4 DEF Moved, Transition
    <3> QED
      BY <1>1, <1>4, <3>2, <3>3 DEF Moved
  <2> QED
    BY <1>4, <2>2, <2>3, <2>4, MoveTyped DEF OrderStatuses
<1>5. ASSUME NEW file \in Files, ImportInventory(file) PROVE StockAccounted'
  <2>1. UNCHANGED <<order, basket>>
    BY <1>5 DEF ImportInventory, orderVars, draftVars
  <2>2. \A p \in Products : Held(p)' = Held(p)
    BY <2>1, HeldSame DEF HoldingOrders
  <2>3. \A p \in Products :
          /\ stock'[p] = IF p \in DOMAIN file THEN file[p].stock ELSE stock[p]
          /\ supplied'[p] = IF p \in DOMAIN file THEN file[p].stock + Held(p) ELSE supplied[p]
    BY <1>5 DEF ImportInventory
  <2> QED
    BY <2>2, <2>3 DEF StockAccounted
<1>6. OrdersUntouched => StockAccounted'
  BY <1>1 DEF OrdersUntouched, HoldingOrders
<1> QED
  BY <1>2, <1>3, <1>4, <1>5, <1>6, StepKinds

\* Every unit is on the shelf or held by exactly the orders that reserved it,
\* over any order of bookings, cancellations, shipments and imports.
THEOREM UnitsAccounted == OrderSpec => []StockAccounted
<1> QED
  BY StockInit, StockStep, BookedInit, BookedStep, TypeCorrect, PTL DEF OrderSpec

-----------------------------------------------------------------------------
(* What the owner was told. *)

\* An intent becomes confirmed by the transition it names, and in no other way.
LEMMA IntentConfirmed ==
  ASSUME TypeOK, [OrderNext]_orderBookVars, NEW i \in OwnerMessages,
         intent'[i] = "confirmed", intent[i] # "confirmed"
  PROVE  Transition(Text[i].order, Text[i].target)
<1>1. \A j \in OwnerMessages : Expired[j] = "confirmed" => intent[j] = "confirmed"
  BY DEF Expired
<1>2. \A j \in OwnerMessages : Replaced[j] = "confirmed" => intent[j] = "confirmed"
  BY <1>1 DEF Replaced
<1>3. ASSUME NEW m \in OwnerMessages, PrepareFulfilment(m) PROVE FALSE
  <2>1. \A j \in OwnerMessages : intent'[j] = IF j = m THEN "pending" ELSE Replaced[j]
    BY <1>3 DEF PrepareFulfilment, Replaced
  <2> QED
    BY <1>2, <2>1
<1>4. ASSUME NEW m \in OwnerMessages, ConfirmNothing(m) PROVE FALSE
  BY <1>1, <1>4 DEF ConfirmNothing
<1>5. ASSUME NEW m \in OwnerMessages, NEW k \in OwnerMessages, CancelFulfilment(m, k) PROVE FALSE
  <2>1. \A j \in OwnerMessages : intent'[j] = IF j = k THEN "cancelled" ELSE Expired[j]
    BY <1>5 DEF CancelFulfilment, Expired
  <2> QED
    BY <1>1, <2>1
<1>6. ASSUME NEW m \in OwnerMessages, NEW k \in OwnerMessages, ConfirmFulfilment(m, k)
      PROVE  Transition(Text[i].order, Text[i].target)
  <2>1. CASE order[Text[m].order] = from[k]
    <3>1. \A j \in OwnerMessages : intent'[j] = IF j = k THEN "confirmed" ELSE Expired[j]
      BY <1>6, <2>1 DEF ConfirmFulfilment, Expired
    <3>2. i = k
      BY <1>1, <3>1
    <3> QED
      BY <1>6, <2>1, <3>2 DEF ConfirmFulfilment, Matches
  <2>2. CASE order[Text[m].order] # from[k]
    <3>1. \A j \in OwnerMessages : intent'[j] = IF j = k THEN "cancelled" ELSE Expired[j]
      BY <1>6, <2>2 DEF ConfirmFulfilment, Expired
    <3> QED
      BY <1>1, <3>1
  <2> QED
    BY <2>1, <2>2
<1>7. \/ intent' = intent
      \/ \E m \in OwnerMessages : PrepareFulfilment(m) \/ ConfirmNothing(m)
      \/ \E m, k \in OwnerMessages : ConfirmFulfilment(m, k) \/ CancelFulfilment(m, k)
  BY Zenon DEF OrderNext, CustomerNext, OwnerNext, OutsideNext, PrepareOrder, DraftExpires,
     ConfirmOrder, CustomerChangesOrder, IntentLapses, IntegrationReports, ImportInventory,
     orderBookVars, intentVars
<1> QED
  BY <1>3, <1>4, <1>5, <1>6, <1>7

\* Shipped orders are delivered at most, delivered ones stay (ALLOWED_TRANSITIONS).
LEMMA ShippedStays ==
  ASSUME TypeOK, BookedInv, [OrderNext]_orderBookVars, NEW o \in Orders
  PROVE  /\ order[o] = "shipped" => order'[o] \in {"shipped", "delivered"}
         /\ order[o] = "delivered" => order'[o] = "delivered"
<1>1. ASSUME NEW x \in Orders, NEW next \in OrderStatuses, Moved(x, next)
      PROVE  /\ order[o] = "shipped" => order'[o] \in {"shipped", "delivered"}
             /\ order[o] = "delivered" => order'[o] = "delivered"
  BY <1>1, MoveTyped
<1>2. ASSUME NEW m \in Messages, NEW d \in Messages, ConfirmOrder(m, d)
      PROVE  order[o] # "absent" => order'[o] = order[o]
  <2>1. order[d] = "absent"
    BY <1>2, NotBookedYet
  <2> QED
    BY <1>2, <2>1 DEF ConfirmOrder, TypeOK
<1> QED
  BY <1>1, <1>2, StepKinds DEF OrdersUntouched, PrepareOrder, ImportInventory, orderVars

\* A reported order moves forward only.
LEMMA ReportedStep ==
  TypeOK /\ BookedInv /\ ReportedFulfilmentStands /\ [OrderNext]_orderBookVars
    => ReportedFulfilmentStands'
<1> SUFFICES ASSUME TypeOK, BookedInv, ReportedFulfilmentStands, [OrderNext]_orderBookVars,
                    NEW i \in OwnerMessages, intent'[i] = "confirmed"
             PROVE  order'[Text[i].order] \in {Text[i].target, "delivered"}
  BY DEF ReportedFulfilmentStands
<1>1. Text[i].order \in Orders /\ Text[i].target \in {"shipped", "delivered"}
  BY OrderBookAssumption DEF Commands
<1>2. CASE intent[i] = "confirmed"
  BY <1>1, <1>2, ShippedStays DEF ReportedFulfilmentStands
<1>3. CASE intent[i] # "confirmed"
  <2>1. order' = [order EXCEPT ![Text[i].order] = Text[i].target]
    BY <1>3, IntentConfirmed DEF Transition
  <2> QED
    BY <1>1, <2>1 DEF TypeOK
<1> QED
  BY <1>2, <1>3

\* What the owner was told is shipped or delivered is never taken back by a
\* cancellation, a redelivered confirmation or a replaced action.
THEOREM ReportsStand == OrderSpec => []ReportedFulfilmentStands
<1>1. Init => ReportedFulfilmentStands
  BY DEF Init, ReportedFulfilmentStands
<1> QED
  BY <1>1, ReportedStep, BookedInit, BookedStep, TypeCorrect, PTL DEF OrderSpec

-----------------------------------------------------------------------------
(* The order book implements BookedOrders. *)

\* What the refinement mapping puts for the variables of BookedOrders.
Stages == [o \in Orders |-> Stage(o)]
ItemsOf(o) == IF order[o] = "absent" THEN EmptyBasket ELSE basket[o]
Items == [o \in Orders |-> ItemsOf(o)]
BillOf(o) == IF order[o] = "absent" THEN 0 ELSE Total(o)
Bills == [o \in Orders |-> BillOf(o)]
Unnoted == UNCHANGED <<Stages, Items, Bills, stock>>

\* A step of BookedOrders, said of the mapping.
LEMMA BookedAs ==
  /\ \A o : Booked!Take(o) <=>
       /\ \A p \in Products : Items'[o][p] <= stock[p]
       /\ Stages' = [Stages EXCEPT ![o] = "reserved"]
       /\ stock' = [p \in Products |-> stock[p] - Items'[o][p]]
  /\ \A o : Booked!Book(o) <=>
       /\ Stages[o] = "absent"
       /\ Items'[o] \in [Products -> Nat] /\ Items' = [Items EXCEPT ![o] = Items'[o]]
       /\ Bills'[o] \in Nat /\ Bills' = [Bills EXCEPT ![o] = Bills'[o]]
       /\ Booked!Take(o)
  /\ \A o : Booked!Reserve(o) <=>
       Stages[o] = "placed" /\ Booked!Take(o) /\ UNCHANGED <<Items, Bills>>
  /\ \A o : Booked!Send(o) <=>
       /\ Stages[o] = "reserved" /\ Stages' = [Stages EXCEPT ![o] = "sent"]
       /\ UNCHANGED <<Items, Bills, stock>>
  /\ \A o : Booked!Cancel(o) <=>
       /\ Stages[o] \in {"placed", "reserved"} /\ Stages' = [Stages EXCEPT ![o] = "cancelled"]
       /\ stock' = IF Stages[o] = "placed" THEN stock
                   ELSE [p \in Products |-> stock[p] + Items[o][p]]
       /\ UNCHANGED <<Items, Bills>>
  /\ Booked!Count <=> stock' \in [Products -> Nat] /\ UNCHANGED <<Stages, Items, Bills>>
BY DEF Booked!Take, Booked!Book, Booked!Reserve, Booked!Send, Booked!Cancel, Booked!Count,
   Stages, Items, ItemsOf, Bills, BillOf

\* Orders that keep status, basket and prices are not noticed.
LEMMA SameOrder ==
  ASSUME NEW o, order'[o] = order[o], order[o] # "absent" => UNCHANGED <<basket[o], quote[o]>>
  PROVE  UNCHANGED <<Stage(o), ItemsOf(o), BillOf(o)>>
BY DEF Stage, ItemsOf, BillOf, Total, EmptyBasket

\* A new summary is no order: its message has none, and the others keep theirs.
LEMMA PrepareUnnoted ==
  ASSUME TypeOK, BookedInv, NEW m \in Messages, PrepareOrder(m)
  PROVE  Unnoted
<1>1. UNCHANGED <<order, stock>> /\ order[m] = "absent"
  BY NotBookedYet DEF PrepareOrder, shelfVars, orderVars
<1>2. \A o \in Orders : UNCHANGED <<Stage(o), ItemsOf(o), BillOf(o)>>
  <2> SUFFICES ASSUME NEW o \in Orders PROVE UNCHANGED <<Stage(o), ItemsOf(o), BillOf(o)>>
    OBVIOUS
  <2>1. order[o] # "absent" => UNCHANGED <<basket[o], quote[o]>>
    BY <1>1, PrepareKeepsOthers
  <2> QED
    BY <1>1, <2>1, SameOrder
<1> QED
  BY <1>1, <1>2 DEF Unnoted, Stages, Items, Bills

\* A confirmed summary is booked with what it showed.
LEMMA ConfirmBooks ==
  ASSUME TypeOK, BookedInv, NEW m \in Messages, NEW d \in Messages, ConfirmOrder(m, d)
  PROVE  Booked!Book(d)
<1>0. d \in Orders /\ order[d] = "absent"
  BY NotBookedYet DEF Orders
<1>1. \A o \in Orders : order'[o] = IF o = d THEN "confirmed" ELSE order[o]
  BY DEF ConfirmOrder, TypeOK
<1>2. UNCHANGED <<basket, quote>> /\ InStock(basket[d]) /\ Reserve(basket[d])
  BY DEF ConfirmOrder
<1>3. \A o \in Orders \ {d} : UNCHANGED <<Stage(o), ItemsOf(o), BillOf(o)>>
  BY <1>1, <1>2, SameOrder
<1>4. Stage(d) = "absent" /\ Stage(d)' = "reserved"
  BY <1>0, <1>1 DEF Stage
<1>5. ItemsOf(d)' = basket[d] /\ BillOf(d)' = Total(d)
  BY <1>0, <1>1, <1>2 DEF ItemsOf, BillOf, Total
<1>6. basket[d] \in [Products -> Nat] /\ Total(d) \in Nat
  BY <1>0, TotalTyped, OrderBookAssumption DEF TypeOK
<1>7. Stages' = [Stages EXCEPT ![d] = "reserved"]
  BY <1>3, <1>4 DEF Stages
<1>8. Items'[d] = basket[d] /\ Items' = [Items EXCEPT ![d] = Items'[d]]
  BY <1>0, <1>3, <1>5 DEF Items
<1>9. Bills'[d] = Total(d) /\ Bills' = [Bills EXCEPT ![d] = Bills'[d]]
  BY <1>0, <1>3, <1>5 DEF Bills
<1>10. Stages[d] = "absent"
  BY <1>0, <1>4 DEF Stages
<1>11. Booked!Take(d)
  <2>1. \A p \in Products : Items'[d][p] <= stock[p]
    BY <1>2, <1>8 DEF InStock
  <2>2. stock' = [p \in Products |-> stock[p] - Items'[d][p]]
    BY <1>2, <1>8 DEF Reserve
  <2> QED
    BY <1>7, <2>1, <2>2, BookedAs
<1>12. Items'[d] \in [Products -> Nat] /\ Bills'[d] \in Nat
  BY <1>6, <1>8, <1>9
<1> QED
  BY <1>8, <1>9, <1>10, <1>11, <1>12, BookedAs

\* The state machine reserves, sends and cancels, or goes on within a stage.
LEMMA MoveBooks ==
  ASSUME TypeOK, NEW o \in Orders, NEW next \in OrderStatuses, Moved(o, next)
  PROVE  Unnoted \/ Booked!Reserve(o) \/ Booked!Send(o) \/ Booked!Cancel(o)
<1>1. \A x \in Orders : order'[x] = IF x = o THEN next ELSE order[x]
  BY MoveTyped
<1>2. order[o] # "absent" /\ next # "absent"
  BY MoveTyped DEF OrderStatuses
<1>3. UNCHANGED <<basket, quote>> /\ Transition(o, next)
  BY DEF Moved
<1>4. UNCHANGED <<Items, Bills>> /\ Items[o] = basket[o]
  BY <1>1, <1>2, <1>3 DEF Items, ItemsOf, Bills, BillOf, Total
<1>5. \A x \in Orders \ {o} : Stage(x)' = Stage(x)
  BY <1>1, <1>3, SameOrder
<1>6. \A s : Stage(o)' = s => Stages' = [Stages EXCEPT ![o] = s]
  BY <1>5 DEF Stages
<1>7. Stages[o] = Stage(o)
  BY DEF Stages
<1>8. CASE next = "confirmed"
  <2>1. Stage(o) = "placed" /\ Stage(o)' = "reserved"
    BY <1>1, <1>8, MoveTyped DEF Stage
  <2>2. InStock(basket[o]) /\ Reserve(basket[o])
    BY <1>3, <1>8 DEF Transition
  <2>3. Booked!Take(o)
    BY <1>4, <1>6, <2>1, <2>2, BookedAs DEF InStock, Reserve
  <2> QED
    BY <1>4, <1>7, <2>1, <2>3, BookedAs
<1>9. CASE next = "cancelled"
  <2>1. order[o] \in {"placed", "confirmed", "paid"}
    BY <1>9, MoveTyped
  <2>2. Stage(o) = IF order[o] = "placed" THEN "placed" ELSE "reserved"
    BY <2>1 DEF Stage
  <2>3. Stage(o)' = "cancelled"
    BY <1>1, <1>9 DEF Stage
  <2>4. Restocked(o)
    BY <1>3, <1>9 DEF Transition
  <2>5. stock' = IF Stages[o] = "placed" THEN stock
                 ELSE [p \in Products |-> stock[p] + Items[o][p]]
    BY <1>4, <1>7, <2>1, <2>2, <2>4 DEF Restocked
  <2>6. Booked!Cancel(o)
    BY <1>4, <1>6, <1>7, <2>2, <2>3, <2>5, BookedAs
  <2> QED
    BY <2>6
<1>10. CASE next \in {"paid", "delivered", "shipped"}
  <2>1. stock' = stock
    BY <1>3, <1>10 DEF Transition
  <2>2. Allowed(order[o], next)
    BY <1>3 DEF Transition
  <2>3. CASE next = "shipped"
    <3>1. order[o] = "paid"
      BY <2>2, <2>3, MoveTyped DEF Allowed
    <3>2. Stage(o) = "reserved" /\ Stage(o)' = "sent"
      BY <1>1, <2>3, <3>1 DEF Stage
    <3> QED
      BY <1>4, <1>6, <1>7, <2>1, <3>2, BookedAs
  <2>4. CASE next # "shipped"
    <3>1. order[o] = IF next = "paid" THEN "confirmed" ELSE "shipped"
      BY <1>10, <2>2, <2>4, MoveTyped DEF Allowed
    <3>2. Stage(o)' = Stage(o)
      BY <1>1, <1>10, <2>4, <3>1 DEF Stage
    <3>3. Stages' = Stages
      BY <1>5, <3>2 DEF Stages
    <3> QED
      BY <1>4, <2>1, <3>3 DEF Unnoted
  <2> QED
    BY <2>3, <2>4
<1> QED
  BY <1>8, <1>9, <1>10, MoveTyped DEF OrderStatuses

\* Every step of the order book is one of BookedOrders, or unnoticed.
LEMMA BookStep ==
  ASSUME TypeOK, BookedInv, [OrderNext]_orderBookVars
  PROVE  Booked!Next \/ Unnoted
<1>1. CASE OrdersUntouched
  BY <1>1 DEF OrdersUntouched, Unnoted, Stages, Stage, Items, ItemsOf, Bills, BillOf, Total
<1>2. ASSUME NEW file \in Files, ImportInventory(file) PROVE Booked!Count
  <2>1. stock' \in [Products -> Nat]
    BY NextTyped DEF TypeOK
  <2>2. UNCHANGED <<order, basket, quote>>
    BY <1>2 DEF ImportInventory, orderVars, draftVars
  <2>3. UNCHANGED <<Stages, Items, Bills>>
    BY <2>2 DEF Stages, Stage, Items, ItemsOf, Bills, BillOf, Total
  <2> QED
    BY <2>1, <2>3, BookedAs
<1>3. Messages \subseteq Orders
  BY DEF Orders
<1> QED
  BY <1>1, <1>2, <1>3, PrepareUnnoted, ConfirmBooks, MoveBooks, StepKinds DEF Booked!Next

\* Old orders are placed or hold their units, and summaries are no orders.
LEMMA BookInit == Init => Booked!Init
<1> SUFFICES ASSUME Init PROVE Booked!Init
  OBVIOUS
<1>0. TypeOK
  BY InitTyped
<1>1. \A o \in Orders : order[o] \in {"absent", "placed", "confirmed", "paid"}
  BY DEF Init
<1>2. Stages \in [Orders -> {"absent", "placed", "reserved"}]
  BY <1>1 DEF Stages, Stage
<1>3. \A o \in Orders : Stages[o] = "absent" => order[o] = "absent"
  BY <1>1 DEF Stages, Stage
<1>4. \A o \in Orders : basket[o] \in [Products -> Nat] /\ Total(o) \in Nat
  BY <1>0, TotalTyped, OrderBookAssumption DEF TypeOK
<1>5. Items \in [Orders -> [Products -> Nat]] /\ Bills \in [Orders -> Nat]
  BY <1>4 DEF Items, ItemsOf, Bills, BillOf, EmptyBasket
<1>6. \A o \in Orders : Stages[o] = "absent" => Items[o] = EmptyBasket /\ Bills[o] = 0
  BY <1>3 DEF Items, ItemsOf, Bills, BillOf
<1>7. stock \in [Products -> Nat]
  BY <1>0 DEF TypeOK
<1> QED
  BY <1>2, <1>5, <1>6, <1>7
     DEF Booked!Init, Booked!Nothing, EmptyBasket, Stages, Items, ItemsOf, Bills, BillOf

\* An order is booked once, with units that were all on the shelf; its items and
\* its total stand from then on; a cancellation gives back what it took.
THEOREM RefinesBookedOrders == OrderSpec => ImplementsBookedOrders
<1>1. TypeOK /\ BookedInv /\ [OrderNext]_orderBookVars => [Booked!Next]_(Booked!vars)
  BY BookStep DEF Unnoted, Booked!vars, Stages, Items, ItemsOf, Bills, BillOf
<1> QED
  BY <1>1, BookInit, BookedInit, BookedStep, TypeCorrect, PTL
     DEF OrderSpec, ImplementsBookedOrders, Booked!Spec

-----------------------------------------------------------------------------
(* The shipping commands implement TwoStepDesk. *)

\* What the refinement mapping puts for its actions.
DeskActions == [i \in OwnerMessages |-> ActionAtDesk(i)]

\* One intent waits, and none lapses before it was prepared.
IntentInv == OneAction /\ \A i \in lapsed : intent[i] # "none"

\* A step of TwoStepDesk, said of the mapping.
LEMMA ShippingDeskAs ==
  /\ \A m : ShippingDesk!Prepare(m) <=>
       /\ DeskActions[m] = "none"
       /\ DeskActions' = [a \in OwnerMessages |-> IF a = m THEN "waiting"
                            ELSE IF DeskActions[a] = "waiting" THEN "gone" ELSE DeskActions[a]]
       /\ usedBy' = usedBy
  /\ \A m, a : ShippingDesk!Decide(m, a) <=>
       /\ DeskActions[a] = "waiting"
       /\ \A b \in OwnerMessages : usedBy[b] # m
       /\ \E how \in {"done", "gone"} : DeskActions' = [DeskActions EXCEPT ![a] = how]
       /\ usedBy' = [usedBy EXCEPT ![a] = m]
  /\ \A a : ShippingDesk!Drop(a) <=>
       /\ DeskActions[a] = "waiting"
       /\ DeskActions' = [DeskActions EXCEPT ![a] = "gone"]
       /\ usedBy' = usedBy
BY DEF ShippingDesk!Prepare, ShippingDesk!Decide, ShippingDesk!Drop, ShippingDesk!Waits, DeskActions

\* An intent that ran out is gone before its row says so.
LEMMA TidyUnnoted ==
  ASSUME TypeOK, lapsed' = lapsed, NEW i \in OwnerMessages, intent'[i] = Expired[i]
  PROVE  ActionAtDesk(i)' = ActionAtDesk(i)
BY DEF Expired, ActionAtDesk

\* Intents lapse after they were prepared, and no message unmakes one.
LEMMA IntentStep == TypeOK /\ IntentInv /\ [OrderNext]_orderBookVars => IntentInv'
<1> SUFFICES ASSUME TypeOK, IntentInv, [OrderNext]_orderBookVars PROVE IntentInv'
  OBVIOUS
<1>1. OneAction'
  BY ActionStep DEF IntentInv
<1>2. ASSUME NEW i \in OwnerMessages, intent[i] # "none"
      PROVE  Expired[i] # "none" /\ Replaced[i] # "none"
  BY <1>2 DEF Expired, Replaced
<1>3. CASE UNCHANGED <<intent, lapsed>>
  BY <1>1, <1>3 DEF IntentInv
<1>4. ASSUME NEW m \in OwnerMessages, PrepareFulfilment(m) PROVE IntentInv'
  <2>1. /\ lapsed' = lapsed
        /\ \A i \in OwnerMessages : intent'[i] = IF i = m THEN "pending" ELSE Replaced[i]
    BY <1>4 DEF PrepareFulfilment, Replaced
  <2> QED
    BY <1>1, <1>2, <2>1 DEF IntentInv, TypeOK
<1>5. ASSUME NEW m \in OwnerMessages, ConfirmNothing(m) PROVE IntentInv'
  <2>1. lapsed' = lapsed /\ intent' = Expired
    BY <1>5 DEF ConfirmNothing
  <2> QED
    BY <1>1, <1>2, <2>1 DEF IntentInv, TypeOK
<1>6. ASSUME NEW m \in OwnerMessages, IntentLapses(m) PROVE IntentInv'
  <2>1. intent' = intent /\ lapsed' = lapsed \cup {m} /\ intent[m] = "pending"
    BY <1>6 DEF IntentLapses
  <2> QED
    BY <1>1, <2>1 DEF IntentInv
<1>7. ASSUME NEW m \in OwnerMessages, NEW i \in OwnerMessages,
             ConfirmFulfilment(m, i) \/ CancelFulfilment(m, i)
      PROVE  IntentInv'
  <2>1. /\ lapsed' = lapsed
        /\ \A j \in OwnerMessages \ {i} : intent'[j] = Expired[j]
        /\ intent'[i] \in {"confirmed", "cancelled"}
    BY <1>7 DEF ConfirmFulfilment, CancelFulfilment, Expired
  <2> QED
    BY <1>1, <1>2, <2>1 DEF IntentInv, TypeOK
<1>8. \/ UNCHANGED <<intent, lapsed>>
      \/ \E m \in OwnerMessages : PrepareFulfilment(m) \/ ConfirmNothing(m) \/ IntentLapses(m)
      \/ \E m, i \in OwnerMessages : ConfirmFulfilment(m, i) \/ CancelFulfilment(m, i)
  BY Zenon DEF OrderNext, CustomerNext, OwnerNext, OutsideNext, PrepareOrder, DraftExpires,
     ConfirmOrder, CustomerChangesOrder, IntegrationReports, ImportInventory,
     orderBookVars, intentVars
<1> QED
  BY <1>3, <1>4, <1>5, <1>6, <1>7, <1>8

\* A prepared shipping action is a prepared action of the desk.
LEMMA PrepareAtDesk ==
  ASSUME TypeOK, IntentInv, NEW m \in OwnerMessages, PrepareFulfilment(m)
  PROVE  ShippingDesk!Prepare(m)
<1>1. /\ lapsed' = lapsed /\ usedBy' = usedBy /\ intent[m] = "none" /\ m \notin lapsed
      /\ \A i \in OwnerMessages : intent'[i] = IF i = m THEN "pending" ELSE Replaced[i]
  BY DEF PrepareFulfilment, Replaced, IntentInv
<1>2. ActionAtDesk(m) = "none" /\ ActionAtDesk(m)' = "waiting"
  BY <1>1 DEF ActionAtDesk
<1>3. ASSUME NEW i \in OwnerMessages, i # m
      PROVE  ActionAtDesk(i)' = IF ActionAtDesk(i) = "waiting" THEN "gone" ELSE ActionAtDesk(i)
  <2>1. CASE i \in Waiting
    <3>1. intent'[i] = "cancelled" /\ ActionAtDesk(i) = "waiting"
      BY <1>1, <1>3, <2>1 DEF Waiting, Replaced, ActionAtDesk
    <3> QED
      BY <3>1 DEF ActionAtDesk
  <2>2. CASE i \notin Waiting
    <3>1. intent'[i] = Expired[i] /\ ActionAtDesk(i) # "waiting"
      BY <1>1, <1>3, <2>2 DEF Waiting, Replaced, ActionAtDesk
    <3> QED
      BY <1>1, <3>1, TidyUnnoted
  <2> QED
    BY <2>1, <2>2
<1>4. DeskActions' = [a \in OwnerMessages |-> IF a = m THEN "waiting"
                        ELSE IF DeskActions[a] = "waiting" THEN "gone" ELSE DeskActions[a]]
  BY <1>2, <1>3 DEF DeskActions
<1>5. DeskActions[m] = "none"
  BY <1>2 DEF DeskActions
<1> QED
  BY <1>1, <1>4, <1>5, ShippingDeskAs

\* A confirmation or a cancellation decides the action that waits.
LEMMA DecideAtDesk ==
  ASSUME TypeOK, NEW m \in OwnerMessages, NEW i \in OwnerMessages,
         ConfirmFulfilment(m, i) \/ CancelFulfilment(m, i)
  PROVE  ShippingDesk!Decide(m, i)
<1>1. /\ lapsed' = lapsed /\ usedBy' = [usedBy EXCEPT ![i] = m] /\ i \in Waiting /\ Fresh(m)
      /\ \A j \in OwnerMessages \ {i} : intent'[j] = Expired[j]
      /\ intent'[i] \in {"confirmed", "cancelled"}
  BY DEF ConfirmFulfilment, CancelFulfilment, Expired
<1>2. ActionAtDesk(i) = "waiting"
  BY <1>1 DEF Waiting, ActionAtDesk
<1>3. \A j \in OwnerMessages \ {i} : ActionAtDesk(j)' = ActionAtDesk(j)
  BY <1>1, TidyUnnoted
<1>4. PICK how \in {"done", "gone"} : ActionAtDesk(i)' = how
  BY <1>1 DEF ActionAtDesk
<1>5. DeskActions' = [DeskActions EXCEPT ![i] = how] /\ DeskActions[i] = "waiting"
  BY <1>2, <1>3, <1>4 DEF DeskActions
<1> QED
  BY <1>1, <1>5, ShippingDeskAs DEF Fresh

\* What runs out is dropped.
LEMMA LapseAtDesk ==
  ASSUME NEW i \in OwnerMessages, IntentLapses(i)
  PROVE  ShippingDesk!Drop(i)
<1>1. /\ intent' = intent /\ usedBy' = usedBy /\ lapsed' = lapsed \cup {i}
      /\ intent[i] = "pending" /\ i \notin lapsed
  BY DEF IntentLapses
<1>2. ActionAtDesk(i) = "waiting" /\ ActionAtDesk(i)' = "gone"
  BY <1>1 DEF ActionAtDesk
<1>3. \A j \in OwnerMessages \ {i} : ActionAtDesk(j)' = ActionAtDesk(j)
  BY <1>1 DEF ActionAtDesk
<1>4. DeskActions' = [DeskActions EXCEPT ![i] = "gone"] /\ DeskActions[i] = "waiting"
  BY <1>2, <1>3 DEF DeskActions
<1> QED
  BY <1>1, <1>4, ShippingDeskAs

\* Every step is one of the desk, or changes nothing there.
LEMMA ShippingDeskStep ==
  TypeOK /\ IntentInv /\ [OrderNext]_orderBookVars => [ShippingDesk!Next]_(ShippingDesk!vars)
<1> SUFFICES ASSUME TypeOK, IntentInv, [OrderNext]_orderBookVars
             PROVE  ShippingDesk!Next \/ UNCHANGED <<DeskActions, usedBy>>
  BY DEF ShippingDesk!vars, DeskActions
<1>1. CASE UNCHANGED <<intent, usedBy, lapsed>>
  <2>1. \A i \in OwnerMessages : ActionAtDesk(i)' = ActionAtDesk(i)
    BY <1>1 DEF ActionAtDesk
  <2> QED
    BY <1>1, <2>1 DEF DeskActions
<1>2. ASSUME NEW m \in OwnerMessages, ConfirmNothing(m) PROVE UNCHANGED <<DeskActions, usedBy>>
  <2>1. intent' = Expired /\ lapsed' = lapsed /\ usedBy' = usedBy
    BY <1>2 DEF ConfirmNothing
  <2> QED
    BY <2>1, TidyUnnoted DEF DeskActions
<1>3. \/ UNCHANGED <<intent, usedBy, lapsed>>
      \/ \E m \in OwnerMessages : PrepareFulfilment(m) \/ ConfirmNothing(m) \/ IntentLapses(m)
      \/ \E m, i \in OwnerMessages : ConfirmFulfilment(m, i) \/ CancelFulfilment(m, i)
  BY Zenon DEF OrderNext, CustomerNext, OwnerNext, OutsideNext, PrepareOrder, DraftExpires,
     ConfirmOrder, CustomerChangesOrder, IntegrationReports, ImportInventory,
     orderBookVars, intentVars
<1>4. ASSUME NEW m \in OwnerMessages, PrepareFulfilment(m) PROVE ShippingDesk!Next
  BY <1>4, PrepareAtDesk DEF ShippingDesk!Next
<1>5. ASSUME NEW m \in OwnerMessages, IntentLapses(m) PROVE ShippingDesk!Next
  BY <1>5, LapseAtDesk DEF ShippingDesk!Next
<1>6. ASSUME NEW m \in OwnerMessages, NEW i \in OwnerMessages,
             ConfirmFulfilment(m, i) \/ CancelFulfilment(m, i)
      PROVE  ShippingDesk!Next
  BY <1>6, DecideAtDesk DEF ShippingDesk!Next
<1> QED
  BY <1>1, <1>2, <1>3, <1>4, <1>5, <1>6

\* At first nothing was prepared.
LEMMA ShippingDeskInit == Init => IntentInv /\ ShippingDesk!Init
<1> SUFFICES ASSUME Init PROVE IntentInv /\ ShippingDesk!Init
  OBVIOUS
<1>1. /\ intent = [m \in OwnerMessages |-> "none"] /\ lapsed = {}
      /\ usedBy = [m \in OwnerMessages |-> None]
  BY DEF Init
<1>2. \A i \in OwnerMessages : ActionAtDesk(i) = "none"
  BY <1>1 DEF ActionAtDesk
<1>3. IntentInv
  BY <1>1 DEF IntentInv, OneAction
<1> QED
  BY <1>1, <1>2, <1>3 DEF ShippingDesk!Init, ShippingDesk!Waits

\* Beside customers, courier, payment provider and imports, a shipping action is
\* decided once and by one message, the last one prepared is the one that waits,
\* and none comes back, lapsed ones included (handleOwnerFulfilmentCommand).
THEOREM RefinesShippingDesk == OrderSpec => ImplementsShippingDesk
BY ShippingDeskInit, ShippingDeskStep, IntentStep, TypeCorrect, PTL
   DEF OrderSpec, ImplementsShippingDesk, ShippingDesk!Spec
-----------------------------------------------------------------------------
(* The drafts of each customer implement TwoStepDesk. *)

DeskDrafts(c) == [d \in MessagesOf(c) |-> DraftAtDesk(d)]
DeskBookings(c) == [d \in MessagesOf(c) |-> bookedBy[d]]

\* A step of TwoStepDesk, said of the mapping.
LEMMA DraftDeskAs ==
  ASSUME NEW c
  PROVE
  /\ \A m : DraftDesk(c)!Prepare(m) <=>
       /\ DeskDrafts(c)[m] = "none"
       /\ DeskDrafts(c)' = [d \in MessagesOf(c) |-> IF d = m THEN "waiting"
                              ELSE IF DeskDrafts(c)[d] = "waiting" THEN "gone"
                              ELSE DeskDrafts(c)[d]]
       /\ UNCHANGED DeskBookings(c)
  /\ \A m, d : DraftDesk(c)!Decide(m, d) <=>
       /\ DeskDrafts(c)[d] = "waiting"
       /\ \A e \in MessagesOf(c) : DeskBookings(c)[e] # m
       /\ \E how \in {"done", "gone"} : DeskDrafts(c)' = [DeskDrafts(c) EXCEPT ![d] = how]
       /\ DeskBookings(c)' = [DeskBookings(c) EXCEPT ![d] = m]
  /\ \A d : DraftDesk(c)!Drop(d) <=>
       /\ DeskDrafts(c)[d] = "waiting"
       /\ DeskDrafts(c)' = [DeskDrafts(c) EXCEPT ![d] = "gone"]
       /\ UNCHANGED DeskBookings(c)
BY DEF DraftDesk!Prepare, DraftDesk!Decide, DraftDesk!Drop, DraftDesk!Waits, DeskDrafts, DeskBookings
\* What ran out was prepared before.
OverdueInv == \A d \in overdue : draft[d] # "none"

\* Owner, courier, payment provider, imports and changes of orders leave the drafts.
LEMMA DraftsMove ==
  ASSUME [OrderNext]_orderBookVars
  PROVE  \/ UNCHANGED <<draft, bookedBy, overdue>>
         \/ \E m \in Messages : PrepareOrder(m) \/ DraftExpires(m)
         \/ \E m, d \in Messages : ConfirmOrder(m, d)
BY Zenon DEF OrderNext, CustomerNext, OwnerNext, OutsideNext, CustomerChangesOrder,
   PrepareFulfilment, ConfirmNothing, IntentLapses, ConfirmFulfilment, CancelFulfilment,
   IntegrationReports, ImportInventory, orderBookVars, draftVars

\* The invariant is inductive.
LEMMA OverdueStep == TypeOK /\ OverdueInv /\ [OrderNext]_orderBookVars => OverdueInv'
<1> SUFFICES ASSUME TypeOK, OverdueInv, [OrderNext]_orderBookVars PROVE OverdueInv'
  OBVIOUS
<1>1. CASE UNCHANGED <<draft, bookedBy, overdue>>
  BY <1>1 DEF OverdueInv
<1>2. ASSUME NEW m \in Messages, PrepareOrder(m) PROVE OverdueInv'
  <2>1. /\ overdue' = overdue
        /\ draft' = [Superseded(Buyer[m]) EXCEPT ![m] = "awaiting_confirmation"]
    BY <1>2 DEF PrepareOrder
  <2> QED BY <2>1 DEF OverdueInv, Superseded, TypeOK
<1>3. ASSUME NEW d \in Messages, DraftExpires(d) PROVE OverdueInv'
  BY <1>3 DEF DraftExpires, OverdueInv
<1>4. ASSUME NEW m \in Messages, NEW d \in Messages, ConfirmOrder(m, d) PROVE OverdueInv'
  <2>1. overdue' = overdue /\ draft' = [draft EXCEPT ![d] = "confirmed"]
    BY <1>4 DEF ConfirmOrder
  <2> QED BY <2>1 DEF OverdueInv, TypeOK
<1> QED BY <1>1, <1>2, <1>3, <1>4, DraftsMove

\* A step that changes no draft of a customer and no booking changes nothing at his desk.
LEMMA DeskUntouched ==
  ASSUME NEW c, \A d \in MessagesOf(c) : DraftAtDesk(d)' = DraftAtDesk(d) /\ bookedBy'[d] = bookedBy[d]
  PROVE  UNCHANGED <<DeskDrafts(c), DeskBookings(c)>>
<1>1. MessagesOf(c)' = MessagesOf(c)
  BY DEF MessagesOf
<1> QED BY <1>1 DEF DeskDrafts, DeskBookings

\* A new summary replaces the one of its customer, and no other.
LEMMA SummaryPrepares ==
  ASSUME TypeOK, OverdueInv, NEW c, NEW m \in Messages, PrepareOrder(m)
  PROVE  \/ m \in MessagesOf(c) /\ DraftDesk(c)!Prepare(m)
         \/ UNCHANGED <<DeskDrafts(c), DeskBookings(c)>>
<1>1. /\ overdue' = overdue /\ bookedBy' = bookedBy /\ draft[m] = "none" /\ m \notin overdue
      /\ draft' = [Superseded(Buyer[m]) EXCEPT ![m] = "awaiting_confirmation"]
  BY DEF PrepareOrder, OverdueInv
<1>2. /\ draft'[m] = "awaiting_confirmation"
      /\ \A d \in Messages \ {m} : draft'[d] = Superseded(Buyer[m])[d]
  BY <1>1 DEF Superseded
<1>3. CASE Buyer[m] # c
  <2>1. \A d \in MessagesOf(c) : draft'[d] = draft[d]
    BY <1>2, <1>3 DEF MessagesOf, Superseded
  <2>2. \A d \in MessagesOf(c) : DraftAtDesk(d)' = DraftAtDesk(d) /\ bookedBy'[d] = bookedBy[d]
    BY <1>1, <2>1 DEF DraftAtDesk
  <2> QED BY <2>2, DeskUntouched
<1>4. CASE Buyer[m] = c
  <2>1. m \in MessagesOf(c) /\ MessagesOf(c)' = MessagesOf(c)
    BY <1>4 DEF MessagesOf
  <2>2. DraftAtDesk(m) = "none" /\ DraftAtDesk(m)' = "waiting"
    BY <1>1, <1>2 DEF DraftAtDesk
  <2>3. ASSUME NEW d \in MessagesOf(c), d # m
        PROVE  DraftAtDesk(d)' = IF DraftAtDesk(d) = "waiting" THEN "gone" ELSE DraftAtDesk(d)
    <3>1. d \in Messages /\ Buyer[d] = Buyer[m]
      BY <1>4 DEF MessagesOf
    <3>2. draft'[d] = IF draft[d] = "awaiting_confirmation" THEN "superseded" ELSE draft[d]
      BY <1>2, <2>3, <3>1 DEF Superseded
    <3> QED BY <1>1, <3>2 DEF DraftAtDesk
  <2>4. DeskDrafts(c)[m] = "none" /\ UNCHANGED DeskBookings(c)
    BY <1>1, <2>1, <2>2 DEF DeskDrafts, DeskBookings
  <2>5. DeskDrafts(c)' = [d \in MessagesOf(c) |-> IF d = m THEN "waiting"
                            ELSE IF DeskDrafts(c)[d] = "waiting" THEN "gone"
                            ELSE DeskDrafts(c)[d]]
    BY <2>1, <2>2, <2>3 DEF DeskDrafts
  <2> QED BY <2>1, <2>4, <2>5, DraftDeskAs
<1> QED BY <1>3, <1>4

\* A summary that runs out is dropped.
LEMMA ExpiryDrops ==
  ASSUME NEW c, NEW d \in Messages, DraftExpires(d)
  PROVE  \/ d \in MessagesOf(c) /\ DraftDesk(c)!Drop(d)
         \/ UNCHANGED <<DeskDrafts(c), DeskBookings(c)>>
<1>1. /\ draft' = draft /\ bookedBy' = bookedBy /\ overdue' = overdue \cup {d}
      /\ draft[d] = "awaiting_confirmation" /\ d \notin overdue
  BY DEF DraftExpires
<1>2. /\ \A e : e # d => DraftAtDesk(e)' = DraftAtDesk(e)
      /\ DraftAtDesk(d) = "waiting" /\ DraftAtDesk(d)' = "gone"
  BY <1>1 DEF DraftAtDesk
<1>3. CASE d \notin MessagesOf(c)
  BY <1>1, <1>2, <1>3, DeskUntouched
<1>4. CASE d \in MessagesOf(c)
  <2>1. MessagesOf(c)' = MessagesOf(c)
    BY DEF MessagesOf
  <2>2. DeskDrafts(c)[d] = "waiting" /\ UNCHANGED DeskBookings(c)
    BY <1>1, <1>2, <1>4, <2>1 DEF DeskDrafts, DeskBookings
  <2>3. DeskDrafts(c)' = [DeskDrafts(c) EXCEPT ![d] = "gone"]
    BY <1>2, <2>1 DEF DeskDrafts
  <2> QED BY <1>4, <2>2, <2>3, DraftDeskAs
<1> QED BY <1>3, <1>4

\* A booking decides a summary of the customer who confirms.
LEMMA BookingDecides ==
  ASSUME TypeOK, NEW c, NEW m \in Messages, NEW d \in Messages, ConfirmOrder(m, d)
  PROVE  \/ m \in MessagesOf(c) /\ d \in MessagesOf(c) /\ DraftDesk(c)!Decide(m, d)
         \/ UNCHANGED <<DeskDrafts(c), DeskBookings(c)>>
<1>1. /\ draft' = [draft EXCEPT ![d] = "confirmed"] /\ bookedBy' = [bookedBy EXCEPT ![d] = m]
      /\ overdue' = overdue
      /\ draft[d] = "awaiting_confirmation" /\ d \notin overdue /\ Buyer[d] = Buyer[m]
      /\ \A e \in Messages : bookedBy[e] # m
  BY DEF ConfirmOrder, Confirmable
<1>2. /\ \A e \in Messages \ {d} : draft'[e] = draft[e] /\ bookedBy'[e] = bookedBy[e]
      /\ draft'[d] = "confirmed" /\ bookedBy'[d] = m
  BY <1>1 DEF TypeOK
<1>3. /\ \A e \in Messages \ {d} : DraftAtDesk(e)' = DraftAtDesk(e)
      /\ DraftAtDesk(d) = "waiting" /\ DraftAtDesk(d)' = "done"
  BY <1>1, <1>2 DEF DraftAtDesk
<1>4. CASE Buyer[d] # c
  BY <1>2, <1>3, <1>4, DeskUntouched DEF MessagesOf
<1>5. CASE Buyer[d] = c
  <2>1. m \in MessagesOf(c) /\ d \in MessagesOf(c) /\ MessagesOf(c)' = MessagesOf(c)
        /\ MessagesOf(c) \subseteq Messages
    BY <1>1, <1>5 DEF MessagesOf
  <2>2. DeskDrafts(c)[d] = "waiting" /\ \A e \in MessagesOf(c) : DeskBookings(c)[e] # m
    BY <1>1, <1>3, <2>1 DEF DeskDrafts, DeskBookings
  <2>3. DeskDrafts(c)' = [DeskDrafts(c) EXCEPT ![d] = "done"]
    BY <1>3, <2>1 DEF DeskDrafts
  <2>4. DeskBookings(c)' = [DeskBookings(c) EXCEPT ![d] = m]
    BY <1>2, <2>1 DEF DeskBookings
  <2> QED BY <2>1, <2>2, <2>3, <2>4, DraftDeskAs
<1> QED BY <1>4, <1>5

\* Every step is one of a customer's desk, or changes nothing there.
LEMMA DraftDeskStep ==
  ASSUME NEW c
  PROVE  TypeOK /\ OverdueInv /\ [OrderNext]_orderBookVars
           => [DraftDesk(c)!Next]_(DraftDesk(c)!vars)
<1> SUFFICES ASSUME TypeOK, OverdueInv, [OrderNext]_orderBookVars
             PROVE  DraftDesk(c)!Next \/ UNCHANGED <<DeskDrafts(c), DeskBookings(c)>>
  BY DEF DraftDesk!vars, DeskDrafts, DeskBookings
<1>1. CASE UNCHANGED <<draft, bookedBy, overdue>>
  <2>1. \A d \in MessagesOf(c) : DraftAtDesk(d)' = DraftAtDesk(d) /\ bookedBy'[d] = bookedBy[d]
    BY <1>1 DEF DraftAtDesk
  <2> QED BY <2>1, DeskUntouched
<1>2. ASSUME NEW m \in Messages, PrepareOrder(m)
      PROVE  DraftDesk(c)!Next \/ UNCHANGED <<DeskDrafts(c), DeskBookings(c)>>
  BY <1>2, SummaryPrepares, Zenon DEF DraftDesk!Next
<1>3. ASSUME NEW d \in Messages, DraftExpires(d)
      PROVE  DraftDesk(c)!Next \/ UNCHANGED <<DeskDrafts(c), DeskBookings(c)>>
  BY <1>3, ExpiryDrops, Zenon DEF DraftDesk!Next
<1>4. ASSUME NEW m \in Messages, NEW d \in Messages, ConfirmOrder(m, d)
      PROVE  DraftDesk(c)!Next \/ UNCHANGED <<DeskDrafts(c), DeskBookings(c)>>
  BY <1>4, BookingDecides, Zenon DEF DraftDesk!Next
<1> QED BY <1>1, <1>2, <1>3, <1>4, DraftsMove

\* At first nothing was prepared.
LEMMA DraftDeskInit ==
  ASSUME NEW c
  PROVE  Init => OverdueInv /\ DraftDesk(c)!Init
<1> SUFFICES ASSUME Init PROVE OverdueInv /\ DraftDesk(c)!Init
  OBVIOUS
<1>1. /\ draft = [m \in Messages |-> "none"] /\ overdue = {}
      /\ bookedBy = [m \in Messages |-> None]
  BY DEF Init
<1>2. \A d \in MessagesOf(c) : DraftAtDesk(d) = "none" /\ bookedBy[d] = None
  BY <1>1 DEF DraftAtDesk, MessagesOf
<1>3. OverdueInv
  BY <1>1 DEF OverdueInv
<1> QED BY <1>2, <1>3 DEF DraftDesk!Init, DraftDesk!Waits

\* A customer's summary is booked once and by a message of his own, the one that
\* waits is the last one prepared, and none comes back, whatever other customers,
\* owner, courier and imports do (prepareOrderDraft, confirmPendingOrderDraft).
THEOREM RefinesDraftDesks == OrderSpec => ImplementsDraftDesks
<1>1. ASSUME NEW c \in Customers
      PROVE  OrderSpec => DraftDesk(c)!Spec
  BY DraftDeskInit, DraftDeskStep, OverdueStep, TypeCorrect, PTL
     DEF OrderSpec, DraftDesk!Spec
<1> QED BY <1>1 DEF ImplementsDraftDesks
=============================================================================
