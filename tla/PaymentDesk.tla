---------------------------- MODULE PaymentDesk ----------------------------
(***************************************************************************)
(* Payment claims of customers (payments.ts), the owner's two-step         *)
(* decisions on them (payment-resolution.ts) and refund cases (refunds.ts), *)
(* over the orders of OrderBook: a cancellation or a booking may fall      *)
(* between any two of these steps, and both write the same ledger.         *)
(***************************************************************************)
EXTENDS OrderBook, FiniteSetsExt

CONSTANTS
  Claims,      \* claims a customer may make, by event key
  Claimed,     \* Claimed[k]: customer, order or None, amount, method, reference,
               \* and whether the turn's closing step makes it
  PayBy,       \* payment method of an order
  References,  \* transaction references
  PayMessages, \* owner's messages with a payment command
  PayText,     \* PayText[m]: the exact command
  RefundCases, \* refund requests a customer may make, by event key
  RefundOrder  \* order of a refund request

Methods == {"cod", "bank", "wallet", "unknown"}
ClaimRecord == [customer : Customers, order : Orders \cup {None}, amount : Nat \ {0},
                method : Methods, reference : References \cup {None}, closing : BOOLEAN]
PayCommands == [verb : {"prepare", "confirm", "cancel"}, decision : {"approve", "reject", "reverse"},
                claim : Claims, reference : References \cup {None}]

ASSUME PaymentDeskAssumption ==
  /\ None \notin Orders \cup References \cup PayMessages
  /\ Claimed \in [Claims -> ClaimRecord]
  /\ \A k \in Claims :
       Claimed[k].closing => Claimed[k].order = None /\ Claimed[k].method = "unknown"
  /\ PayBy \in [Orders -> Methods]
  /\ PayText \in [PayMessages -> PayCommands]
  /\ \A m \in PayMessages :
       PayText[m].decision = "approve" <=> PayText[m].reference # None
  /\ RefundOrder \in [RefundCases -> Orders]
  /\ IsFiniteSet(Claims)

VARIABLES
  account,   \* debits minus credits of the ledger rows without an order
  claim,     \* payment_claims.status
  reversed,  \* claims with approval_reversed_at
  aged,      \* pending claims older than a day
  verified,  \* payment_claim_verifications
  action,    \* payment_claim_action_intents.status, by source_event_key
  settledBy, \* confirm_event_key
  timedOut,  \* pending actions older than ten minutes
  refund,    \* refund_requests.status
  tooLate    \* orders delivered more than seven days ago

claimVars == <<account, claim, reversed, aged, verified>>
actionVars == <<action, settledBy, timedOut>>
refundVars == <<refund, tooLate>>
deskVars == <<claimVars, actionVars, refundVars>>
shopVars == <<orderBookVars, deskVars>>

ShopTypeOK ==
  /\ TypeOK
  /\ account \in [Customers -> Int]
  /\ claim \in [Claims -> {"none", "pending", "approved", "rejected"}]
  /\ reversed \subseteq Claims
  /\ aged \subseteq Claims
  /\ verified \in [Claims -> References \cup {None}]
  /\ action \in [PayMessages -> IntentStates]
  /\ settledBy \in [PayMessages -> PayMessages \cup {None}]
  /\ timedOut \subseteq PayMessages
  /\ refund \in [RefundCases -> {"none", "requested", "approved_pending_execution", "rejected"}]
  /\ tooLate \subseteq Orders

ShopInit ==
  /\ Init
  /\ account = [c \in Customers |-> 0]
  /\ claim = [k \in Claims |-> "none"]
  /\ reversed = {}
  /\ aged = {}
  /\ verified = [k \in Claims |-> None]
  /\ action = [m \in PayMessages |-> "none"]
  /\ settledBy = [m \in PayMessages |-> None]
  /\ timedOut = {}
  /\ refund = [r \in RefundCases |-> "none"]
  /\ tooLate = {}

-----------------------------------------------------------------------------
(* The ledger. *)

OrdersOf(c) == {o \in Orders : Buyer[o] = c /\ order[o] # "absent"}

\* Mutation of Balance: only the rows of orders are summed.
BalanceOfOrders(c) == SumFunctionOnSet(owed, OrdersOf(c))

\* getBalanceMinor.
Balance(c) == SumFunctionOnSet(owed, OrdersOf(c)) + account[c]

\* A ledger row for a claim, linked to the order the claim names.
Post(k, amount) ==
  LET c == Claimed[k].customer
      o == Claimed[k].order
  IN IF o = None
     THEN account' = [account EXCEPT ![c] = @ + amount] /\ UNCHANGED owed
     ELSE owed' = [owed EXCEPT ![o] = @ + amount] /\ UNCHANGED account

-----------------------------------------------------------------------------
(* Claims. *)

Live(o) == order[o] \notin {"absent", "cancelled"}
Undelivered(o) == PayBy[o] = "cod" /\ Live(o) /\ order[o] # "delivered"

\* Cash on delivery is paid at the door, and a cancelled order not at all.  The
\* turn's closing step knows neither order nor method and asks whether the
\* customer has anything else to pay for.
ClaimNeeded(k) ==
  LET o == Claimed[k].order
      live == {x \in OrdersOf(Claimed[k].customer) : Live(x)}
      cash == {x \in OrdersOf(Claimed[k].customer) : PayBy[x] = "cod"}
  IN IF o # None THEN Buyer[o] = Claimed[k].customer /\ Live(o) /\ ~Undelivered(o)
     ELSE IF Claimed[k].closing
     THEN live = {} \/ \E x \in live : ~Undelivered(x)
     ELSE Claimed[k].method = "cod" =>
            \/ {x \in cash : Undelivered(x)} = {}
            \/ \E x \in cash : order[x] = "delivered"

\* The same payment told again: an open claim that does not contradict this one.
SamePayment(k, j) ==
  LET a == Claimed[k]
      b == Claimed[j]
  IN /\ a.customer = b.customer /\ a.amount = b.amount
     /\ a.order = b.order \/ None \in {a.order, b.order}
     /\ a.method = b.method \/ "unknown" \in {a.method, b.method}

\* Mutation of ToldBefore: only a claim in the same words is recognised.
ToldInTheSameWords(k) ==
  \E j \in Claims : claim[j] = "pending" /\ j \notin aged /\ Claimed[j] = Claimed[k]

ToldBefore(k) == \E j \in Claims : claim[j] = "pending" /\ j \notin aged /\ SamePayment(k, j)

\* recordPaymentClaim; a repeated claim or event changes nothing.
RecordClaim(k) ==
  /\ claim[k] = "none"
  /\ ClaimNeeded(k) /\ ~ToldBefore(k)
  /\ claim' = [claim EXCEPT ![k] = "pending"]
  /\ UNCHANGED <<orderBookVars, account, reversed, aged, verified, actionVars, refundVars>>

ClaimAges(k) ==
  /\ claim[k] = "pending" /\ k \notin aged
  /\ aged' = aged \cup {k}
  /\ UNCHANGED <<orderBookVars, account, claim, reversed, verified, actionVars, refundVars>>

-----------------------------------------------------------------------------
(* The owner's decisions. *)

Approved(k) == claim[k] = "approved" /\ k \notin reversed

\* Mutation of ReferenceFree: a reversed approval frees its reference.
ReferenceFreeAgain(k, ref) ==
  \A j \in Claims \ {k} :
    ~(Approved(j) /\ (verified[j] = ref \/ Claimed[j].reference = ref))

\* A verified reference is never used again, and neither is the one an approved
\* claim carries.
ReferenceFree(k, ref) ==
  \A j \in Claims \ {k} :
    verified[j] # ref /\ ~(Approved(j) /\ Claimed[j].reference = ref)

\* approvalBlockReason has nothing to say.
Approvable(k, ref) ==
  LET o == Claimed[k].order
      amount == Claimed[k].amount
  IN /\ amount <= Balance(Claimed[k].customer)
     /\ o # None => amount <= owed[o]
     /\ ReferenceFree(k, ref)

\* Mutation of Applicable: what was approvable at preparation stays so.
ApplicableAsPrepared(decision, k, ref) ==
  IF decision = "reverse" THEN Approved(k) ELSE claim[k] = "pending"

\* Checked when an action is prepared and again when it is confirmed.
Applicable(decision, k, ref) ==
  CASE decision = "approve" -> claim[k] = "pending" /\ Approvable(k, ref)
    [] decision = "reject" -> claim[k] = "pending"
    [] decision = "reverse" -> Approved(k)

ActionExpires(i) ==
  /\ action[i] = "pending" /\ i \notin timedOut
  /\ timedOut' = timedOut \cup {i}
  /\ UNCHANGED <<orderBookVars, claimVars, action, settledBy, refundVars>>

\* expireOldAction and activeAction.
ActionsExpired ==
  [i \in PayMessages |-> IF action[i] = "pending" /\ i \in timedOut THEN "expired" ELSE action[i]]

Open == {i \in PayMessages : action[i] = "pending" /\ i \notin timedOut}

PreparePayment(m) ==
  LET t == PayText[m]
  IN /\ t.verb = "prepare" /\ action[m] = "none"
     /\ claim[t.claim] # "none"
     /\ action' =
          IF Applicable(t.decision, t.claim, t.reference)
          THEN [i \in PayMessages |->
                  IF i = m THEN "pending"
                  ELSE IF i \in Open THEN "cancelled" ELSE ActionsExpired[i]]
          ELSE ActionsExpired
     /\ UNCHANGED <<orderBookVars, claimVars, settledBy, timedOut, refundVars>>

\* confirm_event_key is unique: a redelivered confirmation of another action
\* fails and changes nothing.
Unused(m) == \A i \in PayMessages : settledBy[i] # m

\* The confirmation repeats decision, claim and reference of the open action.
Names(m, i) ==
  /\ PayText[i].decision = PayText[m].decision
  /\ PayText[i].claim = PayText[m].claim
  /\ PayText[i].reference = PayText[m].reference

\* applyConfirmedAction: verification, ledger row, link and claim together; an
\* action that no longer applies is given up.
ConfirmPayment(m, i) ==
  LET t == PayText[m]
      k == t.claim
      applies == Applicable(t.decision, k, t.reference)
  IN /\ t.verb = "confirm" /\ Unused(m)
     /\ i \in Open /\ Names(m, i)
     /\ action' = [ActionsExpired EXCEPT ![i] = IF applies THEN "confirmed" ELSE "cancelled"]
     /\ settledBy' = [settledBy EXCEPT ![i] = m]
     /\ CASE applies /\ t.decision = "approve" ->
               /\ claim' = [claim EXCEPT ![k] = "approved"]
               /\ verified' = [verified EXCEPT ![k] = t.reference]
               /\ Post(k, -Claimed[k].amount)
               /\ UNCHANGED reversed
          [] applies /\ t.decision = "reject" ->
               /\ claim' = [claim EXCEPT ![k] = "rejected"]
               /\ UNCHANGED <<owed, account, verified, reversed>>
          [] applies /\ t.decision = "reverse" ->
               /\ reversed' = reversed \cup {k}
               /\ Post(k, Claimed[k].amount)
               /\ UNCHANGED <<claim, verified>>
          [] OTHER -> UNCHANGED <<owed, account, claim, verified, reversed>>
     /\ UNCHANGED <<shelfVars, draftVars, order, intentVars, aged, timedOut, refundVars>>

CancelPayment(m, i) ==
  /\ PayText[m].verb = "cancel" /\ i \in Open
  /\ action' = [ActionsExpired EXCEPT ![i] = "cancelled"]
  /\ UNCHANGED <<orderBookVars, claimVars, settledBy, timedOut, refundVars>>

\* Any other message of the owner, a confirmation that names nothing included.
TidyActions ==
  /\ action' = ActionsExpired /\ action' # action
  /\ UNCHANGED <<orderBookVars, claimVars, settledBy, timedOut, refundVars>>

-----------------------------------------------------------------------------
(* Refund cases. *)

ReturnWindowCloses(o) ==
  /\ order[o] = "delivered" /\ o \notin tooLate
  /\ tooLate' = tooLate \cup {o}
  /\ UNCHANGED <<orderBookVars, claimVars, actionVars, refund>>

ActiveCases(o) ==
  {r \in RefundCases :
     RefundOrder[r] = o /\ refund[r] \in {"requested", "approved_pending_execution"}}

OpenCase(o) == ActiveCases(o) # {}

\* createRefundRequest; an open case of the order, or the event's own, is
\* returned unchanged.
RequestRefund(r) ==
  LET o == RefundOrder[r]
  IN /\ refund[r] = "none"
     /\ ~OpenCase(o)
     /\ order[o] = "delivered" /\ o \notin tooLate
     /\ refund' = [refund EXCEPT ![r] = "requested"]
     /\ UNCHANGED <<orderBookVars, claimVars, actionVars, tooLate>>

\* resolve_refund_request moves no money and no order.
ResolveRefund(r) ==
  /\ refund[r] = "requested"
  /\ \E decision \in {"approved_pending_execution", "rejected"} :
       refund' = [refund EXCEPT ![r] = decision]
  /\ UNCHANGED <<orderBookVars, claimVars, actionVars, tooLate>>

-----------------------------------------------------------------------------

DeskNext ==
  \/ \E k \in Claims : RecordClaim(k) \/ ClaimAges(k)
  \/ \E m \in PayMessages : PreparePayment(m) \/ ActionExpires(m)
  \/ \E m, i \in PayMessages : ConfirmPayment(m, i) \/ CancelPayment(m, i)
  \/ TidyActions
  \/ \E o \in Orders : ReturnWindowCloses(o)
  \/ \E r \in RefundCases : RequestRefund(r) \/ ResolveRefund(r)

ShopNext == DeskNext \/ (OrderNext /\ UNCHANGED deskVars)

ShopSpec == ShopInit /\ [][ShopNext]_shopVars

-----------------------------------------------------------------------------
(* Properties. *)

Amount == [k \in Claims |-> Claimed[k].amount]
Credits(S) == SumFunctionOnSet(Amount, S)

\* Claims that stand, on an order and on no order in particular.
ApprovedOn(o) == {k \in Claims : Approved(k) /\ Claimed[k].order = o}
ApprovedOf(c) ==
  {k \in Claims : Approved(k) /\ Claimed[k].order = None /\ Claimed[k].customer = c}

\* The ledger explains every balance: what an order is owed is its total while
\* it lives, less the approved and not reversed claims on it; every claim is
\* credited once and taken back once, over redelivered and repeated commands
\* and cancellations in between (applyConfirmedAction, reverseApprovedClaim).
LedgerExplained ==
  /\ \A o \in Orders : owed[o] = Price(o) - Credits(ApprovedOn(o))
  /\ \A c \in Customers : account[c] = -Credits(ApprovedOf(c))

\* No approval creates store credit or pays a cancelled order: what was checked
\* at preparation is checked again at confirmation (approvalBlockReason).
ApprovalsWithinDebt ==
  [][\A k \in Claims :
       claim[k] = "pending" /\ claim'[k] = "approved" =>
         /\ Balance(Claimed[k].customer)' >= 0
         /\ Claimed[k].order # None => Live(Claimed[k].order)]_shopVars

\* One verified reference authorises one claim, also after a reversal.
ReferenceAuthorisesOnce ==
  \A k, j \in Claims : verified[k] # None /\ verified[k] = verified[j] => k = j

\* The same payment told twice is one claim to decide on.
OnePendingClaimPerPayment ==
  \A k, j \in Claims :
    /\ claim[k] = "pending" /\ claim[j] = "pending" /\ {k, j} \cap aged = {}
    /\ SamePayment(k, j)
    => k = j

\* An order has one active refund case, and only if it was delivered.
RefundsJustified ==
  \A o \in Orders :
    /\ Cardinality(ActiveCases(o)) <= 1
    /\ ActiveCases(o) # {} => order[o] = "delivered"

-----------------------------------------------------------------------------
(* The promise. *)

Bought(c) == SumFunctionOnSet([o \in Orders |-> Price(o)], OrdersOf(c))

Accounts == INSTANCE CustomerAccounts WITH
  Payer <- [k \in Claims |-> Claimed[k].customer],
  Amounts <- Amount,
  bought <- [c \in Customers |-> Bought(c)],
  standing <- [k \in Claims |-> IF k \in reversed THEN "reversed" ELSE claim[k]],
  spent <- {verified[k] : k \in Claims} \ {None}

\* Orders and payments of a customer add up: the balance approvals are checked
\* against is what was bought less what was paid, over all rows of the ledger,
\* and a claim is decided, and an approval taken back, at most once
\* (getBalanceMinor, handleOwnerPaymentCommand).
ImplementsCustomerAccounts == Accounts!Spec

DecisionAtDesk(i) ==
  CASE action[i] = "pending" -> IF i \in timedOut THEN "gone" ELSE "waiting"
    [] action[i] = "confirmed" -> "done"
    [] action[i] \in {"cancelled", "expired"} -> "gone"
    [] OTHER -> "none"

DecisionDesk == INSTANCE TwoStepDesk WITH
  Messages <- PayMessages,
  action <- [i \in PayMessages |-> DecisionAtDesk(i)],
  decidedBy <- settledBy

\* A payment action is decided once and by one message, the one that waits is
\* the last one prepared, and none comes back (handleOwnerPaymentCommand).
ImplementsDecisionDesk == DecisionDesk!Spec
=============================================================================
