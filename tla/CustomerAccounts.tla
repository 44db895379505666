-------------------------- MODULE CustomerAccounts --------------------------
(***************************************************************************)
(* What the order book and the payment desk promise together about a       *)
(* customer's account: its balance is what was bought less what was paid,  *)
(* a claim is decided once and an approval taken back once, no approval    *)
(* pays more than is due, and no reference pays twice.                     *)
(***************************************************************************)
EXTENDS Integers, FiniteSetsExt

CONSTANTS
  Customers, Claims, References,
  Payer,    \* customer of a claim
  Amounts   \* what it pays

VARIABLES
  bought,    \* total of the orders that stand, by customer
  standing,  \* of a claim
  spent      \* references that have authorised a claim

vars == <<bought, standing, spent>>

Paid(c) == SumFunctionOnSet(Amounts, {k \in Claims : standing[k] = "approved" /\ Payer[k] = c})

Due(c) == bought[c] - Paid(c)

Init ==
  /\ bought \in [Customers -> Nat]
  /\ standing = [k \in Claims |-> "none"]
  /\ spent = {}

\* An order is booked, or one is cancelled, paid for or not.
Trade(c) ==
  /\ bought'[c] \in Nat
  /\ bought' = [bought EXCEPT ![c] = bought'[c]]
  /\ UNCHANGED <<standing, spent>>

Tell(k) ==
  /\ standing[k] = "none"
  /\ standing' = [standing EXCEPT ![k] = "pending"]
  /\ UNCHANGED <<bought, spent>>

Approve(k) ==
  /\ standing[k] = "pending" /\ Amounts[k] <= Due(Payer[k])
  /\ standing' = [standing EXCEPT ![k] = "approved"]
  /\ \E ref \in References \ spent : spent' = spent \cup {ref}
  /\ UNCHANGED bought

Reject(k) ==
  /\ standing[k] = "pending"
  /\ standing' = [standing EXCEPT ![k] = "rejected"]
  /\ UNCHANGED <<bought, spent>>

\* The customer owes the amount again; the reference stays spent.
Reverse(k) ==
  /\ standing[k] = "approved"
  /\ standing' = [standing EXCEPT ![k] = "reversed"]
  /\ UNCHANGED <<bought, spent>>

Next ==
  \/ \E c \in Customers : Trade(c)
  \/ \E k \in Claims : Tell(k) \/ Approve(k) \/ Reject(k) \/ Reverse(k)

Spec == Init /\ [][Next]_vars
=============================================================================
