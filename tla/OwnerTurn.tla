----------------------------- MODULE OwnerTurn -----------------------------
(***************************************************************************)
(* The owner turn: runOwnerTurn (agent/owner-turn.ts), his send tool       *)
(* (agent/owner-send.ts) and the job attempt around it (server.ts,         *)
(* processDurableInboundJob).  A message is an exact command of one of the *)
(* two desks, order fulfilment and payments, or a question for the model.  *)
(* A command takes effect in a transaction of its own before it is         *)
(* answered, so a crash or a lost answer runs it again: the model is about *)
(* what the second run does and says.                                      *)
(*                                                                         *)
(* A desk has one order or one claim here; what a decision does to orders, *)
(* stock, claims and the ledger is in OrderBook and PaymentDesk, and the   *)
(* wait for the send lock is in OutboundDelivery.                          *)
(***************************************************************************)
EXTENDS AiBudget, Sequences

CONSTANTS
  None,          \* nobody
  Histories,     \* bound: which prepared actions wait at first, and which messages come
  Desk,          \* Desk[m]: whose command message m is
  Does,          \* Does[m]: what it asks for
  Responses,     \* Responses[m]: the tool calls an answer of the model may consist of
  MaxToolSteps,  \* MAX_TOOL_STEPS
  MaxAttempts,   \* INBOUND_JOB_MAX_ATTEMPTS
  MaxHolds,      \* MAX_MID_TURN_CHANNEL_DEFERRALS
  MaxCrashes     \* bound: restarts

\* What the model may say with send_message; its other tools only read.
Words == {"words", "other words"}
Tools == {"report"} \cup Words

\* What the server says of a command: the action is prepared, or was before;
\* nothing was changed; a change was made before, or now; a payment action
\* waits for its exact confirmation.
Texts == {"none", "prepared", "again", "nothing", "already", "changed", "waiting"} \cup Words

ASSUME OwnerAssumption ==
  /\ None \notin Turns
  /\ Histories \subseteq [waiting : SUBSET Turns, coming : SUBSET Turns]
  /\ Desk \in [Turns -> {"fulfilment", "payment", "none"}]
  /\ Does \in [Turns -> {"prepare", "confirm", "cancel", "ask"}]
  /\ Responses \in [Turns -> SUBSET Seq(Tools)]
  /\ \A h \in Histories :
       /\ h.waiting \cap h.coming = {}
       /\ \A m \in h.waiting : Does[m] = "prepare"
       /\ \A a, b \in h.waiting : Desk[a] = Desk[b] => a = b
  /\ {MaxHolds, MaxCrashes} \subseteq Nat
  /\ {MaxToolSteps, MaxAttempts} \subseteq Nat \ {0}

VARIABLES
  job,        \* the inbound job of a message: status and attempts
  holds,      \* MidTurnChannelDeferrals.counts
  turn,       \* the attempt in progress
  answer,     \* the one row of send_ledger for the message
  action,     \* the intent a message prepared
  decidedBy,  \* its confirm_event_key
  outcome,    \* how the trace of the current or last attempt ended
  crashes

jobVars == <<job, holds, outcome>>
deskVars == <<action, decidedBy>>
vars == <<budgetVars, jobVars, turn, answer, deskVars, crashes>>

Rows == {"none", "pending", "sent", "uncertain", "rejected", "unavailable"}
Settled == {"sent", "uncertain"}

TurnRecord ==
  [at : {"idle", "command", "ask", "asked", "tools", "trying", "sending", "after",
         "finishing"},
   step : 0..MaxToolSteps,
   plan : Seq(Tools),
   text : Texts,                \* what is being sent
   called : BOOLEAN,            \* sendMessageWasCalled
   delivered : BOOLEAN,         \* customerReplyDelivered
   unavailable : BOOLEAN,       \* channelUnavailableDuringTurn
   hint : {"none", "replied", "no_reply"}]

NoTurn == [at |-> "idle", step |-> 0, plan |-> <<>>, text |-> "none", called |-> FALSE,
           delivered |-> FALSE, unavailable |-> FALSE, hint |-> "none"]

Waiting(d) == {a \in Turns : Desk[a] = d /\ action[a] = "pending"}

\* Beside the types: a turn runs exactly while its job does, a reserved call
\* belongs to a turn that waits for it, and one action at most waits at a desk.
TypeOK ==
  /\ BudgetTypeOK
  /\ job \in [Turns -> [status : {"absent", "ready", "running", "done", "failed"},
                        attempts : 0..MaxAttempts]]
  /\ holds \in [Turns -> 0..MaxHolds]
  /\ turn \in [Turns -> TurnRecord]
  /\ answer \in [Turns -> [status : Rows, text : Texts]]
  /\ action \in [Turns -> {"none", "pending", "confirmed", "gone"}]
  /\ decidedBy \in [Turns -> Turns \cup {None}]
  /\ outcome \in [Turns -> {"none", "replied", "no_reply", "error", "deferred"}]
  /\ crashes \in Nat
  /\ \A m \in Turns :
       /\ turn[m].at = "idle" <=> job[m].status # "running"
       /\ flight[m] # "none" => turn[m].at = "asked"
       /\ action[m] = "confirmed" => decidedBy[m] # None
       /\ action[m] # "none" => Does[m] = "prepare"
  /\ \A a, b \in Turns :
       action[a] = "pending" /\ action[b] = "pending" /\ Desk[a] = Desk[b] => a = b

\* The actions that wait were prepared by messages answered before.
Init ==
  /\ BudgetInit
  /\ \E h \in Histories :
       /\ job = [m \in Turns |->
                   IF m \in h.waiting THEN [status |-> "done", attempts |-> 1]
                   ELSE [status |-> IF m \in h.coming THEN "ready" ELSE "absent", attempts |-> 0]]
       /\ answer = [m \in Turns |->
                      IF m \in h.waiting THEN [status |-> "sent", text |-> "prepared"]
                      ELSE [status |-> "none", text |-> "none"]]
       /\ action = [m \in Turns |-> IF m \in h.waiting THEN "pending" ELSE "none"]
       /\ outcome = [m \in Turns |-> IF m \in h.waiting THEN "replied" ELSE "none"]
  /\ holds = [m \in Turns |-> 0]
  /\ turn = [m \in Turns |-> NoTurn]
  /\ decidedBy = [m \in Turns |-> None]
  /\ crashes = 0

At(m, place) == turn[m].at = place
Go(m, t) == turn' = [turn EXCEPT ![m] = t]

-----------------------------------------------------------------------------
(* The attempt begins and ends, as for a customer's message. *)

Open(m) ==
  /\ job[m].status = "ready"
  /\ job[m].attempts < MaxAttempts
  /\ job' = [job EXCEPT ![m] = [status |-> "running", attempts |-> @.attempts + 1]]
  /\ Go(m, [NoTurn EXCEPT !.at = "command"])
  /\ outcome' = [outcome EXCEPT ![m] = "none"]
  /\ UNCHANGED <<budgetVars, holds, answer, deskVars, crashes>>

End(m, status, attempts, how) ==
  /\ job' = [job EXCEPT ![m] = [status |-> status, attempts |-> attempts]]
  /\ outcome' = [outcome EXCEPT ![m] = how]
  /\ Go(m, NoTurn)

Throws(m) ==
  End(m, IF job[m].attempts < MaxAttempts THEN "ready" ELSE "failed",
      job[m].attempts, "error")

Defers(m) == End(m, "ready", job[m].attempts - 1, "deferred")

Undelivered(m) == turn[m].unavailable /\ ~turn[m].delivered

\* The job is completed even when the answer was refused: nobody is told.
Complete(m) ==
  /\ At(m, "finishing") /\ ~Undelivered(m)
  /\ End(m, "done", job[m].attempts, turn[m].hint)
  /\ holds' = [holds EXCEPT ![m] = 0]
  /\ UNCHANGED <<budgetVars, answer, deskVars, crashes>>

HoldForSession(m) ==
  /\ At(m, "finishing") /\ Undelivered(m)
  /\ holds[m] < MaxHolds
  /\ holds' = [holds EXCEPT ![m] = @ + 1]
  /\ Defers(m)
  /\ UNCHANGED <<budgetVars, answer, deskVars, crashes>>

ConsumeAttempt(m) ==
  /\ At(m, "finishing") /\ Undelivered(m)
  /\ Throws(m)
  /\ UNCHANGED <<budgetVars, holds, answer, deskVars, crashes>>

-----------------------------------------------------------------------------
(* Commands. *)

Commands(m, desk, what) == At(m, "command") /\ Desk[m] = desk /\ Does[m] = what
Says(m, text) == Go(m, [turn[m] EXCEPT !.at = "trying", !.text = text])

\* The order has the status asked for; the claim is decided.
AlreadyThere(d) == \E a \in Turns : Desk[a] = d /\ action[a] = "confirmed"

\* Mutation of Prepared: an action that still waits is left beside the new one.
PreparedBeside(m) == [action EXCEPT ![m] = "pending"]
\* The new action replaces one that still waits.
Prepared(m) ==
  [a \in Turns |-> IF a = m THEN "pending"
                   ELSE IF a \in Waiting(Desk[m]) THEN "gone" ELSE action[a]]

\* A rerun finds the action it prepared; the payment desk names the
\* confirmation whatever became of it.
Prepare(m) ==
  /\ Commands(m, Desk[m], "prepare")
  /\ \/ /\ action[m] = "none" /\ ~AlreadyThere(Desk[m])
        /\ action' = Prepared(m)
        /\ Says(m, "prepared")
     \/ /\ action[m] = "none"
        /\ Says(m, "nothing")
        /\ UNCHANGED action
     \/ /\ action[m] # "none"
        /\ Says(m, IF action[m] = "pending" \/ Desk[m] = "payment" THEN "again" ELSE "nothing")
        /\ UNCHANGED action
  /\ UNCHANGED <<budgetVars, jobVars, answer, decidedBy, crashes>>

\* Mutation of Decided: only a confirmation that was applied is recognised.
DecidedIfApplied(m) == \E a \in Turns : decidedBy[a] = m /\ action[a] = "confirmed"
\* Mutation of Decided: a rerun of a confirmation is not recognised.
NeverDecided(m) == m = None
\* Some action has this message as its confirm_event_key, which is unique.
Decided(m) == \E a \in Turns : decidedBy[a] = m

\* The waiting action is carried out, or found impossible by now and dropped.
Decide(m) ==
  \E a \in Waiting(Desk[m]), how \in {"confirmed", "gone"} :
    /\ action' = [action EXCEPT ![a] = how]
    /\ decidedBy' = [decidedBy EXCEPT ![a] = m]
    /\ Says(m, IF how = "confirmed" THEN "changed" ELSE "nothing")

\* A rerun is recognised by its event key before anything else.
ConfirmFulfilment(m) ==
  /\ Commands(m, "fulfilment", "confirm")
  /\ \/ /\ Decided(m)
        /\ Says(m, IF \E a \in Turns : decidedBy[a] = m /\ action[a] = "confirmed"
                   THEN "already" ELSE "nothing")
        /\ UNCHANGED deskVars
     \/ ~Decided(m) /\ Decide(m)
     \/ /\ ~Decided(m) /\ Waiting("fulfilment") = {}
        /\ Says(m, "nothing") \/ (AlreadyThere("fulfilment") /\ Says(m, "already"))
        /\ UNCHANGED deskVars
  /\ UNCHANGED <<budgetVars, jobVars, answer, crashes>>

\* The payment desk looks for a waiting action first.
ConfirmPayment(m) ==
  /\ Commands(m, "payment", "confirm")
  /\ \/ ~Decided(m) /\ Decide(m)
     \/ /\ Waiting("payment") = {}
        /\ Says(m, "nothing")
        /\ UNCHANGED deskVars
  /\ UNCHANGED <<budgetVars, jobVars, answer, crashes>>

\* The fulfilment desk notes who cancelled, the payment desk does not.
Cancel(m) ==
  /\ Does[m] = "cancel" /\ At(m, "command")
  /\ Says(m, "nothing")
  /\ Desk[m] = "fulfilment" /\ Waiting(Desk[m]) # {} => ~Decided(m)
  /\ action' = [a \in Turns |-> IF a \in Waiting(Desk[m]) THEN "gone" ELSE action[a]]
  /\ decidedBy' = [a \in Turns |-> IF a \in Waiting(Desk[m]) /\ Desk[m] = "fulfilment"
                                   THEN m ELSE decidedBy[a]]
  /\ UNCHANGED <<budgetVars, jobVars, answer, crashes>>

\* A rerun would decide a second action: the unique key undoes the transaction
\* and the attempt fails.
KeyTaken(m) ==
  /\ Commands(m, "payment", "confirm") \/ Commands(m, "fulfilment", "cancel")
  /\ Decided(m) /\ Waiting(Desk[m]) # {}
  /\ Throws(m)
  /\ UNCHANGED <<budgetVars, holds, answer, deskVars, crashes>>

\* While a payment action waits, anything else is answered with a reminder.
Ask(m) ==
  /\ At(m, "command") /\ Does[m] = "ask"
  /\ IF Waiting("payment") # {} THEN Says(m, "waiting")
     ELSE Go(m, [turn[m] EXCEPT !.at = "ask"])
  /\ UNCHANGED <<budgetVars, jobVars, answer, deskVars, crashes>>

ActionExpires(d) ==
  /\ Waiting(d) # {}
  /\ action' = [a \in Turns |-> IF a \in Waiting(d) THEN "gone" ELSE action[a]]
  /\ UNCHANGED <<budgetVars, jobVars, turn, answer, decidedBy, crashes>>

-----------------------------------------------------------------------------
(* The loop with the model. *)

CallModel(m) ==
  /\ At(m, "ask")
  /\ Reserve(m)
  /\ Go(m, [turn[m] EXCEPT !.at = "asked"])
  /\ UNCHANGED <<jobVars, answer, deskVars, crashes>>

\* No busy reply for the owner: the job waits an hour with its attempts kept.
BudgetRefuses(m) ==
  /\ At(m, "ask") /\ Exhausted
  /\ Defers(m)
  /\ UNCHANGED <<budgetVars, holds, answer, deskVars, crashes>>

ModelFails(m) ==
  /\ At(m, "asked")
  /\ FinishCall(m, 0)
  /\ Throws(m)
  /\ UNCHANGED <<holds, answer, deskVars, crashes>>

\* The next tool call, or with the last one done the next answer.
Proceed(t) ==
  IF t.plan # <<>>
  THEN IF Head(t.plan) \in Words
       THEN [t EXCEPT !.at = "trying", !.text = Head(t.plan), !.called = TRUE]
       ELSE [t EXCEPT !.at = "tools"]
  ELSE [t EXCEPT !.at = IF t.step = MaxToolSteps THEN "after" ELSE "ask"]

Returned(t) == Proceed([t EXCEPT !.plan = Tail(@)])

ModelAnswers(m) ==
  /\ At(m, "asked")
  /\ \E used \in 0..MaxTokens : FinishCall(m, used)
  /\ \E plan \in Responses[m] :
       LET t == [turn[m] EXCEPT !.step = @ + 1, !.plan = plan]
       IN Go(m, IF plan = <<>> THEN [t EXCEPT !.at = "after"] ELSE Proceed(t))
  /\ UNCHANGED <<jobVars, answer, deskVars, crashes>>

Report(m) ==
  /\ At(m, "tools")
  /\ Go(m, Returned(turn[m]))
  /\ UNCHANGED <<budgetVars, jobVars, answer, deskVars, crashes>>

\* Its last text, or an apology, is sent for a model that never used the tool.
SendLastText(m) ==
  /\ At(m, "after") /\ ~turn[m].called
  /\ \E words \in Words : Says(m, words)
  /\ UNCHANGED <<budgetVars, jobVars, answer, deskVars, crashes>>

\* One that used it is not helped, whether or not anything got out.
LoopDone(m) ==
  /\ At(m, "after") /\ turn[m].called
  /\ Go(m, [turn[m] EXCEPT !.at = "finishing",
                           !.hint = IF @ = "replied" THEN @ ELSE "no_reply"])
  /\ UNCHANGED <<budgetVars, jobVars, answer, deskVars, crashes>>

-----------------------------------------------------------------------------
(* The send tool. *)

\* A tool call returns to the loop; any other send is the last thing the turn
\* does.
SendReturns(t, ok) ==
  LET told == [t EXCEPT !.hint = IF ok \/ @ = "replied" THEN "replied" ELSE "no_reply"]
  IN IF t.plan = <<>> THEN [told EXCEPT !.at = "finishing"] ELSE Returned(told)

\* By pacing or, before it, by the guard on internal wording.
Refused(m) ==
  /\ At(m, "trying")
  /\ Go(m, SendReturns(turn[m], FALSE))
  /\ UNCHANGED <<budgetVars, jobVars, answer, deskVars, crashes>>

\* beginOutboundAttempt: another wording takes the message's row over only when
\* the earlier one never reached WhatsApp.
Takes(row, text) ==
  \/ row.status \in {"none", "unavailable"}
  \/ row.status = "rejected" /\ row.text = text

\* The row stands for this text as well, and counts as sent or as unknown.
FoundSent(m) ==
  /\ At(m, "trying")
  /\ ~Takes(answer[m], turn[m].text)
  /\ Go(m, SendReturns(turn[m], TRUE))
  /\ UNCHANGED <<budgetVars, jobVars, answer, deskVars, crashes>>

BeginSend(m) ==
  /\ At(m, "trying")
  /\ Takes(answer[m], turn[m].text)
  /\ answer' = [answer EXCEPT ![m] = [status |-> "pending", text |-> turn[m].text]]
  /\ Go(m, [turn[m] EXCEPT !.at = "sending"])
  /\ UNCHANGED <<budgetVars, jobVars, deskVars, crashes>>

Row(m, status) == answer' = [answer EXCEPT ![m].status = status]

SendEnds(m) ==
  /\ At(m, "sending")
  /\ \E status \in Settled :
       /\ Row(m, status)
       /\ Go(m, SendReturns([turn[m] EXCEPT !.delivered = @ \/ status = "sent"], TRUE))
  /\ UNCHANGED <<budgetVars, jobVars, deskVars, crashes>>

SendFails(m) ==
  /\ At(m, "sending")
  /\ \E status \in {"rejected", "unavailable"} :
       /\ Row(m, status)
       /\ Go(m, SendReturns([turn[m] EXCEPT !.unavailable = @ \/ status = "unavailable"],
                            FALSE))
  /\ UNCHANGED <<budgetVars, jobVars, deskVars, crashes>>

-----------------------------------------------------------------------------

Midnight ==
  /\ NewDay
  /\ UNCHANGED <<jobVars, turn, answer, deskVars, crashes>>

Crash ==
  /\ crashes < MaxCrashes
  /\ crashes' = crashes + 1
  /\ LoseCalls
  /\ job' = [m \in Turns |->
               IF job[m].status # "running" THEN job[m]
               ELSE [job[m] EXCEPT !.status = IF job[m].attempts < MaxAttempts
                                              THEN "ready" ELSE "failed"]]
  /\ turn' = [m \in Turns |-> NoTurn]
  /\ holds' = [m \in Turns |-> 0]
  /\ answer' = [m \in Turns |-> IF answer[m].status = "pending"
                                THEN [answer[m] EXCEPT !.status = "uncertain"] ELSE answer[m]]
  /\ UNCHANGED <<outcome, deskVars>>

\* One thread: a turn is interrupted at the model, the send lock, the gateway
\* and the session check only.
MidStep(m) == turn[m].at \in {"command", "ask", "tools", "after"}
Runnable(m) == \A n \in Turns \ {m} : ~MidStep(n)

Attempt(m) == Open(m) \/ Complete(m) \/ HoldForSession(m) \/ ConsumeAttempt(m)
Command(m) ==
  Prepare(m) \/ ConfirmFulfilment(m) \/ ConfirmPayment(m) \/ Cancel(m) \/ KeyTaken(m) \/ Ask(m)
Loop(m) ==
  \/ CallModel(m) \/ BudgetRefuses(m) \/ ModelFails(m) \/ ModelAnswers(m)
  \/ Report(m) \/ SendLastText(m) \/ LoopDone(m)
Send(m) == Refused(m) \/ FoundSent(m) \/ BeginSend(m) \/ SendEnds(m) \/ SendFails(m)
Step(m) == Attempt(m) \/ Command(m) \/ Loop(m) \/ Send(m)
World == Midnight \/ \E d \in {"fulfilment", "payment"} : ActionExpires(d)

Next ==
  \/ Crash
  \/ (\A m \in Turns : ~MidStep(m)) /\ World
  \/ \E m \in Turns : Runnable(m) /\ Step(m)

Spec == Init /\ [][Next]_vars

-----------------------------------------------------------------------------

Applied(m) == \E a \in Turns : decidedBy[a] = m /\ action[a] = "confirmed"

\* One message decides one action, however often it is run and whatever was
\* prepared between its runs (payment-resolution.ts and fulfilment-commands.ts,
\* confirm_event_key).
OneActionPerCommand ==
  \A a, b \in Turns : decidedBy[a] = decidedBy[b] /\ decidedBy[a] # None => a = b

\* After a change was made for a message, no answer to it is begun that says
\* nothing was changed.
Begins(m) == answer[m].status # "pending" /\ answer'[m].status = "pending"
NotDenied(desk) ==
  \A m \in Turns : Desk[m] = desk /\ Applied(m) /\ Begins(m) => answer'[m].text # "nothing"

\* A confirmation that moved an order is never answered later that nothing was
\* changed, after a crash, a lost answer or a held job (fulfilment-commands.ts,
\* the replay of the exact confirmation).  NotDenied("payment") does not hold.
ShippingIsNotDenied == [][NotDenied("fulfilment")]_vars

-----------------------------------------------------------------------------
(* The promise. *)

ShippingMessages == {m \in Turns : Desk[m] = "fulfilment"}
PaymentMessages == {m \in Turns : Desk[m] = "payment"}

ActionAtDesk(a) ==
  CASE action[a] = "pending" -> "waiting"
    [] action[a] = "confirmed" -> "done"
    [] OTHER -> action[a]

\* What waits, was done or is gone at a desk, and who decided it.
Actions(S) == [a \in S |-> ActionAtDesk(a)]
Deciders(S) == [a \in S |-> decidedBy[a]]

Shipping == INSTANCE TwoStepDesk WITH
  Messages <- ShippingMessages,
  action <- Actions(ShippingMessages), decidedBy <- Deciders(ShippingMessages)
Payment == INSTANCE TwoStepDesk WITH
  Messages <- PaymentMessages,
  action <- Actions(PaymentMessages), decidedBy <- Deciders(PaymentMessages)

\* Attempts that are run again, from whatever point they were left at, do to a
\* desk what messages run once would do: one action waits, it is decided once and
\* by one message, and none comes back.  OrderBook and PaymentDesk, where commands
\* take effect, keep the same promise (handleOwnerFulfilmentCommand,
\* handleOwnerPaymentCommand).
ImplementsShippingDesk == Shipping!Spec
ImplementsPaymentDesk == Payment!Spec
=============================================================================
