---------------------------- MODULE CustomerTurn ----------------------------
(***************************************************************************)
(* The customer turn: runTurn (agent/customer-turn.ts) with its OPEN, LOOP *)
(* and silent-no-reply guard, CLOSE (agent/turn-close.ts), and the job     *)
(* attempt around it (server.ts, processDurableInboundJob).  One customer  *)
(* writes several messages; each is a durable job, and several workers may *)
(* be on his messages at once.                                             *)
(*                                                                         *)
(* The model is the environment: an answer is any sequence of tool calls.  *)
(* A send is checked and begun in one step; its wait for the send lock is  *)
(* in OutboundDelivery, the claims and refunds a tool records are in       *)
(* PaymentDesk, the order behind a booked draft is in OrderBook, and the   *)
(* alert for a handoff is in OwnerAlerts.                                  *)
(***************************************************************************)
EXTENDS AiBudget, Sequences

CONSTANTS
  None,            \* no slot, nobody
  Earlier,         \* messages answered before the behaviour begins
  Arrivals,        \* bound: the sets of messages that may come in it
  Orders,          \* messages that name a payment method, so prepare_order may succeed
  Confirms,        \* messages that confirm an order explicitly
  Signals,         \* messages with a CLOSE signal
  Responses,       \* Responses[m]: the tool calls an answer to m may consist of
  Reports,         \* what the closing JSON may report
  MaxToolSteps,    \* MAX_TOOL_STEPS
  MaxFailedSends,  \* MAX_FAILED_SEND_ATTEMPTS
  MaxAttempts,     \* INBOUND_JOB_MAX_ATTEMPTS
  MaxHolds,        \* MAX_MID_TURN_CHANNEL_DEFERRALS
  Every,           \* CHECKPOINT_EVERY_N_TURNS
  MaxCrashes       \* bound: restarts

\* send_message; send_payment_instructions and send_handoff_status, which send
\* an exact text of the server under the same key; show_product_images.
Replies == {"reply", "instructions", "pictures"}
\* claim_payment, request_refund or get_my_refund_status, update_order_status.
Sensitive == {"claim", "refund", "status"}
AllTools == Replies \cup Sensitive
            \cup {"look", "owner", "prepare", "confirm", "show"}
\* CLOSE_SKIPPABLE_TOOLS: looking up is check_stock, search_catalog or a note.
Skippable == {"reply", "pictures", "look"}

\* Keys of the ledger under one message: the summary of a draft has its own.
Slots == {"reply", "pictures", "fallback", "busy"} \cup Turns
SlotOf(tool) == IF tool = "instructions" THEN "reply" ELSE tool

Handoffs == {"reply_failure", "customer_handoff", "unlogged_order", "unlogged_payment"}

ASSUME TurnAssumption ==
  /\ Earlier \subseteq Turns
  /\ Arrivals \subseteq SUBSET (Turns \ Earlier)
  /\ Orders \subseteq Turns /\ Confirms \subseteq Turns
  /\ Confirms \subseteq Signals /\ Signals \subseteq Turns
  /\ Responses \in [Turns -> SUBSET Seq(AllTools)]
  /\ Reports \subseteq {"unlogged_order", "unlogged_payment"}
  /\ None \notin Slots
  /\ Turns \cap {"reply", "pictures", "fallback", "busy"} = {}
  /\ {MaxFailedSends, MaxHolds, Every, MaxCrashes} \subseteq Nat
  /\ {MaxToolSteps, MaxAttempts} \subseteq Nat \ {0}

VARIABLES
  job,         \* the inbound job of a message: status and attempts
  holds,       \* MidTurnChannelDeferrals.counts
  turn,        \* the attempt in progress
  ledger,      \* send_ledger, by message and slot
  drafts,      \* order_drafts, by the message that prepared it
  bookedBy,    \* confirmed_event_key of a draft
  noted,       \* handoff_ledger, by message
  optedOut,    \* customers.automation_opted_out
  remembered,  \* the customer has a checkpoint
  uncovered,   \* messages recorded since it was written
  outcome,     \* how the trace of the current or last attempt ended
  stopped,     \* messages during whose processing the customer was opted out
  crashes

jobVars == <<job, holds, outcome>>
orderVars == <<drafts, bookedBy>>
memoryVars == <<remembered, uncovered>>
consentVars == <<optedOut, stopped>>
vars == <<budgetVars, jobVars, turn, ledger, orderVars, noted, memoryVars,
          consentVars, crashes>>

Outcomes == {"none", "replied", "fallback", "no_reply", "silenced", "error", "deferred"}

TurnRecord ==
  [at : {"idle", "ask", "asked", "tools", "trying", "sending", "after", "close",
         "closing", "finishing"},
   step : 0..MaxToolSteps,                \* answers so far
   plan : Seq(AllTools),       \* tool calls of the answer still to run
   slot : Slots \cup {None},              \* the send under way
   failed : Nat,                          \* failedSendAttempts
   replied : BOOLEAN,                     \* sendMessageSucceeded
   here : BOOLEAN,                        \* replyDeliveredThisStep
   stop : BOOLEAN,                        \* mediaReplyCompleted, orderSummaryReplyAttempted
   called : SUBSET (AllTools \cup {"summary"}),           \* toolsCalledThisTurn
   error : {"none", "other", "pacing", "optedout"},    \* lastSendMessageError
   facts : SUBSET Sensitive,              \* sensitiveActionFacts
   known : BOOLEAN,                       \* a checkpoint was there at OPEN
   delivered : BOOLEAN,                   \* customerReplyDelivered
   unavailable : BOOLEAN,                 \* channelUnavailableDuringTurn
   hint : {"none", "replied", "fallback", "no_reply", "silenced"}]

NoTurn == [at |-> "idle", step |-> 0, plan |-> <<>>, slot |-> None, failed |-> 0,
           replied |-> FALSE, here |-> FALSE, stop |-> FALSE, called |-> {},
           error |-> "none", facts |-> {}, known |-> FALSE, delivered |-> FALSE,
           unavailable |-> FALSE, hint |-> "none"]

\* Two ways to have failed: the gateway refused the message, or the channel was
\* not available.
Rows == {"none", "pending", "sent", "uncertain", "rejected", "unavailable"}
Settled == {"sent", "uncertain"}
\* Keys under which a second try may bring another text: the model's words, and
\* the fallback by the facts of its turn.
Reworded == {"reply", "fallback"}

\* Beside the types: a turn runs exactly while its job does, a reserved call
\* belongs to a turn that waits for it, and one draft at most is open.
TypeOK ==
  /\ BudgetTypeOK
  /\ job \in [Turns -> [status : {"absent", "ready", "running", "done", "failed"},
                        attempts : 0..MaxAttempts]]
  /\ holds \in [Turns -> 0..MaxHolds]
  /\ turn \in [Turns -> TurnRecord]
  /\ ledger \in [Turns -> [Slots -> Rows]]
  /\ drafts \in [Turns -> {"none", "open", "gone", "booked"}]
  /\ bookedBy \in [Turns -> Turns \cup {None}]
  /\ noted \in [Turns -> SUBSET Handoffs]
  /\ optedOut \in BOOLEAN
  /\ remembered \in BOOLEAN
  /\ uncovered \subseteq Turns
  /\ outcome \in [Turns -> Outcomes]
  /\ stopped \subseteq Turns
  /\ crashes \in Nat
  /\ \A m \in Turns :
       /\ turn[m].at = "idle" <=> job[m].status # "running"
       /\ flight[m] # "none" => turn[m].at \in {"asked", "closing"}
       /\ drafts[m] = "booked" <=> bookedBy[m] # None
  /\ \A d, e \in Turns : drafts[d] = "open" /\ drafts[e] = "open" => d = e

\* The customer may be known, and have an order he was shown.
Init ==
  /\ BudgetInit
  /\ \E coming \in Arrivals :
       job = [m \in Turns |->
                IF m \in Earlier THEN [status |-> "done", attempts |-> 1]
                ELSE [status |-> IF m \in coming THEN "ready" ELSE "absent", attempts |-> 0]]
  /\ holds = [m \in Turns |-> 0]
  /\ turn = [m \in Turns |-> NoTurn]
  /\ \E shown \in SUBSET (Earlier \cap Orders) :
       /\ \A d, e \in shown : d = e
       /\ remembered \in {TRUE, shown # {}}
       /\ drafts = [m \in Turns |-> IF m \in shown THEN "open" ELSE "none"]
       /\ ledger = [m \in Turns |-> [s \in Slots |->
                      IF m \in Earlier /\ s = (IF m \in shown THEN m ELSE "reply")
                      THEN "sent" ELSE "none"]]
  /\ bookedBy = [m \in Turns |-> None]
  /\ noted = [m \in Turns |-> {}]
  /\ optedOut = FALSE
  /\ uncovered = {}
  /\ outcome = [m \in Turns |-> IF m \in Earlier THEN "replied" ELSE "none"]
  /\ stopped = {}
  /\ crashes = 0

At(m, place) == turn[m].at = place
Go(m, t) == turn' = [turn EXCEPT ![m] = t]
\* A step that changes the turn alone.
Leads(m, t) ==
  /\ Go(m, t)
  /\ UNCHANGED <<budgetVars, jobVars, ledger, orderVars, noted, memoryVars, consentVars,
                 crashes>>
Note(m, kind) == noted' = [noted EXCEPT ![m] = @ \cup {kind}]

-----------------------------------------------------------------------------
(* The attempt begins and ends. *)

\* A worker claims the job; OPEN records the message once and reads the memory.
Open(m) ==
  /\ job[m].status = "ready"
  /\ job[m].attempts < MaxAttempts
  /\ job' = [job EXCEPT ![m] = [status |-> "running", attempts |-> @.attempts + 1]]
  /\ Go(m, [NoTurn EXCEPT !.at = "ask", !.known = remembered])
  /\ uncovered' = IF job[m].attempts = 0 THEN uncovered \cup {m} ELSE uncovered
  /\ outcome' = [outcome EXCEPT ![m] = "none"]
  /\ stopped' = IF optedOut THEN stopped \cup {m} ELSE stopped
  /\ UNCHANGED <<budgetVars, holds, ledger, orderVars, noted, remembered,
                 optedOut, crashes>>

\* The lifecycle the job's trace is finished with.
End(m, status, attempts, how) ==
  /\ job' = [job EXCEPT ![m] = [status |-> status, attempts |-> attempts]]
  /\ outcome' = [outcome EXCEPT ![m] = how]
  /\ Go(m, NoTurn)

\* An error ends the attempt: a retry, or failed with the last one.
Throws(m) ==
  End(m, IF job[m].attempts < MaxAttempts THEN "ready" ELSE "failed",
      job[m].attempts, "error")

\* InboundJobDeferredError: the attempt is given back.
Defers(m) == End(m, "ready", job[m].attempts - 1, "deferred")

Undelivered(m) == turn[m].unavailable /\ ~turn[m].delivered

Complete(m) ==
  /\ At(m, "finishing") /\ ~Undelivered(m)
  /\ End(m, "done", job[m].attempts, turn[m].hint)
  /\ holds' = [holds EXCEPT ![m] = 0]
  /\ UNCHANGED <<budgetVars, ledger, orderVars, noted, memoryVars, consentVars, crashes>>

\* No reply got through because the session was down: the job waits for it.
HoldForSession(m) ==
  /\ At(m, "finishing") /\ Undelivered(m)
  /\ holds[m] < MaxHolds
  /\ holds' = [holds EXCEPT ![m] = @ + 1]
  /\ Defers(m)
  /\ UNCHANGED <<budgetVars, ledger, orderVars, noted, memoryVars, consentVars, crashes>>

\* The session works again by now, or the job has waited often enough.
ConsumeAttempt(m) ==
  /\ At(m, "finishing") /\ Undelivered(m)
  /\ Throws(m)
  /\ UNCHANGED <<budgetVars, holds, ledger, orderVars, noted, memoryVars, consentVars,
                 crashes>>

-----------------------------------------------------------------------------
(* LOOP. *)

\* CLOSE asks the model unless the turn was a plain, answered lookup.
NeedsClosing(m) ==
  \/ ~turn[m].known
  \/ ~turn[m].replied
  \/ ~(turn[m].called \subseteq Skippable)
  \/ m \in Signals
  \/ Cardinality(uncovered) >= Every

CallsModel(m) == At(m, "ask") \/ (At(m, "close") /\ NeedsClosing(m))

CallModel(m) ==
  /\ CallsModel(m)
  /\ Reserve(m)
  /\ Go(m, [turn[m] EXCEPT !.at = IF @ = "ask" THEN "asked" ELSE "closing"])
  /\ UNCHANGED <<jobVars, ledger, orderVars, noted, memoryVars, consentVars, crashes>>

\* The budget is used up: a busy reply, unless something was delivered, and the
\* job waits an hour with its attempts kept.
BudgetRefuses(m) ==
  /\ CallsModel(m)
  /\ Exhausted
  /\ \/ UNCHANGED ledger
     \/ /\ ~turn[m].delivered /\ ~optedOut
        /\ ledger' = [ledger EXCEPT ![m]["busy"] = "sent"]
  /\ Defers(m)
  /\ UNCHANGED <<budgetVars, holds, orderVars, noted, memoryVars, consentVars, crashes>>

ModelFails(m) ==
  /\ At(m, "asked") \/ At(m, "closing")
  /\ FinishCall(m, 0)
  /\ Throws(m)
  /\ UNCHANGED <<holds, ledger, orderVars, noted, memoryVars, consentVars, crashes>>

\* The next call of the answer, or with the last one done the next answer,
\* unless a reply went out, a summary was tried, or sends failed too often.
Proceed(t) ==
  IF t.plan # <<>>
  THEN LET tool == Head(t.plan) IN
       [t EXCEPT !.at = IF tool \in Replies THEN "trying" ELSE "tools",
                 !.slot = IF tool \in Replies THEN SlotOf(tool) ELSE None,
                 !.called = @ \cup {tool}]
  ELSE [t EXCEPT !.slot = None,
                 !.at = IF t.stop \/ t.here \/ t.failed >= MaxFailedSends
                           \/ t.step = MaxToolSteps
                        THEN "after" ELSE "ask"]

Returned(t) == Proceed([t EXCEPT !.plan = Tail(@)])

\* An answer without tool calls ends the loop; its text is discarded.
ModelAnswers(m) ==
  /\ At(m, "asked")
  /\ \E used \in 0..MaxTokens : FinishCall(m, used)
  /\ \E plan \in Responses[m] :
       LET t == [turn[m] EXCEPT !.step = @ + 1, !.plan = plan]
       IN Go(m, IF plan = <<>> THEN [t EXCEPT !.at = "after"] ELSE Proceed(t))
  /\ UNCHANGED <<jobVars, ledger, orderVars, noted, memoryVars, consentVars, crashes>>

Runs(m, tool) == At(m, "tools") /\ Head(turn[m].plan) = tool

\* Reading tools, and every tool that is refused.
ReadOrRefuse(m) ==
  /\ At(m, "tools") /\ Head(turn[m].plan) # "show"
  /\ Leads(m, Returned(turn[m]))

\* captureSensitiveActionFacts: what a tool did restricts what the rest of the
\* turn may say.
Captured(t, fact) == Returned([t EXCEPT !.facts = @ \cup {fact}])

\* A claim is unverified, recorded now or before; the owner is told of a new one.
ClaimPayment(m) == Runs(m, "claim") /\ Leads(m, Captured(turn[m], "claim"))

\* A refund case was opened, or read.
RequestRefund(m) == Runs(m, "refund") /\ Leads(m, Captured(turn[m], "refund"))

\* The order could not take the status the customer asked for.
StatusRefused(m) == Runs(m, "status") /\ Leads(m, Captured(turn[m], "status"))

NotifyOwner(m) ==
  /\ Runs(m, "owner")
  /\ Note(m, "customer_handoff")
  /\ Go(m, Returned(turn[m]))
  /\ UNCHANGED <<budgetVars, jobVars, ledger, orderVars, memoryVars, consentVars, crashes>>

OpenDrafts == {d \in Turns : drafts[d] = "open"}

\* Mutation of Superseding: the older draft is left open beside the new one.
KeepingOlder(m) == [drafts EXCEPT ![m] = "open"]
\* The draft of m is open, and the one that was is superseded.
Superseding(m) ==
  [d \in Turns |-> IF d = m THEN "open"
                   ELSE IF drafts[d] = "open" THEN "gone" ELSE drafts[d]]

\* A retry finds the draft of its first attempt.  The server then sends the
\* summary itself.
PrepareOrder(m) ==
  /\ Runs(m, "prepare")
  /\ m \in Orders
  /\ drafts' = IF drafts[m] # "none" THEN drafts ELSE Superseding(m)
  /\ Go(m, [turn[m] EXCEPT !.at = "trying", !.slot = m, !.stop = TRUE,
                           !.called = @ \cup {"summary"}])
  /\ UNCHANGED <<budgetVars, jobVars, ledger, bookedBy, noted, memoryVars, consentVars,
                 crashes>>

ShowPendingOrder(m) ==
  /\ Runs(m, "show")
  /\ \E d \in OpenDrafts : Go(m, [turn[m] EXCEPT !.at = "trying", !.slot = d])
  /\ UNCHANGED <<budgetVars, jobVars, ledger, orderVars, noted, memoryVars, consentVars,
                 crashes>>

AlreadyBooked(m) == \E d \in Turns : bookedBy[d] = m
\* The open draft, unless this very message prepared it.
Confirmable(m) == OpenDrafts \ {m}

\* confirmPendingOrderDraft succeeds.
Book(m) ==
  /\ m \in Confirms
  /\ \/ AlreadyBooked(m) /\ UNCHANGED orderVars
     \/ /\ ~AlreadyBooked(m)
        /\ \E d \in Confirmable(m) :
             /\ drafts' = [drafts EXCEPT ![d] = "booked"]
             /\ bookedBy' = [bookedBy EXCEPT ![d] = m]

ConfirmOrder(m) ==
  /\ Runs(m, "confirm")
  /\ Book(m)
  /\ Go(m, Returned(turn[m]))
  /\ UNCHANGED <<budgetVars, jobVars, ledger, noted, memoryVars, consentVars, crashes>>

DraftExpires ==
  /\ OpenDrafts # {}
  /\ drafts' = [d \in Turns |-> IF drafts[d] = "open" THEN "gone" ELSE drafts[d]]
  /\ UNCHANGED <<budgetVars, jobVars, turn, ledger, bookedBy, noted, memoryVars,
                 consentVars, crashes>>

-----------------------------------------------------------------------------
(* Sends: the reply tools, the summary, and the fallback of the guard. *)

\* The tool whose send is under way.
Sending(t) == IF t.plan = <<>> THEN "fallback" ELSE Head(t.plan)

\* Shown pictures and a shown summary end the loop with the answer; the summary
\* of prepare_order has ended it already.
Sent(t) ==
  CASE Sending(t) = "fallback" -> [t EXCEPT !.at = "close", !.slot = None, !.hint = "fallback"]
    [] Sending(t) = "prepare" -> Returned([t EXCEPT !.replied = TRUE])
    [] OTHER -> Returned([t EXCEPT !.replied = TRUE, !.here = TRUE,
                                   !.stop = @ \/ Sending(t) \in {"show", "pictures"}])

Unsent(t, why) ==
  CASE Sending(t) = "fallback" -> [t EXCEPT !.at = "close", !.slot = None]
    [] Sending(t) = "prepare" -> Returned([t EXCEPT !.error = why])
    [] OTHER -> Returned([t EXCEPT !.failed = @ + 1, !.error = why])

\* The handoff is recorded after the fallback, however it went.
NoteFallback(m) ==
  IF Sending(turn[m]) = "fallback" THEN Note(m, "reply_failure") ELSE UNCHANGED noted

\* fixedFallbackReply: the claim's text before the refund's before the generic
\* one; checkSensitiveActionReply then wants the text of every fact.
FallbackText(facts) ==
  IF "claim" \in facts THEN "claim" ELSE IF "refund" \in facts THEN "refund" ELSE "generic"
FallbackPasses(facts) == facts \subseteq {FallbackText(facts)} \ {"generic"}

\* Which refusals a send can meet: consent first, then the guards on the text,
\* then pacing; the fixed fallback passes every guard on texts but the last.
Refusals(m) ==
  IF optedOut THEN {"optedout"}
  ELSE IF turn[m].slot # "fallback" THEN {"other", "pacing"}
  ELSE IF FallbackPasses(turn[m].facts) THEN {"pacing"} ELSE {"other"}

MaySend(m) ==
  /\ ~optedOut
  /\ turn[m].slot = "fallback" => FallbackPasses(turn[m].facts)

Refused(m) ==
  /\ At(m, "trying")
  /\ \E why \in Refusals(m) : Go(m, Unsent(turn[m], why))
  /\ NoteFallback(m)
  /\ UNCHANGED <<budgetVars, jobVars, ledger, orderVars, memoryVars, consentVars, crashes>>

\* show_pending_order without an open draft counts as a failed send.
NothingToShow(m) ==
  /\ Runs(m, "show")
  /\ OpenDrafts = {}
  /\ Leads(m, Unsent(turn[m], "other"))

\* The ledger has this send of an earlier try: sent, or nobody knows; and a try
\* the gateway refused stands against any other wording, reported as unknown.
FoundSent(m) ==
  /\ At(m, "trying")
  /\ MaySend(m)
  /\ \/ ledger[m][turn[m].slot] \in Settled
     \/ ledger[m][turn[m].slot] = "rejected" /\ turn[m].slot \in Reworded
  /\ Go(m, Sent(turn[m]))
  /\ NoteFallback(m)
  /\ UNCHANGED <<budgetVars, jobVars, ledger, orderVars, memoryVars, consentVars, crashes>>

BeginSend(m) ==
  /\ At(m, "trying")
  /\ MaySend(m)
  /\ ledger[m][turn[m].slot] \in {"none", "rejected", "unavailable"}
  /\ ledger' = [ledger EXCEPT ![m][turn[m].slot] = "pending"]
  /\ Go(m, [turn[m] EXCEPT !.at = "sending"])
  /\ UNCHANGED <<budgetVars, jobVars, orderVars, noted, memoryVars, consentVars, crashes>>

Row(m, status) == ledger' = [ledger EXCEPT ![m][turn[m].slot] = status]

\* Accepted, or unknown: both count as an answer.
SendEnds(m) ==
  /\ At(m, "sending")
  /\ \E status \in Settled :
       /\ Row(m, status)
       /\ Go(m, Sent([turn[m] EXCEPT !.delivered = @ \/ status = "sent"]))
  /\ NoteFallback(m)
  /\ UNCHANGED <<budgetVars, jobVars, orderVars, memoryVars, consentVars, crashes>>

\* Refused by the gateway, or the channel is down.
SendFails(m) ==
  /\ At(m, "sending")
  /\ \E status \in {"rejected", "unavailable"} :
       /\ Row(m, status)
       /\ Go(m, Unsent([turn[m] EXCEPT !.unavailable = @ \/ status = "unavailable"], "other"))
  /\ NoteFallback(m)
  /\ UNCHANGED <<budgetVars, jobVars, orderVars, memoryVars, consentVars, crashes>>

-----------------------------------------------------------------------------
(* The silent-no-reply guard. *)

SendTried(t) == t.called \cap (Replies \cup {"show", "summary"}) # {}

\* Mutation of AnsweredByLoop: a tried send counts as an answer.
AnsweredIfTried(t) == SendTried(t)
AnsweredByLoop(t) == t.replied

Answered(m) ==
  /\ At(m, "after") /\ AnsweredByLoop(turn[m])
  /\ Leads(m, [turn[m] EXCEPT !.at = "close", !.hint = "replied"])

\* Mutation of IsOptOutVeto: a send held by pacing is dropped silently too.
IsOptOutOrPacing(t) == SendTried(t) /\ t.error \in {"optedout", "pacing"}
IsOptOutVeto(t) == SendTried(t) /\ t.error = "optedout"
IsPacingVeto(t) == SendTried(t) /\ t.error = "pacing"

\* Intended silence: no fallback, no handoff, no CLOSE.
KeepSilent(m) ==
  /\ At(m, "after") /\ ~AnsweredByLoop(turn[m]) /\ IsOptOutVeto(turn[m])
  /\ Leads(m, [turn[m] EXCEPT !.at = "finishing", !.hint = "silenced"])

\* A fallback would be held as well: only the owner is told.
HeldByPacing(m) ==
  /\ At(m, "after") /\ ~AnsweredByLoop(turn[m])
  /\ ~IsOptOutVeto(turn[m]) /\ IsPacingVeto(turn[m])
  /\ Note(m, "reply_failure")
  /\ Go(m, [turn[m] EXCEPT !.at = "close", !.hint = "no_reply"])
  /\ UNCHANGED <<budgetVars, jobVars, ledger, orderVars, memoryVars, consentVars, crashes>>

FallBack(m) ==
  /\ At(m, "after") /\ ~AnsweredByLoop(turn[m])
  /\ ~IsOptOutVeto(turn[m]) /\ ~IsPacingVeto(turn[m])
  /\ Leads(m, [turn[m] EXCEPT !.at = "trying", !.slot = "fallback", !.hint = "no_reply"])

-----------------------------------------------------------------------------
(* CLOSE. *)

\* Mutation of NetApplies: only an unanswered turn needs it.
NetIfUnanswered(m) ==
  ~turn[m].replied /\ "confirm" \notin turn[m].called /\ m \in Confirms /\ OpenDrafts # {}
\* The deterministic net: a clear confirmation the model did not act on.
NetApplies(m) == "confirm" \notin turn[m].called /\ m \in Confirms /\ OpenDrafts # {}

\* Confirmed by the server, or handed to the owner with the reason.
Net(m, reported) ==
  \/ NetApplies(m) /\ Book(m) /\ noted' = [noted EXCEPT ![m] = @ \cup (reported \ {"unlogged_order"})]
  \/ NetApplies(m) /\ UNCHANGED orderVars /\ noted' = [noted EXCEPT ![m] = @ \cup reported \cup {"unlogged_order"}]
  \/ ~NetApplies(m) /\ UNCHANGED orderVars /\ noted' = [noted EXCEPT ![m] = @ \cup reported]

\* What the closing JSON reports counts only if its tools were not called.
Credible(m, report) ==
  CASE report = "unlogged_order" -> {"prepare", "confirm"} \cap turn[m].called = {}
    [] report = "unlogged_payment" -> "claim" \notin turn[m].called

SkipClosing(m) ==
  /\ At(m, "close") /\ ~NeedsClosing(m)
  /\ Net(m, {})
  /\ Go(m, [turn[m] EXCEPT !.at = "finishing"])
  /\ UNCHANGED <<budgetVars, jobVars, ledger, memoryVars, consentVars, crashes>>

\* The checkpoint is written, then the net runs.
CloseWithModel(m) ==
  /\ At(m, "closing")
  /\ \E used \in 0..MaxTokens : FinishCall(m, used)
  /\ remembered' = TRUE
  /\ uncovered' = {}
  /\ \E reports \in SUBSET Reports : Net(m, {r \in reports : Credible(m, r)})
  /\ Go(m, [turn[m] EXCEPT !.at = "finishing"])
  /\ UNCHANGED <<jobVars, ledger, consentVars, crashes>>

-----------------------------------------------------------------------------
(* The world around the turns. *)

OptOut ==
  /\ ~optedOut
  /\ optedOut' = TRUE
  /\ stopped' = stopped \cup {m \in Turns : job[m].status = "running"}
  /\ UNCHANGED <<budgetVars, jobVars, turn, ledger, orderVars, noted, memoryVars, crashes>>

OptIn ==
  /\ optedOut
  /\ optedOut' = FALSE
  /\ UNCHANGED <<budgetVars, jobVars, turn, ledger, orderVars, noted, memoryVars, stopped,
                 crashes>>

Midnight ==
  /\ NewDay
  /\ UNCHANGED <<jobVars, turn, ledger, orderVars, noted, memoryVars, consentVars, crashes>>

\* Attempts under way are lost; at the start their jobs go back to the queue
\* and what was handed to the gateway becomes uncertain.
Crash ==
  /\ crashes < MaxCrashes
  /\ crashes' = crashes + 1
  /\ LoseCalls
  /\ job' = [m \in Turns |->
               IF job[m].status # "running" THEN job[m]
               ELSE [job[m] EXCEPT !.status = IF job[m].attempts < MaxAttempts
                                              THEN "ready" ELSE "failed"]]
  /\ turn' = [m \in Turns |-> NoTurn]
  /\ holds' = [m \in Turns |-> 0]
  /\ ledger' = [m \in Turns |-> [s \in Slots |->
                  IF ledger[m][s] = "pending" THEN "uncertain" ELSE ledger[m][s]]]
  /\ UNCHANGED <<outcome, orderVars, noted, memoryVars, consentVars>>

\* One thread: a turn is interrupted where it waits for the network, never
\* between two steps that only compute and write to the database.
MidStep(m) ==
  \/ turn[m].at \in {"ask", "trying", "after", "close"}
  \/ At(m, "tools") /\ Head(turn[m].plan) \notin {"owner", "claim", "refund"}
Runnable(m) == \A n \in Turns \ {m} : ~MidStep(n)
Waiting == \A n \in Turns : ~MidStep(n)

Attempt(m) == Open(m) \/ Complete(m) \/ HoldForSession(m) \/ ConsumeAttempt(m)
Loop(m) ==
  \/ CallModel(m) \/ BudgetRefuses(m) \/ ModelFails(m) \/ ModelAnswers(m)
  \/ ReadOrRefuse(m) \/ ClaimPayment(m) \/ RequestRefund(m) \/ StatusRefused(m)
  \/ NotifyOwner(m)
  \/ PrepareOrder(m) \/ ShowPendingOrder(m) \/ NothingToShow(m) \/ ConfirmOrder(m)
Send(m) == Refused(m) \/ FoundSent(m) \/ BeginSend(m) \/ SendEnds(m) \/ SendFails(m)
Guard(m) == Answered(m) \/ KeepSilent(m) \/ HeldByPacing(m) \/ FallBack(m)
Close(m) == SkipClosing(m) \/ CloseWithModel(m)
Step(m) == Attempt(m) \/ Loop(m) \/ Send(m) \/ Guard(m) \/ Close(m)
World == OptOut \/ OptIn \/ DraftExpires \/ Midnight

Next == Crash \/ (Waiting /\ World) \/ \E m \in Turns : Runnable(m) /\ Step(m)

Spec == Init /\ [][Next]_vars

-----------------------------------------------------------------------------
(* What the turn promises. *)

Has(m, statuses, slots) == \E s \in slots : ledger[m][s] \in statuses
HasSent(m, slots) == Has(m, Settled, slots)
Answers == Slots \ {"busy"}

\* The customer got an answer or may have got one, the owner was told that he
\* did not, or the customer had opted out while the message was handled.
Answerable(m) == HasSent(m, Answers) \/ "reply_failure" \in noted[m] \/ m \in stopped

\* A message is never completed in silence nobody knows of (customer-turn.ts,
\* the silent-no-reply guard).
NobodyIsLeftWaiting == \A m \in Turns : job[m].status = "done" => Answerable(m)

\* It is so at least when the gateway refused none of its texts: every other
\* way through refusals, failures, retries, restarts and STOP ends in an answer,
\* a word to the owner, or the silence the customer asked for.
OnlyRejectedRepliesAreLost ==
  \A m \in Turns : job[m].status = "done" =>
    Answerable(m) \/ Has(m, {"rejected"}, Reworded)

\* The outcome traced for a completed message is what happened: an answer of
\* the loop or one the gateway refused, the fallback, intended silence, or
\* silence the owner knows of.
TracedAsItWas ==
  \A m \in Turns : job[m].status = "done" =>
    /\ outcome[m] = "replied" =>
         HasSent(m, Answers \ {"fallback"}) \/ Has(m, {"rejected"}, {"reply"})
    /\ outcome[m] = "fallback" => Has(m, Settled \cup {"rejected"}, {"fallback"})
    /\ outcome[m] = "no_reply" => "reply_failure" \in noted[m]
    /\ outcome[m] = "silenced" => m \in stopped

\* A turn that reaches its end with a clear confirmation and an open order has
\* asked the server to confirm it, booked it, or told the owner why not,
\* whichever way CLOSE went (turn-close.ts, the deterministic safety net).
Closes(m) == turn[m].at \in {"close", "closing"} /\ turn'[m].at = "finishing"
ConfirmationsSettled ==
  [][\A m \in Turns : Closes(m) /\ m \in Confirms /\ OpenDrafts # {} =>
       \/ "confirm" \in turn[m].called
       \/ \E d \in Turns : bookedBy'[d] = m
       \/ "unlogged_order" \in noted'[m]]_vars

\* An order is booked only on a summary its customer was shown, or may have
\* been (tools/orders.ts, the evidence recorded with the booking).
BookedSummariesWereShown ==
  \A d \in Turns : drafts[d] = "booked" => \E m \in Turns : ledger[m][d] \in Settled
-----------------------------------------------------------------------------
(* The promise of the drafts. *)

DraftAtDesk(d) ==
  CASE drafts[d] = "open" -> "waiting"
    [] drafts[d] = "booked" -> "done"
    [] OTHER -> drafts[d]

DraftDesk == INSTANCE TwoStepDesk WITH
  Messages <- Turns,
  action <- [d \in Turns |-> DraftAtDesk(d)],
  decidedBy <- bookedBy

\* However often a turn runs again after crashes and held jobs, and whether the
\* model or the net confirms: a summary is booked once and by one message, the one
\* that waits is the last one prepared, and none comes back (tools/orders.ts).
ImplementsDraftDesk == DraftDesk!Spec
=============================================================================
