-------------------------- MODULE OutboundDelivery --------------------------
(***************************************************************************)
(* Everything the shop sends to WhatsApp: the guarded send tools           *)
(* (agent/send-guards.ts, agent/owner-send.ts, agent/customer-sends.ts),   *)
(* the one global send lock (agent/shared.ts), the send ledger             *)
(* (outbound-delivery.ts) and the consent commands with their              *)
(* acknowledgements (consent.ts, server.ts).                               *)
(*                                                                         *)
(* A key is what one ledger row is unique for: the reply to a turn, the    *)
(* busy reply of a rejected message, a STOP or START acknowledgement, an   *)
(* owner alert.  `wire` counts the copies WhatsApp has accepted; a copy    *)
(* handed to the gateway is in `flight` until it is accepted or refused,   *)
(* whatever the process learns about it.                                   *)
(***************************************************************************)
EXTENDS Integers, Sequences

CONSTANTS
  Keys,       \* event keys of the ledger
  Kind,       \* Kind[k]: who sends what
  Customers,  \* recipients
  Recipient,  \* Recipient[k]
  Wordings,   \* texts a turn may choose for its reply
  Fixed,      \* the text of a message the server words itself
  Senders,    \* calls of a send tool in progress at once
  None,       \* no key, no customer's consent decision
  DailyCap,   \* warm-up cap of the number
  Arrivals,   \* bound: the sets of keys that may be used in one behaviour
  MaxCopies,  \* copies are counted up to here
  MaxCrashes  \* and crashes up to here

Kinds == {"turn", "owner", "busy", "stop", "start", "alert"}

ASSUME OutboundAssumption ==
  /\ Kind \in [Keys -> Kinds]
  /\ Recipient \in [Keys -> Customers]
  /\ None \notin Keys
  /\ DailyCap \in Nat
  /\ MaxCopies \in Nat /\ MaxCopies >= 2
  /\ MaxCrashes \in Nat

VARIABLES
  ledger,        \* send_ledger
  optedOut,      \* customers.automation_opted_out
  disclosed,     \* customers.disclosure_sent_at
  confirmation,  \* customer_consent_events.confirmation_status
  decision,      \* the consent event that last changed optedOut
  sentToday,     \* outbound rows of messages since midnight
  cooling,       \* the newest of them is younger than the throttle gap
  busyCooling,   \* customers whose newest busy row is younger than the cooldown
  lock,          \* sendQueueTail: senders in arrival order
  sender,        \* calls of the send tools
  toConfirm,     \* what the consent chain has still to deliver
  flight,        \* copies with the gateway, with or without the disclosure
  wire,          \* copies WhatsApp accepted
  introductions, \* disclosures among them, per customer
  crashes

databaseVars == <<ledger, optedOut, disclosed, confirmation, decision>>
pacingVars == <<sentToday, cooling, busyCooling>>
processVars == <<lock, sender, toConfirm>>
providerVars == <<flight, wire, introductions>>
vars == <<databaseVars, pacingVars, processVars, providerVars, crashes>>

Statuses == {"none", "pending", "sent", "failed", "uncertain"}
Codes == {"none", "channel_unavailable", "provider_rejected", "unknown"}

\* status, wording of the row's id, last_error_code, resend window over.
Row(status, body, code, lapsed) ==
  [status |-> status, body |-> body, code |-> code, lapsed |-> lapsed]

Call(key, body, pc) == [key |-> key, body |-> body, pc |-> pc]
IdleCall == Call(None, Fixed, "idle")

Permanent(k) == Kind[k] # "alert"
IsConsent(k) == Kind[k] \in {"stop", "start"}
ToCustomer(k) == Kind[k] \in {"turn", "busy"}
Texts(k) == IF Kind[k] \in {"turn", "owner"} THEN Wordings ELSE {Fixed}

Bodies == Wordings \cup {Fixed}

LedgerRow == [status : Statuses, body : Bodies, code : Codes, lapsed : BOOLEAN]
CallRecord == [key : Keys \cup {None}, body : Bodies,
               pc : {"idle", "queued", "sleeping", "paced", "sending"}]

\* Beside the types: only a busy call has a key.
TypeOK ==
  /\ ledger \in [Keys -> LedgerRow]
  /\ optedOut \in [Customers -> BOOLEAN]
  /\ disclosed \in [Customers -> BOOLEAN]
  /\ confirmation \in [Keys -> {"absent", "pending", "sent", "not_required"}]
  /\ decision \in [Customers -> Keys \cup {None}]
  /\ sentToday \in Nat
  /\ cooling \in BOOLEAN
  /\ busyCooling \subseteq Customers
  /\ lock \in Seq(Senders)
  /\ sender \in [Senders -> CallRecord]
  /\ \A s \in Senders : sender[s].key = None <=> sender[s].pc = "idle"
  /\ toConfirm \subseteq Keys
  /\ flight \in [Keys -> {"none", "plain", "introducing"}]
  /\ wire \in [Keys -> 0..MaxCopies]
  /\ introductions \in [Customers -> 0..MaxCopies]
  /\ crashes \in Nat

Used ==
  {k \in Keys : \/ ledger[k].status # "none" \/ confirmation[k] # "absent"
                \/ \E s \in Senders : sender[s].key = k}
MayCome(k) == \E S \in Arrivals : Used \cup {k} \subseteq S

Init ==
  /\ ledger = [k \in Keys |-> Row("none", Fixed, "none", FALSE)]
  /\ optedOut = [c \in Customers |-> FALSE]
  /\ disclosed = [c \in Customers |-> FALSE]
  /\ confirmation = [k \in Keys |-> "absent"]
  /\ decision = [c \in Customers |-> None]
  /\ sentToday = 0
  /\ cooling = FALSE
  /\ busyCooling = {}
  /\ lock = <<>>
  /\ sender = [s \in Senders |-> IdleCall]
  /\ toConfirm = {}
  /\ flight = [k \in Keys |-> "none"]
  /\ wire = [k \in Keys |-> 0]
  /\ introductions = [c \in Customers |-> 0]
  /\ crashes = 0

-----------------------------------------------------------------------------
(* The provider and the clock. *)

OneMore(n) == IF n < MaxCopies THEN n + 1 ELSE n

\* The gateway accepts a copy, perhaps long after the call has timed out.
Arrive(k) ==
  /\ flight[k] # "none"
  /\ flight' = [flight EXCEPT ![k] = "none"]
  /\ wire' = [wire EXCEPT ![k] = OneMore(@)]
  /\ introductions' = IF flight[k] = "introducing"
                      THEN [introductions EXCEPT ![Recipient[k]] = OneMore(@)]
                      ELSE introductions
  /\ UNCHANGED <<databaseVars, pacingVars, processVars, crashes>>

\* The throttle gap is over, and so is the sleep that was computed from it.
GapPasses ==
  /\ cooling
  /\ cooling' = FALSE
  /\ sender' = [s \in Senders |->
                  IF sender[s].pc = "sleeping" THEN Call(sender[s].key, sender[s].body, "paced")
                  ELSE sender[s]]
  /\ UNCHANGED <<databaseVars, sentToday, busyCooling, lock, toConfirm, providerVars, crashes>>

BusyCooldownEnds(c) ==
  /\ c \in busyCooling
  /\ busyCooling' = busyCooling \ {c}
  /\ UNCHANGED <<databaseVars, sentToday, cooling, processVars, providerVars, crashes>>

Midnight ==
  /\ sentToday > 0
  /\ sentToday' = 0
  /\ UNCHANGED <<databaseVars, cooling, busyCooling, processVars, providerVars, crashes>>

\* SEND_RETRY_WINDOW_MS after a send that is not idempotent for good.
ResendWindowLapses(k) ==
  /\ ~Permanent(k)
  /\ ledger[k].status = "sent" /\ ~ledger[k].lapsed
  /\ ledger' = [ledger EXCEPT ![k] = Row("sent", @.body, @.code, TRUE)]
  /\ UNCHANGED <<optedOut, disclosed, confirmation, decision, pacingVars, processVars,
                 providerVars, crashes>>

-----------------------------------------------------------------------------
(* The consent chain: one command or one retry pass at a time. *)

\* Mutation of Decided: the older acknowledgement stays pending.
DecidedOnly(k) == [confirmation EXCEPT ![k] = "pending"]

\* The new acknowledgement supersedes one that was not delivered yet.
Decided(k) ==
  [j \in Keys |->
     IF j = k THEN "pending"
     ELSE IF Recipient[j] = Recipient[k] /\ confirmation[j] = "pending" THEN "not_required"
     ELSE confirmation[j]]

\* recordConsentCommand: only a change of state is acknowledged.
RecordConsent(k) ==
  LET c == Recipient[k]
  IN /\ IsConsent(k) /\ MayCome(k)
     /\ toConfirm = {}
     /\ confirmation[k] = "absent"
     /\ IF optedOut[c] # (Kind[k] = "stop")
        THEN /\ optedOut' = [optedOut EXCEPT ![c] = Kind[k] = "stop"]
             /\ decision' = [decision EXCEPT ![c] = k]
             /\ confirmation' = Decided(k)
             /\ toConfirm' = {k}
        ELSE /\ confirmation' = [confirmation EXCEPT ![k] = "not_required"]
             /\ UNCHANGED <<optedOut, decision, toConfirm>>
     /\ UNCHANGED <<ledger, disclosed, pacingVars, lock, sender, providerVars, crashes>>

\* The pass of retryConsentConfirmations, or a redelivered command.
RetryConfirmations ==
  LET pending == {k \in Keys : confirmation[k] = "pending"}
  IN /\ toConfirm = {}
     /\ pending # {}
     /\ \E S \in {pending} \cup {{k} : k \in pending} : toConfirm' = S
     /\ UNCHANGED <<databaseVars, pacingVars, lock, sender, providerVars, crashes>>

\* A call that answers ok ends the delivery of its acknowledgement; one that
\* does not leaves it pending.
Acknowledged(k, ok) ==
  /\ confirmation' = IF IsConsent(k) /\ ok /\ confirmation[k] = "pending"
                     THEN [confirmation EXCEPT ![k] = "sent"] ELSE confirmation
  /\ toConfirm' = toConfirm \ {k}

-----------------------------------------------------------------------------
(* Before the lock. *)

Busy(s) == sender[s].pc # "idle"
OneAtATime(k) == Kind[k] \in {"busy", "alert"} \/ IsConsent(k)

\* busyReplyRunning, the alert delivery lock and the consent chain let one of
\* their calls run; turns are not restricted.
Occupied(k) ==
  /\ OneAtATime(k)
  /\ \E s \in Senders : /\ Busy(s)
                        /\ \/ Kind[sender[s].key] = Kind[k]
                           \/ IsConsent(sender[s].key) /\ IsConsent(k)

\* inspectOutboundAttempt, of the row whose id is this key with this text.
MayTry(k, b) ==
  \/ ledger[k].status = "none"
  \/ ledger[k].body # b
  \/ ledger[k].status = "failed"
  \/ ledger[k].lapsed

\* Mutation of Join: the newest call runs first.
JoinInFront(s, k, b) ==
  /\ lock' = <<s>> \o lock
  /\ sender' = [sender EXCEPT ![s] = Call(k, b, "queued")]

Join(s, k, b) ==
  /\ lock' = Append(lock, s)
  /\ sender' = [sender EXCEPT ![s] = Call(k, b, "queued")]

\* A send tool is called.  Calls refused before the lock change nothing and are
\* left out: opted out, already sent, uncertain.
Start(s, k, b) ==
  /\ ~Busy(s)
  /\ ~IsConsent(k) /\ ~Occupied(k) /\ MayCome(k)
  /\ ToCustomer(k) => ~optedOut[Recipient[k]]
  /\ MayTry(k, b)
  /\ Join(s, k, b)
  /\ UNCHANGED <<databaseVars, pacingVars, toConfirm, providerVars, crashes>>

\* The consent chain delivers its next acknowledgement, past the opt-out check.
StartConfirmation(s, k) ==
  /\ ~Busy(s)
  /\ k \in toConfirm /\ ~Occupied(k)
  /\ IF MayTry(k, Fixed)
     THEN Join(s, k, Fixed) /\ UNCHANGED <<confirmation, toConfirm>>
     ELSE Acknowledged(k, TRUE) /\ UNCHANGED <<lock, sender>>
  /\ UNCHANGED <<ledger, optedOut, disclosed, decision, pacingVars, providerVars, crashes>>

-----------------------------------------------------------------------------
(* Inside the lock. *)

AtHead(s) == lock # <<>> /\ Head(lock) = s
Key(s) == sender[s].key

\* Mutation of Return: the call forgets to clear its key.
ReturnKeepingKey(s, ok) ==
  /\ lock' = Tail(lock)
  /\ sender' = [sender EXCEPT ![s] = Call(@.key, @.body, "idle")]
  /\ Acknowledged(Key(s), ok)

\* Mutation of Return: the lock is not passed on when the call failed.
ReturnHolding(s, ok) ==
  /\ lock' = IF ok THEN Tail(lock) ELSE lock
  /\ sender' = [sender EXCEPT ![s] = IdleCall]
  /\ Acknowledged(Key(s), ok)

\* The call is over and the next one has the lock.
Return(s, ok) ==
  /\ lock' = Tail(lock)
  /\ sender' = [sender EXCEPT ![s] = IdleCall]
  /\ Acknowledged(Key(s), ok)

\* Mutation of Suppressed: a cooldown that is checked by nobody.
NeverSuppressed(s) == FALSE

Suppressed(s) == Kind[Key(s)] = "busy" /\ Recipient[Key(s)] \in busyCooling

\* A busy reply within the cooldown of the last one.
SuppressBusyReply(s) ==
  /\ AtHead(s) /\ sender[s].pc = "queued"
  /\ Suppressed(s)
  /\ Return(s, TRUE)
  /\ UNCHANGED <<ledger, optedOut, disclosed, decision, pacingVars, providerVars, crashes>>

\* Over the daily cap, or outside the sending hours, which may be any time.
PacingRefuses(s) ==
  /\ AtHead(s) /\ sender[s].pc = "queued"
  /\ ~Suppressed(s)
  /\ Return(s, FALSE)
  /\ UNCHANGED <<ledger, optedOut, disclosed, decision, pacingVars, providerVars, crashes>>

\* Mutation of CapReached: compared one too late.
CapExceeded == sentToday > DailyCap

CapReached == sentToday >= DailyCap

\* Mutation of AfterPacing: the call does not wait for the gap.
AfterNoPacing == "paced"

\* decideSharedPacing: with or without a wait.
AfterPacing == IF cooling THEN "sleeping" ELSE "paced"

\* A call that may send sleeps out the gap, holding the lock.
PacingAllows(s) ==
  /\ AtHead(s) /\ sender[s].pc = "queued"
  /\ ~Suppressed(s) /\ ~CapReached
  /\ sender' = [sender EXCEPT ![s] = Call(@.key, @.body, AfterPacing)]
  /\ UNCHANGED <<databaseVars, pacingVars, lock, toConfirm, providerVars, crashes>>

Paced(s) == AtHead(s) /\ sender[s].pc = "paced"

\* The text of a turn repeats a recent one or offers a discount.
ContentRefused(s) ==
  /\ Paced(s)
  /\ Kind[Key(s)] = "turn"
  /\ Return(s, FALSE)
  /\ UNCHANGED <<ledger, optedOut, disclosed, decision, pacingVars, providerVars, crashes>>

\* Mutation of Sendable: an uncertain attempt is tried again.
SendableIfUncertain(row, b) ==
  \/ row.status \in {"none", "uncertain"}
  \/ row.status = "failed" /\ (row.body = b \/ row.code = "channel_unavailable")
  \/ row.status = "sent" /\ row.body = b /\ row.lapsed

\* beginOutboundAttempt answers "send".  Another wording takes the event's row
\* over only when the earlier one never reached WhatsApp.
Sendable(row, b) ==
  \/ row.status = "none"
  \/ row.status = "failed" /\ (row.body = b \/ row.code = "channel_unavailable")
  \/ row.status = "sent" /\ row.body = b /\ row.lapsed

NeedsDisclosure(k) == ToCustomer(k) /\ ~disclosed[Recipient[k]]

\* Mutation of DisclosedAtStart: the disclosure is remembered before it is shown.
DisclosedAlready(k) ==
  disclosed' = IF ToCustomer(k) THEN [disclosed EXCEPT ![Recipient[k]] = TRUE] ELSE disclosed

DisclosedAtStart(k) == UNCHANGED disclosed

BeginAttempt(s) ==
  LET k == Key(s)
  IN /\ Paced(s)
     /\ Sendable(ledger[k], sender[s].body)
     /\ ledger' = [ledger EXCEPT ![k] = Row("pending", sender[s].body, "none", FALSE)]
     /\ flight' = [flight EXCEPT ![k] = IF NeedsDisclosure(k) THEN "introducing" ELSE "plain"]
     /\ sender' = [sender EXCEPT ![s] = Call(k, @.body, "sending")]
     /\ DisclosedAtStart(k)
     /\ UNCHANGED <<optedOut, confirmation, decision, pacingVars, lock, toConfirm,
                    wire, introductions, crashes>>

\* "already_sent" or "uncertain"; an attempt found pending was interrupted (the
\* lock and the startup leave none to be found).
AttemptRefused(s) ==
  LET k == Key(s)
  IN /\ Paced(s)
     /\ ~Sendable(ledger[k], sender[s].body)
     /\ ledger' = IF ledger[k].status = "pending" /\ ledger[k].body = sender[s].body
                  THEN [ledger EXCEPT ![k] = Row("uncertain", @.body, "unknown", FALSE)]
                  ELSE ledger
     /\ Return(s, TRUE)
     /\ UNCHANGED <<optedOut, disclosed, decision, pacingVars, providerVars, crashes>>

-----------------------------------------------------------------------------
(* The gateway call ends. *)

Accepted(s) == sender[s].pc = "sending" /\ flight[Key(s)] = "none"

MarkSent(k) == ledger' = [ledger EXCEPT ![k] = Row("sent", @.body, "none", FALSE)]

\* The outbound row of messages: pacing and cooldown read it.
RecordMessage(k) ==
  /\ sentToday' = sentToday + 1
  /\ cooling' = TRUE
  /\ busyCooling' = IF Kind[k] = "busy" THEN busyCooling \cup {Recipient[k]} ELSE busyCooling

\* The receipt: row sent, message recorded, disclosure remembered.
SendConfirmed(s) ==
  LET k == Key(s)
  IN /\ Accepted(s)
     /\ MarkSent(k)
     /\ RecordMessage(k)
     /\ disclosed' = IF ToCustomer(k) THEN [disclosed EXCEPT ![Recipient[k]] = TRUE]
                     ELSE disclosed
     /\ Return(s, TRUE)
     /\ UNCHANGED <<optedOut, decision, providerVars, crashes>>

\* A definitive refusal: the copy went nowhere.
SendRejected(s) ==
  LET k == Key(s)
  IN /\ sender[s].pc = "sending"
     /\ flight[k] # "none"
     /\ flight' = [flight EXCEPT ![k] = "none"]
     /\ \E code \in {"channel_unavailable", "provider_rejected"} :
          ledger' = [ledger EXCEPT ![k] = Row("failed", @.body, code, FALSE)]
     /\ Return(s, FALSE)
     /\ UNCHANGED <<optedOut, disclosed, decision, pacingVars, wire, introductions, crashes>>

\* Mutation of SendTimesOut: a timeout counts as a refusal.
SendTimesOutAsFailed(s) ==
  LET k == Key(s)
  IN /\ sender[s].pc = "sending"
     /\ ledger' = [ledger EXCEPT ![k] = Row("failed", @.body, "provider_rejected", FALSE)]
     /\ Return(s, FALSE)
     /\ UNCHANGED <<optedOut, disclosed, decision, pacingVars, providerVars, crashes>>

\* A timeout or a broken connection, whether the copy was accepted or not.
SendTimesOut(s) ==
  LET k == Key(s)
  IN /\ sender[s].pc = "sending"
     /\ ledger' = [ledger EXCEPT ![k] = Row("uncertain", @.body, "unknown", FALSE)]
     /\ Return(s, TRUE)
     /\ UNCHANGED <<optedOut, disclosed, decision, pacingVars, providerVars, crashes>>

-----------------------------------------------------------------------------
(* The process dies and starts again. *)

PowerLoss ==
  /\ crashes < MaxCrashes
  /\ crashes' = crashes + 1
  /\ lock' = <<>>
  /\ sender' = [s \in Senders |-> IdleCall]
  /\ toConfirm' = {}

\* Mutation of Restarted: the startup lets interrupted attempts be repeated.
RestartedToRetry ==
  [j \in Keys |-> IF ledger[j].status = "pending"
                  THEN Row("failed", ledger[j].body, "unknown", FALSE) ELSE ledger[j]]

\* Every start of the process gives interrupted attempts up.
Restarted ==
  [j \in Keys |-> IF ledger[j].status = "pending"
                  THEN Row("uncertain", ledger[j].body, "unknown", FALSE) ELSE ledger[j]]

Crash ==
  /\ PowerLoss
  /\ ledger' = Restarted
  /\ UNCHANGED <<optedOut, disclosed, confirmation, decision, pacingVars, providerVars>>

\* Between markOutboundSent and the rows that follow it outside a transaction.
CrashWhileRecording(s) ==
  LET k == Key(s)
  IN /\ PowerLoss
     /\ Accepted(s)
     /\ ledger' = [Restarted EXCEPT ![k] = Row("sent", ledger[k].body, "none", FALSE)]
     /\ RecordMessage(k) \/ UNCHANGED pacingVars
     /\ UNCHANGED <<optedOut, disclosed, confirmation, decision, providerVars>>

-----------------------------------------------------------------------------

World ==
  \/ \E k \in Keys : Arrive(k) \/ ResendWindowLapses(k) \/ RecordConsent(k)
  \/ \E c \in Customers : BusyCooldownEnds(c)
  \/ GapPasses \/ Midnight \/ Crash \/ RetryConfirmations
  \/ \E s \in Senders : CrashWhileRecording(s)

Calls(s) ==
  \E k \in Keys : StartConfirmation(s, k) \/ \E b \in Texts(k) : Start(s, k, b)

LockStep(s) ==
  \/ SuppressBusyReply(s) \/ PacingRefuses(s) \/ PacingAllows(s) \/ ContentRefused(s)
  \/ BeginAttempt(s) \/ AttemptRefused(s)
  \/ SendConfirmed(s) \/ SendRejected(s) \/ SendTimesOut(s)

Next == World \/ \E s \in Senders : Calls(s) \/ LockStep(s)

Spec == Init /\ [][Next]_vars

\* Every gateway call is cut off after WAHA_SEND_TIMEOUT_MS, the throttle gap
\* is a short sleep, and a call that has the lock runs.
Fairness ==
  /\ WF_vars(GapPasses)
  /\ \A s \in Senders : WF_vars(LockStep(s))

FairSpec == Spec /\ Fairness

-----------------------------------------------------------------------------
(* Properties. *)

\* sender s hands a copy to the gateway in this step.
HandsOver(s) == sender[s].pc # "sending" /\ sender'[s].pc = "sending"

\* One inbound event produces at most one visible reply, and one consent
\* decision one acknowledgement, whatever is retried, rephrased, redelivered,
\* run twice, timed out or interrupted (beginOutboundAttempt).
AtMostOneReply == \A k \in Keys : Permanent(k) => wire[k] <= 1

\* The ledger does not lie: a row is "sent" only if the message arrived, and
\* "failed" (retryable) only if it neither arrived nor can still arrive.
LedgerIsTruthful ==
  \A k \in Keys : Permanent(k) =>
    /\ ledger[k].status = "sent" => wire[k] > 0
    /\ ledger[k].status \in {"none", "failed"} => wire[k] = 0 /\ flight[k] = "none"

\* An uncertain delivery is never resent automatically, in no wording, and a
\* sent one of a permanent key neither: these rows are final.
OutcomeIsFinal ==
  [][\A k \in Keys :
       \/ ledger[k].status = "uncertain"
       \/ ledger[k].status = "sent" /\ Permanent(k)
       => ledger'[k] = ledger[k]]_vars

\* A START never tells a customer that messages are active after a later STOP,
\* nor a STOP that they stopped after a later START (recordConsentCommand).
ConfirmationsAreCurrent ==
  [][\A s \in Senders :
       HandsOver(s) /\ IsConsent(Key(s)) =>
         optedOut[Recipient[Key(s)]] = (Kind[Key(s)] = "stop")]_vars

\* Once a STOP is acknowledged nothing more is sent to that customer until a
\* START: replies checked before the STOP are ahead of it in the lock.
SilentAfterConfirmedStop ==
  [][\A s \in Senders :
       HandsOver(s) /\ ToCustomer(Key(s)) =>
         LET c == Recipient[Key(s)]
         IN ~(optedOut[c] /\ decision[c] # None /\ confirmation[decision[c]] = "sent")]_vars

\* The daily cap holds for concurrent senders: decision and record are under
\* one lock (getPacingState).
CapHolds == sentToday <= DailyCap

\* Concurrent sends keep the throttle gap to the last recorded one.
SpacedSends == [][\A s \in Senders : HandsOver(s) => ~cooling]_vars

\* The disclosure is remembered only when it was shown, so a customer who has
\* any reply of the assistant has been told what it is.
RepliesAreIntroduced ==
  \A k \in Keys : ToCustomer(k) /\ wire[k] > 0 => introductions[Recipient[k]] > 0

\* Every call returns: no failure keeps the lock.
EveryCallReturns == \A s \in Senders : Busy(s) ~> ~Busy(s)

\* The ledger implements its abstract specification for permanent keys.
Replies == {k \in Keys : Permanent(k)}

Attempt(row) ==
  CASE row.status \in {"none", "failed"} -> "open"
    [] row.status = "pending" -> "tried"
    [] row.status = "sent" -> "confirmed"
    [] row.status = "uncertain" -> "unknown"

Once == INSTANCE ReplyOnce WITH
  attempt <- [k \in Replies |-> Attempt(ledger[k])],
  transit <- {k \in Replies : flight[k] # "none"},
  arrived <- {k \in Replies : wire[k] > 0}

\* A reply is handed over again only after a definitive refusal and is with the
\* provider once at a time, over crashes, late arrivals and concurrent runs.
ImplementsReplyOnce == Once!Spec
=============================================================================
