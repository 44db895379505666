---------------------------- MODULE OwnerAlerts -----------------------------
(***************************************************************************)
(* The alerts raised for the owner (alerts.ts, agent/owner-send.ts,        *)
(* tools/handoff.ts) and the loops of server.ts that drive them: handoffs  *)
(* raised by turns, the summary the session monitor raises after a long    *)
(* outage, the retry loop that runs while the session works.               *)
(*                                                                         *)
(* An alert groups the events of one kind that came while it was pending.  *)
(* Its text shows the kind, how many were grouped and the newest reason;   *)
(* that text is the key of its row in the send ledger.  `told` holds the   *)
(* texts WhatsApp has accepted; `reached` is a history variable: when the  *)
(* owner got an alert, which the time written beside it may precede.       *)
(* Times are ages in minutes.                                              *)
(***************************************************************************)
EXTENDS SessionMonitor, FiniteSets, Sequences, FiniteSetsExt

CONSTANTS
  Handoffs,    \* event keys of handoffs, failed replies, claims
  Reason,      \* Reason[e]: what the alert text says of the event
  RetryCheck,  \* the retry loop's caller of check(), and its turn in the lock
  FloodMax,    \* maxSendsPerWindow
  Window,      \* windowMinutes
  MaxRetries,  \* maxAutomaticRetries
  MaxDelay,    \* maxDelayMinutes
  MaxLag,      \* a delivery takes up to so many minutes
  MaxAlerts,   \* rows of owner_alerts
  MaxQueue,    \* a handoff is raised while fewer calls wait for the lock
  MaxCrashes

Horizon == Window + MaxLag + 1  \* ages are counted up to here
LongAgo == Window + 1           \* and `reached` up to here

ASSUME AlertAssumption ==
  /\ RetryCheck \in Checks
  /\ RetryCheck \notin Handoffs \cup 1 .. MaxOutages
  /\ Nobody \notin Handoffs \cup 1 .. MaxOutages \cup {RetryCheck}
  /\ Handoffs \cap 1 .. MaxOutages = {}
  /\ IsFiniteSet(Handoffs)
  /\ FloodMax \in Nat \ {0}
  /\ {Window, MaxRetries, MaxDelay, MaxLag, MaxAlerts, MaxQueue, MaxCrashes} \subseteq Nat

VARIABLES
  alerts,    \* owner_alerts
  alertOf,   \* owner_alert_events: the alert of an event
  ledger,    \* send_ledger: the attempts to send a text
  told,      \* texts WhatsApp has accepted
  reached,   \* minutes since WhatsApp last took a text of an alert and said so
  failures,  \* alertRetryState.failures
  nextIn,    \* minutes until alertRetryState.nextAttemptAt
  queue,     \* the calls waiting for alertDeliveryTail
  holder,    \* the call that holds it
  todo,      \* a retry's pending alerts still to be tried
  sending,   \* the alert being sent, 0 when none
  text,      \* its text
  stage,     \* how far the send has come
  raiseLag,  \* minutes since the raise in the lock read the clock
  retryLag,  \* minutes since the retry did, before it waited for the lock
  retrying,  \* retryRunning, and what it is doing
  crashes

databaseVars == <<alerts, alertOf, ledger>>
retryVars == <<failures, nextIn>>
lockVars == <<queue, holder, todo, sending, text, stage, raiseLag, retryLag>>
alertVars == <<databaseVars, told, reached, retryVars, lockVars, retrying>>
vars == <<sessionVars, alertVars, crashes>>

Events == Handoffs \cup 1 .. MaxOutages
Ids == 1 .. MaxAlerts
Kinds == {"handoff", "outage"}
KindOf(e) == IF e \in Handoffs THEN "handoff" ELSE "outage"
Calls == Events \cup {RetryCheck}

\* kind, status, occurrence_count, latest_reason, sent_at as an age.
Alert(kind, status, count, latest, age) ==
  [kind |-> kind, status |-> status, count |-> count, latest |-> latest, age |-> age]

NoAlert == Alert("handoff", "absent", 0, Nobody, 0)

\* The text: an outage summary does not say how many were grouped.
Text(kind, count, reason) == [kind |-> kind, count |-> count, reason |-> reason]

ReasonOf(e) == IF e \in Handoffs THEN Reason[e] ELSE e
Reasons == {ReasonOf(e) : e \in Events}

Format(a) == Text(alerts[a].kind,
                  IF alerts[a].kind = "outage" THEN 1 ELSE alerts[a].count,
                  alerts[a].latest)

Texts == [kind : Kinds, count : 0 .. Cardinality(Events),
          reason : Reasons]
NoText == Text("none", 0, Nobody)

AlertRecord == [kind : Kinds, status : {"absent", "pending", "sent"},
                count : 0 .. Cardinality(Events), latest : Reasons \cup {Nobody}, age : 0 .. Horizon]

TypeOK ==
  /\ SessionTypeOK
  /\ alerts \in [Ids -> AlertRecord]
  /\ alertOf \in [Events -> Ids \cup {0}]
  /\ ledger \in [Texts -> {"none", "pending", "sent", "lapsed", "failed", "uncertain"}]
  /\ told \subseteq Texts
  /\ reached \in [Ids -> 0 .. LongAgo]
  /\ failures \in [Ids -> 0 .. MaxRetries]
  /\ nextIn \in [Ids -> Int]
  /\ queue \in Seq(Calls)
  /\ holder \in Calls \cup {Nobody}
  /\ todo \subseteq Ids
  /\ sending \in Ids \cup {0}
  /\ text \in Texts \cup {NoText}
  /\ stage \in {"idle", "asked", "attempt", "confirmed"}
  /\ raiseLag \in 0 .. MaxLag
  /\ retryLag \in 0 .. MaxLag
  /\ retrying \in {"idle", "checking", "delivering"}
  /\ crashes \in 0 .. MaxCrashes

Init ==
  /\ SessionInit
  /\ alerts = [a \in Ids |-> NoAlert]
  /\ alertOf = [e \in Events |-> 0]
  /\ ledger = [t \in Texts |-> "none"]
  /\ told = {}
  /\ reached = [a \in Ids |-> LongAgo]
  /\ failures = [a \in Ids |-> 0]
  /\ nextIn = [a \in Ids |-> 0]
  /\ queue = <<>>
  /\ holder = Nobody
  /\ todo = {}
  /\ sending = 0
  /\ text = NoText
  /\ stage = "idle"
  /\ raiseLag = 0
  /\ retryLag = 0
  /\ retrying = "idle"
  /\ crashes = 0

-----------------------------------------------------------------------------
(* Raising an alert: queueAlert, inside the lock. *)

PendingOf(kind) == {a \in Ids : alerts[a].kind = kind /\ alerts[a].status = "pending"}

Absent == {a \in Ids : alerts[a].status = "absent"}

\* Mutation of Queued: an event told before is grouped once more.
QueuedAgain(e, a) ==
  /\ a = IF PendingOf(KindOf(e)) # {} THEN Min(PendingOf(KindOf(e))) ELSE Min(Absent)
  /\ alerts' = [alerts EXCEPT ![a] = Alert(KindOf(e), "pending", alerts[a].count + 1, ReasonOf(e), 0)]
  /\ alertOf' = [alertOf EXCEPT ![e] = a]

\* queueAlert records event e on alert a: the one it is on already, the
\* pending one of its kind, or a new one.
Queued(e, a) ==
  IF alertOf[e] # 0
  THEN /\ a = alertOf[e]
       /\ UNCHANGED <<alerts, alertOf>>
  ELSE /\ a = IF PendingOf(KindOf(e)) # {} THEN Min(PendingOf(KindOf(e))) ELSE Min(Absent)
       /\ alerts' = [alerts EXCEPT ![a] = Alert(KindOf(e), "pending", alerts[a].count + 1, ReasonOf(e), 0)]
       /\ alertOf' = [alertOf EXCEPT ![e] = a]

\* Bound: a new row has to be left.
Room(e) == alertOf[e] # 0 \/ PendingOf(KindOf(e)) # {} \/ Absent # {}

-----------------------------------------------------------------------------
(* The lock: withAlertDeliveryLock runs one call at a time, in order. *)

InProgress(c) == holder = c \/ \E i \in DOMAIN queue : queue[i] = c

Free == holder = Nobody /\ queue # <<>>

\* A turn hands over a customer, or a job that ran before raises it again.
Raise(e) ==
  /\ ~InProgress(e)
  /\ Len(queue) < MaxQueue
  /\ queue' = Append(queue, e)
  /\ UNCHANGED <<sessionVars, databaseVars, told, reached, retryVars, holder, todo, sending, text,
                 stage, raiseLag, retryLag, retrying, crashes>>

\* The call that holds the lock returns, with a result or by throwing.
Returns == /\ holder' = Nobody
           /\ todo' = {}
           /\ sending' = 0
           /\ text' = NoText
           /\ stage' = "idle"

Lag == IF holder = RetryCheck THEN retryLag ELSE raiseLag

SentWithin(minutes) == {a \in Ids : alerts[a].status = "sent" /\ alerts[a].age <= minutes}

\* Mutation of Flooded: the minute the window begins with is left out.
FloodedLater(age) ==
  Cardinality({a \in SentWithin(Window + age) : alerts[a].age # Window + age}) >= FloodMax

\* sentInWindow, counted back from a clock that was read `age` minutes ago.
Flooded(age) == Cardinality(SentWithin(Window + age)) >= FloodMax

\* deliverOwnerAlert: the event is recorded, and a pending alert is sent
\* unless the window is full.
BeginRaise(e) ==
  /\ Free /\ Head(queue) = e /\ e # RetryCheck
  /\ Room(e)
  /\ queue' = Tail(queue)
  /\ raiseLag' = 0
  /\ \E a \in Ids :
       /\ Queued(e, a)
       /\ IF alerts'[a].status = "sent" \/ Flooded(0)
          THEN UNCHANGED <<holder, sending, text, stage>>
          ELSE /\ holder' = e
               /\ sending' = a
               /\ text' = Format(a)'
               /\ stage' = "asked"
  /\ UNCHANGED <<sessionVars, ledger, told, reached, retryVars, todo, retryLag, retrying, crashes>>

\* retryPendingOwnerAlerts: the pending alerts are listed once.
BeginRetry ==
  /\ Free /\ Head(queue) = RetryCheck
  /\ queue' = Tail(queue)
  /\ holder' = RetryCheck
  /\ todo' = {a \in Ids : alerts[a].status = "pending"}
  /\ UNCHANGED <<sessionVars, databaseVars, told, reached, retryVars, sending, text, stage,
                 raiseLag, retryLag, retrying, crashes>>

\* Mutation of Capped: the automatic retries never end.
CappedNever(a) == FALSE

Capped(a) == failures[a] >= MaxRetries

BackingOff(a) == failures[a] > 0 /\ nextIn[a] + retryLag > 0

\* The retry's next alert: passed over while it is capped, backing off or
\* held by the flood limit, sent otherwise.
RetryNext ==
  /\ holder = RetryCheck /\ stage = "idle" /\ todo # {}
  /\ LET a == Min(todo) IN
     /\ todo' = todo \ {a}
     /\ IF Capped(a) \/ BackingOff(a) \/ Flooded(retryLag)
        THEN UNCHANGED <<sending, text, stage>>
        ELSE /\ sending' = a
             /\ text' = Format(a)
             /\ stage' = "asked"
  /\ UNCHANGED <<sessionVars, databaseVars, told, reached, retryVars, queue, holder, raiseLag,
                 retryLag, retrying, crashes>>

RetryReturns ==
  /\ holder = RetryCheck /\ stage = "idle" /\ todo = {}
  /\ Returns
  /\ retrying' = "idle"
  /\ UNCHANGED <<sessionVars, databaseVars, told, reached, retryVars, queue, raiseLag, retryLag,
                 crashes>>

-----------------------------------------------------------------------------
(* Sending: the paced owner send, through the send ledger. *)

\* recordAlertRetryFailure: 1, 2, 4, ... minutes after the clock was read;
\* nobody asks any more once the retries are used up.
Delay(n) ==
  IF n + 1 >= MaxRetries THEN 0
  ELSE (IF 2^n < MaxDelay THEN 2^n ELSE MaxDelay) - retryLag

\* The send threw: the alert stays pending.  A raise returns and leaves no
\* mark on the retries; a retry counts the failure and goes on.
AlertFails ==
  IF holder = RetryCheck
  THEN /\ sending' = 0
       /\ text' = NoText
       /\ stage' = "idle"
       /\ failures' = [failures EXCEPT ![sending] = @ + 1]
       /\ nextIn' = [nextIn EXCEPT ![sending] = Delay(failures[sending])]
       /\ UNCHANGED <<holder, todo>>
  ELSE Returns /\ UNCHANGED retryVars

\* Mutation of Delivered: an unknown outcome counts as delivered.
DeliveredOrUnknown(t) == ledger[t] \in {"sent", "uncertain"}

\* ok, and delivery_confirmed is not false.
Delivered(t) == ledger[t] = "sent"

\* Nobody knows what became of the text, and it is not sent again; or the
\* hour or the daily cap forbids to send.
SendRefused ==
  /\ stage = "asked"
  /\ ~Delivered(text)
  /\ AlertFails
  /\ UNCHANGED <<sessionVars, databaseVars, told, reached, queue, raiseLag, retryLag, retrying,
                 crashes>>

\* The same text was sent a few minutes ago: it is not sent twice.
SentBefore ==
  /\ stage = "asked"
  /\ Delivered(text)
  /\ stage' = "confirmed"
  /\ UNCHANGED <<sessionVars, databaseVars, told, reached, retryVars, queue, holder, todo, sending,
                 text, raiseLag, retryLag, retrying, crashes>>

\* beginOutboundAttempt, and the text goes to the gateway.
SendBegins ==
  /\ stage = "asked"
  /\ ledger[text] \in {"none", "failed", "lapsed"}
  /\ ledger' = [ledger EXCEPT ![text] = "pending"]
  /\ stage' = "attempt"
  /\ UNCHANGED <<sessionVars, alerts, alertOf, told, reached, retryVars, queue, holder, todo,
                 sending, text, raiseLag, retryLag, retrying, crashes>>

\* WhatsApp accepts the text, and the process learns of it.
Accepted ==
  /\ stage = "attempt" /\ Works(epoch)
  /\ told' = told \cup {text}
  /\ reached' = [reached EXCEPT ![sending] = 0]
  /\ ledger' = [ledger EXCEPT ![text] = "sent"]
  /\ stage' = "confirmed"
  /\ UNCHANGED <<sessionVars, alerts, alertOf, retryVars, queue, holder, todo, sending, text,
                 raiseLag, retryLag, retrying, crashes>>

\* A timeout or a reset: WhatsApp may have the text or not.
OutcomeUnknown ==
  /\ stage = "attempt"
  /\ ledger' = [ledger EXCEPT ![text] = "uncertain"]
  /\ \/ UNCHANGED told
     \/ Works(epoch) /\ told' = told \cup {text}
  /\ AlertFails
  /\ UNCHANGED <<sessionVars, alerts, alertOf, reached, queue, raiseLag, retryLag, retrying,
                 crashes>>

\* The provider refuses, or the session is down: nothing was delivered.
Rejected ==
  /\ stage = "attempt"
  /\ ledger' = [ledger EXCEPT ![text] = "failed"]
  /\ AlertFails
  /\ IF Works(epoch) THEN UNCHANGED sessionVars ELSE Invalidate
  /\ UNCHANGED <<alerts, alertOf, told, reached, queue, raiseLag, retryLag, retrying, crashes>>

\* The alert is marked sent, at the time the call read from the clock.
MarkSent ==
  /\ stage = "confirmed"
  /\ alerts' = [alerts EXCEPT ![sending] =
                  Alert(alerts[sending].kind, "sent", alerts[sending].count,
                        alerts[sending].latest, Lag)]
  /\ failures' = [failures EXCEPT ![sending] = 0]
  /\ nextIn' = [nextIn EXCEPT ![sending] = 0]
  /\ IF holder = RetryCheck
     THEN /\ sending' = 0
          /\ text' = NoText
          /\ stage' = "idle"
          /\ UNCHANGED <<holder, todo>>
     ELSE Returns
  /\ UNCHANGED <<sessionVars, alertOf, ledger, told, reached, queue, raiseLag, retryLag, retrying,
                 crashes>>

-----------------------------------------------------------------------------
(* The loops of server.ts, the clock and the crash. *)

\* What a reading leads to: the summary of a long outage is raised, and the
\* retry loop goes on with the pending alerts only while the session works.
Summary(r) == IF Recovers(r) THEN <<outage>> ELSE <<>>

Observed(r, checks) ==
  IF RetryCheck \in checks
  THEN IF Works(r)
       THEN /\ queue' = queue \o Summary(r) \o <<RetryCheck>>
            /\ retrying' = "delivering"
            /\ retryLag' = 0
       ELSE /\ retrying' = "idle"
            /\ UNCHANGED <<queue, retryLag>>
  ELSE /\ queue' = queue \o Summary(r)
       /\ UNCHANGED <<retrying, retryLag>>

alertsButQueue ==
  <<databaseVars, told, reached, retryVars, holder, todo, sending, text, stage, raiseLag>>

\* A check by a worker or a timer, or the start of the retry loop's round.
CheckNow(c) ==
  /\ c = RetryCheck => retrying = "idle"
  /\ CheckCached(c)
  /\ Observed(cache, {c})
  /\ UNCHANGED <<alertsButQueue, crashes>>

CheckLater(c) ==
  /\ c = RetryCheck => retrying = "idle"
  /\ CheckAsks(c)
  /\ retrying' = IF c = RetryCheck THEN "checking" ELSE retrying
  /\ UNCHANGED <<alertsButQueue, queue, retryLag, crashes>>

Answered(f) ==
  /\ FetchEnds(f)
  /\ Observed(fetch[f], Waiting(f))
  /\ UNCHANGED <<alertsButQueue, crashes>>

Gateway ==
  /\ SessionDrops \/ SessionReturns \/ \E f \in Checks : Answers(f)
  /\ UNCHANGED <<alertVars, crashes>>

Older(n, horizon) == IF n < horizon THEN n + 1 ELSE n

\* A minute passes.  Bound: no call holds a clock reading older than MaxLag;
\* and a text sent may be sent again after one minute, five in the code.
Tick ==
  /\ MonitorTick
  /\ InProgress(RetryCheck) => retryLag < MaxLag
  /\ holder \in Events => raiseLag < MaxLag
  /\ retryLag' = IF InProgress(RetryCheck) THEN retryLag + 1 ELSE retryLag
  /\ raiseLag' = IF holder \in Events THEN raiseLag + 1 ELSE raiseLag
  /\ alerts' = [a \in Ids |->
                  IF alerts[a].status = "sent"
                  THEN Alert(alerts[a].kind, "sent", alerts[a].count, alerts[a].latest,
                             Older(alerts[a].age, Horizon))
                  ELSE alerts[a]]
  /\ reached' = [a \in Ids |-> Older(reached[a], LongAgo)]
  /\ nextIn' = [a \in Ids |-> IF failures[a] > 0 /\ nextIn[a] > -MaxLag THEN nextIn[a] - 1
                            ELSE nextIn[a]]
  /\ ledger' = [t \in Texts |-> IF ledger[t] = "sent" THEN "lapsed" ELSE ledger[t]]
  /\ UNCHANGED <<alertOf, told, failures, queue, holder, todo, sending, text, stage,
                 retrying, crashes>>

\* The process dies and starts again: the retries are forgotten, and an
\* attempt that was under way has an unknown outcome.
Crash ==
  /\ crashes < MaxCrashes
  /\ crashes' = crashes + 1
  /\ MonitorCrash
  /\ Returns
  /\ queue' = <<>>
  /\ failures' = [a \in Ids |-> 0]
  /\ nextIn' = [a \in Ids |-> 0]
  /\ raiseLag' = 0
  /\ retryLag' = 0
  /\ retrying' = "idle"
  /\ ledger' = [t \in Texts |-> IF ledger[t] = "pending" THEN "uncertain" ELSE ledger[t]]
  /\ \/ UNCHANGED told
     \/ stage = "attempt" /\ Works(epoch) /\ told' = told \cup {text}
  /\ UNCHANGED <<alerts, alertOf, reached>>

\* The chain goes on at once, before anything else of the process runs:
\* between two awaits, and when a promise is settled already.
AtOnce == Free \/ (holder = RetryCheck /\ stage = "idle") \/ stage = "confirmed"

LockStep ==
  \/ \E e \in Events : BeginRaise(e)
  \/ BeginRetry \/ RetryNext \/ RetryReturns
  \/ SendRefused \/ SentBefore \/ SendBegins \/ Accepted \/ OutcomeUnknown \/ Rejected \/ MarkSent

CheckStep == \E c \in Checks : CheckNow(c) \/ CheckLater(c) \/ Answered(c)

Next ==
  \/ LockStep \/ Crash
  \/ /\ ~AtOnce
     /\ \/ Gateway \/ CheckStep \/ Tick
        \/ \E e \in Handoffs : Raise(e)

Spec == Init /\ [][Next]_vars

-----------------------------------------------------------------------------
(* Properties. *)

\* An alert marked sent has been told whole: WhatsApp accepted the text with
\* its final count and newest reason, whatever was grouped, retried, raised
\* again or left unknown on the way.
SentAlertsAreTold == \A a \in Ids : alerts[a].status = "sent" => Format(a) \in told

\* The alerts marked sent that reached the owner at most so many minutes ago.
ReachedWithin(minutes) == {a \in Ids : alerts[a].status = "sent" /\ reached[a] <= minutes}

\* In any Window minutes, less the longest a delivery takes, at most FloodMax
\* alerts reach the owner and are marked so: counted when WhatsApp accepted
\* them, although the code counts by a time read before the send, which a
\* retry read before it even waited for the lock.  What the owner got with
\* the process dead or unsure of it is on no row, and not counted.  For a
\* whole window it is false: a delivery marked with an old reading of the clock
\* leaves the window before the owner's is over.
FloodCap == Cardinality(ReachedWithin(Window - MaxLag)) <= FloodMax

\* Each event is counted on one alert, once, however often a rerun of its
\* job raises it.
OccurrencesCounted ==
  \A a \in Ids : alerts[a].count = Cardinality({e \in Events : alertOf[e] = a})

\* Checks that overlap never observe an older reading after a newer one.
ReadingsInOrder == [][crashes' = crashes => last' >= last]_vars
=============================================================================
