---------------------------- MODULE InboundQueue ----------------------------
(***************************************************************************)
(* The durable inbound path of the shop agent: the webhook handler         *)
(* (server.ts), the replay guard and event table (inbound-events.ts), the  *)
(* SQLite job queue and its worker pool (inbound-jobs.ts).                 *)
(*                                                                         *)
(* The tables `event`, `job`, `admission` and the flag `optedOut` survive  *)
(* a restart.  `request`, `run` and `deferrals` are the memory of the one  *)
(* Node process: a request is a webhook call parked at an await, a run is  *)
(* a worker between claiming a job and its end.  Code between two awaits   *)
(* is one action, including the claims kick() makes at its end.            *)
(*                                                                         *)
(* Clocks are abstracted to what the code compares: a job is due or not,   *)
(* a lease is live or expired, an event's processing lease is fresh or     *)
(* stale, and a message was written in the present second, before it,      *)
(* before the acceptance watermark, or too far in the future.              *)
(***************************************************************************)
EXTENDS Integers, FiniteSets, Sequences

CONSTANTS
  Events,        \* provider messages, named by their event key
  Kind,          \* Kind[e]: who wrote e and what it is
  Workers,       \* worker slots (INBOUND_JOB_WORKERS)
  Requests,      \* webhook calls that may be parked at an await at once
  None,          \* no event
  MaxPending,    \* INBOUND_JOB_MAX_PENDING
  MaxAttempts,   \* INBOUND_JOB_MAX_ATTEMPTS
  MaxDeferrals,  \* MAX_MID_TURN_CHANNEL_DEFERRALS
  Arrivals,      \* bound: the sets of messages that may be written in one behaviour
  FaultKinds,    \* the disturbances the environment may cause
  MaxFaults      \* and how many of them

Kinds == {"customer", "owner", "stop", "start", "oversized"}
Faults == {"restart", "lease", "outage", "budget", "flood", "database"}

ASSUME QueueAssumption ==
  /\ Kind \in [Events -> Kinds]
  /\ None \notin Events
  /\ IsFiniteSet(Events) /\ IsFiniteSet(Workers)
  /\ MaxPending \in Nat \ {0}
  /\ MaxAttempts \in Nat \ {0}
  /\ MaxDeferrals \in Nat
  /\ FaultKinds \subseteq Faults
  /\ MaxFaults \in Nat

VARIABLES
  age,        \* when each message was written, relative to now and the watermark
  event,      \* inbound_events
  job,        \* inbound_jobs
  admission,  \* inbound_abuse_events
  consented,  \* event keys in customer_consent_events
  optedOut,   \* customers.automation_opted_out
  request,    \* webhook calls waiting at an await
  chain,      \* consentSequence: the consent requests in arrival order
  run,        \* what each worker slot is doing
  deferrals,  \* MidTurnChannelDeferrals.counts
  acked,      \* messages the provider was answered HTTP 200 for
  sessionUp,  \* what sessionMonitor.check() reports
  faults      \* disturbances so far

consentVars == <<consented, optedOut, chain>>
vars == <<age, event, job, admission, consentVars, request, run, deferrals,
          acked, sessionUp, faults>>

Ages == {"unsent", "future", "current", "past", "historical"}
EventStatus == {"absent", "processing", "completed", "failed",
                "ignored_historical", "ignored_invalid"}
JobStatus == {"none", "pending", "processing", "completed", "failed"}

\* status, attempt_count, available_at reached, lease_expires_at ahead, id.
Row(status, attempt, due, leased, id) ==
  [status |-> status, attempt |-> attempt, due |-> due, leased |-> leased, id |-> id]

NoJob == Row("none", 0, FALSE, FALSE, 0)
IdleRun == [event |-> None, attempt |-> 0, pc |-> "idle"]
IdleRequest == [event |-> None, pc |-> "idle"]

RequestPc == {"idle", "limiting", "rejecting", "consentQueued", "consentDelivering"}

JobRow == [status : JobStatus, attempt : Nat, due : BOOLEAN, leased : BOOLEAN, id : Nat]

JobsOK(j) ==
  /\ j \in [Events -> JobRow]
  /\ \A e \in Events : j[e].leased => j[e].status = "processing"

RunsOK(r) ==
  /\ r \in [Workers -> [event : Events \cup {None}, attempt : Nat,
                        pc : {"idle", "gate", "turn"}]]
  /\ \A w \in Workers : r[w].event = None <=> r[w].pc = "idle"

\* Beside the types: only a claimed row has a lease, and a request or a worker
\* slot holds an event exactly while it is busy.
TypeOK ==
  /\ age \in [Events -> Ages]
  /\ event \in [Events -> [status : EventStatus, fresh : BOOLEAN]]
  /\ JobsOK(job)
  /\ admission \in [Events -> {"none", "admitted", "rate_limited"}]
  /\ consented \subseteq Events
  /\ optedOut \in BOOLEAN
  /\ chain \in Seq(Requests)
  /\ request \in [Requests -> [event : Events \cup {None}, pc : RequestPc]]
  /\ \A r \in Requests : request[r].event = None <=> request[r].pc = "idle"
  /\ RunsOK(run)
  /\ deferrals \in [Events -> Nat]
  /\ acked \subseteq Events
  /\ sessionUp \in BOOLEAN
  /\ faults \in Nat

Init ==
  /\ age = [e \in Events |-> "unsent"]
  /\ event = [e \in Events |-> [status |-> "absent", fresh |-> FALSE]]
  /\ job = [e \in Events |-> NoJob]
  /\ admission = [e \in Events |-> "none"]
  /\ consented = {}
  /\ optedOut = FALSE
  /\ chain = <<>>
  /\ request = [r \in Requests |-> IdleRequest]
  /\ run = [w \in Workers |-> IdleRun]
  /\ deferrals = [e \in Events |-> 0]
  /\ acked = {}
  /\ sessionUp = TRUE
  /\ faults = 0

-----------------------------------------------------------------------------
(* The job table. *)

InStatus(j, S) == {e \in Events : j[e].status \in S}
Open(j) == InStatus(j, {"pending", "processing"})

\* Mutation of Claimable: a job in processing is claimed whatever its lease.
ClaimableDespiteLease(row) ==
  \/ row.status = "pending" /\ row.due
  \/ row.status = "processing"

\* The where clause of claimNextInboundJob.
Claimable(row) ==
  \/ row.status = "pending" /\ row.due
  \/ row.status = "processing" /\ ~row.leased

Claimed(row) ==
  Row("processing", row.attempt + 1, row.due, TRUE, row.id)

Picked(pick) == {pick[w] : w \in Workers} \ {None}

\* What each slot gets of the lowest job ids; kick() may stop short of filling
\* them only when a claim throws.
SomePicks(j, r) ==
  {pick \in [Workers -> Events \cup {None}] :
    /\ \A w \in Workers : pick[w] # None => r[w].pc = "idle" /\ Claimable(j[pick[w]])
    /\ \A v, w \in Workers : v # w /\ pick[v] = pick[w] => pick[v] = None
    /\ \A e \in Events : Claimable(j[e]) =>
         e \in Picked(pick) \/ \A w \in Workers : pick[w] # None => j[pick[w]].id < j[e].id}

\* kick() claims while a slot is free.
Picks(j, r) ==
  {pick \in SomePicks(j, r) :
    \A e \in Events : Claimable(j[e]) =>
      e \in Picked(pick) \/ \A w \in Workers : r[w].pc # "idle" \/ pick[w] # None}

Claims(j, r, pick) ==
  /\ job' = [e \in Events |-> IF e \in Picked(pick) THEN Claimed(j[e]) ELSE j[e]]
  /\ run' = [w \in Workers |->
               IF pick[w] # None
               THEN [event |-> pick[w], attempt |-> j[pick[w]].attempt + 1, pc |-> "gate"]
               ELSE r[w]]

Kick(j, r) == \E pick \in Picks(j, r) : Claims(j, r, pick)
KickThrows(j, r) == \E pick \in SomePicks(j, r) : Claims(j, r, pick)

Pending == Cardinality(InStatus(job, {"pending"}))

\* A new row, or the failed row of the same event made pending again.
Enqueued(e) ==
  [job EXCEPT ![e] =
     Row("pending", 0, TRUE, FALSE,
         IF job[e].status = "failed" THEN job[e].id
         ELSE 1 + Cardinality(InStatus(job, JobStatus \ {"none"})))]

\* A row put back until its delay is over.
PutBack(row, preserveAttempt) ==
  Row("pending",
      IF preserveAttempt /\ row.attempt > 0 THEN row.attempt - 1 ELSE row.attempt,
      FALSE, FALSE, row.id)

\* Mutation of Deferred: the update misses its status = 'processing' condition.
DeferredUnconditionally(e, preserveAttempt) ==
  [job EXCEPT ![e] = PutBack(@, preserveAttempt)]

Deferred(e, preserveAttempt) ==
  IF job[e].status # "processing" THEN job
  ELSE [job EXCEPT ![e] = PutBack(@, preserveAttempt)]

\* Mutation of Settled: the lease is left on the finished row.
SettledWithLease(e, status) ==
  IF job[e].status # "processing" THEN job
  ELSE [job EXCEPT ![e] = Row(status, @.attempt, @.due, @.leased, @.id)]

Settled(e, status) ==
  IF job[e].status # "processing" THEN job
  ELSE [job EXCEPT ![e] = Row(status, @.attempt, @.due, FALSE, @.id)]

\* completeInboundEvent and failInboundEvent, and the same update inside
\* completeInboundJob and failOrRetryInboundJob.  The lease of an event is read
\* only while it is processing.
EventSettled(ev, e, status) ==
  IF ev[e].status # "processing" THEN ev
  ELSE [ev EXCEPT ![e] = [status |-> status, fresh |-> FALSE]]

-----------------------------------------------------------------------------
(* The environment. *)

Fault(kind) ==
  /\ kind \in FaultKinds
  /\ faults < MaxFaults
  /\ faults' = faults + 1

Written == {e \in Events : age[e] # "unsent"}

Write(e) ==
  /\ age[e] = "unsent"
  /\ \E S \in Arrivals : Written \cup {e} \subseteq S
  /\ \E a \in {"current", "future"} : age' = [age EXCEPT ![e] = a]
  /\ UNCHANGED <<event, job, admission, consentVars, request, run, deferrals, acked,
                 sessionUp, faults>>

\* The second of the newest messages is over.
SecondPasses ==
  /\ \E e \in Events : age[e] = "current"
  /\ age' = [e \in Events |-> IF age[e] = "current" THEN "past" ELSE age[e]]
  /\ UNCHANGED <<event, job, admission, consentVars, request, run, deferrals, acked,
                 sessionUp, faults>>

\* A timestamp that was more than MAX_FUTURE_SKEW_MS ahead no longer is.
FutureArrives(e) ==
  /\ age[e] = "future"
  /\ age' = [age EXCEPT ![e] = "current"]
  /\ UNCHANGED <<event, job, admission, consentVars, request, run, deferrals, acked,
                 sessionUp, faults>>

EventLeaseGoesStale(e) ==
  /\ event[e].status = "processing" /\ event[e].fresh
  /\ event' = [event EXCEPT ![e] = [status |-> "processing", fresh |-> FALSE]]
  /\ UNCHANGED <<age, job, admission, consentVars, request, run, deferrals, acked,
                 sessionUp, faults>>

BecomesDue(e) ==
  /\ job[e].status = "pending" /\ ~job[e].due
  /\ job' = [job EXCEPT ![e] = Row("pending", @.attempt, TRUE, FALSE, @.id)]
  /\ UNCHANGED <<age, event, admission, consentVars, request, run, deferrals, acked,
                 sessionUp, faults>>

\* The turn outlives leaseSeconds.
LeaseExpires(e) ==
  /\ Fault("lease")
  /\ job[e].status = "processing" /\ job[e].leased
  /\ job' = [job EXCEPT ![e] = Row("processing", @.attempt, @.due, FALSE, @.id)]
  /\ UNCHANGED <<age, event, admission, consentVars, request, run, deferrals, acked, sessionUp>>

SessionDrops ==
  /\ Fault("outage")
  /\ sessionUp
  /\ sessionUp' = FALSE
  /\ UNCHANGED <<age, event, job, admission, consentVars, request, run, deferrals, acked>>

SessionReturns ==
  /\ ~sessionUp
  /\ sessionUp' = TRUE
  /\ UNCHANGED <<age, event, job, admission, consentVars, request, run, deferrals, acked, faults>>

-----------------------------------------------------------------------------
(* The webhook handler: claimInboundEvent first. *)

Delivered(r, e) == request[r].pc = "idle" /\ age[e] # "unsent"

Ignored(e, status) == event' = [event EXCEPT ![e] = [status |-> status, fresh |-> FALSE]]

SettledEvent == {"completed", "ignored_historical", "ignored_invalid"}

\* The claim is "ignore" or "duplicate": HTTP 200 and nothing else.
SkipEvent(r, e) ==
  /\ Delivered(r, e)
  /\ \/ /\ age[e] = "future"
        /\ IF event[e].status = "absent" THEN Ignored(e, "ignored_invalid")
                                         ELSE UNCHANGED event
     \/ /\ age[e] = "historical"
        /\ IF event[e].status \in SettledEvent THEN UNCHANGED event
                                                ELSE Ignored(e, "ignored_historical")
     \/ /\ age[e] \in {"current", "past"}
        /\ \/ event[e].status \in SettledEvent
           \/ event[e].status = "processing" /\ event[e].fresh
        /\ UNCHANGED event
  /\ acked' = acked \cup {e}
  /\ UNCHANGED <<age, job, admission, consentVars, request, run, deferrals, sessionUp, faults>>

\* Mutation of Processable: the retry of a failed event skips the watermark.
ProcessableIfFailed(r, e) ==
  /\ Delivered(r, e)
  /\ \/ age[e] \in {"current", "past"}
     \/ age[e] = "historical" /\ event[e].status = "failed"
  /\ event[e].status = "processing" => ~event[e].fresh
  /\ event[e].status \notin SettledEvent

\* The claim is "process": new, retry of a failed event, or a stale lease.
Processable(r, e) ==
  /\ Delivered(r, e)
  /\ age[e] \in {"current", "past"}
  /\ event[e].status = "processing" => ~event[e].fresh
  /\ event[e].status \notin SettledEvent

ClaimedEvent(e) == [event EXCEPT ![e] = [status |-> "processing", fresh |-> TRUE]]

IsOwner(e) == Kind[e] = "owner"
IsConsent(e) == Kind[e] \in {"stop", "start"}
SuppressedByOptOut(e) == ~IsOwner(e) /\ optedOut
ReachesAdmission(r, e) == Processable(r, e) /\ ~IsConsent(e) /\ ~SuppressedByOptOut(e)

Park(r, e, pc) == request' = [request EXCEPT ![r] = [event |-> e, pc |-> pc]]

ReceiveConsent(r, e) ==
  /\ Processable(r, e)
  /\ IsConsent(e)
  /\ event' = ClaimedEvent(e)
  /\ Park(r, e, "consentQueued")
  /\ chain' = Append(chain, r)
  /\ UNCHANGED <<age, job, admission, consented, optedOut, run, deferrals, acked, sessionUp, faults>>

ReceiveOptedOut(r, e) ==
  /\ Processable(r, e)
  /\ ~IsConsent(e)
  /\ SuppressedByOptOut(e)
  /\ event' = EventSettled(ClaimedEvent(e), e, "completed")
  /\ acked' = acked \cup {e}
  /\ UNCHANGED <<age, job, admission, consentVars, request, run, deferrals, sessionUp, faults>>

\* admitInboundTurn: the decision for an event key is taken once.
Admit(e, decision) ==
  /\ admission[e] \in {"none", decision}
  /\ admission' = [admission EXCEPT ![e] = decision]

\* Over the sender's limit.  A customer is sent the busy reply before the event
\* is completed; the owner is not.
ReceiveRateLimited(r, e) ==
  /\ ReachesAdmission(r, e)
  /\ "flood" \in FaultKinds
  /\ Admit(e, "rate_limited")
  /\ IF IsOwner(e)
     THEN /\ event' = EventSettled(ClaimedEvent(e), e, "completed")
          /\ acked' = acked \cup {e}
          /\ UNCHANGED request
     ELSE /\ event' = ClaimedEvent(e)
          /\ Park(r, e, "limiting")
          /\ UNCHANGED acked
  /\ UNCHANGED <<age, job, consentVars, run, deferrals, sessionUp, faults>>

QueueRejects(e) ==
  \/ Kind[e] = "oversized"
  \/ job[e].status \in {"none", "failed"} /\ Pending >= MaxPending

\* enqueueInboundJob refuses: 503 (queue_full) or 422 (invalid_body).
ReceiveRejected(r, e) ==
  /\ ReachesAdmission(r, e)
  /\ Admit(e, "admitted")
  /\ QueueRejects(e)
  /\ IF IsOwner(e)
     THEN /\ event' = EventSettled(ClaimedEvent(e), e, "failed")
          /\ UNCHANGED request
     ELSE /\ event' = ClaimedEvent(e)
          /\ Park(r, e, "rejecting")
  /\ UNCHANGED <<age, job, consentVars, run, deferrals, acked, sessionUp, faults>>

WithJob(e) == IF job[e].status \in {"none", "failed"} THEN Enqueued(e) ELSE job

Accepts(r, e) ==
  /\ ReachesAdmission(r, e)
  /\ Admit(e, "admitted")
  /\ ~QueueRejects(e)
  /\ UNCHANGED <<age, consentVars, request, deferrals, sessionUp>>

\* The job is durable before the 200: queued, requeued or already queued.
ReceiveQueued(r, e) ==
  /\ Accepts(r, e)
  /\ event' = ClaimedEvent(e)
  /\ Kick(WithJob(e), run)
  /\ acked' = acked \cup {e}
  /\ UNCHANGED faults

\* A throw when it is, from a claim or later: the job stays, its event fails.
ReceiveQueuedThrows(r, e) ==
  /\ Fault("database")
  /\ Accepts(r, e)
  /\ event' = EventSettled(ClaimedEvent(e), e, "failed")
  /\ KickThrows(WithJob(e), run)
  /\ UNCHANGED acked

\* A throw before the job is durable: failInboundEvent and HTTP 500.
ReceiveError(r, e) ==
  /\ Fault("database")
  /\ Processable(r, e)
  /\ event' = EventSettled(ClaimedEvent(e), e, "failed")
  /\ UNCHANGED <<age, job, admission, consentVars, request, run, deferrals, acked, sessionUp>>

-----------------------------------------------------------------------------
(* The webhook handler after an await. *)

Resume(r) == request' = [request EXCEPT ![r] = IdleRequest]

\* The busy reply of a rate-limited customer is over.
FinishLimiting(r) ==
  /\ request[r].pc = "limiting"
  /\ event' = EventSettled(event, request[r].event, "completed")
  /\ acked' = acked \cup {request[r].event}
  /\ Resume(r)
  /\ UNCHANGED <<age, job, admission, consentVars, run, deferrals, sessionUp, faults>>

\* The busy reply of a refused customer is over: 503 or 422.
FinishRejecting(r) ==
  /\ request[r].pc = "rejecting"
  /\ event' = EventSettled(event, request[r].event, "failed")
  /\ Resume(r)
  /\ UNCHANGED <<age, job, admission, consentVars, run, deferrals, acked, sessionUp, faults>>

\* consentSequence has reached this request.
AtHead(r) == chain # <<>> /\ Head(chain) = r

\* recordConsentCommand, when the chain reaches this request; a replayed event
\* key changes nothing.
RecordConsent(r) ==
  /\ AtHead(r)
  /\ request[r].pc = "consentQueued"
  /\ optedOut' = IF request[r].event \in consented THEN optedOut
                 ELSE Kind[request[r].event] = "stop"
  /\ consented' = consented \cup {request[r].event}
  /\ Park(r, request[r].event, "consentDelivering")
  /\ UNCHANGED <<age, event, job, admission, chain, run, deferrals, acked, sessionUp, faults>>

\* The acknowledgement was sent or stays pending; either way the event is done.
FinishConsent(r) ==
  /\ AtHead(r)
  /\ request[r].pc = "consentDelivering"
  /\ event' = EventSettled(event, request[r].event, "completed")
  /\ acked' = acked \cup {request[r].event}
  /\ chain' = Tail(chain)
  /\ Resume(r)
  /\ UNCHANGED <<age, job, admission, consented, optedOut, run, deferrals, sessionUp, faults>>

\* The consent chain throws: failInboundEvent and HTTP 500.
ConsentError(r) ==
  /\ Fault("database")
  /\ AtHead(r)
  /\ request[r].pc \in {"consentQueued", "consentDelivering"}
  /\ event' = EventSettled(event, request[r].event, "failed")
  /\ chain' = Tail(chain)
  /\ Resume(r)
  /\ UNCHANGED <<age, job, admission, consented, optedOut, run, deferrals, acked, sessionUp>>

-----------------------------------------------------------------------------
(* The worker pool. *)

TimerKick ==
  /\ Kick(job, run)
  /\ UNCHANGED <<age, event, admission, consentVars, request, deferrals, acked,
                 sessionUp, faults>>

\* Mutation of EndRun: the active count is not given back.
EndRunKeepingSlot(w, j) == Kick(j, run)

\* The end of a run: the slot is free and kick() runs again.
EndRun(w, j) == Kick(j, [run EXCEPT ![w] = IdleRun])

\* deferIfChannelDown: no turn, and the attempt is given back.
GateDefers(w) ==
  /\ run[w].pc = "gate"
  /\ ~sessionUp
  /\ EndRun(w, Deferred(run[w].event, TRUE))
  /\ UNCHANGED <<age, event, admission, consentVars, request, deferrals, acked,
                 sessionUp, faults>>

GateOpens(w) ==
  /\ run[w].pc = "gate"
  /\ sessionUp
  /\ run' = [run EXCEPT ![w] = [event |-> @.event, attempt |-> @.attempt, pc |-> "turn"]]
  /\ UNCHANGED <<age, event, job, admission, consentVars, request, deferrals, acked,
                 sessionUp, faults>>

\* Mutation of FailOrRetry: one retry too many.
FailOrRetryOnceMore(w) ==
  LET e == run[w].event
  IN IF run[w].attempt <= MaxAttempts
     THEN EndRun(w, Deferred(e, FALSE)) /\ UNCHANGED event
     ELSE EndRun(w, Settled(e, "failed")) /\ event' = EventSettled(event, e, "failed")

\* failOrRetryInboundJob, by the attempt count the run was claimed with.
FailOrRetry(w) ==
  LET e == run[w].event
  IN IF run[w].attempt < MaxAttempts
     THEN EndRun(w, Deferred(e, FALSE)) /\ UNCHANGED event
     ELSE EndRun(w, Settled(e, "failed")) /\ event' = EventSettled(event, e, "failed")

\* The turn returns.  completeInboundJob throws when the row is not processing.
TurnSucceeds(w) ==
  LET e == run[w].event
  IN /\ run[w].pc = "turn"
     /\ deferrals' = [deferrals EXCEPT ![e] = 0]
     /\ IF job[e].status = "processing"
        THEN EndRun(w, Settled(e, "completed")) /\ event' = EventSettled(event, e, "completed")
        ELSE FailOrRetry(w)
     /\ UNCHANGED <<age, admission, consentVars, request, acked, sessionUp, faults>>

\* The turn throws.
TurnFails(w) ==
  /\ run[w].pc = "turn"
  /\ FailOrRetry(w)
  /\ UNCHANGED <<age, admission, consentVars, request, deferrals, acked, sessionUp, faults>>

\* AiBudgetExceededError: the attempt is given back.
TurnOutOfBudget(w) ==
  /\ Fault("budget")
  /\ run[w].pc = "turn"
  /\ EndRun(w, Deferred(run[w].event, TRUE))
  /\ UNCHANGED <<age, event, admission, consentVars, request, deferrals, acked, sessionUp>>

\* channel_unavailable and no reply delivered: MidTurnChannelDeferrals.decide.
TurnLosesChannel(w) ==
  LET e == run[w].event
  IN /\ run[w].pc = "turn"
     /\ IF ~sessionUp /\ deferrals[e] < MaxDeferrals
        THEN /\ deferrals' = [deferrals EXCEPT ![e] = @ + 1]
             /\ EndRun(w, Deferred(e, TRUE))
             /\ UNCHANGED event
        ELSE FailOrRetry(w) /\ UNCHANGED deferrals
     /\ UNCHANGED <<age, admission, consentVars, request, acked, sessionUp, faults>>

-----------------------------------------------------------------------------
(* The process dies at any moment and starts again: initializeInboundReplayGuard *)
(* advances the watermark to the present second and quarantines what it covers,  *)
(* then InboundJobWorkerPool.start() recovers interrupted jobs and claims.       *)

Quarantined(e) ==
  /\ event[e].status \in {"processing", "failed"}
  /\ age'[e] = "historical"
  /\ job[e].status \notin {"pending", "processing"}

\* Mutation of Recovered: interrupted jobs are left in processing.
RecoveredNothing == job
\* Mutation of Recovered: finished jobs are put back as well.
RecoveredWithFinished ==
  [e \in Events |->
     IF job[e].status \in {"processing", "completed"}
     THEN Row("pending", job[e].attempt, TRUE, FALSE, job[e].id)
     ELSE job[e]]

Recovered ==
  [e \in Events |->
     IF job[e].status = "processing"
     THEN Row("pending", job[e].attempt, TRUE, FALSE, job[e].id)
     ELSE job[e]]

Restart ==
  /\ Fault("restart")
  /\ age' = [e \in Events |-> IF age[e] = "past" THEN "historical" ELSE age[e]]
  /\ event' = [e \in Events |->
                 IF Quarantined(e)
                 THEN [status |-> "ignored_historical", fresh |-> FALSE] ELSE event[e]]
  /\ request' = [r \in Requests |-> IdleRequest]
  /\ chain' = <<>>
  /\ deferrals' = [e \in Events |-> 0]
  /\ Kick(Recovered, [w \in Workers |-> IdleRun])
  /\ UNCHANGED <<admission, consented, optedOut, acked, sessionUp>>

-----------------------------------------------------------------------------

Environment ==
  \/ \E e \in Events : Write(e) \/ FutureArrives(e) \/ EventLeaseGoesStale(e)
                       \/ BecomesDue(e) \/ LeaseExpires(e)
  \/ SecondPasses \/ SessionDrops \/ SessionReturns \/ Restart

Receive(r, e) ==
  \/ SkipEvent(r, e) \/ ReceiveConsent(r, e) \/ ReceiveOptedOut(r, e)
  \/ ReceiveRateLimited(r, e) \/ ReceiveRejected(r, e) \/ ReceiveQueued(r, e)
  \/ ReceiveQueuedThrows(r, e) \/ ReceiveError(r, e)

Continue(r) ==
  \/ FinishLimiting(r) \/ FinishRejecting(r) \/ RecordConsent(r)
  \/ FinishConsent(r) \/ ConsentError(r)

TurnEnds(w) ==
  TurnSucceeds(w) \/ TurnFails(w) \/ TurnOutOfBudget(w) \/ TurnLosesChannel(w)

RunStep(w) == GateDefers(w) \/ GateOpens(w) \/ TurnEnds(w)

Next ==
  \/ Environment
  \/ \E r \in Requests : Continue(r) \/ \E e \in Events : Receive(r, e)
  \/ TimerKick
  \/ \E w \in Workers : RunStep(w)

Spec == Init /\ [][Next]_vars

\* Every await of a run ends (the AI and WhatsApp calls time out), the timer
\* keeps ticking, backoff delays elapse and a dropped session comes back.
Fairness ==
  /\ \A w \in Workers : WF_vars(RunStep(w))
  /\ WF_vars(TimerKick)
  /\ \A e \in Events : WF_vars(BecomesDue(e))
  /\ WF_vars(SessionReturns)

FairSpec == Spec /\ Fairness

-----------------------------------------------------------------------------
(* Properties. *)

\* No interrupted job is stranded: every row in processing is held by a live
\* run, whatever stale workers, deferrals and restarts did before
\* (recoverInboundJobs at start, and every end of a run leaving processing).
ProcessingIsHeld ==
  \A e \in InStatus(job, {"processing"}) :
    \E w \in Workers : run[w].event = e /\ run[w].pc # "idle"

\* The durable queue is bounded although deferrals, retries and restarts put
\* claimed jobs back past the admission check: unfinished jobs never exceed the
\* admission limit by more than the worker slots.
QueueBounded == Cardinality(Open(job)) <= MaxPending + Cardinality(Workers)

\* While no lease runs out, one run at a time works on a message.
OneRunPerJob ==
  \A v, w \in Workers : run[v].pc # "idle" /\ run[v].event = run[w].event => v = w

\* The provider is told 200 only when the message is durable or done: never for
\* a message without a job that nothing in the process is handling any more.
AckedIsDurable ==
  \A e \in acked :
    \/ job[e].status # "none"
    \/ event[e].status \in SettledEvent
    \/ \E r \in Requests : request[r].event = e

\* A message written before the process started is never turned into work, not
\* even by a redelivery of one that failed or was half handled before.
HistoricalStartsNoJob ==
  [][\A e \in Events :
       job[e].status \in {"none", "failed"} /\ job'[e].status \in {"pending", "processing"}
         => age[e] \in {"current", "past"}]_vars

\* The queue implements its abstract specification.
Phase(row) ==
  CASE row.status = "none" -> "absent"
    [] row.status \in {"pending", "processing"} -> "open"
    [] row.status = "completed" -> "finished"
    [] row.status = "failed" -> "buried"

Queue == INSTANCE DurableQueue WITH
  Messages <- Events,
  Capacity <- MaxPending + Cardinality(Workers),
  phase <- [e \in Events |-> Phase(job[e])]

\* Whatever leases, stale workers and restarts do, the table behaves like the
\* durable bounded queue: room before acceptance, nothing finished reopened.
ImplementsDurableQueue == Queue!Spec

\* A late answer of a stale worker reopens nothing: completed is final, and a
\* failed job becomes runnable only through a redelivery, which resets it.
FinishedStaysFinished ==
  [][\A e \in Events :
       /\ job[e].status = "completed" => job'[e] = job[e]
       /\ job[e].status = "failed" =>
            \/ job'[e] = job[e]
            \/ /\ job'[e].attempt <= 1
               /\ \/ e \in acked' /\ event'[e].status = "processing"
                  \/ event'[e].status = "failed"]_vars

\* Every queued message is eventually answered or retained as failed.
QueuedJobFinishes ==
  \A e \in Events :
    job[e].status \in {"pending", "processing"} ~> job[e].status \in {"completed", "failed"}
=============================================================================
