------------------------- MODULE InboundQueueProofs -------------------------
(* Proofs about InboundQueue, for every set of events, workers and requests. *)
EXTENDS InboundQueue, FiniteSetTheorems, TLAPS

-----------------------------------------------------------------------------
(* Lemmas about the operators on the job table. *)

\* A claim turns a row into a leased row in processing.
LEMMA ClaimedRow ==
  ASSUME NEW row \in JobRow
  PROVE  Claimed(row) \in JobRow /\ Claimed(row).status = "processing"
BY DEF JobRow, JobStatus, Claimed, Row

\* The claims of kick() keep rows and runs well formed.
LEMMA KickTypes ==
  ASSUME NEW j, NEW r, JobsOK(j), RunsOK(r), Kick(j, r) \/ KickThrows(j, r)
  PROVE  JobsOK(job') /\ RunsOK(run')
<1>1. PICK pick \in SomePicks(j, r) :
        /\ job' = [e \in Events |-> IF e \in Picked(pick) THEN Claimed(j[e]) ELSE j[e]]
        /\ run' = [w \in Workers |->
             IF pick[w] # None
             THEN [event |-> pick[w], attempt |-> j[pick[w]].attempt + 1, pc |-> "gate"]
             ELSE r[w]]
  BY DEF Kick, KickThrows, Claims, Picks
<1>2. JobsOK(job')
  BY <1>1, ClaimedRow DEF JobsOK
<1>3. RunsOK(run')
  BY <1>1, QueueAssumption DEF SomePicks, JobsOK, JobRow, RunsOK
<1> QED BY <1>2, <1>3

\* A claim takes a claimable row only, and leaves a run that holds it.
LEMMA KickRows ==
  ASSUME NEW j, NEW r, JobsOK(j), RunsOK(r), Kick(j, r) \/ KickThrows(j, r), NEW e \in Events
  PROVE  \/ job'[e] = j[e]
         \/ /\ Claimable(j[e])
            /\ job'[e] = Claimed(j[e])
            /\ \E w \in Workers : run'[w].event = e /\ run'[w].pc = "gate"
<1>1. PICK pick \in SomePicks(j, r) :
        /\ job' = [d \in Events |-> IF d \in Picked(pick) THEN Claimed(j[d]) ELSE j[d]]
        /\ run' = [w \in Workers |->
             IF pick[w] # None
             THEN [event |-> pick[w], attempt |-> j[pick[w]].attempt + 1, pc |-> "gate"]
             ELSE r[w]]
  BY DEF Kick, KickThrows, Claims, Picks
<1>2. CASE e \in Picked(pick)
  <2>1. PICK w \in Workers : pick[w] = e
    BY <1>2 DEF Picked
  <2>2. e # None
    BY QueueAssumption
  <2>3. Claimable(j[e])
    BY <2>1, <2>2, <1>1 DEF SomePicks
  <2>4. run'[w].event = e /\ run'[w].pc = "gate"
    BY <2>1, <2>2, <1>1
  <2> QED BY <1>1, <1>2, <2>3, <2>4
<1>3. CASE e \notin Picked(pick)
  BY <1>1, <1>3
<1> QED BY <1>2, <1>3

\* A busy slot is not touched by kick().
LEMMA KickRuns ==
  ASSUME NEW j, NEW r, Kick(j, r) \/ KickThrows(j, r), NEW w \in Workers, r[w].pc # "idle"
  PROVE  run'[w] = r[w]
<1>1. PICK pick \in SomePicks(j, r) :
        run' = [v \in Workers |->
             IF pick[v] # None
             THEN [event |-> pick[v], attempt |-> j[pick[v]].attempt + 1, pc |-> "gate"]
             ELSE r[v]]
  BY DEF Kick, KickThrows, Claims, Picks
<1> QED BY <1>1 DEF SomePicks

\* A deferral or retry keeps the rows well formed.
LEMMA DeferredTypes ==
  ASSUME JobsOK(job), NEW e \in Events, NEW p \in BOOLEAN
  PROVE  JobsOK(Deferred(e, p))
BY DEF JobsOK, JobRow, JobStatus, Deferred, PutBack, Row

\* Completing or burying a row does too.
LEMMA SettledTypes ==
  ASSUME JobsOK(job), NEW e \in Events, NEW s \in JobStatus
  PROVE  JobsOK(Settled(e, s))
BY DEF JobsOK, JobRow, JobStatus, Settled, Row

\* And the recovery at start.
LEMMA RecoveredTypes ==
  ASSUME JobsOK(job)
  PROVE  JobsOK(Recovered)
BY DEF JobsOK, JobRow, JobStatus, Recovered, Row

\* And admission.
LEMMA EnqueuedTypes ==
  ASSUME JobsOK(job), NEW e \in Events
  PROVE  JobsOK(Enqueued(e))
<1>1. Cardinality(InStatus(job, JobStatus \ {"none"})) \in Nat
  <2>1. InStatus(job, JobStatus \ {"none"}) \subseteq Events
    BY DEF InStatus
  <2> QED BY <2>1, QueueAssumption, FS_Subset, FS_CardinalityType
<1> QED BY <1>1 DEF JobsOK, JobRow, JobStatus, Enqueued, Row

\* Giving a slot back keeps the runs well formed.
LEMMA FreedRunTypes ==
  ASSUME RunsOK(run), NEW w \in Workers
  PROVE  RunsOK([run EXCEPT ![w] = IdleRun])
BY QueueAssumption DEF RunsOK, IdleRun

EventsOK(ev) == ev \in [Events -> [status : EventStatus, fresh : BOOLEAN]]

\* Settling an event keeps the events well formed.
LEMMA EventSettledTypes ==
  ASSUME NEW ev, EventsOK(ev), NEW e, NEW s \in EventStatus
  PROVE  EventsOK(EventSettled(ev, e, s))
BY DEF EventsOK, EventSettled, EventStatus

-----------------------------------------------------------------------------
(* Type correctness. *)

\* The process starts with well-formed tables.
LEMMA InitTypes == Init => TypeOK
<1> SUFFICES ASSUME Init PROVE TypeOK
  OBVIOUS
<1>1. JobsOK(job)
  BY DEF Init, JobsOK, JobRow, JobStatus, NoJob, Row
<1>2. RunsOK(run)
  BY QueueAssumption DEF Init, RunsOK, IdleRun
<1>3. /\ request \in [Requests -> [event : Events \cup {None}, pc : RequestPc]]
      /\ \A r \in Requests : request[r].event = None <=> request[r].pc = "idle"
  BY DEF Init, IdleRequest, RequestPc
<1>4. chain \in Seq(Requests) /\ acked \subseteq Events /\ consented \subseteq Events
  BY DEF Init
<1>5. optedOut \in BOOLEAN
  BY DEF Init
<1>6. sessionUp \in BOOLEAN
  BY DEF Init
<1>7. /\ age \in [Events -> Ages]
      /\ event \in [Events -> [status : EventStatus, fresh : BOOLEAN]]
      /\ admission \in [Events -> {"none", "admitted", "rate_limited"}]
      /\ deferrals \in [Events -> Nat]
      /\ faults \in Nat
  BY DEF Init, Ages, EventStatus
<1> QED BY <1>1, <1>2, <1>3, <1>4, <1>5, <1>6, <1>7 DEF TypeOK

\* An environment step other than a restart keeps the types.
LEMMA EnvironmentTypes ==
  ASSUME TypeOK, Environment, ~Restart
  PROVE  TypeOK'
<1> USE DEF TypeOK, Fault, consentVars
<1>1. ASSUME NEW e \in Events, Write(e) PROVE TypeOK'
  BY <1>1 DEF Write, Ages
<1>2. ASSUME NEW e \in Events, FutureArrives(e) PROVE TypeOK'
  BY <1>2 DEF FutureArrives, Ages
<1>3. ASSUME NEW e \in Events, EventLeaseGoesStale(e) PROVE TypeOK'
  BY <1>3 DEF EventLeaseGoesStale, EventStatus
<1>4. ASSUME NEW e \in Events, BecomesDue(e) PROVE TypeOK'
  BY <1>4 DEF BecomesDue, JobsOK, JobRow, JobStatus, Row
<1>5. ASSUME NEW e \in Events, LeaseExpires(e) PROVE TypeOK'
  BY <1>5 DEF LeaseExpires, JobsOK, JobRow, JobStatus, Row
<1>6. CASE SecondPasses
  BY <1>6 DEF SecondPasses, Ages
<1>7. CASE SessionDrops
<2>1. sessionUp' \in BOOLEAN
  BY <1>7 DEF SessionDrops
<2> QED BY <1>7, <2>1 DEF SessionDrops
<1>8. CASE SessionReturns
  BY <1>8 DEF SessionReturns
<1> QED BY <1>1, <1>2, <1>3, <1>4, <1>5, <1>6, <1>7, <1>8 DEF Environment

\* A restart keeps them so.
LEMMA RestartTypes ==
  ASSUME TypeOK, Restart
  PROVE  TypeOK'
<1>1. JobsOK(job') /\ RunsOK(run')
  <2>1. RunsOK([w \in Workers |-> IdleRun])
    BY QueueAssumption DEF RunsOK, IdleRun
  <2> QED BY <2>1, RecoveredTypes, KickTypes DEF TypeOK, Restart
<1> QED BY <1>1, QueueAssumption
         DEF TypeOK, Restart, Fault, Ages, EventStatus, IdleRequest, RequestPc

\* The webhook handler made sure that the message has its job.
Taken(r, e) == ReceiveQueued(r, e) \/ ReceiveQueuedThrows(r, e)

\* Then the free slots claim, all of them or as far as the claims get.
LEMMA TakenClaims ==
  ASSUME NEW r \in Requests, NEW e \in Events, Taken(r, e)
  PROVE  Kick(WithJob(e), run) \/ KickThrows(WithJob(e), run)
BY DEF Taken, ReceiveQueued, ReceiveQueuedThrows

\* Every branch of the webhook handler does.
LEMMA ReceiveTypes ==
  ASSUME TypeOK, NEW r \in Requests, NEW e \in Events, Receive(r, e)
  PROVE  TypeOK'
<1> USE QueueAssumption DEF TypeOK, Fault, consentVars
<1>0. EventsOK(event) /\ EventsOK(ClaimedEvent(e))
  BY DEF EventsOK, ClaimedEvent, EventStatus
<1>1. \A s \in {"completed", "failed"} :
        EventSettled(ClaimedEvent(e), e, s) \in [Events -> [status : EventStatus, fresh : BOOLEAN]]
  BY <1>0, EventSettledTypes DEF EventsOK, EventStatus
<1>2. ClaimedEvent(e) \in [Events -> [status : EventStatus, fresh : BOOLEAN]]
  BY <1>0 DEF EventsOK
<1>3. \A pc \in {"limiting", "rejecting", "consentQueued"} : Park(r, e, pc) =>
        /\ request' \in [Requests -> [event : Events \cup {None}, pc : RequestPc]]
        /\ \A q \in Requests : request'[q].event = None <=> request'[q].pc = "idle"
  BY DEF Park, RequestPc
<1>4. \A d \in {"admitted", "rate_limited"} : Admit(e, d) =>
        admission' \in [Events -> {"none", "admitted", "rate_limited"}]
  BY DEF Admit
<1>5. CASE SkipEvent(r, e)
  <2>1. event' \in [Events -> [status : EventStatus, fresh : BOOLEAN]]
    <3>1. \A s \in {"ignored_invalid", "ignored_historical"} : Ignored(e, s) =>
            event' \in [Events -> [status : EventStatus, fresh : BOOLEAN]]
      BY DEF Ignored, EventStatus
    <3>2. \/ event' = event
          \/ Ignored(e, "ignored_invalid") \/ Ignored(e, "ignored_historical")
      BY <1>5 DEF SkipEvent
    <3> QED BY <3>1, <3>2
  <2> QED BY <1>5, <2>1 DEF SkipEvent
<1>6. CASE ReceiveConsent(r, e)
  BY <1>6, <1>2, <1>3 DEF ReceiveConsent
<1>7. CASE ReceiveOptedOut(r, e)
  BY <1>7, <1>1 DEF ReceiveOptedOut
<1>8. CASE ReceiveRateLimited(r, e)
  BY <1>8, <1>1, <1>2, <1>3, <1>4 DEF ReceiveRateLimited
<1>9. CASE ReceiveRejected(r, e)
  BY <1>9, <1>1, <1>2, <1>3, <1>4 DEF ReceiveRejected
<1>10. CASE Taken(r, e)
  <2>1. JobsOK(WithJob(e))
    BY EnqueuedTypes DEF WithJob
  <2>2. JobsOK(job') /\ RunsOK(run')
    BY <1>10, <2>1, TakenClaims, KickTypes
  <2>3. Accepts(r, e) /\ faults' \in Nat
    BY <1>10 DEF Taken, ReceiveQueued, ReceiveQueuedThrows
  <2>4. /\ event' \in [Events -> [status : EventStatus, fresh : BOOLEAN]]
        /\ acked' \subseteq Events
    BY <1>10, <1>1, <1>2 DEF Taken, ReceiveQueued, ReceiveQueuedThrows
  <2> QED BY <2>2, <2>3, <2>4, <1>4 DEF Accepts
<1>11. CASE ReceiveError(r, e)
  BY <1>11, <1>1 DEF ReceiveError
<1> QED BY <1>5, <1>6, <1>7, <1>8, <1>9, <1>10, <1>11 DEF Receive, Taken

\* So does what a request does after its await.
LEMMA ContinueTypes ==
  ASSUME TypeOK, NEW r \in Requests, Continue(r)
  PROVE  TypeOK'
<1> USE QueueAssumption DEF TypeOK, Fault, consentVars
<1>1. \A s \in {"completed", "failed"} :
        EventSettled(event, request[r].event, s)
          \in [Events -> [status : EventStatus, fresh : BOOLEAN]]
  BY EventSettledTypes DEF EventsOK, EventStatus
<1>2. Resume(r) =>
        /\ request' \in [Requests -> [event : Events \cup {None}, pc : RequestPc]]
        /\ \A q \in Requests : request'[q].event = None <=> request'[q].pc = "idle"
  BY DEF Resume, IdleRequest, RequestPc
<1>3. AtHead(r) => Tail(chain) \in Seq(Requests)
  BY DEF AtHead
<1>4. request[r].pc # "idle" => request[r].event \in Events
  OBVIOUS
<1>5. CASE FinishLimiting(r)
  BY <1>5, <1>1, <1>2, <1>4 DEF FinishLimiting
<1>6. CASE FinishRejecting(r)
  BY <1>6, <1>1, <1>2, <1>4 DEF FinishRejecting
<1>7. CASE RecordConsent(r)
  <2>1. optedOut' \in BOOLEAN
    BY <1>7 DEF RecordConsent
  <2>2. /\ request' \in [Requests -> [event : Events \cup {None}, pc : RequestPc]]
        /\ \A q \in Requests : request'[q].event = None <=> request'[q].pc = "idle"
    BY <1>7, <1>4 DEF RecordConsent, Park, RequestPc
  <2> QED BY <1>7, <1>4, <2>1, <2>2 DEF RecordConsent
<1>8. CASE FinishConsent(r)
  BY <1>8, <1>1, <1>2, <1>3, <1>4 DEF FinishConsent
<1>9. CASE ConsentError(r)
  BY <1>9, <1>1, <1>2, <1>3, <1>4 DEF ConsentError
<1> QED BY <1>5, <1>6, <1>7, <1>8, <1>9 DEF Continue

\* So does the timer's kick.
LEMMA TimerKickTypes ==
  ASSUME TypeOK, TimerKick
  PROVE  TypeOK'
BY KickTypes DEF TypeOK, TimerKick, consentVars

\* What the end of a run does with the row of its event.
LEMMA EndRunTypes ==
  ASSUME TypeOK, NEW w \in Workers, NEW j, JobsOK(j), EndRun(w, j)
  PROVE  JobsOK(job') /\ RunsOK(run')
BY FreedRunTypes, KickTypes DEF TypeOK, EndRun

\* A failed turn is retried or buried, both well formed.
LEMMA FailOrRetryTypes ==
  ASSUME TypeOK, NEW w \in Workers, run[w].event \in Events, FailOrRetry(w)
  PROVE  JobsOK(job') /\ RunsOK(run') /\ EventsOK(event')
<1>1. JobsOK(Deferred(run[w].event, FALSE)) /\ JobsOK(Settled(run[w].event, "failed"))
  BY DeferredTypes, SettledTypes DEF TypeOK, JobStatus
<1>2. EventsOK(event) /\ EventsOK(EventSettled(event, run[w].event, "failed"))
  BY EventSettledTypes DEF TypeOK, EventsOK, EventStatus
<1> QED BY <1>1, <1>2, EndRunTypes DEF FailOrRetry

\* Every step of a worker keeps the tables well formed.
LEMMA RunStepTypes ==
  ASSUME TypeOK, NEW w \in Workers, RunStep(w)
  PROVE  TypeOK'
<1> USE QueueAssumption DEF TypeOK, Fault, consentVars
<1>1. run[w].event \in Events
  BY DEF RunsOK, RunStep, GateDefers, GateOpens, TurnEnds, TurnSucceeds, TurnFails,
         TurnOutOfBudget, TurnLosesChannel
<1>2. JobsOK(Deferred(run[w].event, TRUE)) /\ JobsOK(Settled(run[w].event, "completed"))
  BY <1>1, DeferredTypes, SettledTypes DEF JobStatus
<1>3. EventSettled(event, run[w].event, "completed")
        \in [Events -> [status : EventStatus, fresh : BOOLEAN]]
  BY EventSettledTypes DEF EventsOK, EventStatus
<1>4. FailOrRetry(w) => JobsOK(job') /\ RunsOK(run')
                       /\ event' \in [Events -> [status : EventStatus, fresh : BOOLEAN]]
  BY <1>1, FailOrRetryTypes DEF EventsOK
<1>5. CASE GateDefers(w)
  BY <1>5, <1>2, EndRunTypes DEF GateDefers
<1>6. CASE GateOpens(w)
  BY <1>6 DEF GateOpens, RunsOK
<1>7. CASE TurnSucceeds(w)
  BY <1>7, <1>2, <1>3, <1>4, EndRunTypes DEF TurnSucceeds
<1>8. CASE TurnFails(w)
  BY <1>8, <1>4 DEF TurnFails
<1>9. CASE TurnOutOfBudget(w)
  <2>1. faults' \in Nat
    BY <1>9 DEF TurnOutOfBudget
  <2>2. JobsOK(job') /\ RunsOK(run')
    BY <1>9, <1>2, EndRunTypes DEF TurnOutOfBudget
  <2> QED BY <1>9, <2>1, <2>2 DEF TurnOutOfBudget
<1>10. CASE TurnLosesChannel(w)
  <2>1. deferrals' \in [Events -> Nat]
    <3>1. \/ deferrals' = deferrals
          \/ deferrals' = [deferrals EXCEPT ![run[w].event] = @ + 1]
      BY <1>10 DEF TurnLosesChannel
    <3> QED BY <3>1, <1>1
  <2>2. JobsOK(job') /\ RunsOK(run')
        /\ event' \in [Events -> [status : EventStatus, fresh : BOOLEAN]]
    BY <1>10, <1>2, <1>4, EndRunTypes DEF TurnLosesChannel
  <2>3. UNCHANGED <<age, admission, consented, optedOut, chain, request, acked, sessionUp,
                    faults>>
    BY <1>10 DEF TurnLosesChannel
  <2> QED BY <2>1, <2>2, <2>3
<1> HIDE DEF TypeOK
<1> QED BY <1>5, <1>6, <1>7, <1>8, <1>9, <1>10 DEF RunStep, TurnEnds

\* Every step of the program does.
LEMMA NextTypes == TypeOK /\ [Next]_vars => TypeOK'
<1> SUFFICES ASSUME TypeOK, [Next]_vars PROVE TypeOK'
  OBVIOUS
<1>1. CASE UNCHANGED vars
  BY <1>1 DEF TypeOK, vars, consentVars
<1>2. CASE Next
  BY <1>2, EnvironmentTypes, RestartTypes, ReceiveTypes, ContinueTypes, TimerKickTypes,
     RunStepTypes DEF Next
<1> QED BY <1>1, <1>2

\* The tables and the process memory stay well formed: only a row in processing
\* carries a lease, and slots and requests hold an event exactly while busy.
THEOREM TypeCorrect == Spec => []TypeOK
BY InitTypes, NextTypes, PTL DEF Spec

-----------------------------------------------------------------------------
(* Every row in processing is held by a live run. *)

Held(j, r) ==
  \A e \in Events : j[e].status = "processing" =>
    \E w \in Workers : r[w].event = e /\ r[w].pc # "idle"

\* What kick() claims, a slot holds.
LEMMA KickHeld ==
  ASSUME NEW j, NEW r, JobsOK(j), RunsOK(r), Kick(j, r) \/ KickThrows(j, r), Held(j, r)
  PROVE  Held(job', run')
<1> SUFFICES ASSUME NEW e \in Events, job'[e].status = "processing"
             PROVE  \E w \in Workers : run'[w].event = e /\ run'[w].pc # "idle"
  BY DEF Held
<1>1. CASE job'[e] = j[e]
  <2>1. PICK w \in Workers : r[w].event = e /\ r[w].pc # "idle"
    BY <1>1 DEF Held
  <2>2. run'[w] = r[w]
    BY <2>1, KickRuns
  <2> QED BY <2>1, <2>2
<1>2. CASE \E w \in Workers : run'[w].event = e /\ run'[w].pc = "gate"
  BY <1>2
<1> QED BY <1>1, <1>2, KickRows

\* A run that ends lets go of one row, and leaves that row out of processing.
LEMMA EndRunHeld ==
  ASSUME TypeOK, Held(job, run), NEW w \in Workers, NEW j, JobsOK(j), EndRun(w, j),
         run[w].event \in Events,
         j[run[w].event].status # "processing",
         \A d \in Events \ {run[w].event} : j[d] = job[d]
  PROVE  Held(job', run')
<1>1. RunsOK([run EXCEPT ![w] = IdleRun])
  BY FreedRunTypes DEF TypeOK
<1>2. Held(j, [run EXCEPT ![w] = IdleRun])
  <2> SUFFICES ASSUME NEW e \in Events, j[e].status = "processing"
               PROVE  \E v \in Workers : /\ [run EXCEPT ![w] = IdleRun][v].event = e
                                         /\ [run EXCEPT ![w] = IdleRun][v].pc # "idle"
    BY DEF Held
  <2>1. e # run[w].event /\ job[e].status = "processing"
    OBVIOUS
  <2>2. PICK v \in Workers : run[v].event = e /\ run[v].pc # "idle"
    BY <2>1 DEF Held
  <2>3. v # w
    BY <2>1, <2>2
  <2> QED BY <2>2, <2>3 DEF TypeOK, RunsOK
<1> QED BY <1>1, <1>2, KickHeld DEF EndRun

\* The row of a run's event after the run: what the three ends have in common.
LEMMA EndRows ==
  ASSUME TypeOK, NEW e \in Events,
         NEW j, \/ \E p \in BOOLEAN : j = Deferred(e, p)
                \/ \E s \in {"completed", "failed"} : j = Settled(e, s)
  PROVE  /\ JobsOK(j)
         /\ j[e].status # "processing"
         /\ \A d \in Events \ {e} : j[d] = job[d]
         /\ job[e].status # "processing" => j[e] = job[e]
         /\ job[e].status = "processing" => j[e].status \in {"pending", "completed", "failed"}
<1>1. CASE \E p \in BOOLEAN : j = Deferred(e, p)
  <2>1. JobsOK(j)
    BY <1>1, DeferredTypes DEF TypeOK
  <2> QED BY <2>1, <1>1 DEF TypeOK, JobsOK, JobRow, Deferred, PutBack, Row
<1>2. CASE \E s \in {"completed", "failed"} : j = Settled(e, s)
  <2>1. JobsOK(j)
    BY <1>2, SettledTypes DEF TypeOK, JobStatus
  <2> QED BY <2>1, <1>2 DEF TypeOK, JobsOK, JobRow, Settled, Row
<1> QED BY <1>1, <1>2

\* Every step of a run but the opening of its gate ends the run with such a row.
LEMMA RunStepEnds ==
  ASSUME TypeOK, NEW w \in Workers, RunStep(w)
  PROVE  /\ run[w].event \in Events
         /\ \/ GateOpens(w)
            \/ \E j : /\ EndRun(w, j)
                      /\ \/ \E p \in BOOLEAN : j = Deferred(run[w].event, p)
                        \/ \E s \in {"completed", "failed"} : j = Settled(run[w].event, s)
<1>1. run[w].pc # "idle"
  BY DEF RunStep, GateDefers, GateOpens, TurnEnds, TurnSucceeds, TurnFails,
         TurnOutOfBudget, TurnLosesChannel
<1>2. run[w].event \in Events
  BY <1>1 DEF TypeOK, RunsOK
<1>3. \/ GateOpens(w)
      \/ EndRun(w, Deferred(run[w].event, TRUE))
      \/ EndRun(w, Deferred(run[w].event, FALSE))
      \/ EndRun(w, Settled(run[w].event, "completed"))
      \/ EndRun(w, Settled(run[w].event, "failed"))
  BY DEF RunStep, GateDefers, TurnEnds, TurnSucceeds, TurnFails,
         TurnOutOfBudget, TurnLosesChannel, FailOrRetry
<1> QED BY <1>2, <1>3

\* Steps that touch neither the job table nor the slots.
JobsUntouched == UNCHANGED <<job, run>>

\* The steps that can touch a row, and all others.
LEMMA OtherSteps ==
  ASSUME [Next]_vars
  PROVE  \/ JobsUntouched
         \/ \E e \in Events : BecomesDue(e) \/ LeaseExpires(e)
         \/ \E r \in Requests, e \in Events : Taken(r, e)
         \/ TimerKick \/ Restart
         \/ \E w \in Workers : RunStep(w)
<1> USE DEF JobsUntouched
<1>1. CASE UNCHANGED vars
  BY <1>1 DEF vars
<1>2. CASE Environment
  BY <1>2 DEF Environment, Write, FutureArrives, EventLeaseGoesStale, SecondPasses,
              SessionDrops, SessionReturns
<1>3. ASSUME NEW r \in Requests, NEW e \in Events, Receive(r, e), ~Taken(r, e)
      PROVE  JobsUntouched
  BY <1>3 DEF Receive, Taken, SkipEvent, ReceiveConsent, ReceiveOptedOut, ReceiveRateLimited,
              ReceiveRejected, ReceiveError
<1>4. ASSUME NEW r \in Requests, Continue(r)
      PROVE  JobsUntouched
  BY <1>4 DEF Continue, FinishLimiting, FinishRejecting, RecordConsent, FinishConsent,
              ConsentError
<1> HIDE DEF JobsUntouched
<1> QED BY <1>1, <1>2, <1>3, <1>4 DEF Next

\* Admission makes its own row pending with no attempts, and no other.
LEMMA EnqueuedRows ==
  ASSUME TypeOK, NEW e \in Events
  PROVE  /\ JobsOK(Enqueued(e))
         /\ Enqueued(e)[e].status = "pending" /\ Enqueued(e)[e].attempt = 0
         /\ \A d \in Events \ {e} : Enqueued(e)[d] = job[d]
<1>1. JobsOK(Enqueued(e))
  BY EnqueuedTypes DEF TypeOK
<1> QED BY <1>1 DEF TypeOK, JobsOK, Enqueued, Row

\* A backoff that elapses and a lease that runs out leave every status alone.
LEMMA TimedRows ==
  ASSUME TypeOK, NEW e \in Events, BecomesDue(e) \/ LeaseExpires(e)
  PROVE  \A d \in Events : job'[d].status = job[d].status
<1>1. CASE BecomesDue(e)
  BY <1>1 DEF TypeOK, BecomesDue, JobsOK, Row
<1>2. CASE LeaseExpires(e)
  BY <1>2 DEF TypeOK, LeaseExpires, JobsOK, Row
<1> QED BY <1>1, <1>2

\* Every row in processing is held after any step.
LEMMA HeldStep ==
  ASSUME TypeOK, Held(job, run), [Next]_vars
  PROVE  Held(job', run')
<1> USE DEF TypeOK
<1>1. CASE JobsUntouched
  BY <1>1 DEF JobsUntouched, Held
<1>2. ASSUME NEW e \in Events, BecomesDue(e) \/ LeaseExpires(e)
      PROVE  Held(job', run')
  <2>1. run' = run /\ \A d \in Events : job'[d].status = job[d].status
    BY <1>2, TimedRows DEF BecomesDue, LeaseExpires
  <2> HIDE DEF TypeOK
  <2> QED BY <2>1 DEF Held
<1>3. ASSUME NEW r \in Requests, NEW e \in Events, Taken(r, e)
      PROVE  Held(job', run')
  <2>1. JobsOK(WithJob(e)) /\ Held(WithJob(e), run)
    <3>1. \A d \in Events : Enqueued(e)[d].status = "processing" => job[d].status = "processing"
      BY EnqueuedRows
    <3>2. \A d \in Events : WithJob(e)[d].status = "processing" => job[d].status = "processing"
      BY <3>1 DEF WithJob
    <3>3. JobsOK(WithJob(e))
      BY EnqueuedRows DEF WithJob
    <3> QED BY <3>2, <3>3 DEF Held
  <2> QED BY <1>3, <2>1, TakenClaims, KickHeld
<1>4. CASE TimerKick
  BY <1>4, KickHeld DEF TimerKick
<1>5. CASE Restart
  <2>1. Held(Recovered, [w \in Workers |-> IdleRun])
    BY DEF Held, Recovered, Row
  <2>2. RunsOK([w \in Workers |-> IdleRun])
    BY QueueAssumption DEF RunsOK, IdleRun
  <2> QED BY <1>5, <2>1, <2>2, RecoveredTypes, KickHeld DEF Restart
<1>6. ASSUME NEW w \in Workers, RunStep(w)
      PROVE  Held(job', run')
  <2>1. CASE GateOpens(w)
    BY <2>1 DEF GateOpens, Held, RunsOK
  <2>2. ASSUME NEW j, EndRun(w, j),
               \/ \E p \in BOOLEAN : j = Deferred(run[w].event, p)
               \/ \E s \in {"completed", "failed"} : j = Settled(run[w].event, s)
        PROVE  Held(job', run')
    <3>1. run[w].event \in Events
      BY <1>6, RunStepEnds
    <3> HIDE DEF TypeOK
    <3> QED BY <2>2, <3>1, EndRows, EndRunHeld
  <2> HIDE DEF TypeOK
  <2> QED BY <1>6, <2>1, <2>2, RunStepEnds
<1> HIDE DEF TypeOK
<1> QED BY <1>1, <1>2, <1>3, <1>4, <1>5, <1>6, OtherSteps

\* No interrupted job is stranded: whatever stale workers, deferrals and
\* restarts did before, a row in processing is held by a live run.
THEOREM ProcessingHeld == Spec => []ProcessingIsHeld
<1>1. Init => Held(job, run)
  BY DEF Init, Held, NoJob, Row
<1>2. TypeOK /\ Held(job, run) /\ [Next]_vars => Held(job, run)'
  BY HeldStep DEF Held
<1>3. Held(job, run) => ProcessingIsHeld
  BY DEF Held, ProcessingIsHeld, InStatus
<1> QED BY <1>1, <1>2, <1>3, TypeCorrect, PTL DEF Spec

-----------------------------------------------------------------------------
(* Each step does one of three things to the phases of the messages. *)

\* A claim changes no phase.
LEMMA KickPhases ==
  ASSUME NEW j, NEW r, JobsOK(j), RunsOK(r), Kick(j, r) \/ KickThrows(j, r), NEW e \in Events
  PROVE  Phase(job'[e]) = Phase(j[e])
<1>1. CASE job'[e] = j[e]
  BY <1>1
<1>2. CASE Claimable(j[e]) /\ job'[e] = Claimed(j[e])
  BY <1>2 DEF Phase, Claimable, Claimed, Row
<1> QED BY <1>1, <1>2, KickRows

SamePhases == \A d \in Events : Phase(job'[d]) = Phase(job[d])

OthersSamePhase(e) == \A d \in Events \ {e} : Phase(job'[d]) = Phase(job[d])

Accepted(e) ==
  /\ OthersSamePhase(e)
  /\ job[e].status \in {"none", "failed"}
  /\ job'[e].status \in {"pending", "processing"}
  /\ job'[e].attempt \in {0, 1}
  /\ \E r \in Requests : Taken(r, e)

Closed(e) ==
  /\ OthersSamePhase(e)
  /\ job[e].status = "processing"
  /\ job'[e].status \in {"completed", "failed"}

\* Admission opens the phase of its message at most.
LEMMA QueuedPhases ==
  ASSUME TypeOK, NEW r \in Requests, NEW e \in Events, Taken(r, e)
  PROVE  SamePhases \/ Accepted(e)
<1>1. JobsOK(job) /\ RunsOK(run)
  BY DEF TypeOK
<1>2. CASE job[e].status \in {"none", "failed"}
  <2>1. Kick(Enqueued(e), run) \/ KickThrows(Enqueued(e), run)
    BY <1>2, TakenClaims DEF WithJob
  <2>2. OthersSamePhase(e)
    BY <1>1, <2>1, EnqueuedRows, KickPhases DEF OthersSamePhase
  <2>3. job'[e] = Enqueued(e)[e] \/ job'[e] = Claimed(Enqueued(e)[e])
    BY <1>1, <2>1, EnqueuedRows, KickRows
  <2>4. job'[e].status \in {"pending", "processing"} /\ job'[e].attempt \in {0, 1}
    BY <2>3, EnqueuedRows DEF Claimed, Row
  <2> QED BY <1>2, <2>2, <2>4 DEF Accepted
<1>3. CASE job[e].status \notin {"none", "failed"}
  BY <1>1, <1>3, TakenClaims, KickPhases DEF WithJob, SamePhases
<1> QED BY <1>2, <1>3

\* The end of a run closes the phase of its message at most.
LEMMA RunPhases ==
  ASSUME TypeOK, NEW w \in Workers, RunStep(w)
  PROVE  SamePhases \/ Closed(run[w].event)
<1> DEFINE e == run[w].event
<1>1. JobsOK(job) /\ RunsOK([run EXCEPT ![w] = IdleRun]) /\ e \in Events
  BY FreedRunTypes, RunStepEnds DEF TypeOK
<1>2. CASE GateOpens(w)
  BY <1>2 DEF GateOpens, SamePhases
<1>3. ASSUME NEW j, EndRun(w, j),
             \/ \E p \in BOOLEAN : j = Deferred(run[w].event, p)
             \/ \E s \in {"completed", "failed"} : j = Settled(run[w].event, s)
      PROVE  SamePhases \/ Closed(e)
  <2>1. /\ JobsOK(j)
        /\ \A d \in Events \ {e} : j[d] = job[d]
        /\ job[e].status # "processing" => j[e] = job[e]
        /\ job[e].status = "processing" => j[e].status \in {"pending", "completed", "failed"}
    BY <1>1, <1>3, EndRows
  <2>2. \A d \in Events : Phase(job'[d]) = Phase(j[d])
    BY <1>1, <1>3, <2>1, KickPhases DEF EndRun
  <2>3. OthersSamePhase(e)
    BY <2>1, <2>2 DEF OthersSamePhase
  <2>4. CASE job[e].status # "processing"
    BY <2>1, <2>2, <2>4 DEF SamePhases
  <2>5. CASE job[e].status = "processing" /\ j[e].status = "pending"
    <3>1. Phase(j[e]) = Phase(job[e])
      BY <2>5 DEF Phase
    <3> QED BY <2>1, <2>2, <3>1 DEF SamePhases
  <2>6. CASE job[e].status = "processing" /\ j[e].status \in {"completed", "failed"}
    <3>1. job'[e] = j[e]
      BY <1>1, <1>3, <2>1, <2>6, KickRows DEF EndRun, Claimable
    <3> QED BY <2>3, <2>6, <3>1 DEF Closed
  <2> QED BY <2>1, <2>4, <2>5, <2>6
<1> HIDE DEF e
<1> QED BY <1>2, <1>3, RunStepEnds DEF e

\* A step changes the phase of one message at most.
LEMMA StepPhases ==
  ASSUME TypeOK, [Next]_vars
  PROVE  SamePhases \/ \E e \in Events : Accepted(e) \/ Closed(e)
<1>1. JobsOK(job) /\ RunsOK(run)
  BY DEF TypeOK
<1>2. CASE JobsUntouched
  BY <1>2 DEF JobsUntouched, SamePhases
<1>3. ASSUME NEW e \in Events, BecomesDue(e) \/ LeaseExpires(e)
      PROVE  SamePhases
  BY <1>3, TimedRows DEF SamePhases, Phase
<1>4. CASE TimerKick
  BY <1>1, <1>4, KickPhases DEF TimerKick, SamePhases
<1>5. CASE Restart
  <2>1. RunsOK([w \in Workers |-> IdleRun])
    BY QueueAssumption DEF RunsOK, IdleRun
  <2>2. \A d \in Events : Phase(Recovered[d]) = Phase(job[d])
    BY DEF Recovered, Row, Phase
  <2> QED BY <1>1, <1>5, <2>1, <2>2, RecoveredTypes, KickPhases DEF Restart, SamePhases
<1>6. ASSUME NEW w \in Workers, RunStep(w)
      PROVE  SamePhases \/ \E e \in Events : Closed(e)
  BY <1>6, RunPhases, RunStepEnds
<1> QED BY <1>2, <1>3, <1>4, <1>5, <1>6, QueuedPhases, OtherSteps

\* A message written before the process started is never turned into work, not
\* even by a redelivery of one that failed or was half handled before.
THEOREM HistoricalNeverStarts == Spec => HistoricalStartsNoJob
<1> DEFINE A == \A e \in Events :
      job[e].status \in {"none", "failed"} /\ job'[e].status \in {"pending", "processing"}
        => age[e] \in {"current", "past"}
<1>1. TypeOK /\ [Next]_vars => [A]_vars
  <2> SUFFICES ASSUME TypeOK, [Next]_vars, NEW e \in Events,
                      job[e].status \in {"none", "failed"},
                      job'[e].status \in {"pending", "processing"}
               PROVE  age[e] \in {"current", "past"}
    OBVIOUS
  <2>1. Phase(job[e]) # Phase(job'[e])
    BY DEF Phase
  <2>2. \E r \in Requests : Taken(r, e)
    BY <2>1, StepPhases DEF SamePhases, Accepted, Closed, OthersSamePhase
  <2> QED BY <2>2 DEF Taken, ReceiveQueued, ReceiveQueuedThrows, Accepts, ReachesAdmission, Processable
<1> QED BY <1>1, TypeCorrect, PTL DEF Spec, HistoricalStartsNoJob

\* A row that is not open is left as it is, unless its message is queued again.
LEMMA RestingRows ==
  ASSUME TypeOK, [Next]_vars, NEW e \in Events, job[e].status \notin {"pending", "processing"}
  PROVE  job'[e] = job[e] \/ Accepted(e)
<1>1. JobsOK(job) /\ RunsOK(run)
  BY DEF TypeOK
<1>2. ASSUME NEW j, NEW r, JobsOK(j), RunsOK(r), Kick(j, r) \/ KickThrows(j, r), j[e] = job[e]
      PROVE  job'[e] = job[e]
  BY <1>2, KickRows DEF Claimable
<1>3. CASE JobsUntouched
  BY <1>3 DEF JobsUntouched
<1>4. ASSUME NEW d \in Events, BecomesDue(d) \/ LeaseExpires(d)
      PROVE  job'[e] = job[e]
  BY <1>1, <1>4 DEF BecomesDue, LeaseExpires, JobsOK
<1>5. ASSUME NEW r \in Requests, NEW d \in Events, Taken(r, d)
      PROVE  job'[e] = job[e] \/ Accepted(e)
  <2>1. CASE job[d].status \in {"none", "failed"}
    <3>1. /\ Kick(Enqueued(d), run) \/ KickThrows(Enqueued(d), run)
          /\ JobsOK(Enqueued(d))
      BY <1>5, <2>1, TakenClaims, EnqueuedRows DEF WithJob
    <3>2. CASE d = e
      <4>1. Phase(job'[e]) = "open"
        <5>1. Phase(Enqueued(d)[d]) = "open"
          BY EnqueuedRows DEF Phase
        <5> QED BY <1>1, <3>1, <3>2, <5>1, KickPhases
      <4>2. ~SamePhases
        <5>1. Phase(job[e]) # "open"
          BY <1>1 DEF Phase, JobsOK, JobRow, JobStatus
        <5> QED BY <4>1, <5>1 DEF SamePhases
      <4> QED BY <1>5, <3>2, <4>2, QueuedPhases
    <3>3. CASE d # e
      BY <1>1, <1>2, <3>1, <3>3, EnqueuedRows
    <3> QED BY <3>2, <3>3
  <2>2. CASE job[d].status \notin {"none", "failed"}
    BY <1>1, <1>2, <1>5, <2>2, TakenClaims DEF WithJob
  <2> QED BY <2>1, <2>2
<1>6. CASE TimerKick
  BY <1>1, <1>2, <1>6 DEF TimerKick
<1>7. CASE Restart
  <2>1. RunsOK([w \in Workers |-> IdleRun])
    BY QueueAssumption DEF RunsOK, IdleRun
  <2>2. Recovered[e] = job[e] /\ JobsOK(Recovered)
    BY <1>1, RecoveredTypes DEF Recovered
  <2> QED BY <1>2, <1>7, <2>1, <2>2 DEF Restart
<1>8. ASSUME NEW w \in Workers, RunStep(w)
      PROVE  job'[e] = job[e]
  <2>1. CASE GateOpens(w)
    BY <2>1 DEF GateOpens
  <2>2. ASSUME NEW j, EndRun(w, j),
               \/ \E p \in BOOLEAN : j = Deferred(run[w].event, p)
               \/ \E s \in {"completed", "failed"} : j = Settled(run[w].event, s)
        PROVE  job'[e] = job[e]
    <3>1. RunsOK([run EXCEPT ![w] = IdleRun]) /\ run[w].event \in Events
      BY <1>1, <1>8, FreedRunTypes, RunStepEnds
    <3>2. JobsOK(j) /\ j[e] = job[e]
      BY <2>2, <3>1, EndRows
    <3> QED BY <1>2, <2>2, <3>1, <3>2 DEF EndRun
  <2> QED BY <1>8, <2>1, <2>2, RunStepEnds
<1> QED BY <1>3, <1>4, <1>5, <1>6, <1>7, <1>8, OtherSteps

\* Completed is final, and a failed job becomes runnable only through a
\* redelivery that resets its attempts, which is answered 200 or fails its event
\* so that it is delivered again.
THEOREM FinishedIsFinal == Spec => FinishedStaysFinished
<1> DEFINE A == \A e \in Events :
      /\ job[e].status = "completed" => job'[e] = job[e]
      /\ job[e].status = "failed" =>
           \/ job'[e] = job[e]
           \/ /\ job'[e].attempt <= 1
              /\ \/ e \in acked' /\ event'[e].status = "processing"
                 \/ event'[e].status = "failed"
<1>1. TypeOK /\ [Next]_vars => [A]_vars
  <2> SUFFICES ASSUME TypeOK, [Next]_vars, NEW e \in Events
               PROVE  /\ job[e].status = "completed" => job'[e] = job[e]
                      /\ job[e].status = "failed" =>
                           \/ job'[e] = job[e]
                           \/ /\ job'[e].attempt <= 1
                              /\ \/ e \in acked' /\ event'[e].status = "processing"
                                 \/ event'[e].status = "failed"
    OBVIOUS
  <2>1. Accepted(e) => /\ job[e].status # "completed"
                       /\ job'[e].attempt <= 1
                       /\ \/ e \in acked' /\ event'[e].status = "processing"
                          \/ event'[e].status = "failed"
    <3> SUFFICES ASSUME Accepted(e)
                 PROVE  \/ e \in acked' /\ event'[e].status = "processing"
                        \/ event'[e].status = "failed"
      BY DEF Accepted
    <3>1. \/ e \in acked' /\ event' = ClaimedEvent(e)
          \/ event' = EventSettled(ClaimedEvent(e), e, "failed")
      BY DEF Accepted, Taken, ReceiveQueued, ReceiveQueuedThrows
    <3>2. ClaimedEvent(e)[e].status = "processing"
      BY DEF ClaimedEvent, TypeOK
    <3>3. EventSettled(ClaimedEvent(e), e, "failed")[e].status = "failed"
      BY <3>2 DEF EventSettled, ClaimedEvent, TypeOK
    <3> QED BY <3>1, <3>2, <3>3
  <2> QED BY <2>1, RestingRows
<1> QED BY <1>1, TypeCorrect, PTL DEF Spec, FinishedStaysFinished

-----------------------------------------------------------------------------
(* The bound on the queue, and the refinement of DurableQueue. *)

\* Sets of messages can be counted.
LEMMA OpenCount ==
  ASSUME NEW S \in SUBSET Events
  PROVE  IsFiniteSet(S) /\ Cardinality(S) \in Nat
BY QueueAssumption, FS_Subset, FS_CardinalityType

\* Different rows in processing are held by different slots.
LEMMA ProcessingFewerThanWorkers ==
  ASSUME Held(job, run)
  PROVE  Cardinality(InStatus(job, {"processing"})) <= Cardinality(Workers)
<1> DEFINE P == InStatus(job, {"processing"})
           f == [e \in P |-> CHOOSE w \in Workers : run[w].event = e]
<1>1. P \in SUBSET Events
  BY DEF InStatus
<1>2. \A e \in P : f[e] \in Workers /\ run[f[e]].event = e
  BY DEF Held, InStatus
<1>3. f \in [P -> Workers]
  BY <1>2
<1>4. IsFiniteSet(P) /\ Cardinality(P) \in Nat
  BY <1>1, OpenCount
<1>5. Cardinality(Workers) \in Nat
  BY QueueAssumption, FS_CardinalityType
<1>6. ASSUME Cardinality(Workers) < Cardinality(P) PROVE FALSE
  <2>1. \E x, y \in P : x # y /\ f[x] = f[y]
    <3> HIDE DEF f, P
    <3> QED BY <1>3, <1>4, <1>6, QueueAssumption, FS_PigeonHole
  <2> QED BY <1>2, <2>1
<1> HIDE DEF P
<1>7. Cardinality(P) <= Cardinality(Workers)
  BY <1>4, <1>5, <1>6
<1> QED BY <1>7 DEF P

\* Whenever the admission check lets a message in, there is room.
LEMMA RoomLeft ==
  ASSUME Held(job, run), Pending < MaxPending
  PROVE  Cardinality(Open(job)) < MaxPending + Cardinality(Workers)
<1> DEFINE P == InStatus(job, {"processing"})
           Q == InStatus(job, {"pending"})
<1>1. P \in SUBSET Events /\ Q \in SUBSET Events /\ Open(job) = P \cup Q
  BY DEF Open, InStatus
<1>2. /\ IsFiniteSet(P) /\ Cardinality(P) \in Nat
      /\ IsFiniteSet(Q) /\ Cardinality(Q) \in Nat
      /\ Cardinality(P \cap Q) \in Nat
  BY <1>1, OpenCount
<1>3. Cardinality(P \cup Q) = Cardinality(P) + Cardinality(Q) - Cardinality(P \cap Q)
  BY <1>2, FS_Union
<1>4. Cardinality(P) <= Cardinality(Workers) /\ Cardinality(Q) < MaxPending
  BY ProcessingFewerThanWorkers DEF Pending
<1>5. Cardinality(Workers) \in Nat /\ MaxPending \in Nat
  BY QueueAssumption, FS_CardinalityType
<1> HIDE DEF P, Q
<1> QED BY <1>1, <1>2, <1>3, <1>4, <1>5

OpenPhase == {e \in Events : Phase(job[e]) = "open"}

\* Unfinished rows are the open messages.
LEMMA OpenIsOpenPhase ==
  ASSUME TypeOK
  PROVE  Open(job) = OpenPhase
BY DEF TypeOK, JobsOK, JobRow, JobStatus, Open, InStatus, OpenPhase, Phase

phases == [e \in Events |-> Phase(job[e])]

\* Who is accepted finds room: pending rows below the limit, others in slots.
LEMMA RoomForAccepted ==
  ASSUME TypeOK, Held(job, run), NEW e \in Events, Accepted(e)
  PROVE  Cardinality(OpenPhase) < MaxPending + Cardinality(Workers)
<1>1. Pending \in Nat /\ MaxPending \in Nat
  BY OpenCount, QueueAssumption DEF Pending, InStatus
<1>2. Pending < MaxPending
  BY <1>1 DEF Accepted, Taken, ReceiveQueued, ReceiveQueuedThrows, Accepts, QueueRejects
<1> QED BY <1>2, RoomLeft, OpenIsOpenPhase

\* The instance counts as the module does.
LEMMA SameCardinality == \A S : Queue!Cardinality(S) = Cardinality(S)
BY DEF Queue!Cardinality, Cardinality

\* The step of the abstract queue that a step of the table is.
LEMMA StepRefines ==
  ASSUME TypeOK, Held(job, run), [Next]_vars
  PROVE  [Queue!Next]_phases
<1>1. CASE SamePhases
  BY <1>1 DEF SamePhases, phases
<1>2. ASSUME NEW e \in Events, Accepted(e)
      PROVE  Queue!Accept(e)
  <2>1. Phase(job[e]) \in {"absent", "buried"} /\ Phase(job'[e]) = "open"
    BY <1>2 DEF Accepted, Phase
  <2>2. phases' = [phases EXCEPT ![e] = "open"]
    BY <1>2, <2>1 DEF Accepted, OthersSamePhase, phases
  <2>3. Queue!OpenMessages = OpenPhase
    BY DEF Queue!OpenMessages, OpenPhase
  <2>4. Cardinality(Queue!OpenMessages) < MaxPending + Cardinality(Workers)
    BY <1>2, <2>3, RoomForAccepted
  <2>5. phases[e] \in {"absent", "buried"}
    BY <2>1 DEF phases
  <2>6. [d \in Events |-> Phase(job[d])][e] \in {"absent", "buried"}
    BY <2>5 DEF phases
  <2>7. [d \in Events |-> Phase(job'[d])]
          = [[d \in Events |-> Phase(job[d])] EXCEPT ![e] = "open"]
    BY <2>2 DEF phases
  <2> HIDE DEF phases
  <2> QED BY <2>4, <2>6, <2>7, SameCardinality DEF Queue!Accept
<1>3. ASSUME NEW e \in Events, Closed(e)
      PROVE  Queue!Finish(e) \/ Queue!Bury(e)
  <2>1. Phase(job[e]) = "open" /\ Phase(job'[e]) \in {"finished", "buried"}
    BY <1>3 DEF Closed, Phase
  <2>2. \/ phases' = [phases EXCEPT ![e] = "finished"]
        \/ phases' = [phases EXCEPT ![e] = "buried"]
    BY <1>3, <2>1 DEF Closed, OthersSamePhase, phases
  <2> QED BY <2>1, <2>2 DEF Queue!Finish, Queue!Bury, phases
<1> QED BY <1>1, <1>2, <1>3, StepPhases DEF Queue!Next

\* Whatever leases, stale workers and restarts do, the table is the durable
\* bounded queue of DurableQueue: room before acceptance, nothing finished
\* reopened.
THEOREM QueueRefines == Spec => ImplementsDurableQueue
<1>1. Init => Queue!Init
  BY DEF Init, Queue!Init, NoJob, Row, Phase
<1>2. TypeOK /\ Held(job, run) /\ [Next]_vars => [Queue!Next]_phases
  BY StepRefines
<1>3. Init => Held(job, run)
  BY DEF Init, Held, NoJob, Row
<1>4. TypeOK /\ Held(job, run) /\ [Next]_vars => Held(job, run)'
  BY HeldStep DEF Held
<1> QED BY <1>1, <1>2, <1>3, <1>4, TypeCorrect, PTL
        DEF Spec, ImplementsDurableQueue, Queue!Spec, phases

\* No step takes the table past limit and slots.
LEMMA BoundedStep ==
  ASSUME TypeOK, TypeOK', Held(job, run), QueueBounded, [Next]_vars
  PROVE  QueueBounded'
<1>1. /\ Cardinality(Workers) \in Nat /\ MaxPending \in Nat
      /\ IsFiniteSet(OpenPhase) /\ Cardinality(OpenPhase) \in Nat
      /\ IsFiniteSet(OpenPhase') /\ Cardinality(OpenPhase') \in Nat
  BY OpenCount, FS_CardinalityType, QueueAssumption DEF OpenPhase
<1>2. Open(job) = OpenPhase /\ Open(job') = OpenPhase'
  <2>1. Open(job') = OpenPhase'
    BY DEF TypeOK, JobsOK, JobRow, JobStatus, Open, InStatus, OpenPhase, Phase
  <2> QED BY <2>1, OpenIsOpenPhase
<1>3. CASE SamePhases
  <2>1. OpenPhase' = OpenPhase
    BY <1>3 DEF SamePhases, OpenPhase
  <2> QED BY <1>2, <2>1 DEF QueueBounded
<1>4. ASSUME NEW e \in Events, Accepted(e)
      PROVE  QueueBounded'
  <2>1. OpenPhase' \subseteq OpenPhase \cup {e}
    BY <1>4 DEF Accepted, OthersSamePhase, OpenPhase
  <2>2. /\ IsFiniteSet(OpenPhase \cup {e})
        /\ Cardinality(OpenPhase \cup {e}) <= Cardinality(OpenPhase) + 1
    <3> HIDE DEF OpenPhase
    <3>1. /\ IsFiniteSet(OpenPhase \cup {e})
          /\ Cardinality(OpenPhase \cup {e}) =
               IF e \in OpenPhase THEN Cardinality(OpenPhase) ELSE Cardinality(OpenPhase) + 1
      BY <1>1, FS_AddElement
    <3> QED BY <1>1, <3>1
  <2>3. Cardinality(OpenPhase') <= Cardinality(OpenPhase \cup {e})
    BY <2>1, <2>2, FS_Subset
  <2>4. Cardinality(OpenPhase \cup {e}) \in Nat
    BY <2>2, FS_CardinalityType
  <2>5. Cardinality(OpenPhase) < MaxPending + Cardinality(Workers)
    BY <1>4, RoomForAccepted
  <2>6. Cardinality(OpenPhase') <= MaxPending + Cardinality(Workers)
    BY <1>1, <2>2, <2>3, <2>4, <2>5
  <2> QED BY <1>2, <2>6 DEF QueueBounded
<1>5. ASSUME NEW e \in Events, Closed(e)
      PROVE  QueueBounded'
  <2>1. Phase(job[e]) = "open"
    BY <1>5 DEF Closed, Phase
  <2>2. OpenPhase' \subseteq OpenPhase
    BY <1>5, <2>1 DEF Closed, OthersSamePhase, OpenPhase
  <2>3. Cardinality(OpenPhase') <= Cardinality(OpenPhase)
    BY <1>1, <2>2, FS_Subset
  <2> QED BY <1>1, <1>2, <2>3 DEF QueueBounded
<1> QED BY <1>3, <1>4, <1>5, StepPhases

\* Deferrals, retries and restarts put claimed jobs back past the admission
\* check, yet unfinished jobs never exceed the limit by more than the slots.
THEOREM BoundedQueue == Spec => []QueueBounded
<1>1. Init => QueueBounded
  <2> SUFFICES ASSUME Init PROVE QueueBounded
    OBVIOUS
  <2>1. Open(job) = {}
    BY DEF Init, Open, InStatus, NoJob, Row
  <2>2. Cardinality(Workers) \in Nat /\ MaxPending \in Nat /\ Cardinality({}) = 0
    BY QueueAssumption, FS_CardinalityType, FS_EmptySet
  <2> QED BY <2>1, <2>2 DEF QueueBounded
<1>2. Init => Held(job, run)
  BY DEF Init, Held, NoJob, Row
<1>3. TypeOK /\ Held(job, run) /\ [Next]_vars => Held(job, run)'
  BY HeldStep DEF Held
<1>4. TypeOK /\ TypeOK' /\ Held(job, run) /\ QueueBounded /\ [Next]_vars => QueueBounded'
  BY BoundedStep
<1> QED BY <1>1, <1>2, <1>3, <1>4, TypeCorrect, PTL DEF Spec

-----------------------------------------------------------------------------
(* While no lease runs out, a run owns its row. *)

Owned(j, r) ==
  /\ \A e \in Events : j[e].status = "processing" => j[e].leased
  /\ \A w \in Workers : r[w].pc # "idle" => j[r[w].event].status = "processing"
  /\ \A v, w \in Workers : r[v].pc # "idle" /\ r[v].event = r[w].event => v = w

\* A claim takes rows nobody has, each for one slot.
LEMMA KickOwned ==
  ASSUME NEW j, NEW r, JobsOK(j), RunsOK(r), Owned(j, r), Kick(j, r) \/ KickThrows(j, r)
  PROVE  Owned(job', run')
<1>1. PICK pick \in SomePicks(j, r) :
        /\ job' = [e \in Events |-> IF e \in Picked(pick) THEN Claimed(j[e]) ELSE j[e]]
        /\ run' = [w \in Workers |->
             IF pick[w] # None
             THEN [event |-> pick[w], attempt |-> j[pick[w]].attempt + 1, pc |-> "gate"]
             ELSE r[w]]
  BY DEF Kick, KickThrows, Claims, Picks
<1>2. \A e \in Events : j[e].status = "processing" => ~Claimable(j[e])
  BY DEF Owned, Claimable
<1>3. \A w \in Workers : pick[w] # None =>
        /\ pick[w] \in Events /\ pick[w] \in Picked(pick)
        /\ j[pick[w]].status # "processing"
        /\ run'[w].event = pick[w] /\ run'[w].pc = "gate"
  BY <1>1, <1>2 DEF SomePicks, Picked
<1>4. \A w \in Workers : pick[w] = None => run'[w] = r[w]
  BY <1>1
<1>5. \A e \in Events : e \in Picked(pick) => job'[e].status = "processing" /\ job'[e].leased
  BY <1>1 DEF Claimed, Row
<1>6. \A e \in Events : e \notin Picked(pick) => job'[e] = j[e]
  BY <1>1
<1>7. \A e \in Events : job'[e].status = "processing" => job'[e].leased
  BY <1>5, <1>6 DEF Owned
<1>8. ASSUME NEW w \in Workers, run'[w].pc # "idle"
      PROVE  job'[run'[w].event].status = "processing"
  <2>1. CASE pick[w] # None
    BY <1>3, <1>5, <2>1
  <2>2. CASE pick[w] = None
    <3>1. r[w].event \in Events /\ j[r[w].event].status = "processing"
      BY <1>4, <1>8, <2>2 DEF Owned, RunsOK
    <3> QED BY <1>4, <1>5, <1>6, <2>2, <3>1
  <2> QED BY <2>1, <2>2
<1>9. ASSUME NEW v \in Workers, NEW w \in Workers,
             run'[v].pc # "idle", run'[v].event = run'[w].event
      PROVE  v = w
  <2>1. CASE pick[v] # None /\ pick[w] # None
    BY <1>3, <1>9, <2>1 DEF SomePicks
  <2>2. CASE pick[v] = None /\ pick[w] = None
    BY <1>4, <1>9, <2>2 DEF Owned
  <2>3. CASE pick[v] = None /\ pick[w] # None
    <3>1. j[r[v].event].status = "processing" /\ r[v].event = pick[w]
      BY <1>3, <1>4, <1>9, <2>3 DEF Owned
    <3> QED BY <1>3, <2>3, <3>1
  <2>4. CASE pick[v] # None /\ pick[w] = None
    <3>1. r[w].event = pick[v] /\ pick[v] # None
      BY <1>3, <1>4, <1>9, <2>4
    <3>2. r[w].pc # "idle"
      BY <3>1, <1>3, <2>4 DEF RunsOK
    <3> QED BY <1>3, <2>4, <3>1, <3>2 DEF Owned
  <2> QED BY <2>1, <2>2, <2>3, <2>4
<1> QED BY <1>7, <1>8, <1>9 DEF Owned

\* Without expired leases a run keeps its row to itself.
LEMMA OwnedStep ==
  ASSUME "lease" \notin FaultKinds, TypeOK, Owned(job, run), [Next]_vars
  PROVE  Owned(job', run')
<1>0. JobsOK(job) /\ RunsOK(run)
  BY DEF TypeOK
<1>1. CASE JobsUntouched
  BY <1>1 DEF JobsUntouched, Owned
<1>2. ASSUME NEW e \in Events, BecomesDue(e) \/ LeaseExpires(e)
      PROVE  Owned(job', run')
  <2>1. BecomesDue(e)
    BY <1>2 DEF LeaseExpires, Fault
  <2>2. /\ run' = run
        /\ \A d \in Events : /\ job'[d].status = job[d].status
                             /\ job[d].status = "processing" => job'[d] = job[d]
    BY <1>0, <2>1 DEF BecomesDue, JobsOK, Row
  <2>3. \A w \in Workers : run[w].pc # "idle" => run[w].event \in Events
    BY <1>0 DEF RunsOK
  <2>4. ASSUME NEW d \in Events, job'[d].status = "processing" PROVE job'[d].leased
    <3>1. job[d].status = "processing" /\ job'[d] = job[d]
      BY <2>2, <2>4
    <3>2. job[d].leased
      BY <3>1 DEF Owned
    <3> QED BY <3>1, <3>2
  <2>5. ASSUME NEW w \in Workers, run[w].pc # "idle"
        PROVE  job'[run[w].event].status = "processing"
    <3>1. run[w].event \in Events /\ job[run[w].event].status = "processing"
      BY <2>3, <2>5 DEF Owned
    <3> QED BY <2>2, <3>1
  <2> QED BY <2>2, <2>4, <2>5 DEF Owned
<1>3. ASSUME NEW r \in Requests, NEW e \in Events, Taken(r, e)
      PROVE  Owned(job', run')
  <2>1. CASE job[e].status \in {"none", "failed"}
    <3>1. \A d \in Events : job[d].status = "processing" => Enqueued(e)[d] = job[d]
      BY <2>1, EnqueuedRows
    <3>2. \A d \in Events : Enqueued(e)[d].status = "processing" => Enqueued(e)[d] = job[d]
      BY EnqueuedRows
    <3>3. \A w \in Workers : run[w].pc # "idle" => run[w].event \in Events
      BY <1>0 DEF RunsOK
    <3>4. Owned(Enqueued(e), run)
      BY <3>1, <3>2, <3>3 DEF Owned
    <3> QED BY <1>0, <1>3, <2>1, <3>4, TakenClaims, EnqueuedRows, KickOwned DEF WithJob
  <2>2. CASE job[e].status \notin {"none", "failed"}
    BY <1>0, <1>3, <2>2, TakenClaims, KickOwned DEF WithJob
  <2> QED BY <2>1, <2>2
<1>4. CASE TimerKick
  BY <1>0, <1>4, KickOwned DEF TimerKick
<1>5. CASE Restart
  <2>1. Owned(Recovered, [w \in Workers |-> IdleRun])
    BY DEF Owned, Recovered, Row, IdleRun
  <2>2. RunsOK([w \in Workers |-> IdleRun])
    BY QueueAssumption DEF RunsOK, IdleRun
  <2> QED BY <1>0, <1>5, <2>1, <2>2, RecoveredTypes, KickOwned DEF Restart
<1>6. ASSUME NEW w \in Workers, RunStep(w)
      PROVE  Owned(job', run')
  <2>1. CASE GateOpens(w)
    <3>1. \A v \in Workers : /\ run'[v].event = run[v].event
                             /\ run'[v].pc # "idle" => run[v].pc # "idle"
      BY <1>0, <2>1 DEF GateOpens, RunsOK
    <3>2. job' = job
      BY <2>1 DEF GateOpens
    <3>3. \A v \in Workers : run'[v].pc # "idle" => job[run'[v].event].status = "processing"
      BY <3>1 DEF Owned
    <3>4. \A u, v \in Workers : run'[u].pc # "idle" /\ run'[u].event = run'[v].event => u = v
      BY <3>1 DEF Owned
    <3> QED BY <3>2, <3>3, <3>4 DEF Owned
  <2>2. ASSUME NEW j, EndRun(w, j),
               \/ \E p \in BOOLEAN : j = Deferred(run[w].event, p)
               \/ \E s \in {"completed", "failed"} : j = Settled(run[w].event, s)
        PROVE  Owned(job', run')
    <3> DEFINE r == [run EXCEPT ![w] = IdleRun]
               e == run[w].event
    <3>1. e \in Events /\ RunsOK(r)
      BY <1>0, <1>6, FreedRunTypes, RunStepEnds
    <3>2. /\ JobsOK(j) /\ j[e].status # "processing"
          /\ \A d \in Events \ {e} : j[d] = job[d]
      BY <2>2, <3>1, EndRows
    <3>3. run[w].pc # "idle"
      BY <1>0, <3>1, QueueAssumption DEF RunsOK
    <3>4. ASSUME NEW v \in Workers, r[v].pc # "idle"
          PROVE  /\ v # w /\ r[v] = run[v]
                 /\ run[v].event \in Events /\ run[v].event # e
      BY <1>0, <3>3, <3>4 DEF RunsOK, IdleRun, Owned
    <3>5. \A d \in Events : j[d].status = "processing" => j[d].leased
      BY <3>2 DEF Owned
    <3>6. \A v \in Workers : r[v].pc # "idle" => j[r[v].event].status = "processing"
      BY <3>2, <3>4 DEF Owned
    <3>7. ASSUME NEW u \in Workers, NEW v \in Workers,
                 r[u].pc # "idle", r[u].event = r[v].event
          PROVE  u = v
      <4>1. u # w /\ r[u] = run[u] /\ run[u].event \in Events
        BY <3>4, <3>7
      <4>2. v # w
        BY <1>0, <3>7, <4>1, QueueAssumption DEF RunsOK, IdleRun
      <4>3. r[v] = run[v]
        BY <1>0, <4>2 DEF RunsOK
      <4> QED BY <3>7, <4>1, <4>3 DEF Owned
    <3>8. Owned(j, r)
      <4> HIDE DEF r
      <4> QED BY <3>5, <3>6, <3>7 DEF Owned
    <3> QED BY <2>2, <3>1, <3>2, <3>8, KickOwned DEF EndRun
  <2> QED BY <1>6, <2>1, <2>2, RunStepEnds
<1> QED BY <1>1, <1>2, <1>3, <1>4, <1>5, <1>6, OtherSteps

\* As long as no lease runs out under a live run, one run at a time works on a
\* message, whatever restarts, deferrals, outages and redeliveries happen.
THEOREM OneRunWhileLeased ==
  ASSUME "lease" \notin FaultKinds
  PROVE  Spec => []OneRunPerJob
<1>1. Init => Owned(job, run)
  BY DEF Init, Owned, NoJob, Row, IdleRun
<1>2. TypeOK /\ Owned(job, run) /\ [Next]_vars => Owned(job, run)'
  BY OwnedStep DEF Owned
<1>3. Owned(job, run) => OneRunPerJob
  BY DEF Owned, OneRunPerJob
<1> QED BY <1>1, <1>2, <1>3, TypeCorrect, PTL DEF Spec
=============================================================================
