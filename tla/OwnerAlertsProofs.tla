------------------------- MODULE OwnerAlertsProofs -------------------------
(***************************************************************************)
(* Proofs about SessionMonitor and OwnerAlerts for any handoffs, callers,  *)
(* windows, retry limits and outages.                                      *)
(***************************************************************************)
EXTENDS OwnerAlerts, FiniteSetTheorems, WellFoundedInduction, TLAPS

-----------------------------------------------------------------------------
(* The session monitor. *)

\* Beside the types: one request at a time is under way, what is cached was
\* the last reading observed, and no reading is older than that.
SessionInv ==
  /\ SessionTypeOK
  /\ \A f, g \in Checks : fetch[f] # Nobody /\ fetch[g] # Nobody => f = g
  /\ cache # Nobody => cache = last /\ (Works(cache) \/ outage # 0)
  /\ last <= epoch
  /\ \A f \in Checks : fetch[f] \in Readings => last <= fetch[f] /\ fetch[f] <= epoch

\* A process that starts knows nothing.
LEMMA SessionInvInit == SessionInit => SessionInv
<1> SUFFICES ASSUME SessionInit PROVE SessionInv
  OBVIOUS
<1>1. 0 \in Readings /\ Nobody \notin Readings
  BY SessionAssumption DEF Readings
<1>2. SessionTypeOK
  <2>1. longLogged \in BOOLEAN
    BY Zenon DEF SessionInit
  <2>2. 0 \in 0 .. MaxOutages /\ 0 \in 0 .. 0 /\ 0 \in 0 .. LongOutage + 1
    BY SessionAssumption
  <2> QED
    BY <1>1, <2>1, <2>2, SMT DEF SessionInit, SessionTypeOK, Readings
<1> QED
  BY <1>1, <1>2 DEF SessionInit, SessionInv

\* Observing a reading keeps the bookkeeping typed, if an outage may begin.
LEMMA ObserveTyped ==
  ASSUME SessionTypeOK, NEW r \in Readings, Observe(r),
         Works(r) \/ outage # 0 \/ outages < MaxOutages
  PROVE  /\ last' = r
         /\ outages' \in 0 .. MaxOutages
         /\ outage' \in 0 .. outages'
         /\ downFor' \in 0 .. LongOutage + 1
         /\ longLogged' \in BOOLEAN
         /\ Works(r) \/ outage' # 0
<1>1. longLogged' \in BOOLEAN
  <2>1. CASE Works(r)
    BY <2>1 DEF Observe
  <2>2. CASE ~Works(r)
    BY <2>2, Zenon DEF Observe
  <2> QED BY <2>1, <2>2
<1>2. CASE Works(r)
  BY <1>1, <1>2, SessionAssumption DEF Observe, SessionTypeOK
<1>3. CASE ~Works(r)
  BY <1>1, <1>3, SessionAssumption DEF Observe, SessionTypeOK
<1> QED BY <1>2, <1>3

\* A restart forgets everything the monitor knew.
LEMMA SessionInvCrash ==
  ASSUME SessionInv, MonitorCrash
  PROVE  SessionInv'
<1>1. longLogged' \in BOOLEAN
  BY Zenon DEF MonitorCrash
<1>2. epoch \in Readings /\ outages \in 0 .. MaxOutages /\ 0 \in 0 .. outages
      /\ 0 \in Readings /\ 0 \in 0 .. LongOutage + 1 /\ Nobody \notin Readings
  BY SessionAssumption DEF SessionInv, SessionTypeOK, Readings
<1>3. SessionTypeOK'
  BY <1>1, <1>2 DEF SessionTypeOK, MonitorCrash, Readings
<1> QED
  BY <1>2, <1>3 DEF SessionInv, MonitorCrash, Readings

\* Every other step of the monitor and its surroundings.
SessionStep ==
  \/ SessionDrops \/ SessionReturns \/ Invalidate \/ MonitorTick
  \/ \E c \in Checks : CheckCached(c) \/ CheckAsks(c) \/ Answers(c) \/ FetchEnds(c)
  \/ UNCHANGED sessionVars

\* They keep the invariant, and no older reading follows a newer one.
LEMMA SessionInvStep ==
  ASSUME SessionInv, SessionStep
  PROVE  SessionInv' /\ last' >= last
<1> USE SessionAssumption
<1>1. CASE SessionDrops
  BY <1>1 DEF SessionInv, SessionTypeOK, SessionDrops, Works, Readings, adapterVars, monitorVars
<1>2. CASE SessionReturns
  <2>1. epoch + 1 \in 0 .. 2 * MaxDrops
    BY <1>2 DEF SessionInv, SessionTypeOK, SessionReturns, Works
  <2> QED
    BY <1>2, <2>1 DEF SessionInv, SessionTypeOK, SessionReturns, Works, Readings, adapterVars,
       monitorVars
<1>3. CASE Invalidate
  BY <1>3 DEF SessionInv, SessionTypeOK, Invalidate, Works, Readings, monitorVars
<1>4. CASE MonitorTick
  BY <1>4 DEF SessionInv, SessionTypeOK, MonitorTick, Works, Readings
<1>6. ASSUME NEW c \in Checks, CheckCached(c) PROVE SessionInv' /\ last' >= last
  <2>1. cache \in Readings /\ Observe(cache) /\ (Works(cache) \/ outage # 0)
    BY <1>6 DEF SessionInv, SessionTypeOK, CheckCached
  <2>2. SessionTypeOK /\ last' = cache
    BY <2>1, ObserveTyped DEF SessionInv
  <2>3. cache = last
    BY <1>6 DEF SessionInv, CheckCached
  <2>4. SessionTypeOK'
    BY <1>6, <2>1, ObserveTyped, <2>2 DEF SessionTypeOK, CheckCached, adapterVars, Readings
  <2>5. cache' # Nobody => cache' = last' /\ (Works(cache') \/ outage' # 0)
    BY <1>6, <2>1, <2>2, ObserveTyped DEF CheckCached, adapterVars
  <2> QED
    BY <1>6, <2>2, <2>3, <2>4, <2>5 DEF SessionInv, SessionTypeOK, CheckCached, adapterVars, Readings
<1>7. ASSUME NEW c \in Checks, CheckAsks(c) PROVE SessionInv' /\ last' >= last
  <2>1. CASE Joins(c) = {}
    BY <1>7, <2>1 DEF SessionInv, SessionTypeOK, CheckAsks, Joins, Readings, Works, monitorVars
  <2>2. CASE Joins(c) # {}
    BY <1>7, <2>2 DEF SessionInv, SessionTypeOK, CheckAsks, Joins, Readings, Works, monitorVars
  <2> QED BY <2>1, <2>2
<1>8. ASSUME NEW c \in Checks, Answers(c) PROVE SessionInv' /\ last' >= last
  BY <1>8 DEF SessionInv, SessionTypeOK, Answers, Readings, Works, monitorVars
<1>9. ASSUME NEW c \in Checks, FetchEnds(c) PROVE SessionInv' /\ last' >= last
  <2>1. SessionTypeOK /\ fetch[c] \in Readings /\ Observe(fetch[c])
        /\ (Works(fetch[c]) \/ outage # 0 \/ outages < MaxOutages)
    BY <1>9 DEF SessionInv, FetchEnds
  <2>2. /\ last' = fetch[c]
        /\ outages' \in 0 .. MaxOutages
        /\ outage' \in 0 .. outages'
        /\ downFor' \in 0 .. LongOutage + 1
        /\ longLogged' \in BOOLEAN
        /\ Works(fetch[c]) \/ outage' # 0
    BY <2>1, ObserveTyped
  <2>3. last <= fetch[c] /\ fetch[c] <= epoch
    BY <2>1 DEF SessionInv
  <2>4. \A f \in Checks : fetch'[f] = Nobody
    BY <1>9, <2>1 DEF SessionInv, SessionTypeOK, FetchEnds, Readings
  <2>5. SessionTypeOK'
    BY <1>9, <2>1, <2>2 DEF SessionTypeOK, FetchEnds, Readings
  <2>6. cache' = last' /\ (Works(cache') \/ outage' # 0)
    BY <1>9, <2>2 DEF FetchEnds
  <2> QED
    BY <1>9, <2>1, <2>2, <2>3, <2>4, <2>5, <2>6 DEF SessionInv, FetchEnds, SessionTypeOK, Readings
<1>10. CASE UNCHANGED sessionVars
  BY <1>10 DEF SessionInv, SessionTypeOK, sessionVars, adapterVars, monitorVars, Works, Readings
<1> QED
  BY <1>1, <1>2, <1>3, <1>4, <1>6, <1>7, <1>8, <1>9, <1>10 DEF SessionStep, SessionDrops,
     SessionReturns, Invalidate, MonitorTick, monitorVars, SessionInv, SessionTypeOK, Readings, sessionVars
-----------------------------------------------------------------------------
(* The alert table. *)

\* The pending alert an event joins, or the row it takes, is one of those.
LEMMA SmallestOf ==
  ASSUME NEW S \in SUBSET Ids, S # {}
  PROVE  Min(S) \in S
<1>1. S \subseteq Nat
  BY AlertAssumption DEF Ids
<1> DEFINE R == OpToRel(<, Nat)
<1>2. IsWellFoundedOn(R, Nat)
  BY NatLessThanWellFounded
<1>3. \A x, y \in Nat : y < x => <<y, x>> \in R
  BY DEF OpToRel
<1> HIDE DEF R
<1>4. PICK x \in S : \A y \in S : ~ (<<y, x>> \in R)
  BY <1>1, <1>2, WFMin
<1>5. ASSUME NEW y \in S PROVE x <= y
  <2>1. x \in Nat /\ y \in Nat
    BY <1>1
  <2>2. ~(y < x)
    BY <2>1, <1>3, <1>4, Zenon
  <2> QED BY <2>1, <2>2
<1> QED BY <1>5 DEF Min

\* Rows and events are finitely many.
LEMMA Finite ==
  /\ IsFiniteSet(Ids) /\ IsFiniteSet(Events)
  /\ Cardinality(Events) \in Nat /\ 0 \notin Ids
<1>1. IsFiniteSet(Ids) /\ 0 \notin Ids
  BY AlertAssumption, FS_Interval DEF Ids
<1>2. IsFiniteSet(1 .. MaxOutages)
  BY SessionAssumption, FS_Interval
<1>3. IsFiniteSet(Events)
  BY <1>2, AlertAssumption, FS_Union DEF Events
<1> QED BY <1>1, <1>3, FS_CardinalityType

On(a) == {e \in Events : alertOf[e] = a}

\* A row in use tells of an event, and the row of an event is in use.
TablesInv ==
  /\ alerts \in [Ids -> AlertRecord]
  /\ alertOf \in [Events -> Ids \cup {0}]
  /\ \A a \in Ids : alerts[a].status # "absent" => alerts[a].latest \in Reasons
  /\ \A e \in Events : alertOf[e] # 0 => alerts[alertOf[e]].status # "absent"
  /\ OccurrencesCounted

\* The text of an alert in use is a text.
LEMMA FormatTyped ==
  ASSUME TablesInv, NEW a \in Ids, alerts[a].status # "absent"
  PROVE  Format(a) \in Texts
<1>1. alerts[a] \in AlertRecord /\ alerts[a].latest \in Reasons
  BY DEF TablesInv
<1>2. Events # {}
  BY <1>1 DEF Reasons
<1>3. 1 \in 0 .. Cardinality(Events)
  BY <1>2, Finite, FS_EmptySet
<1> QED
  BY <1>1, <1>3 DEF Format, Text, Texts, AlertRecord, Kinds

\* Times passing and marking as sent leave events, counts and reasons alone.
LEMMA TablesKept ==
  ASSUME TablesInv, alertOf' = alertOf, alerts' \in [Ids -> AlertRecord],
         \A a \in Ids : /\ alerts'[a].count = alerts[a].count
                        /\ alerts'[a].latest = alerts[a].latest
                        /\ alerts'[a].status = "absent" <=> alerts[a].status = "absent"
  PROVE  TablesInv'
<1>1. \A a \in Ids : alerts'[a].status # "absent" => alerts'[a].latest \in Reasons
  BY DEF TablesInv
<1>2. \A e \in Events : alertOf'[e] # 0 => alerts'[alertOf'[e]].status # "absent"
  BY DEF TablesInv
<1>3. OccurrencesCounted'
  BY DEF TablesInv, OccurrencesCounted
<1> QED BY <1>1, <1>2, <1>3 DEF TablesInv

\* Recording an event disturbs its own alert only, which was not sent.
LEMMA QueuedTables ==
  ASSUME TablesInv, NEW e \in Events, NEW a \in Ids, Room(e), Queued(e, a)
  PROVE  /\ TablesInv'
         /\ alerts'[a].status \in {"pending", "sent"}
         /\ \A x \in Ids : \/ alerts'[x] = alerts[x]
                           \/ alerts[x].status # "sent" /\ alerts'[x].status = "pending"
<1>1. CASE alertOf[e] # 0
  <2>1. UNCHANGED <<alerts, alertOf>> /\ a = alertOf[e]
    BY <1>1 DEF Queued
  <2>2. alerts[a] \in AlertRecord /\ alerts[a].status # "absent"
    BY <1>1, <2>1 DEF TablesInv
  <2>3. alerts[a].status \in {"pending", "sent"}
    BY <2>2 DEF AlertRecord
  <2>4. TablesInv'
    <3>1. alerts' = alerts /\ alertOf' = alertOf
      BY <2>1
    <3> QED BY <3>1, TablesKept DEF TablesInv
  <2> QED BY <2>1, <2>3, <2>4
<1>2. CASE alertOf[e] = 0
  <2> DEFINE new == Alert(KindOf(e), "pending", alerts[a].count + 1, ReasonOf(e), 0)
  <2>1. alerts' = [alerts EXCEPT ![a] = new] /\ alertOf' = [alertOf EXCEPT ![e] = a]
    BY <1>2 DEF Queued
  <2>2. alerts[a].status # "sent"
    <3>1. CASE PendingOf(KindOf(e)) # {}
      <4>1. Min(PendingOf(KindOf(e))) \in PendingOf(KindOf(e))
        BY <3>1, SmallestOf DEF PendingOf
      <4> QED BY <1>2, <3>1, <4>1 DEF Queued, PendingOf
    <3>2. CASE PendingOf(KindOf(e)) = {}
      <4>1. Absent # {}
        BY <1>2, <3>2 DEF Room
      <4>2. Min(Absent) \in Absent
        BY <4>1, SmallestOf DEF Absent
      <4> QED BY <1>2, <3>2, <4>2 DEF Queued, Absent
    <3> QED BY <3>1, <3>2
  <2>3. alerts[a].count = Cardinality(On(a))
    BY DEF TablesInv, OccurrencesCounted, On
  <2>4. e \notin On(a) /\ IsFiniteSet(On(a)) /\ On(a) \subseteq Events
    BY <1>2, Finite, FS_Subset DEF On
  <2>5. Cardinality(On(a) \cup {e}) = Cardinality(On(a)) + 1
    BY <2>4, FS_AddElement
  <2>6. Cardinality(On(a) \cup {e}) \in 0 .. Cardinality(Events)
    <3>1. On(a) \cup {e} \in SUBSET Events
      BY <2>4
    <3>2. IsFiniteSet(On(a) \cup {e})
      BY <3>1, Finite, FS_Subset
    <3> QED BY <3>1, <3>2, Finite, FS_Subset, FS_CardinalityType
  <2>7. alertOf \in [Events -> Ids \cup {0}] /\ alerts \in [Ids -> AlertRecord]
    BY DEF TablesInv
  <2>8. On(a)' = On(a) \cup {e} /\ \A x \in Ids \ {a} : On(x)' = On(x)
    BY <1>2, <2>1, <2>7, Finite DEF On, Events
  <2>9. new.count = Cardinality(On(a) \cup {e}) /\ new.latest \in Reasons /\ new.kind \in Kinds
        /\ new.status = "pending" /\ new.age = 0
    <3>1. new.latest = ReasonOf(e) /\ new.kind = KindOf(e)
      BY DEF Alert
    <3>2. ReasonOf(e) \in Reasons
      BY DEF Reasons
    <3>3. KindOf(e) \in Kinds
      BY DEF Kinds, KindOf
    <3>4. new.status = "pending" /\ new.age = 0 /\ new.count = alerts[a].count + 1
      BY DEF Alert
    <3> HIDE DEF new
    <3> QED BY <2>3, <2>5, <3>1, <3>2, <3>3, <3>4
  <2>10. new \in AlertRecord
    BY <2>6, <2>9, AlertAssumption DEF AlertRecord, Alert, Horizon
  <2> HIDE DEF new
  <2>11. alerts' \in [Ids -> AlertRecord] /\ alertOf' \in [Events -> Ids \cup {0}]
    BY <2>1, <2>7, <2>10
  <2>12. \A x \in Ids : alerts'[x] = IF x = a THEN new ELSE alerts[x]
    BY <2>1, <2>7
  <2>13. \A x \in Ids : alerts'[x].count = Cardinality(On(x)')
    BY <2>3, <2>5, <2>8, <2>9, <2>12 DEF TablesInv, OccurrencesCounted, On
  <2>14. OccurrencesCounted'
    BY <2>13 DEF OccurrencesCounted, On
  <2>15. \A x \in Ids : alerts'[x].status # "absent" => alerts'[x].latest \in Reasons
    BY <2>9, <2>12 DEF TablesInv
  <2>16. \A d \in Events : alertOf'[d] # 0 => alerts'[alertOf'[d]].status # "absent"
    BY <2>1, <2>7, <2>9, <2>12 DEF TablesInv
  <2>17. TablesInv'
    BY <2>11, <2>14, <2>15, <2>16 DEF TablesInv
  <2> QED
    BY <2>2, <2>9, <2>12, <2>17
<1> QED BY <1>1, <1>2
-----------------------------------------------------------------------------
(* The inductive invariant. *)

\* What the database and the gateway know of texts and retries.
DataTyped ==
  /\ ledger \in [Texts -> {"none", "pending", "sent", "lapsed", "failed", "uncertain"}]
  /\ told \subseteq Texts
  /\ failures \in [Ids -> 0 .. MaxRetries]
  /\ nextIn \in [Ids -> Int]

\* The lock, its holder and the clocks.
LockTyped ==
  /\ queue \in Seq(Calls)
  /\ holder \in Calls \cup {Nobody}
  /\ todo \subseteq Ids
  /\ sending \in Ids \cup {0}
  /\ text \in Texts \cup {NoText}
  /\ stage \in {"idle", "asked", "attempt", "confirmed"}

ClocksTyped ==
  /\ raiseLag \in 0 .. MaxLag
  /\ retryLag \in 0 .. MaxLag
  /\ retrying \in {"idle", "checking", "delivering"}
  /\ crashes \in 0 .. MaxCrashes

\* While an alert is being sent it stays pending with the text that is sent,
\* by whoever holds the lock; and what is marked sent was accepted.
SendInv ==
  /\ stage = "idle" <=> sending = 0
  /\ sending # 0 => /\ holder # Nobody
                    /\ alerts[sending].status = "pending"
                    /\ text = Format(sending)
                    /\ holder = RetryCheck => failures[sending] < MaxRetries
  /\ stage = "confirmed" => text \in told
  /\ \A t \in Texts : ledger[t] = "sent" => t \in told
  /\ todo # {} => holder = RetryCheck
  /\ \A a \in todo : alerts[a].status = "pending" /\ a # sending

\* By the times written beside the alerts every window is kept, late marks
\* included; and the one an alert was let through with has room left until it
\* is marked.
MarkedCap ==
  \A start \in 0 .. MaxLag :
    Cardinality({a \in Ids : alerts[a].status = "sent"
                              /\ alerts[a].age \in start .. start + Window}) <= FloodMax

WindowInv ==
  /\ MarkedCap
  /\ sending # 0 => Cardinality(SentWithin(Window + Lag)) < FloodMax

\* The time written is not older than the delivery by more than a send takes.
ReachedInv ==
  /\ reached \in [Ids -> 0 .. LongAgo]
  /\ \A a \in Ids : alerts[a].status = "sent" => alerts[a].age <= reached[a] + MaxLag

\* One round of the retry loop at a time: while its call waits for the lock or
\* holds it no other check of the loop resets its clock.
RetryWaits(q) == \E i \in DOMAIN q : q[i] = RetryCheck

RetryInv ==
  /\ RetryWaits(queue) \/ holder = RetryCheck => retrying = "delivering"
  /\ waitsOn[RetryCheck] # Nobody => retrying = "checking"
  /\ holder = RetryCheck => ~RetryWaits(queue)
  /\ \A i, j \in DOMAIN queue : queue[i] = RetryCheck /\ queue[j] = RetryCheck => i = j

AlertInv ==
  /\ SessionInv /\ TablesInv /\ DataTyped /\ LockTyped /\ ClocksTyped
  /\ SendInv /\ RetryInv /\ SentAlertsAreTold /\ WindowInv
  /\ ReachedInv

\* Every step, with a stutter.
LEMMA StepKinds ==
  ASSUME [Next]_vars
  PROVE  \/ \E e \in Events : BeginRaise(e)
         \/ \E e \in Handoffs : Raise(e)
         \/ BeginRetry \/ RetryNext \/ RetryReturns
         \/ SendRefused \/ SentBefore \/ SendBegins \/ Accepted \/ OutcomeUnknown \/ Rejected
         \/ MarkSent \/ Crash \/ Gateway \/ Tick
         \/ \E c \in Checks : CheckNow(c) \/ CheckLater(c) \/ Answered(c)
         \/ UNCHANGED vars
BY Zenon DEF Next, LockStep, CheckStep

\* A crash is a restart of the monitor, every other step one of its steps.
LEMMA SessionMoves ==
  ASSUME [Next]_vars
  PROVE  (Crash /\ MonitorCrash) \/ SessionStep
<1>1. CASE Crash
  BY <1>1, Zenon DEF Crash
<1>2. CASE Rejected
  BY <1>2, Zenon DEF Rejected, SessionStep
<1>3. CASE Gateway
  BY <1>3, Zenon DEF Gateway, SessionStep
<1>4. CASE Tick
  BY <1>4, Zenon DEF Tick, SessionStep
<1>5. CASE \E c \in Checks : CheckNow(c) \/ CheckLater(c) \/ Answered(c)
  BY <1>5, Zenon DEF CheckNow, CheckLater, Answered, SessionStep
<1>6. CASE \/ \E e \in Events : BeginRaise(e)
           \/ \E e \in Handoffs : Raise(e)
           \/ BeginRetry \/ RetryNext \/ RetryReturns
           \/ SendRefused \/ SentBefore \/ SendBegins \/ Accepted \/ OutcomeUnknown \/ MarkSent
           \/ UNCHANGED vars
  BY <1>6, Zenon DEF BeginRaise, Raise, BeginRetry, RetryNext, RetryReturns, SendRefused, SentBefore,
     SendBegins, Accepted, OutcomeUnknown, MarkSent, vars, SessionStep
<1> QED BY <1>1, <1>2, <1>3, <1>4, <1>5, <1>6, StepKinds

\* What a failed send leaves: the call goes on to its next alert, or returns.
LEMMA FailureTyped ==
  ASSUME AlertInv, sending # 0, AlertFails
  PROVE  /\ failures' \in [Ids -> 0 .. MaxRetries] /\ nextIn' \in [Ids -> Int]
         /\ sending' = 0 /\ text' = NoText /\ stage' = "idle"
         /\ holder' \in {holder, Nobody} /\ todo' \in {todo, {}}
<1>1. /\ failures \in [Ids -> 0 .. MaxRetries] /\ nextIn \in [Ids -> Int]
      /\ sending \in Ids /\ retryLag \in 0 .. MaxLag
  BY DEF AlertInv, DataTyped, LockTyped, ClocksTyped
<1>2. CASE holder = RetryCheck
  <2>1. failures[sending] < MaxRetries /\ failures[sending] \in Nat
    BY <1>1, <1>2 DEF AlertInv, SendInv
  <2>2. Delay(failures[sending]) \in Int
    <3>1. 2^failures[sending] \in Int
      BY <2>1
    <3> QED
      BY <1>1, <3>1, AlertAssumption DEF Delay
  <2>3. failures[sending] + 1 \in 0 .. MaxRetries
    BY <2>1, AlertAssumption
  <2> QED BY <1>1, <1>2, <2>2, <2>3 DEF AlertFails
<1>3. CASE holder # RetryCheck
  BY <1>1, <1>3 DEF AlertFails, Returns, retryVars
<1> QED BY <1>2, <1>3

\* A step that is sending has an alert and its text.
LEMMA SendingTyped ==
  ASSUME AlertInv, stage # "idle"
  PROVE  sending \in Ids /\ sending # 0 /\ text \in Texts /\ alerts[sending].status = "pending"
<1>1. sending \in Ids /\ alerts[sending].status = "pending" /\ text = Format(sending)
  BY DEF AlertInv, SendInv, LockTyped
<1>2. text \in Texts
  BY <1>1, FormatTyped DEF AlertInv
<1> QED BY <1>1, <1>2, Finite

-----------------------------------------------------------------------------
(* Each part holds after a step. *)

\* Rows change when an event is recorded, when one is marked, and with time.
LEMMA TableMoves ==
  ASSUME [Next]_vars
  PROVE  (\E e \in Events : BeginRaise(e)) \/ MarkSent \/ Tick \/ UNCHANGED <<alerts, alertOf>>
<1>1. CASE \E c \in Checks : CheckNow(c) \/ CheckLater(c) \/ Answered(c)
  BY <1>1, Zenon DEF CheckNow, CheckLater, Answered, alertsButQueue, databaseVars
<1>2. CASE \/ BeginRetry \/ RetryNext \/ RetryReturns \/ Crash \/ Gateway \/ UNCHANGED vars
           \/ \E e \in Handoffs : Raise(e)
  BY <1>2, Zenon DEF BeginRetry, RetryNext, RetryReturns, Crash, Gateway, Raise, vars, alertVars,
     databaseVars
<1>3. CASE SendRefused \/ SentBefore \/ SendBegins \/ Accepted \/ OutcomeUnknown \/ Rejected
  BY <1>3, Zenon DEF SendRefused, SentBefore, SendBegins, Accepted, OutcomeUnknown, Rejected,
     databaseVars
<1> QED BY <1>1, <1>2, <1>3, StepKinds

\* A minute older, or as it was.
LEMMA TickRows ==
  ASSUME AlertInv, Tick
  PROVE  /\ alerts' \in [Ids -> AlertRecord]
         /\ \A a \in Ids : /\ alerts'[a].kind = alerts[a].kind
                           /\ alerts'[a].status = alerts[a].status
                           /\ alerts'[a].count = alerts[a].count
                           /\ alerts'[a].latest = alerts[a].latest
                           /\ alerts[a].status = "sent" =>
                                alerts'[a].age = Older(alerts[a].age, Horizon)
<1>1. alerts \in [Ids -> AlertRecord]
  BY DEF AlertInv, TablesInv
<1>2. ASSUME NEW a \in Ids
      PROVE  /\ alerts'[a] \in AlertRecord
             /\ alerts'[a].kind = alerts[a].kind
             /\ alerts'[a].status = alerts[a].status
             /\ alerts'[a].count = alerts[a].count
             /\ alerts'[a].latest = alerts[a].latest
             /\ alerts[a].status = "sent" => alerts'[a].age = Older(alerts[a].age, Horizon)
  <2>1. alerts[a] \in AlertRecord
    BY <1>1
  <2>2. Older(alerts[a].age, Horizon) \in 0 .. Horizon
    BY <2>1, AlertAssumption DEF AlertRecord, Older, Horizon
  <2>3. CASE alerts[a].status = "sent"
    <3>1. alerts'[a] = Alert(alerts[a].kind, "sent", alerts[a].count, alerts[a].latest,
                             Older(alerts[a].age, Horizon))
      BY <2>3 DEF Tick
    <3> QED BY <2>1, <2>2, <2>3, <3>1 DEF Alert, AlertRecord
  <2>4. CASE alerts[a].status # "sent"
    <3>1. alerts'[a] = alerts[a]
      BY <2>4 DEF Tick
    <3> QED BY <2>1, <2>4, <3>1
  <2> QED BY <2>3, <2>4
<1>3. alerts' \in [Ids -> AlertRecord]
  <2>1. alerts' = [a \in Ids |-> alerts'[a]]
    BY DEF Tick
  <2> QED BY <1>2, <2>1
<1> QED BY <1>2, <1>3

\* The alert just delivered is marked, at the age of the clock reading.
LEMMA MarkedRows ==
  ASSUME AlertInv, MarkSent
  PROVE  /\ sending \in Ids /\ alerts[sending].status = "pending" /\ Lag \in 0 .. MaxLag
         /\ alerts' \in [Ids -> AlertRecord]
         /\ \A a \in Ids \ {sending} : alerts'[a] = alerts[a]
         /\ alerts'[sending] = Alert(alerts[sending].kind, "sent", alerts[sending].count,
                                     alerts[sending].latest, Lag)
<1>1. sending \in Ids /\ alerts[sending].status = "pending"
  BY SendingTyped DEF MarkSent
<1>2. Lag \in 0 .. MaxLag /\ Lag \in 0 .. Horizon
  BY AlertAssumption DEF AlertInv, ClocksTyped, Lag, Horizon
<1>3. alerts \in [Ids -> AlertRecord]
  BY DEF AlertInv, TablesInv
<1>4. Alert(alerts[sending].kind, "sent", alerts[sending].count, alerts[sending].latest, Lag)
        \in AlertRecord
  BY <1>1, <1>2, <1>3 DEF Alert, AlertRecord
<1> QED BY <1>1, <1>2, <1>3, <1>4 DEF MarkSent

\* Recording an event changes its own row only.
LEMMA RaisedRows ==
  ASSUME AlertInv, NEW e \in Events, BeginRaise(e)
  PROVE  /\ TablesInv'
         /\ \A x \in Ids : \/ alerts'[x] = alerts[x]
                           \/ alerts[x].status # "sent" /\ alerts'[x].status = "pending"
         /\ \/ UNCHANGED <<holder, sending, text, stage>>
            \/ \E a \in Ids : /\ alerts'[a].status = "pending" /\ ~Flooded(0)'
                              /\ holder' = e /\ sending' = a /\ text' = Format(a)'
                              /\ stage' = "asked"
<1>1. PICK a \in Ids :
        /\ Queued(e, a)
        /\ IF alerts'[a].status = "sent" \/ Flooded(0)
           THEN UNCHANGED <<holder, sending, text, stage>>
           ELSE holder' = e /\ sending' = a /\ text' = Format(a)' /\ stage' = "asked"
  BY DEF BeginRaise
<1>2. Room(e) /\ TablesInv
  BY DEF AlertInv, BeginRaise
<1>3. /\ TablesInv'
      /\ alerts'[a].status \in {"pending", "sent"}
      /\ \A x \in Ids : \/ alerts'[x] = alerts[x]
                        \/ alerts[x].status # "sent" /\ alerts'[x].status = "pending"
  BY <1>1, <1>2, QueuedTables
<1>4. \A n : SentWithin(n)' = SentWithin(n)
  BY <1>3 DEF SentWithin
<1>5. Flooded(0)' <=> Flooded(0)
  BY <1>4 DEF Flooded
<1> QED BY <1>1, <1>3, <1>5

\* The tables stay sound.
LEMMA TablesStep ==
  ASSUME AlertInv, [Next]_vars
  PROVE  TablesInv'
<1>0. TablesInv
  BY DEF AlertInv
<1>1. ASSUME NEW e \in Events, BeginRaise(e) PROVE TablesInv'
  BY <1>1, RaisedRows
<1>2. CASE MarkSent
  <2>1. alertOf' = alertOf
    BY <1>2 DEF MarkSent
  <2>2. \A a \in Ids : /\ alerts'[a].count = alerts[a].count
                       /\ alerts'[a].latest = alerts[a].latest
                       /\ alerts'[a].status = "absent" <=> alerts[a].status = "absent"
    BY <1>2, MarkedRows DEF Alert
  <2> QED BY <1>0, <1>2, <2>1, <2>2, MarkedRows, TablesKept
<1>3. CASE Tick
  <2>1. alertOf' = alertOf
    BY <1>3 DEF Tick
  <2>2. alerts' \in [Ids -> AlertRecord]
        /\ \A a \in Ids : /\ alerts'[a].count = alerts[a].count
                          /\ alerts'[a].latest = alerts[a].latest
                          /\ alerts'[a].status = "absent" <=> alerts[a].status = "absent"
    BY <1>3, TickRows
  <2> QED BY <1>0, <2>1, <2>2, TablesKept
<1>4. CASE UNCHANGED <<alerts, alertOf>>
  <2>1. alerts' = alerts /\ alertOf' = alertOf
    BY <1>4
  <2> QED BY <1>0, <2>1, TablesKept DEF TablesInv
<1> QED BY <1>1, <1>2, <1>3, <1>4, TableMoves

\* Texts and retries keep their types.
LEMMA DataStep ==
  ASSUME AlertInv, [Next]_vars
  PROVE  DataTyped'
<1>0. DataTyped
  BY DEF AlertInv
<1>1. CASE UNCHANGED <<ledger, told, failures, nextIn>>
  BY <1>0, <1>1 DEF DataTyped
<1>2. CASE SendRefused
  <2>1. sending # 0 /\ AlertFails
    BY <1>2, SendingTyped DEF SendRefused
  <2>2. failures' \in [Ids -> 0 .. MaxRetries] /\ nextIn' \in [Ids -> Int]
    BY <2>1, FailureTyped
  <2> QED BY <1>0, <1>2, <2>2 DEF SendRefused, DataTyped, databaseVars
<1>3. CASE OutcomeUnknown
  <2>1. sending # 0 /\ AlertFails /\ text \in Texts
    BY <1>3, SendingTyped DEF OutcomeUnknown
  <2> QED BY <1>0, <1>3, <2>1, FailureTyped DEF OutcomeUnknown, DataTyped
<1>4. CASE Rejected
  <2>1. sending # 0 /\ AlertFails /\ text \in Texts
    BY <1>4, SendingTyped DEF Rejected
  <2>2. ledger' = [ledger EXCEPT ![text] = "failed"] /\ told' = told
    BY <1>4, Zenon DEF Rejected
  <2>3. failures' \in [Ids -> 0 .. MaxRetries] /\ nextIn' \in [Ids -> Int]
    BY <2>1, FailureTyped
  <2> QED BY <1>0, <2>1, <2>2, <2>3 DEF DataTyped
<1>5. CASE SendBegins
  <2>1. text \in Texts
    BY <1>5, SendingTyped DEF SendBegins
  <2> QED BY <1>0, <1>5, <2>1 DEF SendBegins, DataTyped, retryVars
<1>6. CASE Accepted
  <2>1. text \in Texts
    BY <1>6, SendingTyped DEF Accepted
  <2> QED BY <1>0, <1>6, <2>1 DEF Accepted, DataTyped, retryVars
<1>7. CASE MarkSent
  <2>1. 0 \in 0 .. MaxRetries
    BY AlertAssumption
  <2>2. /\ ledger' = ledger /\ told' = told
        /\ failures' = [failures EXCEPT ![sending] = 0]
        /\ nextIn' = [nextIn EXCEPT ![sending] = 0]
    BY <1>7 DEF MarkSent
  <2>3. failures' \in [Ids -> 0 .. MaxRetries]
    BY <1>0, <2>1, <2>2 DEF DataTyped
  <2>4. nextIn' \in [Ids -> Int]
    BY <1>0, <1>7, <2>2, MarkedRows, 0 \in Int DEF DataTyped
  <2> QED BY <1>0, <2>2, <2>3, <2>4 DEF DataTyped
<1>8. CASE Tick
  <2>1. nextIn' \in [Ids -> Int]
    BY <1>0, <1>8 DEF Tick, DataTyped
  <2>2. told' = told /\ failures' = failures
        /\ ledger' = [t \in Texts |-> IF ledger[t] = "sent" THEN "lapsed" ELSE ledger[t]]
    BY <1>8 DEF Tick
  <2>3. ledger' \in [Texts -> {"none", "pending", "sent", "lapsed", "failed", "uncertain"}]
    BY <1>0, <2>2 DEF DataTyped
  <2> QED BY <1>0, <2>1, <2>2, <2>3 DEF DataTyped
<1>9. CASE Crash
  <2>1. failures' \in [Ids -> 0 .. MaxRetries] /\ nextIn' \in [Ids -> Int]
    BY <1>9, AlertAssumption DEF Crash
  <2>2. told' \subseteq Texts
    <3>1. stage = "attempt" => text \in Texts
      BY SendingTyped
    <3> QED BY <1>0, <1>9, <3>1 DEF Crash, DataTyped
  <2> QED BY <1>0, <1>9, <2>1, <2>2 DEF Crash, DataTyped
<1>10. CASE \/ \E c \in Checks : CheckNow(c) \/ CheckLater(c) \/ Answered(c)
            \/ BeginRetry \/ RetryNext \/ RetryReturns \/ Gateway \/ UNCHANGED vars \/ SentBefore
            \/ \E e \in Handoffs : Raise(e)
            \/ \E e \in Events : BeginRaise(e)
  <2>1. UNCHANGED <<ledger, told, failures, nextIn>>
    BY <1>10, Zenon DEF CheckNow, CheckLater, Answered, alertsButQueue, databaseVars, retryVars,
       BeginRetry, RetryNext, RetryReturns, Gateway, Raise, BeginRaise, SentBefore, vars, alertVars
  <2> QED BY <1>1, <2>1
<1> QED
  BY <1>2, <1>3, <1>4, <1>5, <1>6, <1>7, <1>8, <1>9, <1>10, StepKinds

\* What a reading adds to the queue of the lock.
LEMMA ObservedQueue ==
  ASSUME AlertInv, NEW r \in Readings, NEW S, Observed(r, S)
  PROVE  /\ queue' \in Seq(Calls)
         /\ retrying' \in {"idle", "checking", "delivering"}
         /\ retryLag' \in 0 .. MaxLag
<1>1. queue \in Seq(Calls) /\ RetryCheck \in Calls /\ retryLag \in 0 .. MaxLag
      /\ retrying \in {"idle", "checking", "delivering"} /\ 0 \in 0 .. MaxLag
  BY AlertAssumption DEF AlertInv, LockTyped, ClocksTyped, Calls
<1>2. Recovers(r) => outage \in Calls
  <2>1. outage # 0 => outage \in 1 .. MaxOutages
    BY SessionAssumption DEF AlertInv, SessionInv, SessionTypeOK
  <2> QED BY <2>1 DEF Recovers, Calls, Events
<1>3. Summary(r) \in Seq(Calls)
  BY <1>2 DEF Summary
<1>4. queue \o Summary(r) \in Seq(Calls) /\ queue \o Summary(r) \o <<RetryCheck>> \in Seq(Calls)
  BY <1>1, <1>3
<1>5. CASE RetryCheck \in S /\ Works(r)
  BY <1>1, <1>4, <1>5 DEF Observed
<1>6. CASE RetryCheck \in S /\ ~Works(r)
  BY <1>1, <1>6 DEF Observed
<1>7. CASE RetryCheck \notin S
  BY <1>1, <1>4, <1>7 DEF Observed
<1> QED BY <1>5, <1>6, <1>7

\* The lock keeps its types.
LEMMA LockTypedStep ==
  ASSUME AlertInv, [Next]_vars
  PROVE  LockTyped'
<1>0. LockTyped
  BY DEF AlertInv
<1>1. ASSUME NEW e \in Events, BeginRaise(e) PROVE LockTyped'
  <2>1. e \in Calls /\ queue # <<>> /\ queue' = Tail(queue) /\ UNCHANGED todo
    BY <1>1 DEF Calls, BeginRaise, Free
  <2>2. queue' \in Seq(Calls)
    BY <1>0, <2>1 DEF LockTyped
  <2>3. CASE UNCHANGED <<holder, sending, text, stage>>
    BY <1>0, <2>1, <2>2, <2>3 DEF LockTyped
  <2>4. ASSUME NEW a \in Ids, alerts'[a].status = "pending", holder' = e, sending' = a,
               text' = Format(a)', stage' = "asked"
        PROVE  LockTyped'
    <3>1. TablesInv'
      BY <1>1, RaisedRows
    <3>2. alerts'[a].latest \in Reasons /\ alerts'[a] \in AlertRecord
      BY <2>4, <3>1 DEF TablesInv
    <3>3. 1 \in 0 .. Cardinality(Events)
      BY <1>1, Finite, FS_EmptySet
    <3>4. Format(a)' \in Texts
      BY <3>2, <3>3 DEF Format, Text, Texts, AlertRecord, Kinds
    <3> QED BY <1>0, <2>1, <2>2, <2>4, <3>4 DEF LockTyped
  <2> QED BY <1>1, <2>3, <2>4, RaisedRows
<1>2. CASE \E e \in Handoffs : Raise(e)
  BY <1>0, <1>2 DEF Raise, LockTyped, Calls, Events
<1>3. CASE BeginRetry
  BY <1>0, <1>3 DEF BeginRetry, LockTyped, Calls, Free
<1>4. CASE RetryNext
  <2> DEFINE a == Min(todo)
  <2>1. a \in todo /\ todo \subseteq Ids
    BY <1>0, <1>4, SmallestOf DEF RetryNext, LockTyped
  <2>2. alerts[a].status = "pending" /\ a \in Ids
    BY <2>1 DEF AlertInv, SendInv
  <2>3. Format(a) \in Texts
    BY <2>2, FormatTyped DEF AlertInv
  <2> HIDE DEF a
  <2>4. /\ todo' = todo \ {a} /\ UNCHANGED <<queue, holder>>
        /\ \/ UNCHANGED <<sending, text, stage>>
           \/ sending' = a /\ text' = Format(a) /\ stage' = "asked"
    BY <1>4 DEF RetryNext, a
  <2> QED BY <1>0, <2>2, <2>3, <2>4 DEF LockTyped
<1>5. CASE RetryReturns
  BY <1>0, <1>5 DEF RetryReturns, Returns, LockTyped
<1>6. CASE SendRefused \/ OutcomeUnknown \/ Rejected
  <2>1. sending # 0 /\ AlertFails /\ UNCHANGED queue
    BY <1>6, SendingTyped DEF SendRefused, OutcomeUnknown, Rejected
  <2> QED BY <1>0, <2>1, FailureTyped DEF LockTyped
<1>7. CASE SentBefore \/ SendBegins \/ Accepted
  BY <1>0, <1>7 DEF SentBefore, SendBegins, Accepted, LockTyped
<1>8. CASE MarkSent
  BY <1>0, <1>8 DEF MarkSent, Returns, LockTyped
<1>9. CASE Crash
  BY <1>0, <1>9 DEF Crash, Returns, LockTyped
<1>10. CASE Gateway \/ Tick \/ UNCHANGED vars
  BY <1>0, <1>10 DEF Gateway, Tick, vars, alertVars, lockVars, LockTyped
<1>11. ASSUME NEW c \in Checks, CheckNow(c) PROVE LockTyped'
  <2>1. cache \in Readings /\ Observed(cache, {c}) /\ UNCHANGED <<holder, todo, sending, text, stage>>
    BY <1>11 DEF CheckNow, CheckCached, AlertInv, SessionInv, SessionTypeOK, alertsButQueue
  <2> QED BY <1>0, <2>1, ObservedQueue DEF LockTyped
<1>12. ASSUME NEW c \in Checks, CheckLater(c) PROVE LockTyped'
  BY <1>0, <1>12 DEF CheckLater, alertsButQueue, LockTyped
<1>13. ASSUME NEW c \in Checks, Answered(c) PROVE LockTyped'
  <2>1. fetch[c] \in Readings /\ Observed(fetch[c], Waiting(c))
        /\ UNCHANGED <<holder, todo, sending, text, stage>>
    BY <1>13 DEF Answered, FetchEnds, alertsButQueue
  <2> QED BY <1>0, <2>1, ObservedQueue DEF LockTyped
<1> QED
  BY <1>1, <1>2, <1>3, <1>4, <1>5, <1>6, <1>7, <1>8, <1>9, <1>10, <1>11, <1>12, <1>13, StepKinds

\* And so do the clocks.
LEMMA ClocksStep ==
  ASSUME AlertInv, [Next]_vars
  PROVE  ClocksTyped'
<1>0. ClocksTyped /\ 0 \in 0 .. MaxLag
  BY AlertAssumption DEF AlertInv, ClocksTyped
<1>1. ASSUME NEW e \in Events, BeginRaise(e) PROVE ClocksTyped'
  BY <1>0, <1>1 DEF BeginRaise, ClocksTyped
<1>2. CASE Tick
  BY <1>0, <1>2, AlertAssumption DEF Tick, ClocksTyped
<1>3. CASE Crash
  BY <1>0, <1>3, AlertAssumption DEF Crash, ClocksTyped
<1>4. CASE RetryReturns
  BY <1>0, <1>4 DEF RetryReturns, ClocksTyped
<1>5. ASSUME NEW c \in Checks, CheckNow(c) PROVE ClocksTyped'
  <2>1. cache \in Readings /\ Observed(cache, {c}) /\ UNCHANGED <<raiseLag, crashes>>
    BY <1>5 DEF CheckNow, CheckCached, AlertInv, SessionInv, SessionTypeOK, alertsButQueue
  <2> QED BY <1>0, <2>1, ObservedQueue DEF ClocksTyped
<1>6. ASSUME NEW c \in Checks, CheckLater(c) PROVE ClocksTyped'
  BY <1>0, <1>6 DEF CheckLater, alertsButQueue, ClocksTyped
<1>7. ASSUME NEW c \in Checks, Answered(c) PROVE ClocksTyped'
  <2>1. fetch[c] \in Readings /\ Observed(fetch[c], Waiting(c)) /\ UNCHANGED <<raiseLag, crashes>>
    BY <1>7 DEF Answered, FetchEnds, alertsButQueue
  <2> QED BY <1>0, <2>1, ObservedQueue DEF ClocksTyped
<1>8. CASE \/ \E e \in Handoffs : Raise(e)
           \/ BeginRetry \/ RetryNext \/ SendRefused \/ SentBefore \/ SendBegins \/ Accepted
           \/ OutcomeUnknown \/ Rejected \/ MarkSent \/ Gateway \/ UNCHANGED vars
  <2>1. UNCHANGED <<raiseLag, retryLag, retrying, crashes>>
    BY <1>8, Zenon DEF Raise, BeginRetry, RetryNext, SendRefused, SentBefore, SendBegins, Accepted,
       OutcomeUnknown, Rejected, MarkSent, Gateway, vars, alertVars, lockVars
  <2> QED BY <1>0, <2>1 DEF ClocksTyped
<1> QED BY <1>1, <1>2, <1>3, <1>4, <1>5, <1>6, <1>7, <1>8, StepKinds

\* The steps that may change which alert is sent, or how.
LEMMA SendMoves ==
  ASSUME [Next]_vars
  PROVE  \/ \E e \in Events : BeginRaise(e)
         \/ BeginRetry \/ RetryNext \/ RetryReturns
         \/ SendRefused \/ SentBefore \/ SendBegins \/ Accepted \/ OutcomeUnknown \/ Rejected
         \/ MarkSent \/ Crash \/ Tick
         \/ UNCHANGED <<alerts, failures, told, ledger, holder, todo, sending, text, stage>>
<1>1. CASE \/ \E c \in Checks : CheckNow(c) \/ CheckLater(c) \/ Answered(c)
           \/ Gateway \/ UNCHANGED vars
           \/ \E e \in Handoffs : Raise(e)
  BY <1>1, Zenon DEF CheckNow, CheckLater, Answered, Gateway, Raise, vars, alertVars, alertsButQueue,
     lockVars, databaseVars, retryVars
<1> QED BY <1>1, StepKinds

\* An alert stays as it was chosen until its send ends.
LEMMA SendStep ==
  ASSUME AlertInv, [Next]_vars
  PROVE  SendInv'
<1>0. /\ SendInv /\ LockTyped /\ TablesInv /\ 0 \notin Ids
      /\ Nobody \notin Events /\ Nobody # RetryCheck /\ RetryCheck \notin Events
  BY Finite, AlertAssumption DEF AlertInv, Events
<1>1. ASSUME NEW e \in Events, BeginRaise(e) PROVE SendInv'
  <2>1. /\ holder = Nobody /\ sending = 0 /\ stage = "idle" /\ todo = {}
        /\ UNCHANGED <<ledger, told, todo>>
    BY <1>0, <1>1 DEF BeginRaise, Free, SendInv
  <2>2. CASE UNCHANGED <<holder, sending, text, stage>>
    BY <1>0, <2>1, <2>2 DEF SendInv
  <2>3. ASSUME NEW a \in Ids, alerts'[a].status = "pending", holder' = e, sending' = a,
               text' = Format(a)', stage' = "asked"
        PROVE  SendInv'
    <3>1. text' = Format(sending)' /\ sending' # 0 /\ holder' # Nobody /\ holder' # RetryCheck
      BY <1>0, <2>3 DEF Format
    <3> QED BY <1>0, <2>1, <2>3, <3>1 DEF SendInv
  <2> QED BY <1>1, <2>2, <2>3, RaisedRows
<1>2. CASE BeginRetry
  <2>1. /\ holder = Nobody /\ sending = 0 /\ stage = "idle" /\ holder' = RetryCheck
        /\ todo' = {a \in Ids : alerts[a].status = "pending"}
        /\ UNCHANGED <<alerts, ledger, told, sending, text, stage>>
    BY <1>0, <1>2 DEF BeginRetry, Free, SendInv, databaseVars
  <2> QED BY <1>0, <2>1 DEF SendInv
<1>3. CASE RetryNext
  <2> DEFINE a == Min(todo)
  <2>1. a \in todo /\ todo \subseteq Ids /\ holder = RetryCheck /\ stage = "idle"
    BY <1>0, <1>3, SmallestOf DEF RetryNext, LockTyped
  <2>2. alerts[a].status = "pending" /\ a \in Ids /\ failures[a] \in Nat /\ MaxRetries \in Nat
    BY <2>1, AlertAssumption DEF AlertInv, SendInv, DataTyped
  <2> HIDE DEF a
  <2>3. /\ todo' = todo \ {a} /\ UNCHANGED <<alerts, failures, told, ledger, holder>>
        /\ \/ UNCHANGED <<sending, text, stage>>
           \/ ~Capped(a) /\ sending' = a /\ text' = Format(a) /\ stage' = "asked"
    BY <1>3 DEF RetryNext, databaseVars, retryVars, a
  <2>4. CASE UNCHANGED <<sending, text, stage>>
    BY <1>0, <2>1, <2>3, <2>4 DEF SendInv
  <2>5. CASE ~Capped(a) /\ sending' = a /\ text' = Format(a) /\ stage' = "asked"
    <3>1. failures'[sending'] < MaxRetries
      BY <2>2, <2>3, <2>5 DEF Capped
    <3>2. text' = Format(sending)' /\ sending' # 0
      BY <1>0, <2>2, <2>3, <2>5 DEF Format
    <3> QED BY <1>0, <2>1, <2>2, <2>3, <2>5, <3>1, <3>2 DEF SendInv
  <2> QED BY <2>3, <2>4, <2>5
<1>4. CASE RetryReturns
  BY <1>0, <1>4 DEF RetryReturns, Returns, SendInv, databaseVars
<1>5. CASE SendRefused \/ OutcomeUnknown \/ Rejected
  <2>1. /\ sending # 0 /\ AlertFails /\ alerts' = alerts
        /\ told \subseteq told' /\ text \in Texts
        /\ \A t \in Texts : ledger'[t] = "sent" => ledger[t] = "sent"
    <3>1. sending # 0 /\ text \in Texts
      BY <1>5, SendingTyped DEF SendRefused, OutcomeUnknown, Rejected
    <3>2. CASE SendRefused
      BY <3>1, <3>2 DEF SendRefused, databaseVars
    <3>3. CASE OutcomeUnknown
      BY <3>1, <3>3 DEF OutcomeUnknown, AlertInv, DataTyped
    <3>4. CASE Rejected
      <4>1. AlertFails /\ alerts' = alerts /\ told' = told
            /\ ledger' = [ledger EXCEPT ![text] = "failed"]
        BY <3>4, Zenon DEF Rejected
      <4> QED BY <3>1, <4>1 DEF AlertInv, DataTyped
    <3> QED BY <1>5, <3>2, <3>3, <3>4
  <2>2. /\ sending' = 0 /\ stage' = "idle"
        /\ (holder' = holder \/ todo' = {})
        /\ todo' \in {todo, {}}
    BY <2>1 DEF AlertFails, Returns
  <2>3. holder = RetryCheck => holder' = holder
    BY <2>1 DEF AlertFails
  <2> QED BY <1>0, <2>1, <2>2, <2>3 DEF SendInv, LockTyped
<1>6. CASE SentBefore
  <2>1. text \in Texts /\ sending # 0
    BY <1>6, SendingTyped DEF SentBefore
  <2> QED BY <1>0, <1>6, <2>1 DEF SentBefore, Delivered, SendInv, databaseVars, retryVars, Format
<1>7. CASE SendBegins
  <2>1. text \in Texts /\ sending # 0
    BY <1>7, SendingTyped DEF SendBegins
  <2> QED BY <1>0, <1>7, <2>1 DEF SendBegins, SendInv, retryVars, Format, AlertInv, DataTyped
<1>8. CASE Accepted
  <2>1. text \in Texts /\ sending # 0
    BY <1>8, SendingTyped DEF Accepted
  <2> QED BY <1>0, <1>8, <2>1 DEF Accepted, SendInv, retryVars, Format, AlertInv, DataTyped
<1>9. CASE MarkSent
  <2>1. /\ \A a \in todo : alerts'[a] = alerts[a]
        /\ sending' = 0 /\ stage' = "idle" /\ UNCHANGED <<told, ledger>>
        /\ todo' = {} \/ (todo' = todo /\ holder' = holder)
    BY <1>0, <1>9, MarkedRows DEF MarkSent, Returns, SendInv, LockTyped
  <2> QED BY <1>0, <2>1 DEF SendInv, LockTyped
<1>10. CASE Crash
  <2>1. \A t \in Texts : ledger'[t] = "sent" => ledger[t] = "sent"
    BY <1>10 DEF Crash
  <2>2. told \subseteq told' /\ sending' = 0 /\ stage' = "idle" /\ todo' = {}
    BY <1>10 DEF Crash, Returns
  <2> QED BY <1>0, <2>1, <2>2 DEF SendInv
<1>11. CASE Tick
  <2>1. \A t \in Texts : ledger'[t] = "sent" => ledger[t] = "sent"
    BY <1>11 DEF Tick
  <2>2. UNCHANGED <<told, failures, holder, todo, sending, text, stage>>
    BY <1>11 DEF Tick
  <2>3. sending # 0 => Format(sending)' = Format(sending)
    BY <1>0, <1>11, <2>2, TickRows DEF Format, LockTyped
  <2> QED BY <1>0, <1>11, <2>1, <2>2, <2>3, TickRows DEF SendInv, LockTyped
<1>12. CASE UNCHANGED <<alerts, failures, told, ledger, holder, todo, sending, text, stage>>
  BY <1>0, <1>12 DEF SendInv, Format
<1> QED
  BY <1>1, <1>2, <1>3, <1>4, <1>5, <1>6, <1>7, <1>8, <1>9, <1>10, <1>11, <1>12, SendMoves

\* What was marked sent has been accepted, whole.
LEMMA ToldStep ==
  ASSUME AlertInv, [Next]_vars
  PROVE  SentAlertsAreTold'
<1>0. SentAlertsAreTold
  BY DEF AlertInv
<1>1. told \subseteq told'
  <2>1. CASE \/ Accepted \/ OutcomeUnknown \/ Crash
    BY <2>1 DEF Accepted, OutcomeUnknown, Crash
  <2>2. CASE \/ \E e \in Events : BeginRaise(e)
             \/ BeginRetry \/ RetryNext \/ RetryReturns \/ SendRefused \/ SentBefore \/ SendBegins
             \/ Rejected \/ MarkSent \/ Tick
             \/ UNCHANGED <<alerts, failures, told, ledger, holder, todo, sending, text, stage>>
    <3>1. told' = told
      BY <2>2, Zenon DEF BeginRaise, BeginRetry, RetryNext, RetryReturns, SendRefused, SentBefore,
         SendBegins, Rejected, MarkSent, Tick
    <3> QED BY <3>1
  <2> QED BY <2>1, <2>2, SendMoves
<1>2. ASSUME NEW e \in Events, BeginRaise(e) PROVE SentAlertsAreTold'
  BY <1>0, <1>1, <1>2, RaisedRows DEF SentAlertsAreTold, Format
<1>3. CASE MarkSent
  <2>1. PICK a \in Ids : a = sending
    BY <1>3, MarkedRows
  <2>2. text \in told /\ text = Format(a)
    BY <1>3, <2>1, SendingTyped DEF MarkSent, AlertInv, SendInv
  <2>3. /\ alerts'[a].kind = alerts[a].kind
        /\ alerts'[a].count = alerts[a].count
        /\ alerts'[a].latest = alerts[a].latest
    BY <1>3, <2>1, MarkedRows DEF Alert
  <2>4. Format(a)' = Format(a)
    BY <2>3 DEF Format
  <2>5. \A x \in Ids \ {a} : alerts'[x] = alerts[x]
    BY <1>3, <2>1, MarkedRows
  <2>6. \A x \in Ids \ {a} : Format(x)' = Format(x)
    BY <2>5 DEF Format
  <2> QED BY <1>0, <1>1, <2>2, <2>4, <2>5, <2>6 DEF SentAlertsAreTold
<1>4. CASE Tick
  BY <1>0, <1>1, <1>4, TickRows DEF SentAlertsAreTold, Format
<1>5. CASE UNCHANGED <<alerts, alertOf>>
  BY <1>0, <1>1, <1>5 DEF SentAlertsAreTold, Format
<1> QED BY <1>2, <1>3, <1>4, <1>5, TableMoves

\* The rows marked sent whose age is in a span of minutes.
Aged(from, to) == {a \in Ids : alerts[a].status = "sent" /\ alerts[a].age \in from .. to}

\* Fewer rows, a smaller count.
LEMMA FewerRows ==
  ASSUME NEW S \in SUBSET Ids, NEW R \in SUBSET Ids, S \subseteq R
  PROVE  Cardinality(S) \in Nat /\ Cardinality(R) \in Nat /\ Cardinality(S) <= Cardinality(R)
<1>1. IsFiniteSet(R) /\ IsFiniteSet(S)
  BY Finite, FS_Subset
<1> QED BY <1>1, FS_Subset, FS_CardinalityType

\* Marking an alert adds one to the windows that hold the clock's reading, and
\* those had room.
LEMMA MarkedWindow ==
  ASSUME AlertInv, MarkSent, NEW start \in 0 .. MaxLag
  PROVE  Cardinality(Aged(start, start + Window)') <= FloodMax
<1>1. PICK s \in Ids : s = sending /\ s # 0
  BY MarkedRows, Finite
<1>2. /\ alerts[s].status = "pending" /\ Lag \in 0 .. MaxLag
      /\ \A a \in Ids \ {s} : alerts'[a] = alerts[a]
      /\ alerts'[s].status = "sent" /\ alerts'[s].age = Lag
  BY <1>1, MarkedRows DEF Alert
<1>3. Window \in Nat /\ FloodMax \in Nat /\ MaxLag \in Nat
  BY AlertAssumption
<1>4. Cardinality(Aged(start, start + Window)) <= FloodMax
  BY DEF AlertInv, WindowInv, MarkedCap, Aged
<1>5. Cardinality(SentWithin(Window + Lag)) < FloodMax
  BY <1>1 DEF AlertInv, WindowInv
<1>6. \A a \in Ids : alerts[a].age \in Nat
  BY AlertAssumption DEF AlertInv, TablesInv, AlertRecord, Horizon
<1>7. /\ Aged(start, start + Window) \in SUBSET Ids /\ SentWithin(Window + Lag) \in SUBSET Ids
      /\ Aged(start, start + Window)' \in SUBSET Ids
  BY DEF Aged, SentWithin
<1>8. CASE Lag \in start .. start + Window
  <2>1. Aged(start, start + Window)' \subseteq SentWithin(Window + Lag) \cup {s}
    <3>1. ASSUME NEW x \in Ids, x # s, alerts'[x].status = "sent",
                 alerts'[x].age \in start .. start + Window
          PROVE  x \in SentWithin(Window + Lag)
      <4>1. alerts[x] = alerts'[x]
        BY <1>2, <3>1
      <4>2. alerts[x].status = "sent" /\ alerts[x].age \in start .. start + Window
        BY <3>1, <4>1
      <4>3. alerts[x].age <= Window + Lag
        <5>1. start <= Lag /\ start \in Nat /\ Lag \in Nat
          BY <1>2, <1>3, <1>8
        <5>2. alerts[x].age \in Nat
          BY <1>6
        <5> QED BY <1>3, <4>2, <5>1, <5>2
      <4> QED BY <4>2, <4>3 DEF SentWithin
    <3>2. ASSUME NEW x \in Aged(start, start + Window)'
          PROVE  x \in SentWithin(Window + Lag) \cup {s}
      BY <3>1, <3>2 DEF Aged
    <3> QED BY <3>2
  <2> DEFINE before == SentWithin(Window + Lag)
  <2>2. IsFiniteSet(before)
    BY <1>7, Finite, FS_Subset
  <2> HIDE DEF before
  <2>3. Cardinality(before \cup {s}) <= Cardinality(before) + 1 /\ Cardinality(before) \in Nat
    <3>1. Cardinality(before) \in Nat
      BY <2>2, FS_CardinalityType
    <3>2. Cardinality(before \cup {s})
            = IF s \in before THEN Cardinality(before) ELSE Cardinality(before) + 1
      BY <2>2, FS_AddElement
    <3> QED BY <3>1, <3>2
  <2>4. SentWithin(Window + Lag) \cup {s} \in SUBSET Ids
    BY <1>7
  <2>5. /\ Cardinality(Aged(start, start + Window)')
             <= Cardinality(SentWithin(Window + Lag) \cup {s})
        /\ Cardinality(Aged(start, start + Window)') \in Nat
        /\ Cardinality(SentWithin(Window + Lag) \cup {s}) \in Nat
    BY <1>7, <2>1, <2>4, FewerRows
  <2> QED BY <1>3, <1>5, <2>3, <2>5 DEF before
<1>9. CASE Lag \notin start .. start + Window
  <2>1. Aged(start, start + Window)' \subseteq Aged(start, start + Window)
    BY <1>2, <1>9 DEF Aged
  <2>2. /\ Cardinality(Aged(start, start + Window)') <= Cardinality(Aged(start, start + Window))
        /\ Cardinality(Aged(start, start + Window)') \in Nat
        /\ Cardinality(Aged(start, start + Window)) \in Nat
    BY <1>7, <2>1, FewerRows
  <2> QED BY <1>3, <1>4, <2>2
<1> QED BY <1>8, <1>9

\* A minute moves every window back by one.
LEMMA TickWindow ==
  ASSUME AlertInv, Tick, NEW start \in 0 .. MaxLag
  PROVE  Cardinality(Aged(start, start + Window)') <= FloodMax
<1> DEFINE before == IF start = 0 THEN 0 ELSE start - 1
<1>1. before \in 0 .. MaxLag /\ Window \in Nat /\ MaxLag \in Nat /\ FloodMax \in Nat
  BY AlertAssumption
<1>2. \A a \in Ids : alerts[a].age \in 0 .. Horizon
  BY DEF AlertInv, TablesInv, AlertRecord
<1>3. Aged(start, start + Window)' \subseteq Aged(before, before + Window)
  <2>1. ASSUME NEW a \in Ids, alerts'[a].status = "sent", alerts'[a].age \in start .. start + Window
        PROVE  alerts[a].status = "sent" /\ alerts[a].age \in before .. before + Window
    <3>1. alerts[a].status = "sent" /\ alerts'[a].age = Older(alerts[a].age, Horizon)
      BY <2>1, TickRows
    <3> QED BY <1>1, <1>2, <2>1, <3>1 DEF Older, Horizon
  <2> QED BY <2>1 DEF Aged
<1> HIDE DEF before
<1>4. Cardinality(Aged(before, before + Window)) <= FloodMax
  BY <1>1 DEF AlertInv, WindowInv, MarkedCap, Aged
<1>5. Aged(start, start + Window)' \in SUBSET Ids /\ Aged(before, before + Window) \in SUBSET Ids
  BY DEF Aged
<1>6. /\ Cardinality(Aged(start, start + Window)') <= Cardinality(Aged(before, before + Window))
      /\ Cardinality(Aged(start, start + Window)') \in Nat
      /\ Cardinality(Aged(before, before + Window)) \in Nat
  BY <1>3, <1>5, FewerRows
<1> QED BY <1>1, <1>4, <1>6

\* The window's room stays while an alert is being sent, however long it takes.
LEMMA WindowStep ==
  ASSUME AlertInv, [Next]_vars
  PROVE  WindowInv'
<1>0. /\ WindowInv /\ SendInv /\ LockTyped /\ ClocksTyped /\ RetryInv
      /\ RetryCheck \notin Events /\ Nobody # RetryCheck /\ Nobody \notin Events
      /\ Window \in Nat /\ MaxLag \in Nat
  BY AlertAssumption DEF AlertInv, Events
<1>1. CASE /\ UNCHANGED alerts
           /\ \/ sending' = 0
              \/ UNCHANGED <<sending, holder, raiseLag>> /\ (holder # RetryCheck \/ retryLag' = retryLag)
  <2>1. MarkedCap'
    BY <1>0, <1>1 DEF WindowInv, MarkedCap
  <2>2. \A n : SentWithin(n)' = SentWithin(n)
    BY <1>1 DEF SentWithin
  <2>3. sending' # 0 => sending # 0 /\ Lag' = Lag
    BY <1>1 DEF Lag
  <2>4. SentWithin(Window + Lag)' = SentWithin(Window + Lag')
    BY <1>1 DEF SentWithin
  <2>5. sending' # 0 => Cardinality(SentWithin(Window + Lag)') < FloodMax
    BY <1>0, <2>3, <2>4 DEF WindowInv
  <2> QED BY <2>1, <2>5 DEF WindowInv
<1>2. ASSUME NEW e \in Events, BeginRaise(e) PROVE WindowInv'
  <2>1. sending = 0 /\ raiseLag' = 0
    BY <1>0, <1>2 DEF BeginRaise, Free, SendInv
  <2>2. \A start \in 0 .. MaxLag : Aged(start, start + Window)' = Aged(start, start + Window)
    BY <1>2, RaisedRows DEF Aged
  <2>3. MarkedCap'
    BY <1>0, <2>2 DEF WindowInv, MarkedCap, Aged
  <2>4. CASE UNCHANGED <<holder, sending, text, stage>>
    BY <2>1, <2>3, <2>4 DEF WindowInv
  <2>5. ASSUME NEW a \in Ids, ~Flooded(0)', holder' = e, sending' = a PROVE WindowInv'
    <3>1. Lag' = 0
      BY <1>0, <2>1, <2>5 DEF Lag
    <3>2. Cardinality(SentWithin(Window)') < FloodMax
      <4>1. Cardinality(SentWithin(Window + 0)') \in Nat /\ Window + 0 = Window
        BY <1>0, FewerRows DEF SentWithin
      <4> QED BY <2>5, <4>1, AlertAssumption DEF Flooded
    <3>3. SentWithin(Window + Lag)' = SentWithin(Window)'
      BY <1>0, <3>1 DEF SentWithin
    <3> QED BY <2>3, <3>2, <3>3 DEF WindowInv
  <2> QED BY <1>2, <2>4, <2>5, RaisedRows
<1>3. CASE RetryNext
  <2>1. UNCHANGED <<alerts, holder, retryLag>> /\ holder = RetryCheck
        /\ (UNCHANGED sending \/ ~Flooded(retryLag))
    BY <1>3 DEF RetryNext, databaseVars
  <2>2. MarkedCap'
    BY <1>0, <2>1 DEF WindowInv, MarkedCap
  <2>3. CASE UNCHANGED sending
    BY <1>0, <1>3, <2>2, <2>3 DEF RetryNext, SendInv, WindowInv
  <2>4. CASE ~Flooded(retryLag)
    <3>1. SentWithin(Window + Lag)' = SentWithin(Window + retryLag)
      BY <2>1 DEF Lag, SentWithin
    <3>2. Cardinality(SentWithin(Window + retryLag)) \in Nat
      BY FewerRows DEF SentWithin
    <3>3. Cardinality(SentWithin(Window + retryLag)) < FloodMax
      BY <2>4, <3>2, AlertAssumption DEF Flooded
    <3> QED BY <2>2, <3>1, <3>3 DEF WindowInv
  <2> QED BY <2>1, <2>3, <2>4
<1>4. CASE SendRefused \/ OutcomeUnknown \/ Rejected
  <2>1. sending # 0 /\ AlertFails /\ alerts' = alerts
    BY <1>4, SendingTyped DEF SendRefused, OutcomeUnknown, Rejected, databaseVars
  <2> QED BY <1>1, <2>1, FailureTyped
<1>5. CASE \/ BeginRetry \/ RetryReturns \/ SentBefore \/ SendBegins \/ Accepted \/ Crash
           \/ \E e \in Handoffs : Raise(e)
           \/ Gateway \/ UNCHANGED vars
  <2>1. CASE BeginRetry
    BY <1>0, <1>1, <2>1 DEF BeginRetry, Free, SendInv, databaseVars
  <2>2. CASE RetryReturns \/ Crash
    BY <1>1, <2>2 DEF RetryReturns, Returns, Crash, databaseVars
  <2>3. CASE \/ SentBefore \/ SendBegins \/ Accepted \/ Gateway \/ UNCHANGED vars
             \/ \E e \in Handoffs : Raise(e)
    <3>1. UNCHANGED <<alerts, sending, holder, raiseLag, retryLag>>
      BY <2>3, Zenon DEF SentBefore, SendBegins, Accepted, Gateway, Raise, vars, alertVars, databaseVars,
         lockVars
    <3> QED BY <1>1, <3>1
  <2> QED BY <1>5, <2>1, <2>2, <2>3
<1>6. CASE MarkSent
  <2>1. MarkedCap'
    BY <1>6, MarkedWindow DEF MarkedCap, Aged
  <2>2. sending' = 0
    BY <1>6 DEF MarkSent, Returns
  <2> QED BY <2>1, <2>2 DEF WindowInv
<1>7. CASE Tick
  <2>1. MarkedCap'
    BY <1>7, TickWindow DEF MarkedCap, Aged
  <2>2. CASE sending # 0
    <3>1. /\ holder \in Events \cup {RetryCheck} /\ UNCHANGED <<holder, sending>>
          /\ retryLag \in 0 .. MaxLag /\ raiseLag \in 0 .. MaxLag
      BY <1>0, <1>7, <2>2 DEF SendInv, LockTyped, Calls, Tick, ClocksTyped
    <3>2. Lag' = Lag + 1 /\ Lag' <= MaxLag /\ Lag \in Nat
      BY <1>0, <1>7, <3>1 DEF Tick, InProgress, Lag
    <3>3. ASSUME NEW a \in Ids, alerts'[a].status = "sent", alerts'[a].age <= Window + Lag'
          PROVE  alerts[a].status = "sent" /\ alerts[a].age <= Window + Lag
      <4>1. alerts[a].status = "sent" /\ alerts'[a].age = Older(alerts[a].age, Horizon)
            /\ alerts[a].age \in 0 .. Horizon
        BY <1>7, <3>3, TickRows DEF AlertInv, TablesInv, AlertRecord
      <4> QED BY <1>0, <3>2, <3>3, <4>1 DEF Older, Horizon
    <3>4. SentWithin(Window + Lag)' \subseteq SentWithin(Window + Lag)
      BY <3>3 DEF SentWithin
    <3>5. SentWithin(Window + Lag)' \in SUBSET Ids /\ SentWithin(Window + Lag) \in SUBSET Ids
      BY DEF SentWithin
    <3>6. /\ Cardinality(SentWithin(Window + Lag)') <= Cardinality(SentWithin(Window + Lag))
          /\ Cardinality(SentWithin(Window + Lag)') \in Nat
          /\ Cardinality(SentWithin(Window + Lag)) \in Nat
      BY <3>4, <3>5, FewerRows
    <3> QED BY <1>0, <2>1, <2>2, <3>6, AlertAssumption DEF WindowInv
  <2>3. CASE sending = 0
    BY <1>7, <2>1, <2>3 DEF WindowInv, Tick
  <2> QED BY <2>2, <2>3
<1>8. ASSUME NEW c \in Checks, CheckNow(c) \/ CheckLater(c) \/ Answered(c) PROVE WindowInv'
  <2>1. UNCHANGED <<alerts, sending, holder, raiseLag>>
    BY <1>8, Zenon DEF CheckNow, CheckLater, Answered, alertsButQueue, databaseVars
  <2>2. holder = RetryCheck => retryLag' = retryLag
    <3>1. CASE CheckNow(c)
      BY <1>0, <3>1 DEF CheckNow, Observed, RetryInv
    <3>2. CASE CheckLater(c)
      BY <3>2 DEF CheckLater
    <3>3. CASE Answered(c)
      <4>1. RetryCheck \in Waiting(c) => waitsOn[RetryCheck] # Nobody
        BY SessionAssumption DEF Waiting
      <4> QED BY <1>0, <3>3, <4>1 DEF Answered, Observed, RetryInv
    <3> QED BY <1>8, <3>1, <3>2, <3>3
  <2> QED BY <1>1, <2>1, <2>2
<1> QED BY <1>2, <1>3, <1>4, <1>5, <1>6, <1>7, <1>8, StepKinds

\* An alert is marked with a reading of the clock that is not too old, and both
\* times pass together.
LEMMA ReachedStep ==
  ASSUME AlertInv, [Next]_vars
  PROVE  ReachedInv'
<1>0. /\ ReachedInv /\ MaxLag \in Nat /\ Window \in Nat /\ 0 \notin Ids
      /\ \A a \in Ids : alerts[a].age \in 0 .. Horizon
  BY AlertAssumption, Finite DEF AlertInv, TablesInv, AlertRecord
<1>1. ASSUME NEW e \in Events, BeginRaise(e) PROVE ReachedInv'
  <2>1. reached' = reached
    BY <1>1, Zenon DEF BeginRaise
  <2> QED BY <1>0, <1>1, <2>1, RaisedRows DEF ReachedInv
<1>2. CASE MarkSent
  <2>1. reached' = reached
    BY <1>2, Zenon DEF MarkSent
  <2>2. PICK s \in Ids : s = sending
    BY <1>2, MarkedRows
  <2>3. /\ alerts'[s].age = Lag /\ Lag \in 0 .. MaxLag
        /\ \A a \in Ids \ {s} : alerts'[a] = alerts[a]
    BY <1>2, <2>2, MarkedRows DEF Alert
  <2>4. reached[s] \in Nat
    BY <1>0 DEF ReachedInv, LongAgo
  <2>5. alerts'[s].age <= reached'[s] + MaxLag
    BY <1>0, <2>1, <2>3, <2>4
  <2> QED BY <1>0, <2>1, <2>3, <2>5 DEF ReachedInv
<1>3. CASE Tick
  <2>1. reached' = [a \in Ids |-> Older(reached[a], LongAgo)]
    BY <1>3, Zenon DEF Tick
  <2>2. ASSUME NEW a \in Ids
        PROVE  /\ Older(reached[a], LongAgo) \in 0 .. LongAgo
               /\ alerts'[a].status = "sent" => alerts'[a].age <= reached'[a] + MaxLag
    <3>1. reached[a] \in 0 .. LongAgo /\ reached'[a] = Older(reached[a], LongAgo)
      BY <1>0, <2>1 DEF ReachedInv
    <3>2. alerts'[a].status = alerts[a].status
          /\ (alerts[a].status = "sent" => alerts'[a].age = Older(alerts[a].age, Horizon))
      BY <1>3, TickRows
    <3>3. alerts[a].status = "sent" => alerts[a].age <= reached[a] + MaxLag
      BY <1>0 DEF ReachedInv
    <3> QED BY <1>0, <3>1, <3>2, <3>3 DEF Older, Horizon, LongAgo
  <2> QED BY <2>1, <2>2 DEF ReachedInv
<1>4. CASE Accepted
  <2>1. /\ reached' = [reached EXCEPT ![sending] = 0] /\ alerts' = alerts
        /\ alerts[sending].status = "pending"
    BY <1>4, SendingTyped DEF Accepted
  <2>2. 0 \in 0 .. LongAgo
    BY <1>0 DEF LongAgo
  <2> QED BY <1>0, <2>1, <2>2 DEF ReachedInv
<1>5. CASE \/ \E c \in Checks : CheckNow(c) \/ CheckLater(c) \/ Answered(c)
           \/ BeginRetry \/ RetryNext \/ RetryReturns \/ Crash \/ Gateway \/ UNCHANGED vars
           \/ \E e \in Handoffs : Raise(e)
           \/ SendRefused \/ SentBefore \/ SendBegins \/ OutcomeUnknown \/ Rejected
  <2>1. UNCHANGED <<alerts, reached>>
    <3>1. CASE \/ \E c \in Checks : CheckNow(c) \/ CheckLater(c) \/ Answered(c)
               \/ BeginRetry \/ RetryNext \/ RetryReturns \/ Gateway \/ UNCHANGED vars
               \/ \E e \in Handoffs : Raise(e)
      BY <3>1, Zenon DEF CheckNow, CheckLater, Answered, alertsButQueue, databaseVars, BeginRetry,
         RetryNext, RetryReturns, Gateway, Raise, vars, alertVars
    <3>2. CASE Crash \/ SendRefused \/ SentBefore \/ SendBegins \/ OutcomeUnknown \/ Rejected
      BY <3>2, Zenon DEF Crash, SendRefused, SentBefore, SendBegins, OutcomeUnknown, Rejected,
         databaseVars
    <3> QED BY <1>5, <3>1, <3>2
  <2> QED BY <1>0, <2>1 DEF ReachedInv
<1> QED BY <1>1, <1>2, <1>3, <1>4, <1>5, StepKinds

\* What is in a queue after a call is appended.
LEMMA Appended ==
  ASSUME NEW q \in Seq(Calls), NEW e \in Calls
  PROVE  \A i \in DOMAIN Append(q, e) :
           \/ i \in DOMAIN q /\ Append(q, e)[i] = q[i]
           \/ i = Len(q) + 1 /\ Append(q, e)[i] = e
OBVIOUS

\* What leaves a queue, and what stays in it.
LEMMA Kept ==
  ASSUME NEW q \in Seq(Calls), q # <<>>
  PROVE  /\ 1 \in DOMAIN q /\ Head(q) = q[1]
         /\ \A i \in DOMAIN Tail(q) :
              i \in Nat \ {0} /\ i + 1 \in DOMAIN q /\ Tail(q)[i] = q[i + 1]
OBVIOUS

\* The call of the retry loop is in the queue once at most.
Once(q) == \A i, j \in DOMAIN q : q[i] = RetryCheck /\ q[j] = RetryCheck => i = j

\* A call of another kind joins the queue.
LEMMA OthersJoin ==
  ASSUME NEW q \in Seq(Calls), NEW e \in Calls, e # RetryCheck, Once(q)
  PROVE  Once(Append(q, e)) /\ (RetryWaits(Append(q, e)) => RetryWaits(q))
<1>1. \A i \in DOMAIN Append(q, e) :
        Append(q, e)[i] = RetryCheck => i \in DOMAIN q /\ q[i] = RetryCheck
  BY Appended
<1> QED BY <1>1 DEF Once, RetryWaits

\* The retry loop's call joins a queue it is not in.
LEMMA RetryJoins ==
  ASSUME NEW q \in Seq(Calls), ~RetryWaits(q)
  PROVE  Once(Append(q, RetryCheck))
<1>1. RetryCheck \in Calls
  BY DEF Calls
<1>2. \A i \in DOMAIN Append(q, RetryCheck) :
        Append(q, RetryCheck)[i] = RetryCheck => i = Len(q) + 1
  BY <1>1, Appended DEF RetryWaits
<1> QED BY <1>2 DEF Once

\* A call leaves the queue.
LEMMA OneLeaves ==
  ASSUME NEW q \in Seq(Calls), q # <<>>, Once(q)
  PROVE  /\ Once(Tail(q)) /\ (RetryWaits(Tail(q)) => RetryWaits(q))
         /\ Head(q) = RetryCheck => RetryWaits(q) /\ ~RetryWaits(Tail(q))
<1>1. Once(Tail(q))
  <2>1. ASSUME NEW i \in DOMAIN Tail(q), NEW j \in DOMAIN Tail(q),
               Tail(q)[i] = RetryCheck, Tail(q)[j] = RetryCheck
        PROVE  i = j
    <3>1. i + 1 = j + 1 /\ i \in Nat /\ j \in Nat
      BY <2>1, Kept DEF Once
    <3> QED BY <3>1
  <2> QED BY <2>1 DEF Once
<1>2. RetryWaits(Tail(q)) => RetryWaits(q)
  BY Kept DEF RetryWaits
<1>3. ASSUME Head(q) = RetryCheck PROVE RetryWaits(q) /\ ~RetryWaits(Tail(q))
  <2>1. RetryWaits(q)
    BY <1>3, Kept DEF RetryWaits
  <2>2. ASSUME NEW i \in DOMAIN Tail(q), Tail(q)[i] = RetryCheck PROVE FALSE
    <3>1. i \in Nat \ {0} /\ i + 1 = 1
      BY <1>3, <2>2, Kept DEF Once
    <3> QED BY <3>1
  <2> QED BY <2>1, <2>2 DEF RetryWaits
<1> QED BY <1>1, <1>2, <1>3

\* What a reading does to the queue and to the retry loop.
LEMMA ObservedRetry ==
  ASSUME AlertInv, NEW r \in Readings, NEW S, Observed(r, S),
         RetryCheck \in S => retrying # "delivering"
  PROVE  /\ RetryWaits(queue') \/ holder = RetryCheck => retrying' = "delivering"
         /\ holder = RetryCheck => ~RetryWaits(queue')
         /\ Once(queue')
         /\ RetryCheck \notin S => retrying' = retrying
<1>1. /\ queue \in Seq(Calls) /\ Once(queue)
      /\ RetryWaits(queue) \/ holder = RetryCheck => retrying = "delivering"
      /\ holder = RetryCheck => ~RetryWaits(queue)
  BY DEF AlertInv, LockTyped, RetryInv, Once
<1> DEFINE q == queue \o Summary(r)
<1>2. /\ q \in Seq(Calls) /\ Once(q)
      /\ RetryWaits(q) => RetryWaits(queue)
  <2>1. CASE Recovers(r)
    <3>1. outage \in 1 .. MaxOutages
      BY <2>1, SessionAssumption DEF Recovers, AlertInv, SessionInv, SessionTypeOK
    <3>2. outage \in Calls /\ outage # RetryCheck
      BY <3>1, AlertAssumption DEF Calls, Events
    <3>3. q = Append(queue, outage)
      BY <1>1, <2>1, <3>2 DEF Summary
    <3> QED BY <1>1, <3>2, <3>3, OthersJoin
  <2>2. CASE ~Recovers(r)
    <3>1. q = queue
      BY <1>1, <2>2 DEF Summary
    <3> QED BY <1>1, <3>1
  <2> QED BY <2>1, <2>2
<1>3. RetryCheck \in Calls
  BY DEF Calls
<1>4. q \o <<RetryCheck>> = Append(q, RetryCheck)
  BY <1>2, <1>3
<1>5. /\ RetryCheck \in S /\ Works(r) => queue' = Append(q, RetryCheck) /\ retrying' = "delivering"
      /\ RetryCheck \in S /\ ~Works(r) => queue' = queue /\ retrying' = "idle"
      /\ RetryCheck \notin S => queue' = q /\ retrying' = retrying
  BY <1>4 DEF Observed
<1> HIDE DEF q
<1>6. CASE RetryCheck \in S
  <2>1. holder # RetryCheck /\ ~RetryWaits(queue) /\ ~RetryWaits(q)
    BY <1>1, <1>2, <1>6
  <2>2. Once(Append(q, RetryCheck))
    BY <1>2, <2>1, RetryJoins
  <2> QED BY <1>1, <1>5, <1>6, <2>1, <2>2
<1>7. CASE RetryCheck \notin S
  BY <1>1, <1>2, <1>5, <1>7
<1> QED BY <1>6, <1>7

\* Every step keeps one round of the retry loop at a time.
LEMMA RetryStep ==
  ASSUME AlertInv, [Next]_vars
  PROVE  RetryInv'
<1>0. /\ queue \in Seq(Calls) /\ Once(queue) /\ Nobody # RetryCheck /\ RetryCheck \in Checks
      /\ RetryWaits(queue) \/ holder = RetryCheck => retrying = "delivering"
      /\ waitsOn[RetryCheck] # Nobody => retrying = "checking"
      /\ holder = RetryCheck => ~RetryWaits(queue)
      /\ waitsOn \in [Checks -> Checks \cup {Nobody}]
  BY AlertAssumption DEF AlertInv, LockTyped, RetryInv, Once, SessionInv, SessionTypeOK
<1> SUFFICES /\ RetryWaits(queue') \/ holder' = RetryCheck => retrying' = "delivering"
             /\ waitsOn'[RetryCheck] # Nobody => retrying' = "checking"
             /\ holder' = RetryCheck => ~RetryWaits(queue')
             /\ Once(queue')
  BY DEF RetryInv, Once, RetryWaits
<1> DEFINE Goal == /\ RetryWaits(queue') \/ holder' = RetryCheck => retrying' = "delivering"
                   /\ waitsOn'[RetryCheck] # Nobody => retrying' = "checking"
                   /\ holder' = RetryCheck => ~RetryWaits(queue')
                   /\ Once(queue')
<1>1. CASE UNCHANGED <<queue, retrying, waitsOn>> /\ (holder' = holder \/ holder' = Nobody)
  BY <1>0, <1>1
<1>2. ASSUME NEW e \in Events, BeginRaise(e) PROVE Goal
  <2>1. queue # <<>> /\ queue' = Tail(queue) /\ e # RetryCheck /\ UNCHANGED <<retrying, waitsOn>>
    BY <1>2 DEF BeginRaise, Free, sessionVars, adapterVars
  <2>2. holder' # RetryCheck
    BY <1>0, <1>2, <2>1 DEF BeginRaise, Free
  <2> QED BY <1>0, <2>1, <2>2, OneLeaves
<1>3. ASSUME NEW e \in Handoffs, Raise(e) PROVE Goal
  <2>1. e \in Calls /\ e # RetryCheck
    BY AlertAssumption DEF Calls, Events
  <2>2. queue' = Append(queue, e) /\ UNCHANGED <<holder, retrying, waitsOn>>
    BY <1>3 DEF Raise, sessionVars, adapterVars
  <2> QED BY <1>0, <2>1, <2>2, OthersJoin
<1>4. CASE BeginRetry
  <2>1. /\ queue # <<>> /\ Head(queue) = RetryCheck /\ queue' = Tail(queue)
        /\ UNCHANGED <<retrying, waitsOn>>
    BY <1>4 DEF BeginRetry, Free, sessionVars, adapterVars
  <2>2. RetryWaits(queue) /\ ~RetryWaits(queue') /\ Once(queue')
    BY <1>0, <2>1, OneLeaves
  <2> QED BY <1>0, <2>1, <2>2
<1>5. CASE RetryReturns
  <2>1. holder = RetryCheck /\ holder' = Nobody /\ UNCHANGED <<queue, waitsOn>>
    BY <1>5 DEF RetryReturns, Returns, sessionVars, adapterVars
  <2> QED BY <1>0, <2>1
<1>6. CASE Crash
  <2>1. queue' = <<>> /\ holder' = Nobody /\ waitsOn'[RetryCheck] = Nobody
    BY <1>0, <1>6 DEF Crash, Returns, MonitorCrash
  <2>2. ~RetryWaits(<<>>) /\ Once(<<>>)
    BY DEF RetryWaits, Once
  <2> QED BY <1>0, <2>1, <2>2
<1>7. CASE SendRefused \/ OutcomeUnknown \/ Rejected
  <2>1. sending # 0 /\ AlertFails /\ UNCHANGED <<queue, retrying, waitsOn>>
    BY <1>7, SendingTyped
    DEF SendRefused, OutcomeUnknown, Rejected, Invalidate, sessionVars, adapterVars
  <2>2. holder' = holder \/ holder' = Nobody
    BY <2>1 DEF AlertFails, Returns
  <2> QED BY <1>1, <2>1, <2>2
<1>8. CASE RetryNext \/ SentBefore \/ SendBegins \/ Accepted \/ MarkSent \/ UNCHANGED vars
  <2>1. UNCHANGED <<queue, retrying, waitsOn>>
    BY <1>8, Zenon DEF RetryNext, SentBefore, SendBegins, Accepted, MarkSent, vars, sessionVars,
       adapterVars, alertVars, lockVars
  <2>2. holder' = holder \/ holder' = Nobody
    BY <1>8, Zenon DEF RetryNext, SentBefore, SendBegins, Accepted, MarkSent, Returns, vars, alertVars,
       lockVars
  <2> QED BY <1>1, <2>1, <2>2
<1>9. CASE Gateway \/ Tick
  <2>1. UNCHANGED <<queue, retrying, waitsOn, holder>>
    BY <1>9, Zenon DEF Gateway, Tick, MonitorTick, SessionDrops, SessionReturns, Answers, adapterVars,
       alertVars, lockVars
  <2> QED BY <1>1, <2>1
<1>10. ASSUME NEW c \in Checks, CheckNow(c) PROVE Goal
  <2>1. /\ cache \in Readings /\ Observed(cache, {c}) /\ UNCHANGED <<holder, waitsOn>>
        /\ c = RetryCheck => retrying = "idle"
    BY <1>10 DEF CheckNow, CheckCached, AlertInv, SessionInv, SessionTypeOK, alertsButQueue, adapterVars
  <2>2. RetryCheck \in {c} => retrying # "delivering"
    BY <2>1
  <2>3. /\ RetryWaits(queue') \/ holder = RetryCheck => retrying' = "delivering"
        /\ holder = RetryCheck => ~RetryWaits(queue')
        /\ Once(queue')
        /\ RetryCheck \notin {c} => retrying' = retrying
    BY <2>1, <2>2, ObservedRetry
  <2> QED BY <1>0, <2>1, <2>3
<1>11. ASSUME NEW c \in Checks, CheckLater(c) PROVE Goal
  <2>1. /\ UNCHANGED <<queue, holder>>
        /\ c = RetryCheck => retrying = "idle"
        /\ retrying' = IF c = RetryCheck THEN "checking" ELSE retrying
    BY <1>11, Zenon DEF CheckLater, alertsButQueue
  <2>2. c # RetryCheck => waitsOn'[RetryCheck] = waitsOn[RetryCheck]
    BY <1>0, <1>11 DEF CheckLater, CheckAsks
  <2> QED BY <1>0, <2>1, <2>2
<1>12. ASSUME NEW c \in Checks, Answered(c) PROVE Goal
  <2>1. /\ fetch[c] \in Readings /\ Observed(fetch[c], Waiting(c)) /\ UNCHANGED holder
        /\ waitsOn' = [x \in Checks |-> IF waitsOn[x] = c THEN Nobody ELSE waitsOn[x]]
    BY <1>12 DEF Answered, FetchEnds, alertsButQueue
  <2>2. RetryCheck \in Waiting(c) => retrying # "delivering"
    BY <1>0, SessionAssumption DEF Waiting
  <2>3. /\ RetryWaits(queue') \/ holder = RetryCheck => retrying' = "delivering"
        /\ holder = RetryCheck => ~RetryWaits(queue')
        /\ Once(queue')
        /\ RetryCheck \notin Waiting(c) => retrying' = retrying
    BY <2>1, <2>2, ObservedRetry
  <2>4. waitsOn'[RetryCheck] # Nobody =>
          RetryCheck \notin Waiting(c) /\ waitsOn[RetryCheck] # Nobody
    BY <1>0, <2>1 DEF Waiting
  <2> QED BY <1>0, <2>1, <2>3, <2>4
<1> QED
  BY <1>2, <1>3, <1>4, <1>5, <1>6, <1>7, <1>8, <1>9, <1>10, <1>11, <1>12, StepKinds

\* Nothing was raised, sent or observed yet.
LEMMA AlertInvInit == Init => AlertInv
<1> SUFFICES ASSUME Init PROVE AlertInv
  OBVIOUS
<1>1. SessionInv
  BY SessionInvInit DEF Init
<1>2. /\ alerts = [a \in Ids |-> NoAlert] /\ alertOf = [e \in Events |-> 0] /\ told = {}
      /\ ledger = [t \in Texts |-> "none"] /\ failures = [a \in Ids |-> 0]
      /\ nextIn = [a \in Ids |-> 0] /\ queue = <<>> /\ holder = Nobody /\ todo = {}
      /\ sending = 0 /\ text = NoText /\ stage = "idle" /\ raiseLag = 0 /\ retryLag = 0
      /\ retrying = "idle" /\ crashes = 0 /\ reached = [a \in Ids |-> LongAgo]
  BY DEF Init
<1>3. /\ Cardinality({}) = 0 /\ 0 \in 0 .. Cardinality(Events) /\ IsFiniteSet(Events)
  BY Finite, FS_EmptySet, FS_CardinalityType
<1>4. /\ 0 \in 0 .. MaxLag /\ 0 \in 0 .. MaxRetries /\ 0 \in 0 .. MaxCrashes /\ 0 \in 0 .. Horizon
      /\ FloodMax \in Nat \ {0} /\ 0 \notin Ids /\ 0 \in Int
  BY AlertAssumption DEF Horizon, Ids
<1>5. TablesInv
  <2>1. alerts \in [Ids -> AlertRecord]
    BY <1>2, <1>3, <1>4 DEF NoAlert, Alert, AlertRecord, Kinds
  <2>2. \A a \in Ids : {e \in Events : alertOf[e] = a} = {}
    BY <1>2, <1>4
  <2> QED BY <1>2, <1>3, <2>1, <2>2 DEF TablesInv, OccurrencesCounted, NoAlert, Alert
<1>6. DataTyped /\ LockTyped /\ ClocksTyped
  BY <1>2, <1>4 DEF DataTyped, LockTyped, ClocksTyped
<1>7. SendInv /\ SentAlertsAreTold
  BY <1>2 DEF SendInv, SentAlertsAreTold, NoAlert, Alert
<1>8. WindowInv
  <2>1. ASSUME NEW start \in 0 .. MaxLag
        PROVE  Cardinality(Aged(start, start + Window)) <= FloodMax
    <3>1. Aged(start, start + Window) = {}
      BY <1>2 DEF Aged, NoAlert, Alert
    <3>2. Cardinality(Aged(start, start + Window)) = 0
      BY <1>3, <3>1
    <3> QED BY <1>4, <3>2
  <2>2. MarkedCap
    BY <2>1 DEF MarkedCap, Aged
  <2> QED BY <1>2, <2>2 DEF WindowInv
<1>9. RetryInv
  <2>1. waitsOn[RetryCheck] = Nobody /\ Nobody # RetryCheck
    BY AlertAssumption DEF Init, SessionInit
  <2> QED BY <1>2, <2>1 DEF RetryInv, RetryWaits
<1>10. ReachedInv
  <2>1. LongAgo \in 0 .. LongAgo
    BY AlertAssumption DEF LongAgo
  <2>2. \A a \in Ids : alerts[a].status # "sent"
    BY <1>2 DEF NoAlert, Alert
  <2> QED BY <1>2, <2>1, <2>2 DEF ReachedInv
<1> QED BY <1>1, <1>5, <1>6, <1>7, <1>8, <1>9, <1>10 DEF AlertInv

\* The inductive invariant.
LEMMA AlertInvStep == AlertInv /\ [Next]_vars => AlertInv'
<1> SUFFICES ASSUME AlertInv, [Next]_vars PROVE AlertInv'
  OBVIOUS
<1>1. SessionInv'
  <2>1. SessionInv
    BY DEF AlertInv
  <2> QED BY <2>1, SessionMoves, SessionInvStep, SessionInvCrash
<1> QED
  BY <1>1, TablesStep, DataStep, LockTypedStep, ClocksStep, SendStep, RetryStep, ToldStep, WindowStep,
  ReachedStep DEF AlertInv

\* It holds in every state of every behaviour.
LEMMA Invariance == Spec => []AlertInv
BY AlertInvInit, AlertInvStep, PTL DEF Spec

\* Alerts, the lock and the monitor keep their types: no retry is counted past
\* the limit, no call holds a clock reading older than the bound (alerts.ts,
\* session-monitor.ts).
THEOREM Typed == Spec => []TypeOK
<1>1. AlertInv => TypeOK
  BY DEF AlertInv, SessionInv, TablesInv, DataTyped, LockTyped, ClocksTyped, ReachedInv,
     TypeOK
<1> QED BY <1>1, Invariance, PTL

\* An alert is marked sent only when WhatsApp accepted its final text
\* (alerts.ts, deliverPendingAlert).
THEOREM SentIsTold == Spec => []SentAlertsAreTold
<1>1. AlertInv => SentAlertsAreTold
  BY DEF AlertInv
<1> QED BY <1>1, Invariance, PTL

\* What reached the owner within Window minutes, less the longest a delivery
\* takes, is marked within the window the code counts.
LEMMA ReachedIsMarked ==
  ASSUME AlertInv
  PROVE  ReachedWithin(Window - MaxLag) \subseteq Aged(0, 0 + Window)
<1> SUFFICES ASSUME NEW a \in Ids, alerts[a].status = "sent", reached[a] <= Window - MaxLag
             PROVE  alerts[a].age \in 0 .. 0 + Window
  BY DEF ReachedWithin, Aged
<1>1. Window \in Nat /\ MaxLag \in Nat /\ alerts[a].age \in 0 .. Horizon
  BY AlertAssumption DEF AlertInv, TablesInv, AlertRecord
<1>2. reached[a] \in 0 .. LongAgo /\ alerts[a].age <= reached[a] + MaxLag
  BY DEF AlertInv, ReachedInv
<1> QED BY <1>1, <1>2 DEF Horizon, LongAgo

\* At most FloodMax alerts that the program knows delivered reach the owner in
\* any Window minutes less the longest time from a call's reading of the clock
\* to the delivery, by the time they reached him and not by the time written
\* beside them (alerts.ts, sentInWindow and sentAt).
THEOREM NoFlood == Spec => []FloodCap
<1>1. ASSUME AlertInv PROVE FloodCap
  <2>1. Cardinality(Aged(0, 0 + Window)) <= FloodMax /\ FloodMax \in Nat
    BY <1>1, AlertAssumption DEF AlertInv, WindowInv, MarkedCap, Aged
  <2>2. /\ ReachedWithin(Window - MaxLag) \in SUBSET Ids /\ Aged(0, 0 + Window) \in SUBSET Ids
        /\ ReachedWithin(Window - MaxLag) \subseteq Aged(0, 0 + Window)
    BY <1>1, ReachedIsMarked DEF ReachedWithin, Aged
  <2>3. /\ Cardinality(ReachedWithin(Window - MaxLag)) \in Nat
        /\ Cardinality(Aged(0, 0 + Window)) \in Nat
        /\ Cardinality(ReachedWithin(Window - MaxLag)) <= Cardinality(Aged(0, 0 + Window))
    BY <2>2, FewerRows
  <2> QED BY <2>1, <2>3 DEF FloodCap
<1> QED BY <1>1, Invariance, PTL

\* Every event is counted on one alert, once (alerts.ts, queueAlert).
THEOREM EventsCountedOnce == Spec => []OccurrencesCounted
<1>1. AlertInv => OccurrencesCounted
  BY DEF AlertInv, TablesInv
<1> QED BY <1>1, Invariance, PTL

\* No check observes an older reading of the session after a newer one
\* (channel/waha.ts, the one request in flight).
THEOREM InOrder == Spec => ReadingsInOrder
<1>1. ASSUME AlertInv, [Next]_vars PROVE [crashes' = crashes => last' >= last]_vars
  <2>1. CASE Crash
    <3>1. crashes' # crashes
      BY <2>1 DEF Crash, AlertInv, ClocksTyped
    <3> QED BY <3>1
  <2>2. CASE SessionStep
    <3>1. SessionInv
      BY <1>1 DEF AlertInv
    <3> QED BY <2>2, <3>1, SessionInvStep
  <2> QED BY <1>1, <2>1, <2>2, SessionMoves
<1> QED BY <1>1, Invariance, PTL DEF Spec, ReadingsInOrder
=============================================================================
