----------------------- MODULE OutboundDeliveryProofs -----------------------
(* Proofs about OutboundDelivery, for every set of keys, senders and customers. *)
EXTENDS OutboundDelivery, TLAPS

-----------------------------------------------------------------------------
(* Lemmas about rows and calls. *)

\* A ledger row of typed parts is typed.
LEMMA RowTyped ==
  ASSUME NEW st \in Statuses, NEW b \in Bodies, NEW c \in Codes, NEW l \in BOOLEAN
  PROVE  Row(st, b, c, l) \in LedgerRow
BY DEF Row, LedgerRow

\* A call that joins the lock is typed and busy.
LEMMA CallTyped ==
  ASSUME NEW k \in Keys, NEW b \in Bodies, NEW p \in {"queued", "sleeping", "paced", "sending"}
  PROVE  Call(k, b, p) \in CallRecord /\ Call(k, b, p).key # None /\ Call(k, b, p).pc # "idle"
BY OutboundAssumption DEF Call, CallRecord

SendersOK(f) ==
  /\ f \in [Senders -> CallRecord]
  /\ \A s \in Senders : f[s].key = None <=> f[s].pc = "idle"

\* An idle call has no key.
LEMMA IdleTyped == IdleCall \in CallRecord /\ IdleCall.key = None /\ IdleCall.pc = "idle"
BY DEF IdleCall, Call, CallRecord, Bodies

\* A busy call has one.
LEMMA BusyKey ==
  ASSUME SendersOK(sender), NEW s \in Senders, sender[s].pc # "idle"
  PROVE  Key(s) \in Keys /\ sender[s].body \in Bodies
BY DEF SendersOK, CallRecord, Key

\* The confirmation states.
ConfirmationOK(f) == f \in [Keys -> {"absent", "pending", "sent", "not_required"}]

\* Settling a confirmation keeps its states.
LEMMA AcknowledgedTyped ==
  ASSUME ConfirmationOK(confirmation), toConfirm \subseteq Keys,
         NEW k \in Keys, NEW ok \in BOOLEAN, Acknowledged(k, ok)
  PROVE  ConfirmationOK(confirmation') /\ toConfirm' \subseteq Keys
<1>1. ConfirmationOK(confirmation')
  BY Zenon DEF Acknowledged, ConfirmationOK
<1>2. toConfirm' \subseteq Keys
  BY DEF Acknowledged
<1> QED BY <1>1, <1>2

\* A call that returns leaves calls, lock and confirmations typed.
LEMMA ReturnTyped ==
  ASSUME SendersOK(sender), lock \in Seq(Senders), ConfirmationOK(confirmation),
         toConfirm \subseteq Keys,
         NEW s \in Senders, sender[s].pc # "idle", AtHead(s),
         NEW ok \in BOOLEAN, Return(s, ok)
  PROVE  /\ SendersOK(sender') /\ lock' \in Seq(Senders)
         /\ ConfirmationOK(confirmation') /\ toConfirm' \subseteq Keys
<1>1. SendersOK(sender')
  BY IdleTyped DEF SendersOK, Return
<1>2. lock' \in Seq(Senders)
  BY DEF Return, AtHead
<1>3. ConfirmationOK(confirmation') /\ toConfirm' \subseteq Keys
  BY AcknowledgedTyped, BusyKey DEF Return
<1> QED BY <1>1, <1>2, <1>3

\* A call that joins does too.
LEMMA JoinTyped ==
  ASSUME SendersOK(sender), lock \in Seq(Senders),
         NEW s \in Senders, NEW k \in Keys, NEW b \in Bodies, Join(s, k, b)
  PROVE  SendersOK(sender') /\ lock' \in Seq(Senders)
<1>1. SendersOK(sender')
  BY CallTyped DEF SendersOK, Join
<1>2. lock' \in Seq(Senders)
  BY DEF Join
<1> QED BY <1>1, <1>2

\* Replacing one row keeps the ledger typed.
LEMMA RowSet ==
  ASSUME ledger \in [Keys -> LedgerRow], NEW k \in Keys, NEW row \in LedgerRow,
         ledger' = [ledger EXCEPT ![k] = row]
  PROVE  ledger' \in [Keys -> LedgerRow]
OBVIOUS

\* A row has a text and a code.
LEMMA LedgerBody ==
  ASSUME ledger \in [Keys -> LedgerRow], NEW k \in Keys
  PROVE  ledger[k].body \in Bodies /\ ledger[k].code \in Codes
BY DEF LedgerRow

\* markOutboundSent keeps the ledger typed.
LEMMA MarkSentTyped ==
  ASSUME ledger \in [Keys -> LedgerRow], NEW k \in Keys, MarkSent(k)
  PROVE  ledger' \in [Keys -> LedgerRow]
<1>1. Row("sent", ledger[k].body, "none", FALSE) \in LedgerRow
  BY RowTyped, LedgerBody DEF Statuses, Codes
<1>2. ledger' = [ledger EXCEPT ![k] = Row("sent", ledger[k].body, "none", FALSE)]
  BY DEF MarkSent
<1> QED BY <1>1, <1>2, RowSet

\* The startup statement does too.
LEMMA RestartedTyped ==
  ASSUME ledger \in [Keys -> LedgerRow]
  PROVE  Restarted \in [Keys -> LedgerRow]
<1>1. ASSUME NEW j \in Keys PROVE Row("uncertain", ledger[j].body, "unknown", FALSE) \in LedgerRow
  BY RowTyped, LedgerBody DEF Statuses, Codes
<1> QED BY <1>1 DEF Restarted

\* The tables, the pacing state, the process and the provider, each well formed.
DatabaseOK ==
  /\ ledger \in [Keys -> LedgerRow]
  /\ optedOut \in [Customers -> BOOLEAN]
  /\ disclosed \in [Customers -> BOOLEAN]
  /\ ConfirmationOK(confirmation)
  /\ decision \in [Customers -> Keys \cup {None}]

PacingOK == sentToday \in Nat /\ cooling \in BOOLEAN /\ busyCooling \subseteq Customers

ProcessOK ==
  /\ lock \in Seq(Senders)
  /\ SendersOK(sender)
  /\ toConfirm \subseteq Keys

ProviderOK ==
  /\ flight \in [Keys -> {"none", "plain", "introducing"}]
  /\ wire \in [Keys -> 0..MaxCopies]
  /\ introductions \in [Customers -> 0..MaxCopies]
  /\ crashes \in Nat

\* The type invariant by its parts.
LEMMA TypeParts == TypeOK <=> DatabaseOK /\ PacingOK /\ ProcessOK /\ ProviderOK
BY DEF TypeOK, DatabaseOK, PacingOK, ProcessOK, ProviderOK, ConfirmationOK, SendersOK

\* And after a step.
LEMMA TypePartsNext == TypeOK' <=> DatabaseOK' /\ PacingOK' /\ ProcessOK' /\ ProviderOK'
BY DEF TypeOK, DatabaseOK, PacingOK, ProcessOK, ProviderOK, ConfirmationOK, SendersOK

\* The first state is typed.
LEMMA TypeInit == Init => TypeOK
<1> SUFFICES ASSUME Init PROVE TypeOK
  OBVIOUS
<1>1. DatabaseOK
  <2>1. Row("none", Fixed, "none", FALSE) \in LedgerRow
    BY RowTyped DEF Statuses, Codes, Bodies
  <2> QED BY <2>1 DEF Init, DatabaseOK, ConfirmationOK
<1>2. PacingOK
  BY DEF Init, PacingOK
<1>3. ProcessOK
  BY IdleTyped DEF Init, ProcessOK, SendersOK
<1>4. ProviderOK
  BY OutboundAssumption DEF Init, ProviderOK
<1> QED BY <1>1, <1>2, <1>3, <1>4, TypeParts

\* A recorded message keeps the pacing counters typed.
LEMMA RecordTyped ==
  ASSUME PacingOK, NEW k \in Keys, RecordMessage(k)
  PROVE  PacingOK'
BY OutboundAssumption DEF PacingOK, RecordMessage

\* Return, in the parts of the type invariant.
LEMMA ReturnOK ==
  ASSUME DatabaseOK, ProcessOK, NEW s \in Senders, sender[s].pc # "idle", AtHead(s),
         NEW ok \in BOOLEAN, Return(s, ok)
  PROVE  ProcessOK' /\ ConfirmationOK(confirmation')
BY ReturnTyped DEF ProcessOK, DatabaseOK

\* The surroundings, crashes included, keep the types.
LEMMA TypeWorld == TypeOK /\ World => TypeOK'
<1> SUFFICES ASSUME DatabaseOK, PacingOK, ProcessOK, ProviderOK, World
             PROVE  DatabaseOK' /\ PacingOK' /\ ProcessOK' /\ ProviderOK'
  BY TypeParts, TypePartsNext
<1> USE DEF vars, databaseVars, pacingVars, processVars, providerVars
<1>1. ASSUME NEW k \in Keys, Arrive(k)
      PROVE  DatabaseOK' /\ PacingOK' /\ ProcessOK' /\ ProviderOK'
  <2>1. DatabaseOK' /\ PacingOK' /\ ProcessOK'
    BY <1>1 DEF Arrive, DatabaseOK, PacingOK, ProcessOK
  <2>2. flight' \in [Keys -> {"none", "plain", "introducing"}]
    BY <1>1 DEF Arrive, ProviderOK
  <2>3. \A n \in 0..MaxCopies : OneMore(n) \in 0..MaxCopies
    BY OutboundAssumption DEF OneMore
  <2>4. wire' \in [Keys -> 0..MaxCopies]
    BY <1>1, <2>3 DEF Arrive, ProviderOK
  <2>5. introductions' \in [Customers -> 0..MaxCopies]
    BY <1>1, <2>3 DEF Arrive, ProviderOK
  <2> QED BY <1>1, <2>1, <2>2, <2>4, <2>5 DEF Arrive, ProviderOK
<1>2. ASSUME NEW k \in Keys, ResendWindowLapses(k)
      PROVE  DatabaseOK' /\ PacingOK' /\ ProcessOK' /\ ProviderOK'
  <2>1. Row("sent", ledger[k].body, ledger[k].code, TRUE) \in LedgerRow
    BY RowTyped, LedgerBody DEF DatabaseOK, Statuses
  <2>2. ledger' \in [Keys -> LedgerRow]
    BY <1>2, <2>1, RowSet DEF ResendWindowLapses, DatabaseOK
  <2> QED BY <1>2, <2>2 DEF ResendWindowLapses, DatabaseOK, PacingOK, ProcessOK, ProviderOK
<1>3. ASSUME NEW k \in Keys, RecordConsent(k)
      PROVE  DatabaseOK' /\ PacingOK' /\ ProcessOK' /\ ProviderOK'
  <2>1. optedOut' \in [Customers -> BOOLEAN]
    BY <1>3, Zenon DEF RecordConsent, DatabaseOK
  <2>2. ConfirmationOK(confirmation') /\ decision' \in [Customers -> Keys \cup {None}]
    BY <1>3 DEF RecordConsent, Decided, DatabaseOK, ConfirmationOK
  <2>3. toConfirm' \subseteq Keys
    BY <1>3 DEF RecordConsent, ProcessOK
  <2>4. UNCHANGED <<ledger, disclosed, sentToday, cooling, busyCooling, lock, sender,
                    flight, wire, introductions, crashes>>
    BY <1>3 DEF RecordConsent
  <2>5. DatabaseOK'
    BY <2>1, <2>2, <2>4 DEF DatabaseOK, ConfirmationOK
  <2> QED BY <2>3, <2>4, <2>5 DEF PacingOK, ProcessOK, ProviderOK
<1>4. ASSUME NEW c \in Customers, BusyCooldownEnds(c)
      PROVE  DatabaseOK' /\ PacingOK' /\ ProcessOK' /\ ProviderOK'
  BY <1>4 DEF BusyCooldownEnds, DatabaseOK, PacingOK, ProcessOK, ProviderOK
<1>5. ASSUME GapPasses
      PROVE  DatabaseOK' /\ PacingOK' /\ ProcessOK' /\ ProviderOK'
  <2>1. SendersOK(sender')
    <3>1. ASSUME NEW s \in Senders, sender[s].pc = "sleeping"
          PROVE  /\ Call(sender[s].key, sender[s].body, "paced") \in CallRecord
                 /\ Call(sender[s].key, sender[s].body, "paced").key # None
                 /\ Call(sender[s].key, sender[s].body, "paced").pc # "idle"
      BY <3>1, BusyKey, CallTyped DEF ProcessOK, Key
    <3> QED BY <1>5, <3>1 DEF GapPasses, ProcessOK, SendersOK
  <2> QED BY <1>5, <2>1 DEF GapPasses, DatabaseOK, PacingOK, ProcessOK, ProviderOK
<1>6. ASSUME Midnight
      PROVE  DatabaseOK' /\ PacingOK' /\ ProcessOK' /\ ProviderOK'
  BY <1>6 DEF Midnight, DatabaseOK, PacingOK, ProcessOK, ProviderOK
<1>7. ASSUME PowerLoss PROVE ProcessOK' /\ crashes' \in Nat
  BY <1>7, IdleTyped DEF PowerLoss, ProcessOK, ProviderOK, SendersOK
<1>8. ASSUME Crash
      PROVE  DatabaseOK' /\ PacingOK' /\ ProcessOK' /\ ProviderOK'
  <2>1. ledger' \in [Keys -> LedgerRow]
    BY <1>8, RestartedTyped DEF Crash, DatabaseOK
  <2> QED BY <1>8, <1>7, <2>1 DEF Crash, DatabaseOK, PacingOK, ProviderOK
<1>9. ASSUME RetryConfirmations
      PROVE  DatabaseOK' /\ PacingOK' /\ ProcessOK' /\ ProviderOK'
  BY <1>9 DEF RetryConfirmations, DatabaseOK, PacingOK, ProcessOK, ProviderOK
<1>10. ASSUME NEW s \in Senders, CrashWhileRecording(s)
       PROVE  DatabaseOK' /\ PacingOK' /\ ProcessOK' /\ ProviderOK'
  <2>1. Key(s) \in Keys
    BY <1>10, BusyKey DEF CrashWhileRecording, Accepted, ProcessOK
  <2>2. ledger' \in [Keys -> LedgerRow]
    <3>1. Row("sent", ledger[Key(s)].body, "none", FALSE) \in LedgerRow
      BY <2>1, RowTyped, LedgerBody DEF Statuses, Codes, DatabaseOK
    <3> DEFINE row == Row("sent", ledger[Key(s)].body, "none", FALSE)
    <3>2. ledger' = [Restarted EXCEPT ![Key(s)] = row]
      BY <1>10 DEF CrashWhileRecording
    <3>3. Restarted \in [Keys -> LedgerRow]
      BY RestartedTyped DEF DatabaseOK
    <3>4. row \in LedgerRow
      BY <3>1
    <3> HIDE DEF row
    <3> QED BY <2>1, <3>2, <3>3, <3>4
  <2>3. PacingOK'
    BY <1>10, <2>1, RecordTyped DEF CrashWhileRecording, PacingOK
  <2> QED BY <1>10, <1>7, <2>2, <2>3 DEF CrashWhileRecording, DatabaseOK, ProviderOK
<1> QED BY <1>1, <1>2, <1>3, <1>4, <1>5, <1>6, <1>8, <1>9, <1>10 DEF World

\* The code before the lock does.
LEMMA TypeCalls == ASSUME TypeOK, NEW s \in Senders, Calls(s) PROVE TypeOK'
<1> SUFFICES ASSUME DatabaseOK, PacingOK, ProcessOK, ProviderOK
             PROVE  DatabaseOK' /\ PacingOK' /\ ProcessOK' /\ ProviderOK'
  BY TypeParts, TypePartsNext
<1> USE DEF vars, databaseVars, pacingVars, processVars, providerVars
<1>1. ASSUME NEW k \in Keys, StartConfirmation(s, k)
      PROVE  DatabaseOK' /\ PacingOK' /\ ProcessOK' /\ ProviderOK'
  <2>1. UNCHANGED <<ledger, optedOut, disclosed, decision, sentToday, cooling, busyCooling,
                    flight, wire, introductions, crashes>>
    BY <1>1 DEF StartConfirmation
  <2>2. CASE MayTry(k, Fixed)
    <3>1. Join(s, k, Fixed) /\ UNCHANGED <<confirmation, toConfirm>>
      BY <1>1, <2>2 DEF StartConfirmation
    <3>2. SendersOK(sender') /\ lock' \in Seq(Senders)
      BY <3>1, JoinTyped DEF ProcessOK, Bodies
    <3> QED BY <2>1, <3>1, <3>2 DEF DatabaseOK, PacingOK, ProcessOK, ProviderOK
  <2>3. CASE ~MayTry(k, Fixed)
    <3>1. Acknowledged(k, TRUE) /\ UNCHANGED <<lock, sender>>
      BY <1>1, <2>3 DEF StartConfirmation
    <3>2. ConfirmationOK(confirmation') /\ toConfirm' \subseteq Keys
      BY <3>1, AcknowledgedTyped DEF DatabaseOK, ProcessOK
    <3> QED BY <2>1, <3>1, <3>2 DEF DatabaseOK, PacingOK, ProcessOK, ProviderOK
  <2> QED BY <2>2, <2>3
<1>2. ASSUME NEW k \in Keys, NEW b \in Texts(k), Start(s, k, b)
      PROVE  DatabaseOK' /\ PacingOK' /\ ProcessOK' /\ ProviderOK'
  <2>1. b \in Bodies
    BY DEF Texts, Bodies
  <2>2. SendersOK(sender') /\ lock' \in Seq(Senders)
    BY <1>2, <2>1, JoinTyped DEF Start, ProcessOK
  <2> QED BY <1>2, <2>2 DEF Start, DatabaseOK, PacingOK, ProcessOK, ProviderOK
<1> QED BY <1>1, <1>2 DEF Calls

\* The code inside the lock does.
LEMMA TypeLock == ASSUME TypeOK, NEW s \in Senders, LockStep(s), AtHead(s) PROVE TypeOK'
<1> SUFFICES ASSUME DatabaseOK, PacingOK, ProcessOK, ProviderOK
             PROVE  DatabaseOK' /\ PacingOK' /\ ProcessOK' /\ ProviderOK'
  BY TypeParts, TypePartsNext
<1> USE DEF vars, databaseVars, pacingVars, processVars, providerVars
\* Steps that only return.
<1>1. ASSUME sender[s].pc # "idle", NEW ok \in BOOLEAN, Return(s, ok),
             UNCHANGED <<ledger, optedOut, disclosed, decision, pacingVars, providerVars, crashes>>
      PROVE  DatabaseOK' /\ PacingOK' /\ ProcessOK' /\ ProviderOK'
  BY <1>1, ReturnOK DEF DatabaseOK, PacingOK, ProviderOK
<1>2. CASE SuppressBusyReply(s)
  BY <1>1, <1>2 DEF SuppressBusyReply
<1>3. CASE PacingRefuses(s)
  BY <1>1, <1>3 DEF PacingRefuses
<1>4. CASE ContentRefused(s)
  BY <1>1, <1>4 DEF ContentRefused, Paced
<1>5. ASSUME sender[s].pc # "idle" PROVE Key(s) \in Keys /\ sender[s].body \in Bodies
  BY <1>5, BusyKey DEF ProcessOK
\* Steps that move the call on.
<1>6. ASSUME NEW p \in {"queued", "sleeping", "paced", "sending"}, sender[s].pc # "idle",
             sender' = [sender EXCEPT ![s] = Call(Key(s), sender[s].body, p)],
             UNCHANGED <<lock, toConfirm>>
      PROVE  ProcessOK'
  <2>1. SendersOK(sender')
    BY <1>5, <1>6, CallTyped DEF ProcessOK, SendersOK
  <2> QED BY <1>6, <2>1 DEF ProcessOK
<1>7. CASE PacingAllows(s)
  <2>1. ProcessOK'
    BY <1>6, <1>7 DEF PacingAllows, AfterPacing, Key
  <2> QED BY <1>7, <2>1 DEF PacingAllows, DatabaseOK, PacingOK, ProviderOK
<1>8. CASE BeginAttempt(s)
  <2>1. ProcessOK'
    BY <1>6, <1>8 DEF BeginAttempt, Paced, Key
  <2>2. Key(s) \in Keys /\ sender[s].body \in Bodies
    BY <1>5, <1>8 DEF BeginAttempt, Paced
  <2>3. Row("pending", sender[s].body, "none", FALSE) \in LedgerRow
    BY <2>2, RowTyped DEF Statuses, Codes
  <2>4. ledger' \in [Keys -> LedgerRow]
    BY <1>8, <2>2, <2>3 DEF BeginAttempt, DatabaseOK
  <2>5. flight' \in [Keys -> {"none", "plain", "introducing"}]
    BY <1>8, <2>2 DEF BeginAttempt, ProviderOK
  <2> QED BY <1>8, <2>1, <2>4, <2>5 DEF BeginAttempt, DisclosedAtStart, DatabaseOK, PacingOK, ProviderOK
<1>9. CASE AttemptRefused(s)
  <2>1. Key(s) \in Keys /\ sender[s].pc # "idle"
    BY <1>5, <1>9 DEF AttemptRefused, Paced
  <2>2. Row("uncertain", ledger[Key(s)].body, "unknown", FALSE) \in LedgerRow
    BY <2>1, RowTyped, LedgerBody DEF Statuses, Codes, DatabaseOK
  <2>3. ledger' \in [Keys -> LedgerRow]
    BY <1>9, <2>1, <2>2 DEF AttemptRefused, DatabaseOK
  <2>4. ProcessOK' /\ ConfirmationOK(confirmation')
    BY <1>9, <2>1, ReturnOK DEF AttemptRefused
  <2> QED BY <1>9, <2>3, <2>4 DEF AttemptRefused, DatabaseOK, PacingOK, ProviderOK
<1>10. CASE SendConfirmed(s)
  <2>1. Key(s) \in Keys /\ sender[s].pc # "idle"
    BY <1>5, <1>10 DEF SendConfirmed, Accepted
  <2>2. ledger' \in [Keys -> LedgerRow]
    BY <1>10, <2>1, MarkSentTyped DEF SendConfirmed, DatabaseOK
  <2>3. PacingOK'
    BY <1>10, <2>1, RecordTyped DEF SendConfirmed
  <2>4. disclosed' \in [Customers -> BOOLEAN]
    BY <1>10 DEF SendConfirmed, DatabaseOK
  <2>5. ProcessOK' /\ ConfirmationOK(confirmation')
    BY <1>10, <2>1, ReturnOK DEF SendConfirmed
  <2> QED BY <1>10, <2>2, <2>3, <2>4, <2>5 DEF SendConfirmed, DatabaseOK, ProviderOK
<1>11. CASE SendRejected(s)
  <2>1. Key(s) \in Keys /\ sender[s].pc # "idle"
    BY <1>5, <1>11 DEF SendRejected
  <2>2. ASSUME NEW code \in {"channel_unavailable", "provider_rejected"}
        PROVE  Row("failed", ledger[Key(s)].body, code, FALSE) \in LedgerRow
    BY <2>1, RowTyped, LedgerBody DEF Statuses, Codes, DatabaseOK
  <2>3. ledger' \in [Keys -> LedgerRow]
    BY <1>11, <2>1, <2>2 DEF SendRejected, DatabaseOK
  <2>4. ProcessOK' /\ ConfirmationOK(confirmation')
    BY <1>11, <2>1, ReturnOK DEF SendRejected
  <2>5. flight' \in [Keys -> {"none", "plain", "introducing"}]
    BY <1>11, <2>1 DEF SendRejected, ProviderOK
  <2> QED BY <1>11, <2>3, <2>4, <2>5 DEF SendRejected, DatabaseOK, PacingOK, ProviderOK
<1>12. CASE SendTimesOut(s)
  <2>1. Key(s) \in Keys /\ sender[s].pc # "idle"
    BY <1>5, <1>12 DEF SendTimesOut
  <2>2. Row("uncertain", ledger[Key(s)].body, "unknown", FALSE) \in LedgerRow
    BY <2>1, RowTyped, LedgerBody DEF Statuses, Codes, DatabaseOK
  <2>3. ledger' \in [Keys -> LedgerRow]
    BY <1>12, <2>1, <2>2 DEF SendTimesOut, DatabaseOK
  <2>4. ProcessOK' /\ ConfirmationOK(confirmation')
    BY <1>12, <2>1, ReturnOK DEF SendTimesOut
  <2> QED BY <1>12, <2>3, <2>4 DEF SendTimesOut, DatabaseOK, PacingOK, ProviderOK
<1> QED BY <1>2, <1>3, <1>4, <1>7, <1>8, <1>9, <1>10, <1>11, <1>12 DEF LockStep

-----------------------------------------------------------------------------
(* The invariant.  A call past the pacing decision has the lock, so there is  *)
(* one of them; what it knows about the ledger, the cap and the gap cannot    *)
(* change under it; and a permanent row tells what can have happened to the   *)
(* one copy that was handed over.                                             *)

Holding == {"sleeping", "paced", "sending"}

LockInv == \A s \in Senders : sender[s].pc \in Holding => AtHead(s)

LedgerInv ==
  \A k \in Keys : Permanent(k) =>
    /\ ledger[k].lapsed = FALSE
    /\ ledger[k].status \in {"none", "failed"} => wire[k] = 0 /\ flight[k] = "none"
    /\ ledger[k].status = "sent" => wire[k] = 1
    /\ wire[k] \in {0, 1}
    /\ wire[k] = 1 => flight[k] = "none"

SendingInv ==
  \A s \in Senders : sender[s].pc = "sending" =>
    /\ ledger[Key(s)].status = "pending"
    /\ Permanent(Key(s)) /\ flight[Key(s)] = "none" => wire[Key(s)] = 1

CapInv ==
  /\ sentToday <= DailyCap
  /\ \A s \in Senders : sender[s].pc \in Holding => sentToday < DailyCap

SpaceInv == \A s \in Senders : sender[s].pc = "paced" => ~cooling

\* A pending row is one a call is waiting for.
PendingInv ==
  \A k \in Keys : ledger[k].status = "pending" =>
    \E s \in Senders : sender[s].pc = "sending" /\ Key(s) = k

IInv == TypeOK /\ LockInv /\ LedgerInv /\ SendingInv /\ CapInv /\ SpaceInv /\ PendingInv

\* The invariant holds at first.
LEMMA InvInit == Init => IInv
<1> SUFFICES ASSUME Init PROVE IInv
  OBVIOUS
<1>1. TypeOK
  BY TypeInit
<1>2. LockInv /\ SendingInv /\ SpaceInv
  BY DEF Init, LockInv, SendingInv, SpaceInv, IdleCall, Call, Holding
<1>3. LedgerInv
  BY DEF Init, LedgerInv, Row
<1>4. CapInv
  BY OutboundAssumption DEF Init, CapInv, IdleCall, Call, Holding
<1>5. PendingInv
  BY DEF Init, PendingInv, Row
<1> QED BY <1>1, <1>2, <1>3, <1>4, <1>5 DEF IInv

\* After a return and after a crash nobody holds the lock.
LEMMA NobodyHolds ==
  ASSUME ProcessOK, LockInv, NEW s \in Senders, AtHead(s), NEW ok, Return(s, ok)
  PROVE  \A t \in Senders : sender'[t].pc \notin Holding
BY DEF ProcessOK, SendersOK, LockInv, AtHead, Return, IdleCall, Call, Holding

\* A crash ends every call.
LEMMA NobodyHoldsAfterCrash ==
  ASSUME PowerLoss PROVE \A t \in Senders : sender'[t].pc \notin Holding
BY DEF PowerLoss, IdleCall, Call, Holding

\* What is said of calls past pacing holds when there are none.
LEMMA NobodyCarries ==
  ASSUME \A t \in Senders : sender'[t].pc \notin Holding
  PROVE  LockInv' /\ SendingInv' /\ SpaceInv'
BY DEF LockInv, SendingInv, SpaceInv, Holding

\* A call that joins does not disturb the one that holds the lock.
LEMMA JoinKeeps ==
  ASSUME ProcessOK, LockInv, NEW s \in Senders, sender[s].pc = "idle",
         NEW k \in Keys, NEW b \in Bodies, Join(s, k, b)
  PROVE  /\ LockInv'
         /\ \A t \in Senders : sender'[t].pc \in Holding => sender'[t] = sender[t]
<1>1. \A t \in Senders : t # s => sender'[t] = sender[t]
  BY DEF ProcessOK, SendersOK, Join
<1>2. sender'[s].pc = "queued"
  BY DEF ProcessOK, SendersOK, Join, Call
<1>3. \A t \in Senders : sender'[t].pc \in Holding => sender'[t] = sender[t]
  BY <1>1, <1>2 DEF Holding
<1>4. \A t \in Senders : AtHead(t) => AtHead(t)'
  BY DEF ProcessOK, Join, AtHead
<1> QED BY <1>3, <1>4 DEF LockInv

\* A call that joins keeps the invariant.
LEMMA JoinInv ==
  ASSUME IInv, NEW s \in Senders, sender[s].pc = "idle",
         NEW k \in Keys, NEW b \in Bodies, Join(s, k, b),
         UNCHANGED <<ledger, flight, wire, sentToday, cooling>>
  PROVE  LockInv' /\ LedgerInv' /\ SendingInv' /\ CapInv' /\ SpaceInv'
<1>1. LockInv' /\ \A t \in Senders : sender'[t].pc \in Holding => sender'[t] = sender[t]
  BY JoinKeeps, TypeParts DEF IInv
<1>2. LedgerInv'
  BY DEF IInv, LedgerInv
<1>3. SendingInv'
  BY <1>1 DEF IInv, SendingInv, Holding, Key
<1>4. CapInv'
  BY <1>1 DEF IInv, CapInv
<1>5. SpaceInv'
  BY <1>1 DEF IInv, SpaceInv, Holding
<1> QED BY <1>1, <1>2, <1>3, <1>4, <1>5

\* The row of one key is rewritten and nothing else of the ledger moves.
LEMMA RowRewritten ==
  ASSUME TypeOK, LedgerInv, NEW k \in Keys, NEW row,
         ledger' = [ledger EXCEPT ![k] = row], UNCHANGED wire,
         \A j \in Keys : j # k => flight'[j] = flight[j],
         Permanent(k) =>
           /\ row.lapsed = FALSE
           /\ row.status \in {"none", "failed"} => wire[k] = 0 /\ flight'[k] = "none"
           /\ row.status = "sent" => wire[k] = 1
           /\ wire[k] = 1 => flight'[k] = "none"
  PROVE  LedgerInv'
<1> SUFFICES ASSUME NEW j \in Keys, Permanent(j)
             PROVE  /\ ledger'[j].lapsed = FALSE
                    /\ ledger'[j].status \in {"none", "failed"} =>
                         wire'[j] = 0 /\ flight'[j] = "none"
                    /\ ledger'[j].status = "sent" => wire'[j] = 1
                    /\ wire'[j] \in {0, 1}
                    /\ wire'[j] = 1 => flight'[j] = "none"
  BY DEF LedgerInv
<1>1. CASE j = k
  BY <1>1 DEF LedgerInv, TypeOK
<1>2. CASE j # k
  BY <1>2 DEF LedgerInv, TypeOK
<1> QED BY <1>1, <1>2

\* Only the call at the head of the lock can hold it.
LEMMA OneHolds ==
  ASSUME LockInv, NEW s \in Senders, AtHead(s), NEW t \in Senders, sender[t].pc \in Holding
  PROVE  t = s
BY DEF LockInv, AtHead

\* There is at most one pending row, so a restart rewrites at most one, and the
\* one it finds while a receipt is being recorded is that receipt's.
LEMMA RestartedOne ==
  ASSUME IInv
  PROVE  \/ Restarted = ledger
         \/ \E k \in Keys :
              /\ ledger[k].status = "pending"
              /\ Restarted = [ledger EXCEPT ![k] = Row("uncertain", ledger[k].body, "unknown", FALSE)]
<1>1. ledger \in [Keys -> LedgerRow]
  BY DEF IInv, TypeOK
<1>2. CASE \A j \in Keys : ledger[j].status # "pending"
  BY <1>1, <1>2, Zenon DEF Restarted
<1>3. ASSUME NEW k \in Keys, ledger[k].status = "pending"
      PROVE  Restarted = [ledger EXCEPT ![k] = Row("uncertain", ledger[k].body, "unknown", FALSE)]
  <2>1. PICK s \in Senders : sender[s].pc = "sending" /\ Key(s) = k
    BY <1>3 DEF IInv, PendingInv
  <2>2. \A j \in Keys : j # k => ledger[j].status # "pending"
    BY <2>1, OneHolds DEF IInv, PendingInv, LockInv, Holding
  <2>3. \A j \in Keys :
           (IF ledger[j].status = "pending"
            THEN Row("uncertain", ledger[j].body, "unknown", FALSE) ELSE ledger[j])
           = IF j = k THEN Row("uncertain", ledger[k].body, "unknown", FALSE) ELSE ledger[j]
    BY <1>3, <2>2, Zenon
  <2>4. [ledger EXCEPT ![k] = Row("uncertain", ledger[k].body, "unknown", FALSE)] =
           [j \in Keys |-> IF j = k THEN Row("uncertain", ledger[k].body, "unknown", FALSE)
                           ELSE ledger[j]]
    BY <1>1
  <2> QED BY <2>3, <2>4, Zenon DEF Restarted
<1> QED BY <1>2, <1>3

\* A crash in the middle of a receipt has marked the row sent.
LEMMA RecordedOne ==
  ASSUME IInv, NEW s \in Senders, CrashWhileRecording(s)
  PROVE  MarkSent(Key(s))
<1>1. ledger \in [Keys -> LedgerRow] /\ sender[s].pc = "sending"
  BY DEF IInv, TypeOK, CrashWhileRecording, Accepted
<1>2. \A j \in Keys : j # Key(s) => ledger[j].status # "pending"
  BY <1>1, OneHolds DEF IInv, PendingInv, LockInv, Holding
<1> DEFINE row == Row("sent", ledger[Key(s)].body, "none", FALSE)
<1>3. ledger' = [Restarted EXCEPT ![Key(s)] = row]
  BY DEF CrashWhileRecording
<1> HIDE DEF row
<1>4. ledger' = [j \in Keys |-> IF j = Key(s) THEN row ELSE Restarted[j]]
  BY <1>3 DEF Restarted
<1>5. \A j \in Keys : j # Key(s) => Restarted[j] = ledger[j]
  BY <1>2 DEF Restarted
<1>6. ledger' = [ledger EXCEPT ![Key(s)] = row]
  BY <1>1, <1>4, <1>5
<1> QED BY <1>6 DEF row, MarkSent

\* The invariant without the types and the pending rows.
Rest == LockInv /\ LedgerInv /\ SendingInv /\ CapInv /\ SpaceInv

\* The surroundings keep the invariant.
LEMMA InvWorld == IInv /\ World => Rest'
<1> SUFFICES ASSUME IInv, World PROVE Rest'
  OBVIOUS
<1> USE DEF vars, databaseVars, pacingVars, processVars, providerVars
<1>0. DatabaseOK /\ PacingOK /\ ProcessOK /\ ProviderOK
  BY TypeParts DEF IInv
<1>1. ASSUME NEW k \in Keys, Arrive(k) PROVE Rest'
  <2>1. flight[k] # "none" /\ flight' = [flight EXCEPT ![k] = "none"]
        /\ wire' = [wire EXCEPT ![k] = OneMore(wire[k])]
        /\ UNCHANGED <<ledger, sender, lock, sentToday, cooling>>
    BY <1>1 DEF Arrive
  <2>2. Permanent(k) => wire[k] = 0 /\ ledger[k].status \notin {"none", "failed", "sent"}
    BY <2>1 DEF IInv, LedgerInv
  <2>3. OneMore(0) = 1
    BY OutboundAssumption DEF OneMore
  <2>4. LedgerInv'
    <3> SUFFICES ASSUME NEW j \in Keys, Permanent(j)
                 PROVE  /\ ledger'[j].lapsed = FALSE
                        /\ ledger'[j].status \in {"none", "failed"} =>
                             wire'[j] = 0 /\ flight'[j] = "none"
                        /\ ledger'[j].status = "sent" => wire'[j] = 1
                        /\ wire'[j] \in {0, 1}
                        /\ wire'[j] = 1 => flight'[j] = "none"
      BY DEF LedgerInv
    <3>1. CASE j = k
      BY <3>1, <2>1, <2>2, <2>3, <1>0 DEF IInv, LedgerInv, ProviderOK
    <3>2. CASE j # k
      BY <3>2, <2>1, <1>0 DEF IInv, LedgerInv, ProviderOK
    <3> QED BY <3>1, <3>2
  <2>5. SendingInv'
    <3> SUFFICES ASSUME NEW s \in Senders, sender[s].pc = "sending"
                 PROVE  /\ ledger[Key(s)].status = "pending"
                        /\ Permanent(Key(s)) /\ flight'[Key(s)] = "none" => wire'[Key(s)] = 1
      BY <2>1 DEF SendingInv, Key
    <3>1. Key(s) \in Keys
      BY <1>0, BusyKey DEF ProcessOK
    <3>2. CASE Key(s) = k
      BY <3>1, <3>2, <2>1, <2>2, <2>3, <1>0 DEF IInv, SendingInv, ProviderOK
    <3>3. CASE Key(s) # k
      BY <3>1, <3>3, <2>1, <1>0 DEF IInv, SendingInv, ProviderOK
    <3> QED BY <3>2, <3>3
  <2>6. LockInv' /\ CapInv' /\ SpaceInv'
    BY <2>1 DEF IInv, LockInv, AtHead, CapInv, SpaceInv
  <2> QED BY <2>4, <2>5, <2>6 DEF Rest
<1>2. ASSUME NEW k \in Keys, ResendWindowLapses(k) PROVE Rest'
  <2>1. /\ ~Permanent(k) /\ ledger[k].status = "sent"
        /\ ledger' = [ledger EXCEPT ![k] = Row("sent", ledger[k].body, ledger[k].code, TRUE)]
        /\ UNCHANGED <<sender, lock, sentToday, cooling, flight, wire>>
    BY <1>2 DEF ResendWindowLapses
  <2>2. LedgerInv'
    BY <2>1, RowRewritten DEF IInv
  <2>3. SendingInv'
    <3>1. \A s \in Senders : sender[s].pc = "sending" =>
             ledger[Key(s)].status = "pending" /\ Key(s) \in Keys
      BY <1>0, BusyKey DEF IInv, SendingInv, ProcessOK
    <3>2. \A j \in Keys : j # k => ledger'[j] = ledger[j]
      BY <2>1, <1>0 DEF DatabaseOK
    <3>3. ASSUME NEW s \in Senders, sender[s].pc = "sending"
          PROVE  ledger'[Key(s)] = ledger[Key(s)]
      BY <2>1, <3>1, <3>2, <3>3
    <3>4. SendingInv /\ UNCHANGED <<sender, flight, wire>>
      BY <2>1 DEF IInv
    <3> QED BY <3>3, <3>4 DEF SendingInv, Key
  <2>4. LockInv' /\ CapInv' /\ SpaceInv'
    BY <2>1 DEF IInv, LockInv, AtHead, CapInv, SpaceInv
  <2> QED BY <2>2, <2>3, <2>4 DEF Rest
\* Steps that leave the ledger, the lock and the calls alone.
<1>3. ASSUME UNCHANGED <<ledger, sender, lock, flight, wire>>, CapInv', SpaceInv'
      PROVE  Rest'
  BY <1>3 DEF IInv, Rest, LockInv, AtHead, LedgerInv, SendingInv, Key
<1>4. ASSUME NEW k \in Keys, RecordConsent(k) PROVE Rest'
  <2>1. UNCHANGED <<ledger, sender, lock, flight, wire, sentToday, cooling>>
    BY <1>4 DEF RecordConsent
  <2> QED BY <2>1, <1>3 DEF IInv, CapInv, SpaceInv
<1>5. ASSUME NEW c \in Customers, BusyCooldownEnds(c) PROVE Rest'
  BY <1>5, <1>3 DEF BusyCooldownEnds, IInv, CapInv, SpaceInv
<1>6. ASSUME GapPasses PROVE Rest'
  <2>1. cooling' = FALSE /\ UNCHANGED <<ledger, lock, flight, wire, sentToday>>
    BY <1>6 DEF GapPasses
  <2>2. \A s \in Senders : \/ sender'[s] = sender[s]
                           \/ sender[s].pc = "sleeping" /\ sender'[s].pc = "paced"
    BY <1>6 DEF GapPasses, Call
  <2>3. LockInv'
    BY <2>1, <2>2 DEF IInv, LockInv, AtHead, Holding
  <2>4. LedgerInv'
    BY <2>1 DEF IInv, LedgerInv
  <2>5. SendingInv'
    BY <2>1, <2>2 DEF IInv, SendingInv, Key
  <2>6. CapInv'
    BY <2>1, <2>2 DEF IInv, CapInv, Holding
  <2>7. SpaceInv'
    BY <2>1 DEF SpaceInv
  <2> QED BY <2>3, <2>4, <2>5, <2>6, <2>7 DEF Rest
<1>7. ASSUME Midnight PROVE Rest'
  <2>1. CapInv'
    <3>1. sentToday > 0 /\ sentToday' = 0 /\ UNCHANGED sender
      BY <1>7 DEF Midnight
    <3> QED BY <3>1, <1>0, OutboundAssumption DEF IInv, CapInv, PacingOK
  <2>2. SpaceInv' /\ UNCHANGED <<ledger, sender, lock, flight, wire>>
    BY <1>7 DEF Midnight, IInv, SpaceInv
  <2> QED BY <2>1, <2>2, <1>3
<1>8. ASSUME RetryConfirmations PROVE Rest'
  BY <1>8, <1>3 DEF RetryConfirmations, IInv, CapInv, SpaceInv
<1>9. ASSUME Crash PROVE Rest'
  <2>1. PowerLoss /\ ledger' = Restarted /\ UNCHANGED <<flight, wire, sentToday>>
    BY <1>9 DEF Crash
  <2>2. \A t \in Senders : sender'[t].pc \notin Holding
    BY <2>1, NobodyHoldsAfterCrash
  <2>3. LedgerInv'
    <3>1. CASE ledger' = ledger
      BY <2>1, <3>1 DEF IInv, LedgerInv
    <3>2. ASSUME NEW k \in Keys,
                 ledger' = [ledger EXCEPT ![k] = Row("uncertain", ledger[k].body, "unknown", FALSE)]
          PROVE  LedgerInv'
      BY <2>1, <3>2, RowRewritten DEF IInv, LedgerInv, Row
    <3> QED BY <2>1, <3>1, <3>2, RestartedOne
  <2>4. CapInv'
    BY <2>1, <2>2 DEF IInv, CapInv
  <2> QED BY <2>2, <2>3, <2>4, NobodyCarries DEF Rest
<1>10. ASSUME NEW s \in Senders, CrashWhileRecording(s) PROVE Rest'
  <2>1. /\ PowerLoss /\ Accepted(s) /\ MarkSent(Key(s))
        /\ sentToday' \in {sentToday, sentToday + 1}
        /\ UNCHANGED <<flight, wire>>
    BY <1>10, RecordedOne DEF CrashWhileRecording, RecordMessage
  <2>2. \A t \in Senders : sender'[t].pc \notin Holding
    BY <2>1, NobodyHoldsAfterCrash
  <2>3. Key(s) \in Keys /\ sender[s].pc = "sending"
    BY <2>1, <1>0, BusyKey DEF Accepted, ProcessOK
  <2>4. LedgerInv'
    BY <2>1, <2>3, RowRewritten DEF MarkSent, Accepted, Row, IInv, SendingInv
  <2>5. CapInv'
    <3>1. sentToday < DailyCap
      BY <2>3 DEF IInv, CapInv, Holding
    <3> QED BY <2>1, <2>2, <3>1, <1>0, OutboundAssumption DEF CapInv, PacingOK
  <2> QED BY <2>2, <2>4, <2>5, NobodyCarries DEF Rest
<1> QED BY <1>1, <1>2, <1>4, <1>5, <1>6, <1>7, <1>8, <1>9, <1>10 DEF World

\* The code before the lock keeps it.
LEMMA InvCalls == ASSUME IInv, NEW s \in Senders, Calls(s) PROVE Rest'
<1> USE DEF vars, databaseVars, pacingVars, processVars, providerVars
<1>1. ASSUME NEW k \in Keys, StartConfirmation(s, k) PROVE Rest'
  <2>1. UNCHANGED <<ledger, flight, wire, sentToday, cooling>> /\ sender[s].pc = "idle"
    BY <1>1 DEF StartConfirmation, Busy
  <2>2. CASE MayTry(k, Fixed)
    BY <1>1, <2>1, <2>2, JoinInv DEF StartConfirmation, Bodies, Rest
  <2>3. CASE ~MayTry(k, Fixed)
    <3>1. UNCHANGED <<lock, sender>>
      BY <1>1, <2>3 DEF StartConfirmation
    <3> QED BY <2>1, <3>1 DEF IInv, Rest, LockInv, AtHead, LedgerInv, SendingInv, Key,
               CapInv, SpaceInv
  <2> QED BY <2>2, <2>3
<1>2. ASSUME NEW k \in Keys, NEW b \in Texts(k), Start(s, k, b) PROVE Rest'
  <2>1. b \in Bodies
    BY DEF Texts, Bodies
  <2> QED BY <1>2, <2>1, JoinInv DEF Start, Busy, Rest
<1> QED BY <1>1, <1>2 DEF Calls

\* The code inside the lock keeps it: its caller is alone there.
LEMMA InvLock == ASSUME IInv, NEW s \in Senders, LockStep(s), AtHead(s) PROVE Rest'
<1> USE DEF vars, databaseVars, pacingVars, processVars, providerVars
<1>0. DatabaseOK /\ PacingOK /\ ProcessOK /\ ProviderOK
  BY TypeParts DEF IInv
<1>1. ASSUME NEW ok, Return(s, ok) PROVE \A t \in Senders : sender'[t].pc \notin Holding
  BY <1>0, <1>1, NobodyHolds DEF IInv
\* A return that leaves the ledger alone.
<1>2. ASSUME NEW ok, Return(s, ok), UNCHANGED <<ledger, flight, wire, sentToday>>
      PROVE  Rest'
  <2>1. \A t \in Senders : sender'[t].pc \notin Holding
    BY <1>1, <1>2
  <2>2. LedgerInv' /\ CapInv'
    BY <1>2, <2>1 DEF IInv, LedgerInv, CapInv
  <2> QED BY <2>1, <2>2, NobodyCarries DEF Rest
\* A return that rewrites the row.
<1>3. ASSUME NEW ok, Return(s, ok), LedgerInv', UNCHANGED sentToday PROVE Rest'
  <2>1. \A t \in Senders : sender'[t].pc \notin Holding
    BY <1>1, <1>3
  <2>2. CapInv'
    BY <1>3, <2>1 DEF IInv, CapInv
  <2> QED BY <1>3, <2>1, <2>2, NobodyCarries DEF Rest
<1>4. CASE SuppressBusyReply(s)
  BY <1>2, <1>4 DEF SuppressBusyReply
<1>5. CASE PacingRefuses(s)
  BY <1>2, <1>5 DEF PacingRefuses
<1>6. CASE ContentRefused(s)
  BY <1>2, <1>6 DEF ContentRefused
<1>7. CASE PacingAllows(s)
  <2>1. /\ sender[s].pc = "queued" /\ ~CapReached
        /\ sender' = [sender EXCEPT ![s] = Call(sender[s].key, sender[s].body, AfterPacing)]
        /\ UNCHANGED <<ledger, lock, flight, wire, sentToday, cooling>>
    BY <1>7 DEF PacingAllows
  <2>2. \A t \in Senders : sender[t].pc \notin Holding
    BY <2>1, OneHolds DEF IInv, Holding
  <2>3. \A t \in Senders : t # s => sender'[t] = sender[t]
    BY <2>1, <1>0 DEF ProcessOK, SendersOK
  <2>4. sender'[s].pc = AfterPacing
    BY <2>1, <1>0 DEF ProcessOK, SendersOK, Call
  <2>5. LockInv'
    BY <2>1, <2>2, <2>3 DEF LockInv, AtHead
  <2>6. LedgerInv'
    BY <2>1 DEF IInv, LedgerInv
  <2>7. SendingInv'
    BY <2>2, <2>3, <2>4 DEF SendingInv, AfterPacing, Holding
  <2>8. CapInv'
    BY <2>1, <1>0, OutboundAssumption DEF IInv, CapInv, CapReached, PacingOK
  <2>9. SpaceInv'
    BY <2>1, <2>2, <2>3, <2>4 DEF SpaceInv, AfterPacing, Holding
  <2> QED BY <2>5, <2>6, <2>7, <2>8, <2>9 DEF Rest
<1>8. CASE BeginAttempt(s)
  <2>1. /\ sender[s].pc = "paced"
        /\ Sendable(ledger[Key(s)], sender[s].body)
        /\ ledger' = [ledger EXCEPT ![Key(s)] = Row("pending", sender[s].body, "none", FALSE)]
        /\ flight' = [flight EXCEPT ![Key(s)] =
                        IF NeedsDisclosure(Key(s)) THEN "introducing" ELSE "plain"]
        /\ sender' = [sender EXCEPT ![s] = Call(Key(s), sender[s].body, "sending")]
        /\ UNCHANGED <<wire, lock, sentToday, cooling>>
    BY <1>8 DEF BeginAttempt, Paced
  <2>2. Key(s) \in Keys
    BY <2>1, <1>0, BusyKey DEF ProcessOK
  <2>3. \A t \in Senders : t # s => sender'[t] = sender[t] /\ sender[t].pc \notin Holding
    BY <2>1, <1>0, OneHolds DEF IInv, ProcessOK, SendersOK
  <2>4. sender'[s].pc = "sending" /\ sender'[s].key = Key(s)
    BY <2>1, <1>0 DEF ProcessOK, SendersOK, Call
  <2>5. ledger'[Key(s)].status = "pending" /\ ledger'[Key(s)].lapsed = FALSE
        /\ flight'[Key(s)] # "none"
    BY <2>1, <2>2, <1>0 DEF DatabaseOK, ProviderOK, Row
  <2>6. Permanent(Key(s)) => wire[Key(s)] = 0
    BY <2>1, <2>2 DEF Sendable, IInv, LedgerInv
  <2>7. LedgerInv'
    <3>1. \A j \in Keys : j # Key(s) => flight'[j] = flight[j]
      BY <2>1, <1>0 DEF ProviderOK
    <3> DEFINE row == Row("pending", sender[s].body, "none", FALSE)
    <3>2. row.lapsed = FALSE /\ row.status = "pending"
      BY DEF Row
    <3>3. ledger' = [ledger EXCEPT ![Key(s)] = row] /\ UNCHANGED wire
      BY <2>1
    <3> HIDE DEF row
    <3>4. TypeOK /\ LedgerInv
      BY DEF IInv
    <3>5. Permanent(Key(s)) =>
            /\ row.lapsed = FALSE
            /\ row.status \in {"none", "failed"} => wire[Key(s)] = 0 /\ flight'[Key(s)] = "none"
            /\ row.status = "sent" => wire[Key(s)] = 1
            /\ wire[Key(s)] = 1 => flight'[Key(s)] = "none"
      BY <2>6, <3>2
    <3> QED BY <2>2, <3>1, <3>3, <3>4, <3>5, RowRewritten
  <2>8. LockInv'
    BY <2>1, <2>3 DEF LockInv, AtHead
  <2>9. SendingInv'
    BY <2>3, <2>4, <2>5 DEF SendingInv, Holding, Key
  <2>10. CapInv'
    <3>1. sentToday < DailyCap
      BY <2>1 DEF IInv, CapInv, Holding
    <3> QED BY <2>1, <3>1 DEF IInv, CapInv
  <2>11. SpaceInv'
    BY <2>3, <2>4 DEF SpaceInv, Holding
  <2> QED BY <2>7, <2>8, <2>9, <2>10, <2>11 DEF Rest
<1>9. CASE AttemptRefused(s)
  <2>1. sender[s].pc = "paced" /\ UNCHANGED <<flight, wire, sentToday>> /\ Return(s, TRUE)
    BY <1>9 DEF AttemptRefused, Paced
  <2>2. Key(s) \in Keys
    BY <2>1, <1>0, BusyKey DEF ProcessOK
  <2>3. LedgerInv'
    <3>1. CASE UNCHANGED ledger
      BY <2>1, <3>1 DEF IInv, LedgerInv
    <3>2. CASE ledger' = [ledger EXCEPT ![Key(s)] =
                            Row("uncertain", ledger[Key(s)].body, "unknown", FALSE)]
      BY <2>1, <2>2, <3>2, RowRewritten DEF IInv, LedgerInv, Row
    <3> QED BY <1>9, <3>1, <3>2 DEF AttemptRefused
  <2> QED BY <2>1, <2>3, <1>3
<1>10. ASSUME sender[s].pc = "sending" PROVE Key(s) \in Keys
  BY <1>0, <1>10, BusyKey DEF ProcessOK
<1>11. CASE SendConfirmed(s)
  <2>1. /\ Accepted(s) /\ sender[s].pc = "sending" /\ MarkSent(Key(s)) /\ Return(s, TRUE)
        /\ sentToday' = sentToday + 1 /\ UNCHANGED <<flight, wire>>
    BY <1>11 DEF SendConfirmed, Accepted, RecordMessage
  <2>2. LedgerInv'
    BY <2>1, <1>10, RowRewritten DEF MarkSent, Accepted, Row, IInv, SendingInv
  <2>3. \A t \in Senders : sender'[t].pc \notin Holding
    BY <1>1, <2>1
  <2>4. CapInv'
    <3>1. sentToday < DailyCap
      BY <2>1 DEF IInv, CapInv, Holding
    <3> QED BY <2>1, <2>3, <3>1, <1>0, OutboundAssumption DEF CapInv, PacingOK
  <2> QED BY <2>2, <2>3, <2>4, NobodyCarries DEF Rest
<1>12. CASE SendRejected(s)
  <2>1. /\ sender[s].pc = "sending" /\ flight[Key(s)] # "none"
        /\ flight' = [flight EXCEPT ![Key(s)] = "none"]
        /\ Return(s, FALSE) /\ UNCHANGED <<wire, sentToday>>
    BY <1>12 DEF SendRejected
  <2>2. PICK code \in {"channel_unavailable", "provider_rejected"} :
          ledger' = [ledger EXCEPT ![Key(s)] = Row("failed", ledger[Key(s)].body, code, FALSE)]
    BY <1>12 DEF SendRejected
  <2>3. Permanent(Key(s)) => wire[Key(s)] = 0
    BY <2>1, <1>10 DEF IInv, LedgerInv
  <2>4. /\ flight'[Key(s)] = "none"
        /\ \A j \in Keys : j # Key(s) => flight'[j] = flight[j]
    BY <2>1, <1>10, <1>0 DEF ProviderOK
  <2>5. LedgerInv'
    BY <2>1, <2>2, <2>3, <2>4, <1>10, RowRewritten DEF IInv, Row
  <2> QED BY <2>1, <2>5, <1>3
<1>13. CASE SendTimesOut(s)
  <2>1. /\ sender[s].pc = "sending"
        /\ ledger' = [ledger EXCEPT ![Key(s)] =
                        Row("uncertain", ledger[Key(s)].body, "unknown", FALSE)]
        /\ Return(s, TRUE) /\ UNCHANGED <<flight, wire, sentToday>>
    BY <1>13 DEF SendTimesOut
  <2>2. LedgerInv'
    BY <2>1, <1>10, RowRewritten DEF IInv, LedgerInv, Row
  <2> QED BY <2>1, <2>2, <1>3
<1> QED BY <1>4, <1>5, <1>6, <1>7, <1>8, <1>9, <1>11, <1>12, <1>13 DEF LockStep

\* A call that takes a step of the lock has it.
LEMMA StepAtHead == ASSUME LockInv, NEW s \in Senders, LockStep(s) PROVE AtHead(s)
BY DEF LockStep, SuppressBusyReply, PacingRefuses, PacingAllows, ContentRefused, BeginAttempt,
       AttemptRefused, SendConfirmed, SendRejected, SendTimesOut, Accepted, Paced, LockInv,
       Holding

\* A step that replaces a row leaves the others.
LEMMA RowTaken ==
  ASSUME TypeOK, NEW k \in Keys, NEW row, ledger' = [ledger EXCEPT ![k] = row]
  PROVE  ledger'[k] = row /\ \A j \in Keys : j # k => ledger'[j] = ledger[j]
BY DEF TypeOK

\* A pending row stays one its call is waiting for.
LEMMA PendingNext == ASSUME IInv, [Next]_vars PROVE PendingInv'
<1> USE DEF vars, databaseVars, pacingVars, processVars, providerVars
<1>0. TypeOK /\ PendingInv /\ SendersOK(sender)
  BY TypeParts DEF IInv, ProcessOK
<1>1. ASSUME UNCHANGED ledger,
             \A t \in Senders : sender[t].pc = "sending" => sender'[t] = sender[t]
      PROVE  PendingInv'
  BY <1>0, <1>1 DEF PendingInv, Key
\* The row of s, or one that nobody waits for, is rewritten.
<1>2. ASSUME NEW k \in Keys, NEW row, row.status # "pending",
             ledger' = [ledger EXCEPT ![k] = row],
             \A t \in Senders : sender[t].pc = "sending" /\ Key(t) # k => sender'[t] = sender[t]
      PROVE  PendingInv'
  <2>1. ledger'[k] = row /\ \A j \in Keys : j # k => ledger'[j] = ledger[j]
    BY <1>0, <1>2, RowTaken
  <2> QED BY <1>0, <1>2, <2>1 DEF PendingInv, Key
<1>3. ASSUME NEW s \in Senders, NEW ok, Return(s, ok)
      PROVE  \A t \in Senders : t # s => sender'[t] = sender[t]
  BY <1>0, <1>3 DEF Return, SendersOK
<1>4. \A b, c, l : /\ Row("sent", b, c, l).status # "pending"
                   /\ Row("failed", b, c, l).status # "pending"
                   /\ Row("uncertain", b, c, l).status # "pending"
  BY DEF Row
<1>5. CASE World
  <2>1. ASSUME NEW k \in Keys, ResendWindowLapses(k) PROVE PendingInv'
    <3> DEFINE row == Row("sent", ledger[k].body, ledger[k].code, TRUE)
    <3>1. row.status # "pending"
      BY <1>4
    <3>2. ledger' = [ledger EXCEPT ![k] = row] /\ sender' = sender
      BY <2>1 DEF ResendWindowLapses
    <3> HIDE DEF row
    <3> QED BY <3>1, <3>2, <1>2
  <2>2. CASE GapPasses
    BY <2>2, <1>1 DEF GapPasses
  <2>3. \A j \in Keys : Restarted[j].status # "pending"
    BY <1>4 DEF Restarted
  <2>4. CASE Crash
    BY <2>3, <2>4 DEF Crash, PendingInv
  <2>5. ASSUME NEW s \in Senders, CrashWhileRecording(s) PROVE PendingInv'
    <3> DEFINE row == Row("sent", ledger[Key(s)].body, "none", FALSE)
    <3>1. ledger' = [Restarted EXCEPT ![Key(s)] = row] /\ row.status # "pending"
      BY <2>5, <1>4 DEF CrashWhileRecording
    <3> HIDE DEF row
    <3>2. Restarted = [j \in Keys |-> Restarted[j]]
      BY DEF Restarted
    <3>3. \A j \in Keys : ledger'[j].status # "pending"
      BY <2>3, <3>1, <3>2
    <3> QED BY <3>3 DEF PendingInv
  <2>6. ASSUME UNCHANGED <<ledger, sender>> PROVE PendingInv'
    BY <2>6, <1>1
  <2> QED BY <1>5, <2>1, <2>2, <2>4, <2>5, <2>6 DEF World, Arrive, RecordConsent,
             BusyCooldownEnds, Midnight, RetryConfirmations
<1>6. ASSUME NEW s \in Senders, Calls(s) PROVE PendingInv'
  <2>1. ASSUME NEW k, NEW b, Join(s, k, b), sender[s].pc = "idle", UNCHANGED ledger
        PROVE  PendingInv'
    BY <2>1, <1>0, <1>1 DEF Join, SendersOK
  <2>2. ASSUME UNCHANGED <<ledger, sender>> PROVE PendingInv'
    BY <2>2, <1>1
  <2> QED BY <1>6, <2>1, <2>2 DEF Calls, StartConfirmation, Start, Busy
<1>7. ASSUME NEW s \in Senders, LockStep(s) PROVE PendingInv'
  <2>1. ASSUME NEW ok, Return(s, ok), sender[s].pc # "sending", UNCHANGED ledger
        PROVE  PendingInv'
    BY <2>1, <1>1, <1>3
  <2>2. CASE PacingAllows(s)
    BY <2>2, <1>0, <1>1 DEF PacingAllows, SendersOK
  <2>3. CASE BeginAttempt(s)
    <3>0. PICK k : k = Key(s)
      OBVIOUS
    <3>1. sender[s].pc = "paced" /\ k \in Keys
      BY <2>3, <3>0, <1>0, BusyKey DEF BeginAttempt, Paced
    <3>2. \A t \in Senders : t # s => sender'[t] = sender[t]
      BY <2>3, <1>0 DEF BeginAttempt, SendersOK
    <3>3. sender'[s].pc = "sending" /\ sender'[s].key = k
      BY <2>3, <3>0, <1>0 DEF BeginAttempt, SendersOK, Call
    <3>4. \A j \in Keys : j # k => ledger'[j] = ledger[j]
      <4>1. ledger' = [ledger EXCEPT ![k] = Row("pending", sender[s].body, "none", FALSE)]
        BY <2>3, <3>0 DEF BeginAttempt
      <4> QED BY <1>0, <3>1, <4>1, RowTaken
    <3> QED BY <1>0, <3>1, <3>2, <3>3, <3>4 DEF PendingInv, Key
  <2>4. ASSUME sender[s].pc # "idle" PROVE Key(s) \in Keys
    BY <2>4, <1>0, BusyKey
  <2>9. ASSUME NEW ok, Return(s, ok), sender[s].pc # "idle", NEW row, row.status # "pending",
               ledger' = [ledger EXCEPT ![Key(s)] = row]
        PROVE  PendingInv'
    <3>1. PICK k \in Keys : k = Key(s)
      BY <2>4, <2>9
    <3>2. \A t \in Senders : sender[t].pc = "sending" /\ Key(t) # k => sender'[t] = sender[t]
      BY <3>1, <2>9, <1>3
    <3>3. ledger' = [ledger EXCEPT ![k] = row]
      BY <3>1, <2>9
    <3> QED BY <3>2, <3>3, <2>9, <1>2
  <2>5. CASE AttemptRefused(s)
    <3>1. sender[s].pc = "paced" /\ Return(s, TRUE)
      BY <2>5 DEF AttemptRefused, Paced
    <3>2. CASE UNCHANGED ledger
      BY <3>1, <3>2, <2>1
    <3>3. CASE ledger' = [ledger EXCEPT ![Key(s)] =
                            Row("uncertain", ledger[Key(s)].body, "unknown", FALSE)]
      <4> DEFINE row == Row("uncertain", ledger[Key(s)].body, "unknown", FALSE)
      <4>1. row.status # "pending"
        BY <1>4
      <4>2. ledger' = [ledger EXCEPT ![Key(s)] = row]
        BY <3>3
      <4> HIDE DEF row
      <4> QED BY <3>1, <4>1, <4>2, <2>9
    <3> QED BY <2>5, <3>2, <3>3 DEF AttemptRefused
  <2>6. CASE SendConfirmed(s)
    <3> DEFINE row == Row("sent", ledger[Key(s)].body, "none", FALSE)
    <3>1. row.status # "pending"
      BY <1>4
    <3>2. ledger' = [ledger EXCEPT ![Key(s)] = row] /\ sender[s].pc = "sending" /\ Return(s, TRUE)
      BY <2>6 DEF SendConfirmed, Accepted, MarkSent
    <3> HIDE DEF row
    <3> QED BY <3>1, <3>2, <2>9
  <2>7. CASE SendRejected(s)
    <3>1. PICK code \in {"channel_unavailable", "provider_rejected"} :
            ledger' = [ledger EXCEPT ![Key(s)] = Row("failed", ledger[Key(s)].body, code, FALSE)]
      BY <2>7 DEF SendRejected
    <3> DEFINE row == Row("failed", ledger[Key(s)].body, code, FALSE)
    <3>2. row.status # "pending"
      BY <1>4
    <3>3. ledger' = [ledger EXCEPT ![Key(s)] = row] /\ sender[s].pc = "sending" /\ Return(s, FALSE)
      BY <2>7, <3>1 DEF SendRejected
    <3> HIDE DEF row
    <3> QED BY <3>2, <3>3, <2>9
  <2>8. CASE SendTimesOut(s)
    <3> DEFINE row == Row("uncertain", ledger[Key(s)].body, "unknown", FALSE)
    <3>1. row.status # "pending"
      BY <1>4
    <3>2. ledger' = [ledger EXCEPT ![Key(s)] = row] /\ sender[s].pc = "sending" /\ Return(s, TRUE)
      BY <2>8 DEF SendTimesOut
    <3> HIDE DEF row
    <3> QED BY <3>1, <3>2, <2>9
  <2> QED BY <1>7, <2>1, <2>2, <2>3, <2>5, <2>6, <2>7, <2>8 DEF LockStep, SuppressBusyReply,
             PacingRefuses, ContentRefused, Paced
<1>8. CASE UNCHANGED vars
  BY <1>8, <1>1
<1> QED BY <1>5, <1>6, <1>7, <1>8 DEF Next

\* Every step keeps the invariant.
LEMMA InvNext == IInv /\ [Next]_vars => IInv'
<1> SUFFICES ASSUME IInv, [Next]_vars PROVE IInv'
  OBVIOUS
<1>0. PendingInv'
  BY PendingNext
<1>1. CASE World
  BY <1>0, <1>1, TypeWorld, InvWorld DEF IInv, Rest
<1>2. ASSUME NEW s \in Senders, Calls(s) PROVE IInv'
  BY <1>0, <1>2, TypeCalls, InvCalls DEF IInv, Rest
<1>3. ASSUME NEW s \in Senders, LockStep(s) PROVE IInv'
  <2>1. AtHead(s)
    BY <1>3, StepAtHead DEF IInv
  <2> QED BY <1>0, <1>3, <2>1, TypeLock, InvLock DEF IInv, Rest
<1>4. CASE UNCHANGED vars
  <2>1. TypeOK'
    BY <1>4 DEF IInv, TypeOK, vars, databaseVars, pacingVars, processVars, providerVars
  <2>2. Rest'
    BY <1>4 DEF IInv, Rest, LockInv, AtHead, LedgerInv, SendingInv, Key, CapInv, SpaceInv,
       vars, databaseVars, pacingVars, processVars, providerVars
  <2> QED BY <1>0, <2>1, <2>2 DEF IInv, Rest
<1> QED BY <1>1, <1>2, <1>3, <1>4 DEF Next

\* The invariant holds in every reachable state.
LEMMA Invariant == Spec => []IInv
BY InvInit, InvNext, PTL DEF Spec

-----------------------------------------------------------------------------
(* The safety invariants. *)

\* Every state is typed and only a busy call has a key.
THEOREM TypeCorrect == Spec => []TypeOK
<1>1. IInv => TypeOK
  BY DEF IInv
<1> QED BY <1>1, Invariant, PTL

\* An event yields at most one visible reply (the ledger row outlives retries,
\* rephrased texts, timeouts and restarts).
THEOREM AtMostOnce == Spec => []AtMostOneReply
<1>1. IInv => AtMostOneReply
  BY DEF IInv, LedgerInv, AtMostOneReply
<1> QED BY <1>1, Invariant, PTL

\* A row is "sent" only if the message arrived and retryable only if it cannot.
THEOREM TruthfulLedger == Spec => []LedgerIsTruthful
<1>1. IInv => LedgerIsTruthful
  BY DEF IInv, LedgerInv, LedgerIsTruthful
<1> QED BY <1>1, Invariant, PTL

\* Concurrent senders never exceed the daily cap.
THEOREM CapKept == Spec => []CapHolds
<1>1. IInv => CapHolds
  BY DEF IInv, CapInv, CapHolds
<1> QED BY <1>1, Invariant, PTL

-----------------------------------------------------------------------------
(* Action properties. *)

\* A final row is not the one a step rewrites.
Settled(k) ==
  \/ ledger[k].status = "uncertain"
  \/ ledger[k].status = "sent" /\ Permanent(k)

\* A settled row is never written again.
LEMMA SettledStays ==
  ASSUME IInv, Next, NEW k \in Keys, Settled(k)
  PROVE  ledger'[k] = ledger[k]
<1> USE DEF vars, databaseVars, pacingVars, processVars, providerVars
<1>0. TypeOK /\ ProcessOK
  BY TypeParts DEF IInv
<1>1. ASSUME NEW j \in Keys, NEW row, ledger' = [ledger EXCEPT ![j] = row], ~Settled(j)
      PROVE  ledger'[k] = ledger[k]
  BY <1>0, <1>1, RowTaken
<1>2. ASSUME NEW s \in Senders, sender[s].pc = "sending"
      PROVE  Key(s) \in Keys /\ ~Settled(Key(s))
  <2>1. Key(s) \in Keys
    BY <1>0, <1>2, BusyKey DEF ProcessOK
  <2> QED BY <1>2, <2>1 DEF IInv, SendingInv, Settled
<1>3. CASE World
  <2>1. ASSUME NEW j \in Keys, ResendWindowLapses(j) PROVE ledger'[k] = ledger[k]
    BY <2>1, <1>1 DEF ResendWindowLapses, Settled
  <2>2. ASSUME NEW s \in Senders, CrashWhileRecording(s) PROVE ledger'[k] = ledger[k]
    BY <2>2, <1>1, <1>2, RecordedOne DEF CrashWhileRecording, Accepted, MarkSent
  <2>3. ASSUME UNCHANGED ledger PROVE ledger'[k] = ledger[k]
    BY <2>3
  <2>4. CASE Crash
    BY <2>4, <1>1, RestartedOne DEF Crash, Settled
  <2> QED BY <1>3, <2>1, <2>2, <2>3, <2>4 DEF World, Arrive, RecordConsent, BusyCooldownEnds,
             GapPasses, Midnight, RetryConfirmations
<1>4. ASSUME NEW s \in Senders, Calls(s) PROVE ledger'[k] = ledger[k]
  BY <1>4 DEF Calls, StartConfirmation, Start
<1>5. ASSUME NEW s \in Senders, LockStep(s) PROVE ledger'[k] = ledger[k]
  <2>1. ASSUME UNCHANGED ledger PROVE ledger'[k] = ledger[k]
    BY <2>1
  <2>2. CASE BeginAttempt(s)
    <3>1. Key(s) \in Keys
      BY <2>2, <1>0, BusyKey DEF BeginAttempt, Paced, ProcessOK
    <3>2. ~Settled(Key(s))
      BY <2>2, <3>1 DEF BeginAttempt, Sendable, Settled, IInv, LedgerInv
    <3> QED BY <2>2, <3>1, <3>2, <1>1 DEF BeginAttempt
  <2>3. CASE AttemptRefused(s)
    <3>1. Key(s) \in Keys
      BY <2>3, <1>0, BusyKey DEF AttemptRefused, Paced, ProcessOK
    <3> QED BY <2>3, <3>1, <1>1 DEF AttemptRefused, Settled
  <2>4. CASE SendConfirmed(s)
    BY <2>4, <1>1, <1>2 DEF SendConfirmed, Accepted, MarkSent
  <2>5. CASE SendRejected(s)
    BY <2>5, <1>1, <1>2 DEF SendRejected
  <2>6. CASE SendTimesOut(s)
    BY <2>6, <1>1, <1>2 DEF SendTimesOut
  <2> QED BY <1>5, <2>1, <2>2, <2>3, <2>4, <2>5, <2>6 DEF LockStep, SuppressBusyReply,
             PacingRefuses, PacingAllows, ContentRefused
<1> QED BY <1>3, <1>4, <1>5 DEF Next

\* Uncertain rows, and sent rows of permanent keys, never change again.
THEOREM FinalOutcome == Spec => OutcomeIsFinal
<1>1. IInv /\ [Next]_vars =>
        [\A k \in Keys :
           \/ ledger[k].status = "uncertain"
           \/ ledger[k].status = "sent" /\ Permanent(k)
           => ledger'[k] = ledger[k]]_vars
  BY SettledStays DEF Settled
<1> QED BY <1>1, Invariant, PTL DEF Spec, OutcomeIsFinal

\* Only BeginAttempt hands a copy to the gateway.
LEMMA HandsOverOnly ==
  ASSUME IInv, Next, NEW s \in Senders, HandsOver(s)
  PROVE  BeginAttempt(s)
<1> USE DEF vars, databaseVars, pacingVars, processVars, providerVars
<1>0. SendersOK(sender)
  BY TypeParts DEF IInv, ProcessOK
<1>1. ASSUME NEW t \in Senders, NEW call, call.pc # "sending",
             sender' = [sender EXCEPT ![t] = call]
      PROVE  FALSE
  BY <1>0, <1>1 DEF HandsOver, SendersOK
<1>2. ASSUME UNCHANGED sender PROVE FALSE
  BY <1>2 DEF HandsOver
<1>3. ASSUME World PROVE FALSE
  <2>1. ~GapPasses
    BY DEF GapPasses, HandsOver, Call
  <2>2. ~PowerLoss
    BY DEF PowerLoss, HandsOver, IdleCall, Call
  <2> QED BY <1>3, <1>2, <2>1, <2>2 DEF World, Arrive, ResendWindowLapses, RecordConsent,
             BusyCooldownEnds, Midnight, Crash, RetryConfirmations, CrashWhileRecording
<1>4. ASSUME NEW t \in Senders, NEW k, NEW b, Join(t, k, b) PROVE FALSE
  BY <1>4, <1>1 DEF Join, Call
<1>5. ASSUME NEW t \in Senders, NEW ok, Return(t, ok) PROVE FALSE
  BY <1>5, <1>1 DEF Return, IdleCall, Call
<1>6. ASSUME NEW t \in Senders, Calls(t) PROVE FALSE
  BY <1>6, <1>4, <1>2 DEF Calls, StartConfirmation, Start
<1>7. ASSUME NEW t \in Senders, LockStep(t) PROVE BeginAttempt(t)
  <2>1. ~PacingAllows(t)
    <3> SUFFICES ASSUME PacingAllows(t) PROVE FALSE
      OBVIOUS
    <3>1. sender' = [sender EXCEPT ![t] = Call(sender[t].key, sender[t].body, AfterPacing)]
      BY DEF PacingAllows
    <3>2. Call(sender[t].key, sender[t].body, AfterPacing).pc # "sending"
      BY DEF Call, AfterPacing
    <3> QED BY <3>1, <3>2, <1>1
  <2> QED BY <1>7, <1>5, <2>1 DEF LockStep, SuppressBusyReply, PacingRefuses, ContentRefused,
             AttemptRefused, SendConfirmed, SendRejected, SendTimesOut
<1>8. ASSUME NEW t \in Senders, BeginAttempt(t) PROVE t = s
  BY <1>8, <1>0 DEF BeginAttempt, HandsOver, SendersOK
<1> QED BY <1>3, <1>6, <1>7, <1>8 DEF Next

\* Concurrent sends keep the throttle gap to the last recorded one.
THEOREM Spaced == Spec => SpacedSends
<1>1. ASSUME IInv, Next, NEW s \in Senders, HandsOver(s) PROVE ~cooling
  BY <1>1, HandsOverOnly DEF BeginAttempt, Paced, IInv, SpaceInv
<1>2. IInv /\ [Next]_vars => [\A s \in Senders : HandsOver(s) => ~cooling]_vars
  BY <1>1
<1> QED BY <1>2, Invariant, PTL DEF Spec, SpacedSends

-----------------------------------------------------------------------------
(* Introductions. *)

\* Whoever is marked as told, has an answer or is sent one without the
\* introduction, was sent one with it before.
IntroInv ==
  /\ RepliesAreIntroduced
  /\ \A c \in Customers : disclosed[c] => introductions[c] > 0
  /\ \A k \in Keys : ToCustomer(k) /\ flight[k] = "plain" => introductions[Recipient[k]] > 0

\* A copy counted once more is counted at least once.
LEMMA Counted == ASSUME NEW n \in 0..MaxCopies PROVE OneMore(n) > 0 /\ OneMore(n) >= n
BY OutboundAssumption DEF OneMore

\* Every step keeps it.
LEMMA IntroNext == IInv /\ IntroInv /\ [Next]_vars => IntroInv'
<1> SUFFICES ASSUME IInv, IntroInv, [Next]_vars PROVE IntroInv'
  OBVIOUS
<1>0. /\ flight \in [Keys -> {"none", "plain", "introducing"}]
      /\ wire \in [Keys -> 0..MaxCopies] /\ introductions \in [Customers -> 0..MaxCopies]
      /\ disclosed \in [Customers -> BOOLEAN]
      /\ Recipient \in [Keys -> Customers]
      /\ SendersOK(sender)
  BY TypeParts, OutboundAssumption DEF IInv, ProviderOK, ProcessOK, DatabaseOK
<1>1. CASE UNCHANGED <<flight, wire, introductions, disclosed>>
  BY <1>1 DEF IntroInv, RepliesAreIntroduced
<1>2. ASSUME NEW k \in Keys, Arrive(k) PROVE IntroInv'
  <2>1. /\ flight[k] # "none" /\ flight' = [flight EXCEPT ![k] = "none"]
        /\ wire' = [wire EXCEPT ![k] = OneMore(wire[k])] /\ disclosed' = disclosed
        /\ introductions' = IF flight[k] = "introducing"
                            THEN [introductions EXCEPT ![Recipient[k]] =
                                    OneMore(introductions[Recipient[k]])]
                            ELSE introductions
    BY <1>2 DEF Arrive, databaseVars
  <2>2. \A c \in Customers : introductions[c] > 0 => introductions'[c] > 0
    BY <1>0, <2>1, Counted
  <2>3. ToCustomer(k) => introductions'[Recipient[k]] > 0
    <3>1. CASE flight[k] = "introducing"
      BY <1>0, <2>1, <3>1, Counted
    <3>2. CASE flight[k] = "plain"
      BY <1>0, <2>2, <3>2 DEF IntroInv
    <3> QED BY <1>0, <2>1, <3>1, <3>2
  <2>4. \A j \in Keys : j # k => wire'[j] = wire[j] /\ flight'[j] = flight[j]
    BY <1>0, <2>1
  <2>5. flight'[k] = "none"
    BY <1>0, <2>1
  <2> QED BY <1>0, <2>1, <2>2, <2>3, <2>4, <2>5 DEF IntroInv, RepliesAreIntroduced
<1>3. ASSUME NEW s \in Senders, BeginAttempt(s) PROVE IntroInv'
  <2>1. /\ UNCHANGED <<wire, introductions, disclosed>> /\ sender[s].pc = "paced"
        /\ flight' = [flight EXCEPT ![Key(s)] =
                        IF NeedsDisclosure(Key(s)) THEN "introducing" ELSE "plain"]
    BY <1>3 DEF BeginAttempt, Paced, DisclosedAtStart
  <2>2. Key(s) \in Keys
    BY <1>0, <2>1, BusyKey
  <2>3. ToCustomer(Key(s)) /\ flight'[Key(s)] = "plain" => introductions[Recipient[Key(s)]] > 0
    BY <1>0, <2>1, <2>2 DEF NeedsDisclosure, IntroInv
  <2>4. \A j \in Keys : j # Key(s) => flight'[j] = flight[j]
    BY <1>0, <2>1
  <2> QED BY <2>1, <2>3, <2>4 DEF IntroInv, RepliesAreIntroduced
<1>4. ASSUME NEW s \in Senders, SendConfirmed(s) PROVE IntroInv'
  <2>1. /\ UNCHANGED <<flight, wire, introductions>>
        /\ sender[s].pc = "sending" /\ flight[Key(s)] = "none"
        /\ disclosed' = IF ToCustomer(Key(s)) THEN [disclosed EXCEPT ![Recipient[Key(s)]] = TRUE]
                        ELSE disclosed
    BY <1>4 DEF SendConfirmed, Accepted, providerVars
  <2>2. Key(s) \in Keys
    BY <1>0, <2>1, BusyKey
  <2>3. ToCustomer(Key(s)) => introductions[Recipient[Key(s)]] > 0
    <3>1. ToCustomer(Key(s)) => wire[Key(s)] = 1
      BY <2>1 DEF IInv, SendingInv, ToCustomer, Permanent
    <3> QED BY <2>2, <3>1 DEF IntroInv, RepliesAreIntroduced
  <2>4. \A c \in Customers : disclosed'[c] => introductions[c] > 0
    BY <1>0, <2>1, <2>2, <2>3 DEF IntroInv
  <2> QED BY <2>1, <2>4 DEF IntroInv, RepliesAreIntroduced
<1>5. ASSUME NEW s \in Senders, SendRejected(s) PROVE IntroInv'
  BY <1>0, <1>5 DEF SendRejected, IntroInv, RepliesAreIntroduced
<1>6. ASSUME NEW s \in Senders, LockStep(s)
      PROVE  \/ UNCHANGED <<flight, wire, introductions, disclosed>>
             \/ BeginAttempt(s) \/ SendConfirmed(s) \/ SendRejected(s)
  BY <1>6, Zenon DEF LockStep, SuppressBusyReply, PacingRefuses, PacingAllows, ContentRefused, AttemptRefused,
     SendTimesOut, databaseVars, providerVars
<1>7. ASSUME NEW s \in Senders, Calls(s)
      PROVE  UNCHANGED <<flight, wire, introductions, disclosed>>
  BY <1>7, Zenon DEF Calls, StartConfirmation, Start, databaseVars, providerVars
<1>8. CASE World
  <2>1. \/ \E k \in Keys : Arrive(k)
        \/ UNCHANGED <<flight, wire, introductions, disclosed>>
    BY <1>8, Zenon DEF World, ResendWindowLapses, RecordConsent, BusyCooldownEnds, GapPasses, Midnight, Crash,
       RetryConfirmations, CrashWhileRecording, databaseVars, providerVars
  <2> QED BY <1>1, <1>2, <2>1
<1>9. UNCHANGED vars => UNCHANGED <<flight, wire, introductions, disclosed>>
  BY DEF vars, databaseVars, providerVars
<1> QED BY <1>1, <1>3, <1>4, <1>5, <1>6, <1>7, <1>8, <1>9, Zenon DEF Next

\* A customer who has any reply of the assistant has been told what it is.
THEOREM Introduced == Spec => []RepliesAreIntroduced
<1>1. Init => IntroInv
  BY DEF Init, IntroInv, RepliesAreIntroduced
<1>2. IntroInv => RepliesAreIntroduced
  BY DEF IntroInv
<1> QED BY <1>1, <1>2, IntroNext, Invariant, PTL DEF Spec

-----------------------------------------------------------------------------
(* Consent.  The lock serves calls in the order they came, so a reply that    *)
(* was checked before a STOP is ahead of its acknowledgement; the consent     *)
(* chain has one call at a time; and an acknowledgement that is still to be   *)
(* delivered is that of the decision in force.                                *)

Confirming(s) == Busy(s) /\ IsConsent(Key(s))
Late(s, c) == Busy(s) /\ ToCustomer(Key(s)) /\ Recipient[Key(s)] = c

\* The lock queues every call in progress, once.
QueueInv ==
  /\ \A s \in Senders : Busy(s) <=> \E i \in 1..Len(lock) : lock[i] = s
  /\ \A i, j \in 1..Len(lock) : lock[i] = lock[j] => i = j

ChainInv ==
  /\ \A k \in Keys : confirmation[k] = "pending" =>
       IsConsent(k) /\ optedOut[Recipient[k]] = (Kind[k] = "stop")
  /\ \A k \in toConfirm : confirmation[k] = "pending"
  /\ \A s \in Senders : Confirming(s) => Key(s) \in toConfirm
  /\ \A s, t \in Senders : Confirming(s) /\ Confirming(t) => s = t
  /\ \A k \in Keys : IsConsent(k) /\ confirmation[k] = "absent" => ledger[k].status = "none"

\* While a reply checked before the STOP of its customer is on its way, the
\* acknowledgement is neither delivered nor tried, and behind it.
StopInv ==
  \A c \in Customers : optedOut[c] =>
    /\ decision[c] \in Keys /\ Kind[decision[c]] = "stop" /\ Recipient[decision[c]] = c
    /\ \A s \in Senders : Late(s, c) =>
         /\ confirmation[decision[c]] # "sent"
         /\ ledger[decision[c]].status \in {"none", "failed"}
    /\ \A i, j \in 1..Len(lock) : Late(lock[i], c) /\ Key(lock[j]) = decision[c] => i < j

ConsentInv == QueueInv /\ ChainInv /\ StopInv

\* The head of the lock is a place of it.
LEMMA HeadIsFirst ==
  ASSUME lock \in Seq(Senders), NEW s \in Senders, AtHead(s)
  PROVE  1 \in 1..Len(lock) /\ lock[1] = s
BY DEF AtHead

\* When the acknowledgement of a STOP has the lock, no reply is on its way.
LEMMA NobodyLate ==
  ASSUME TypeOK, QueueInv, StopInv, NEW c \in Customers, optedOut[c],
         NEW s \in Senders, AtHead(s), Key(s) = decision[c], NEW t \in Senders
  PROVE  ~Late(t, c)
<1> SUFFICES ASSUME Late(t, c) PROVE FALSE
  OBVIOUS
<1>1. lock \in Seq(Senders) /\ 1 \in 1..Len(lock) /\ lock[1] = s
  BY HeadIsFirst DEF TypeOK
<1>2. PICK i \in 1..Len(lock) : lock[i] = t
  BY DEF QueueInv, Late
<1>3. i < 1
  BY <1>1, <1>2 DEF StopInv
<1> QED BY <1>1, <1>3

\* Steps that move neither calls nor decisions and write at most the row of the
\* call that has the lock.
LEMMA ConsentQuiet ==
  ASSUME TypeOK, TypeOK', ConsentInv,
         UNCHANGED <<lock, optedOut, decision, confirmation>>,
         \A t \in Senders : sender'[t].key = sender[t].key,
         \/ UNCHANGED toConfirm
         \/ toConfirm = {} /\ \A k \in toConfirm' : confirmation[k] = "pending",
         \A k \in Keys : IsConsent(k) =>
           \/ ledger'[k].status = ledger[k].status
           \/ \E s \in Senders : AtHead(s) /\ Key(s) = k
  PROVE  ConsentInv'
<1>1. \A t \in Senders : Busy(t)' = Busy(t) /\ Key(t)' = Key(t)
  BY DEF TypeOK, Busy, Key
<1>2. \A t \in Senders : Confirming(t)' = Confirming(t)
  BY <1>1 DEF Confirming
<1>3. \A t \in Senders, c \in Customers : Late(t, c)' = Late(t, c)
  BY <1>1 DEF Late
<1>4. lock \in Seq(Senders) /\ \A i \in 1..Len(lock) : lock[i] \in Senders
  BY DEF TypeOK
<1>5. QueueInv'
  BY <1>1 DEF ConsentInv, QueueInv
<1>6. ASSUME NEW s \in Senders, AtHead(s), Key(s) \in Keys
      PROVE  Busy(s)
  BY <1>6, <1>4, HeadIsFirst DEF ConsentInv, QueueInv
<1>7. ChainInv'
  <2>1. \A k \in toConfirm' : confirmation[k] = "pending"
    BY DEF ConsentInv, ChainInv
  <2>2. \A s \in Senders : Confirming(s)' => Key(s)' \in toConfirm'
    BY <1>1, <1>2 DEF ConsentInv, ChainInv
  <2>3. ASSUME NEW k \in Keys, IsConsent(k), confirmation[k] = "absent"
        PROVE  ledger'[k].status = "none"
    <3>1. ASSUME NEW s \in Senders, AtHead(s), Key(s) = k PROVE FALSE
      <4>1. Confirming(s)
        BY <1>6, <2>3, <3>1 DEF Confirming
      <4>2. confirmation[k] = "pending"
        BY <3>1, <4>1 DEF ConsentInv, ChainInv
      <4> QED BY <4>2, <2>3
    <3> QED BY <2>3, <3>1 DEF ConsentInv, ChainInv
  <2> QED BY <1>2, <2>1, <2>2, <2>3 DEF ConsentInv, ChainInv
<1>8. StopInv'
  <2> SUFFICES ASSUME NEW c \in Customers, optedOut[c]
               PROVE  /\ decision[c] \in Keys /\ Kind[decision[c]] = "stop"
                      /\ Recipient[decision[c]] = c
                      /\ \A s \in Senders : Late(s, c) =>
                           /\ confirmation[decision[c]] # "sent"
                           /\ ledger'[decision[c]].status \in {"none", "failed"}
                      /\ \A i, j \in 1..Len(lock) :
                           Late(lock[i], c) /\ Key(lock[j]) = decision[c] => i < j
    BY <1>1, <1>3, <1>4 DEF StopInv
  <2>1. decision[c] \in Keys /\ Kind[decision[c]] = "stop" /\ Recipient[decision[c]] = c
    BY DEF ConsentInv, StopInv
  <2>2. ASSUME NEW s \in Senders, Late(s, c)
        PROVE  ledger'[decision[c]].status \in {"none", "failed"}
    <3>1. \A t \in Senders : ~(AtHead(t) /\ Key(t) = decision[c])
      BY <2>2, NobodyLate DEF ConsentInv
    <3>2. ledger'[decision[c]].status = ledger[decision[c]].status
      BY <2>1, <3>1 DEF IsConsent
    <3> QED BY <2>2, <3>2 DEF ConsentInv, StopInv
  <2> QED BY <2>1, <2>2 DEF ConsentInv, StopInv
<1> QED BY <1>5, <1>7, <1>8 DEF ConsentInv

\* A new decision: the consent chain is free, so no acknowledgement is on its
\* way, and that of this decision was never tried.
LEMMA ConsentRecorded ==
  ASSUME IInv, TypeOK', ConsentInv, NEW k \in Keys, RecordConsent(k)
  PROVE  ConsentInv'
<1>1. UNCHANGED <<ledger, lock, sender>> /\ IsConsent(k) /\ confirmation[k] = "absent"
      /\ toConfirm = {}
  BY DEF RecordConsent
<1>2. \A t \in Senders : ~Confirming(t)
  BY <1>1 DEF ConsentInv, ChainInv
<1>3. TypeOK /\ Recipient[k] \in Customers /\ ledger[k].status = "none"
  BY <1>1, OutboundAssumption DEF IInv, ConsentInv, ChainInv
<1>4. QueueInv'
  BY <1>1 DEF ConsentInv, QueueInv, Busy
<1>5. CASE optedOut[Recipient[k]] # (Kind[k] = "stop")
  <2>1. /\ optedOut' = [optedOut EXCEPT ![Recipient[k]] = (Kind[k] = "stop")]
        /\ decision' = [decision EXCEPT ![Recipient[k]] = k]
        /\ confirmation' = Decided(k)
        /\ toConfirm' = {k}
    BY <1>5 DEF RecordConsent
  <2>2. ChainInv'
    <3>1. ASSUME NEW j \in Keys, confirmation'[j] = "pending"
          PROVE  IsConsent(j) /\ optedOut'[Recipient[j]] = (Kind[j] = "stop")
      <4>1. CASE j = k
        BY <1>1, <1>3, <2>1, <4>1 DEF TypeOK
      <4>2. CASE j # k
        <5>1. confirmation[j] = "pending" /\ Recipient[j] # Recipient[k]
          BY <2>1, <3>1, <4>2 DEF Decided
        <5>2. optedOut'[Recipient[j]] = optedOut[Recipient[j]]
          BY <1>3, <2>1, <5>1, OutboundAssumption DEF TypeOK
        <5> QED BY <5>1, <5>2 DEF ConsentInv, ChainInv
      <4> QED BY <4>1, <4>2
    <3>2. confirmation'[k] = "pending"
      BY <2>1 DEF Decided
    <3>3. \A t \in Senders : ~Confirming(t)'
      BY <1>1, <1>2 DEF Confirming, Busy, Key
    <3>4. \A j \in Keys : confirmation'[j] = "absent" => confirmation[j] = "absent"
      BY <2>1 DEF Decided
    <3> QED BY <1>1, <2>1, <3>1, <3>2, <3>3, <3>4 DEF ConsentInv, ChainInv
  <2>3. StopInv'
    <3>1. \A s, c : Late(s, c)' = Late(s, c) /\ Key(s)' = Key(s)
      BY <1>1 DEF Late, Busy, Key
    <3> SUFFICES ASSUME NEW c \in Customers, optedOut'[c]
                 PROVE  /\ decision'[c] \in Keys /\ Kind[decision'[c]] = "stop"
                        /\ Recipient[decision'[c]] = c
                        /\ \A s \in Senders : Late(s, c) =>
                             /\ confirmation'[decision'[c]] # "sent"
                             /\ ledger[decision'[c]].status \in {"none", "failed"}
                        /\ \A i, j \in 1..Len(lock) :
                             Late(lock[i], c) /\ Key(lock[j]) = decision'[c] => i < j
      BY <1>1, <3>1 DEF StopInv
    <3>2. CASE c = Recipient[k]
      <4>1. decision'[c] = k /\ Kind[k] = "stop"
        BY <1>3, <2>1, <3>2 DEF TypeOK
      <4>2. confirmation'[k] # "sent"
        BY <2>1 DEF Decided
      <4>3. \A j \in 1..Len(lock) : Key(lock[j]) # k
        <5> SUFFICES ASSUME NEW j \in 1..Len(lock), Key(lock[j]) = k PROVE FALSE
          OBVIOUS
        <5>1. lock[j] \in Senders
          BY <1>3 DEF TypeOK
        <5>2. Busy(lock[j])
          BY <5>1 DEF ConsentInv, QueueInv
        <5> QED BY <1>1, <1>2, <5>1, <5>2 DEF Confirming
      <4> QED BY <1>3, <3>2, <4>1, <4>2, <4>3
    <3>3. CASE c # Recipient[k]
      <4>1. decision'[c] = decision[c] /\ optedOut[c]
        BY <1>3, <2>1, <3>3 DEF TypeOK
      <4>2. /\ decision[c] \in Keys /\ Kind[decision[c]] = "stop" /\ Recipient[decision[c]] = c
            /\ \A s \in Senders : Late(s, c) =>
                 /\ confirmation[decision[c]] # "sent"
                 /\ ledger[decision[c]].status \in {"none", "failed"}
            /\ \A i, j \in 1..Len(lock) : Late(lock[i], c) /\ Key(lock[j]) = decision[c] => i < j
        BY <4>1 DEF ConsentInv, StopInv
      <4>3. confirmation'[decision[c]] = confirmation[decision[c]]
        BY <2>1, <3>3, <4>2 DEF Decided
      <4> QED BY <4>1, <4>2, <4>3
    <3> QED BY <3>2, <3>3
  <2> QED BY <1>4, <2>2, <2>3 DEF ConsentInv
<1>6. CASE optedOut[Recipient[k]] = (Kind[k] = "stop")
  <2>1. /\ UNCHANGED <<optedOut, decision, toConfirm>>
        /\ confirmation' = [confirmation EXCEPT ![k] = "not_required"]
    BY <1>6, Zenon DEF RecordConsent
  <2>2. confirmation'[k] = "not_required" /\ \A j \in Keys : j # k => confirmation'[j] = confirmation[j]
    BY <1>3, <2>1 DEF TypeOK
  <2>3. ChainInv'
    BY <1>1, <2>1, <2>2 DEF ConsentInv, ChainInv, Confirming, Busy, Key
  <2>4. \A s, c : Late(s, c)' = Late(s, c) /\ Key(s)' = Key(s)
    BY <1>1 DEF Late, Busy, Key
  <2>5. StopInv'
    <3> SUFFICES ASSUME NEW c \in Customers, optedOut[c]
                 PROVE  /\ decision[c] \in Keys /\ Kind[decision[c]] = "stop"
                        /\ Recipient[decision[c]] = c
                        /\ \A s \in Senders : Late(s, c) =>
                             /\ confirmation'[decision[c]] # "sent"
                             /\ ledger[decision[c]].status \in {"none", "failed"}
                        /\ \A i, j \in 1..Len(lock) :
                             Late(lock[i], c) /\ Key(lock[j]) = decision[c] => i < j
      BY <1>1, <2>1, <2>4 DEF StopInv
    <3> QED BY <2>2 DEF ConsentInv, StopInv
  <2> QED BY <1>4, <2>3, <2>5 DEF ConsentInv
<1> QED BY <1>5, <1>6

\* A restart ends every call and tries no new acknowledgement.
LEMMA ConsentRestart ==
  ASSUME TypeOK, ConsentInv, PowerLoss, UNCHANGED <<optedOut, decision, confirmation>>,
         \A k \in Keys : ledger[k].status = "none" => ledger'[k].status = "none"
  PROVE  ConsentInv'
<1>1. lock' = <<>> /\ toConfirm' = {} /\ \A t \in Senders : ~Busy(t)'
  BY IdleTyped DEF PowerLoss, Busy
<1>2. QueueInv'
  BY <1>1 DEF QueueInv
<1>3. ChainInv'
  BY <1>1 DEF ConsentInv, ChainInv, Confirming
<1>4. StopInv'
  BY <1>1 DEF ConsentInv, StopInv, Late
<1> QED BY <1>2, <1>3, <1>4 DEF ConsentInv

\* A call that joins the lock comes last.
LEMMA JoinPlaces ==
  ASSUME TypeOK, QueueInv, NEW s \in Senders, ~Busy(s), NEW k \in Keys, NEW b, Join(s, k, b)
  PROVE  /\ Len(lock') = Len(lock) + 1 /\ Len(lock) \in Nat
         /\ lock'[Len(lock')] = s
         /\ \A i \in 1..Len(lock) : lock'[i] = lock[i] /\ lock[i] \in Senders /\ lock[i] # s
         /\ Busy(s)' /\ Key(s)' = k
         /\ \A t \in Senders : t # s => Busy(t)' = Busy(t) /\ Key(t)' = Key(t)
<1>1. lock \in Seq(Senders) /\ lock' = Append(lock, s)
  BY DEF TypeOK, Join
<1>2. sender \in [Senders -> CallRecord] /\ sender' = [sender EXCEPT ![s] = Call(k, b, "queued")]
  BY DEF TypeOK, Join
<1>3. \A i \in 1..Len(lock) : lock[i] # s
  BY DEF QueueInv
<1>4. /\ Busy(s)' /\ Key(s)' = k
      /\ \A t \in Senders : t # s => Busy(t)' = Busy(t) /\ Key(t)' = Key(t)
  BY <1>2 DEF Busy, Key, Call
<1> QED BY <1>1, <1>3, <1>4

\* And keeps the queue one of the calls in progress.
LEMMA JoinQueue ==
  ASSUME TypeOK, QueueInv, NEW s \in Senders, ~Busy(s), NEW k \in Keys, NEW b, Join(s, k, b)
  PROVE  QueueInv'
<1> DEFINE n == Len(lock)
<1>1. /\ n \in Nat /\ Len(lock') = n + 1 /\ lock'[n + 1] = s
      /\ \A i \in 1..n : lock'[i] = lock[i] /\ lock[i] # s
      /\ Busy(s)' /\ \A t \in Senders : t # s => Busy(t)' = Busy(t)
  BY JoinPlaces
<1>2. ASSUME NEW t \in Senders
      PROVE  Busy(t)' <=> \E i \in 1..(n + 1) : lock'[i] = t
  <2>1. CASE t = s
    BY <1>1, <2>1
  <2>2. CASE t # s
    <3>1. Busy(t)' <=> \E i \in 1..n : lock[i] = t
      BY <1>1, <2>2 DEF QueueInv
    <3>2. \A i \in 1..(n + 1) : i \in 1..n \/ i = n + 1
      BY <1>1
    <3>3. \A i \in 1..n : i \in 1..(n + 1)
      BY <1>1
    <3> HIDE DEF n
    <3> QED BY <1>1, <2>2, <3>1, <3>2, <3>3, Zenon
  <2> QED BY <2>1, <2>2
<1>3. ASSUME NEW i \in 1..(n + 1), NEW j \in 1..(n + 1), lock'[i] = lock'[j] PROVE i = j
  <2>1. \A m \in 1..(n + 1) : m \in 1..n \/ m = n + 1
    BY <1>1
  <2> QED BY <1>1, <1>3, <2>1 DEF QueueInv
<1> QED BY <1>1, <1>2, <1>3 DEF QueueInv

\* A call that joins is no reply to a customer who has opted out, and no
\* second acknowledgement.
LEMMA ConsentJoin ==
  ASSUME TypeOK, ConsentInv, NEW s \in Senders, ~Busy(s), NEW k \in Keys, NEW b, Join(s, k, b),
         UNCHANGED <<optedOut, decision, confirmation, toConfirm, ledger>>,
         ToCustomer(k) => ~optedOut[Recipient[k]],
         IsConsent(k) => k \in toConfirm /\ \A t \in Senders : ~Confirming(t)
  PROVE  ConsentInv'
<1>1. QueueInv'
  BY JoinQueue DEF ConsentInv
<1>2. /\ Busy(s)' /\ Key(s)' = k
      /\ \A t \in Senders : t # s => Busy(t)' = Busy(t) /\ Key(t)' = Key(t)
  BY JoinPlaces DEF ConsentInv
<1>3. ChainInv'
  <2>1. \A t \in Senders : t # s => Confirming(t)' = Confirming(t)
    BY <1>2 DEF Confirming
  <2>2. Confirming(s)' <=> IsConsent(k)
    BY <1>2 DEF Confirming
  <2>3. \A t \in Senders : Confirming(t)' => Key(t)' \in toConfirm
    BY <1>2, <2>1, <2>2 DEF ConsentInv, ChainInv
  <2>4. \A t, u \in Senders : Confirming(t)' /\ Confirming(u)' => t = u
    BY <2>1, <2>2 DEF ConsentInv, ChainInv
  <2> QED BY <2>3, <2>4 DEF ConsentInv, ChainInv
<1>4. StopInv'
  <2>1. ASSUME NEW c \in Customers, optedOut[c], NEW t \in Senders, Late(t, c)'
        PROVE  t # s /\ Late(t, c)
    BY <1>2, <2>1 DEF Late
  <2> DEFINE n == Len(lock)
  <2>2. /\ n \in Nat /\ Len(lock') = n + 1 /\ lock'[n + 1] = s
        /\ \A i \in 1..n : lock'[i] = lock[i] /\ lock[i] \in Senders /\ lock[i] # s
    BY JoinPlaces DEF ConsentInv
  <2>3. \A i \in 1..(n + 1) : i \in 1..n \/ i = n + 1
    BY <2>2
  <2> HIDE DEF n
  <2>4. ASSUME NEW c \in Customers, optedOut[c], NEW i \in 1..(n + 1), NEW j \in 1..(n + 1),
               NEW t, NEW u, lock'[i] = t, lock'[j] = u, Late(t, c)', Key(u)' = decision[c]
        PROVE  i < j
    <3>1. t \in Senders /\ u \in Senders
      BY <2>2, <2>3, <2>4
    <3>2. t # s /\ Late(t, c)
      BY <2>1, <2>4, <3>1
    <3>3. i \in 1..n /\ lock[i] = t
      BY <2>2, <2>3, <2>4, <3>2
    <3>4. CASE j = n + 1
      BY <2>2, <3>3, <3>4
    <3>5. CASE j \in 1..n
      <4>1. lock[j] = u /\ u # s
        BY <2>2, <2>4, <3>5
      <4>2. Key(u) = decision[c]
        BY <1>2, <2>4, <3>1, <4>1
      <4>3. Late(lock[i], c) /\ Key(lock[j]) = decision[c]
        BY <3>2, <3>3, <4>1, <4>2, Zenon
      <4>4. i \in 1..Len(lock) /\ j \in 1..Len(lock)
        BY <3>3, <3>5 DEF n
      <4> QED BY <2>4, <4>3, <4>4 DEF ConsentInv, StopInv
    <3> QED BY <2>3, <3>4, <3>5
  <2>5. \A c \in Customers : optedOut[c] =>
          \A i, j \in 1..(n + 1) :
            Late(lock[i], c)' /\ Key(lock[j])' = decision[c] => i < j
    <3> SUFFICES ASSUME NEW c \in Customers, optedOut[c], NEW i \in 1..(n + 1), NEW j \in 1..(n + 1),
                        Late(lock[i], c)', Key(lock[j])' = decision[c]
                 PROVE  i < j
      OBVIOUS
    <3>1. PICK t : t = lock'[i]
      OBVIOUS
    <3>2. PICK u : u = lock'[j]
      OBVIOUS
    <3>3. Late(t, c)'
      BY <3>1 DEF Late, Busy, Key
    <3>4. Key(u)' = decision[c]
      BY <3>2 DEF Key
    <3> QED BY <2>4, <3>1, <3>2, <3>3, <3>4, Zenon
  <2>6. \A c \in Customers : optedOut[c] =>
          /\ decision[c] \in Keys /\ Kind[decision[c]] = "stop" /\ Recipient[decision[c]] = c
          /\ \A t \in Senders : Late(t, c)' =>
               /\ confirmation[decision[c]] # "sent"
               /\ ledger[decision[c]].status \in {"none", "failed"}
    BY <2>1 DEF ConsentInv, StopInv
  <2> QED BY <2>2, <2>5, <2>6 DEF StopInv
<1> QED BY <1>1, <1>3, <1>4 DEF ConsentInv

\* An acknowledgement found delivered is settled without a new call.
LEMMA ConsentSettled ==
  ASSUME IInv, ConsentInv, NEW k \in toConfirm, ~MayTry(k, Fixed),
         \A t \in Senders : ~Confirming(t), Acknowledged(k, TRUE),
         UNCHANGED <<optedOut, decision, ledger, lock, sender>>
  PROVE  ConsentInv'
<1>1. TypeOK /\ k \in Keys
  BY DEF IInv, TypeOK
<1>2. \A t, c : Late(t, c)' = Late(t, c) /\ Busy(t)' = Busy(t) /\ Key(t)' = Key(t)
                /\ Confirming(t)' = Confirming(t)
  BY DEF Late, Busy, Key, Confirming
<1>3. QueueInv'
  BY <1>2 DEF ConsentInv, QueueInv
<1>4. toConfirm' = toConfirm \ {k} /\ \A j \in Keys : j # k => confirmation'[j] = confirmation[j]
  BY <1>1 DEF Acknowledged, TypeOK
<1>5. confirmation[k] = "pending" /\ IsConsent(k) /\ confirmation'[k] = "sent"
  <2>1. confirmation[k] = "pending" /\ IsConsent(k)
    BY <1>1 DEF ConsentInv, ChainInv
  <2> QED BY <1>1, <2>1 DEF Acknowledged, TypeOK
<1>6. ChainInv'
  <2>1. \A t \in Senders : ~Confirming(t)'
    BY <1>2
  <2>2. \A j \in Keys : confirmation'[j] = "pending" => confirmation[j] = "pending"
    BY <1>4, <1>5
  <2>3. \A j \in Keys : confirmation'[j] = "absent" => confirmation[j] = "absent"
    BY <1>4, <1>5
  <2>4. \A j \in toConfirm' : confirmation'[j] = "pending"
    BY <1>1, <1>4 DEF ConsentInv, ChainInv, TypeOK
  <2> QED BY <2>1, <2>2, <2>3, <2>4 DEF ConsentInv, ChainInv
<1>7. StopInv'
  <2> SUFFICES ASSUME NEW c \in Customers, optedOut[c]
               PROVE  /\ decision[c] \in Keys /\ Kind[decision[c]] = "stop"
                      /\ Recipient[decision[c]] = c
                      /\ \A s \in Senders : Late(s, c) =>
                           /\ confirmation'[decision[c]] # "sent"
                           /\ ledger[decision[c]].status \in {"none", "failed"}
                      /\ \A i, j \in 1..Len(lock) :
                           Late(lock[i], c) /\ Key(lock[j]) = decision[c] => i < j
    BY <1>2 DEF StopInv
  <2>1. decision[c] \in Keys
    BY DEF ConsentInv, StopInv
  <2>2. ledger[k].status \notin {"none", "failed"}
    BY DEF MayTry
  <2>3. CASE decision[c] = k
    BY <2>2, <2>3 DEF ConsentInv, StopInv
  <2>4. CASE decision[c] # k
    BY <1>4, <2>1, <2>4 DEF ConsentInv, StopInv
  <2> QED BY <2>3, <2>4
<1> QED BY <1>3, <1>6, <1>7 DEF ConsentInv

\* A call that returns leaves the lock to the next.
LEMMA ReturnPlaces ==
  ASSUME TypeOK, QueueInv, NEW s \in Senders, AtHead(s), Busy(s), NEW ok, Return(s, ok)
  PROVE  /\ Len(lock) \in Nat /\ Len(lock') = Len(lock) - 1
         /\ \A i \in 1..Len(lock') : i + 1 \in 1..Len(lock) /\ lock'[i] = lock[i + 1]
                                     /\ lock'[i] \in Senders /\ lock'[i] # s
         /\ ~Busy(s)' /\ Key(s)' = None
         /\ \A t \in Senders : t # s => Busy(t)' = Busy(t) /\ Key(t)' = Key(t)
<1>1. lock \in Seq(Senders) /\ lock # <<>> /\ lock[1] = s /\ lock' = Tail(lock)
  BY HeadIsFirst DEF TypeOK, Return, AtHead
<1>2. Len(lock) \in Nat /\ Len(lock) >= 1 /\ Len(lock') = Len(lock) - 1
      /\ \A i \in 1..Len(lock') : i + 1 \in 1..Len(lock) /\ lock'[i] = lock[i + 1]
  BY <1>1
<1>3. \A i \in 1..Len(lock') : lock'[i] \in Senders /\ lock'[i] # s
  <2> SUFFICES ASSUME NEW i \in 1..Len(lock') PROVE lock[i + 1] \in Senders /\ lock[i + 1] # s
    BY <1>2
  <2>1. i + 1 \in 1..Len(lock) /\ i + 1 # 1 /\ 1 \in 1..Len(lock)
    BY <1>2
  <2> QED BY <1>1, <2>1 DEF QueueInv
<1>4. sender \in [Senders -> CallRecord] /\ sender' = [sender EXCEPT ![s] = IdleCall]
  BY DEF TypeOK, Return
<1>5. /\ ~Busy(s)' /\ Key(s)' = None
      /\ \A t \in Senders : t # s => Busy(t)' = Busy(t) /\ Key(t)' = Key(t)
  BY <1>4, IdleTyped DEF Busy, Key
<1> QED BY <1>2, <1>3, <1>5

\* And the queue stays one of the calls in progress.
LEMMA ReturnQueue ==
  ASSUME TypeOK, QueueInv, NEW s \in Senders, AtHead(s), Busy(s), NEW ok, Return(s, ok)
  PROVE  QueueInv'
<1> DEFINE n == Len(lock)
           m == Len(lock')
<1>1. /\ n \in Nat /\ m = n - 1
      /\ \A i \in 1..m : i + 1 \in 1..n /\ lock'[i] = lock[i + 1] /\ lock'[i] # s
      /\ ~Busy(s)' /\ \A t \in Senders : t # s => Busy(t)' = Busy(t)
  BY ReturnPlaces
<1>2. lock[1] = s
  BY HeadIsFirst DEF TypeOK
<1>3. ASSUME NEW t \in Senders
      PROVE  Busy(t)' <=> \E i \in 1..m : lock'[i] = t
  <2>1. CASE t = s
    BY <1>1, <2>1
  <2>2. CASE t # s
    <3>1. ASSUME Busy(t)' PROVE \E i \in 1..m : lock'[i] = t
      <4>1. PICK i \in 1..n : lock[i] = t
        BY <1>1, <2>2, <3>1 DEF QueueInv
      <4>2. i # 1 /\ i \in Nat
        BY <1>2, <2>2, <4>1
      <4>3. i - 1 \in 1..m /\ (i - 1) + 1 = i
        BY <1>1, <4>1, <4>2
      <4>4. lock'[i - 1] = lock[(i - 1) + 1]
        BY <1>1, <4>3
      <4>5. lock'[i - 1] = t
        BY <4>1, <4>3, <4>4
      <4> QED BY <4>3, <4>5
    <3>2. ASSUME NEW i \in 1..m, lock'[i] = t PROVE Busy(t)'
      <4>1. i + 1 \in 1..n /\ lock[i + 1] = t
        BY <1>1, <3>2
      <4>2. Busy(t)
        BY <4>1 DEF QueueInv
      <4> QED BY <1>1, <2>2, <4>2
    <3> QED BY <3>1, <3>2
  <2> QED BY <2>1, <2>2
<1>4. ASSUME NEW i \in 1..m, NEW j \in 1..m, lock'[i] = lock'[j] PROVE i = j
  <2>1. i + 1 \in 1..n /\ j + 1 \in 1..n /\ lock[i + 1] = lock[j + 1]
    BY <1>1, <1>4
  <2>2. i + 1 = j + 1
    BY <2>1 DEF QueueInv
  <2> QED BY <1>1, <2>2
<1> QED BY <1>3, <1>4 DEF QueueInv

\* A call that returns settles at most the acknowledgement it delivered, and
\* no reply is behind that one.
LEMMA ConsentReturn ==
  ASSUME TypeOK, ConsentInv, NEW s \in Senders, AtHead(s), Busy(s), NEW ok \in BOOLEAN, Return(s, ok),
         UNCHANGED <<optedOut, decision>>,
         \A k \in Keys : k # Key(s) => ledger'[k] = ledger[k]
  PROVE  ConsentInv'
<1>1. QueueInv'
  BY ReturnQueue DEF ConsentInv
<1>2. /\ ~Busy(s)' /\ \A t \in Senders : t # s => Busy(t)' = Busy(t) /\ Key(t)' = Key(t)
  BY ReturnPlaces DEF ConsentInv
<1>3. Key(s) \in Keys
  BY BusyKey, TypeParts DEF ProcessOK, Busy
<1>4. \A t \in Senders : t # s => (Confirming(t)' <=> Confirming(t))
  BY <1>2 DEF Confirming, Busy
<1>5. ~Confirming(s)'
  BY <1>2 DEF Confirming
<1>6. /\ toConfirm' = toConfirm \ {Key(s)}
      /\ \A k \in Keys : k # Key(s) => confirmation'[k] = confirmation[k]
      /\ \/ confirmation' = confirmation
         \/ confirmation'[Key(s)] = "sent" /\ confirmation[Key(s)] = "pending"
  BY <1>3 DEF Return, Acknowledged, TypeOK
<1>7. ChainInv'
  <2>1. \A k \in Keys : confirmation'[k] = "pending" => confirmation[k] = "pending"
    BY <1>6
  <2>2. \A k \in toConfirm' : confirmation'[k] = "pending"
    BY <1>3, <1>6 DEF ConsentInv, ChainInv, TypeOK
  <2>3. ASSUME NEW t \in Senders, Confirming(t)' PROVE Key(t)' \in toConfirm'
    <3>1. t # s /\ Confirming(t) /\ Key(t)' = Key(t)
      BY <1>2, <1>4, <1>5, <2>3
    <3>2. Key(t) \in toConfirm
      BY <3>1 DEF ConsentInv, ChainInv
    <3>3. Key(t) # Key(s)
      <4>1. Key(t) = Key(s) => Confirming(s)
        BY <3>1 DEF Confirming
      <4> QED BY <3>1, <4>1 DEF ConsentInv, ChainInv
    <3> QED BY <1>6, <3>1, <3>2, <3>3
  <2>4. \A t, u \in Senders : Confirming(t)' /\ Confirming(u)' => t = u
    BY <1>4, <1>5 DEF ConsentInv, ChainInv
  <2>5. ASSUME NEW k \in Keys, IsConsent(k), confirmation'[k] = "absent"
        PROVE  ledger'[k].status = "none"
    <3>1. confirmation[k] = "absent"
      BY <1>6, <2>5
    <3>2. k # Key(s)
      <4>1. k = Key(s) => Confirming(s)
        BY <2>5 DEF Confirming
      <4> QED BY <3>1, <4>1 DEF ConsentInv, ChainInv
    <3> QED BY <2>5, <3>1, <3>2 DEF ConsentInv, ChainInv
  <2>6. \A k \in Keys : confirmation'[k] = "pending" =>
          IsConsent(k) /\ optedOut'[Recipient[k]] = (Kind[k] = "stop")
    BY <2>1 DEF ConsentInv, ChainInv
  <2> QED BY <2>2, <2>3, <2>4, <2>5, <2>6 DEF ChainInv
<1>8. StopInv'
  <2>1. \A t \in Senders, c \in Customers : Late(t, c)' => t # s /\ Late(t, c)
    BY <1>2 DEF Late, Busy
  <2>2. ASSUME NEW c \in Customers, optedOut[c]
        PROVE  /\ decision[c] \in Keys /\ Kind[decision[c]] = "stop" /\ Recipient[decision[c]] = c
               /\ \A t \in Senders : Late(t, c)' =>
                    /\ confirmation'[decision[c]] # "sent"
                    /\ ledger'[decision[c]].status \in {"none", "failed"}
    <3>1. decision[c] \in Keys /\ Kind[decision[c]] = "stop" /\ Recipient[decision[c]] = c
      BY <2>2 DEF ConsentInv, StopInv
    <3>2. ASSUME NEW t \in Senders, Late(t, c)'
          PROVE  /\ confirmation'[decision[c]] # "sent"
                 /\ ledger'[decision[c]].status \in {"none", "failed"}
      <4>1. Late(t, c)
        BY <2>1, <3>2
      <4>2. Key(s) # decision[c]
        BY <2>2, <4>1, NobodyLate DEF ConsentInv
      <4> QED BY <1>6, <2>2, <3>1, <4>1, <4>2 DEF ConsentInv, StopInv
    <3> QED BY <3>1, <3>2
  <2> DEFINE n == Len(lock)
             m == Len(lock')
  <2>3. /\ n \in Nat /\ m = n - 1
        /\ \A i \in 1..m : i + 1 \in 1..n /\ lock'[i] = lock[i + 1]
                           /\ lock'[i] \in Senders /\ lock'[i] # s
    BY ReturnPlaces DEF ConsentInv
  <2> HIDE DEF n, m
  <2>4. ASSUME NEW c \in Customers, optedOut[c], NEW i \in 1..m, NEW j \in 1..m,
               NEW t, NEW u, lock'[i] = t, lock'[j] = u, Late(t, c)', Key(u)' = decision[c]
        PROVE  i < j
    <3>1. t \in Senders /\ u \in Senders /\ t # s /\ u # s
      BY <2>3, <2>4
    <3>2. Late(t, c) /\ Key(u) = decision[c]
      BY <1>2, <2>1, <2>4, <3>1
    <3>3. lock[i + 1] = t /\ lock[j + 1] = u
      BY <2>3, <2>4
    <3>4. Late(lock[i + 1], c) /\ Key(lock[j + 1]) = decision[c]
      BY <3>2, <3>3, Zenon
    <3>5. i + 1 \in 1..Len(lock) /\ j + 1 \in 1..Len(lock)
      BY <2>3 DEF n
    <3>6. i + 1 < j + 1
      BY <2>4, <3>4, <3>5 DEF ConsentInv, StopInv
    <3>7. i \in Int /\ j \in Int
      BY <2>3 
    <3> QED BY <3>6, <3>7
  <2>5. \A c \in Customers : optedOut[c] =>
          \A i, j \in 1..m :
            Late(lock[i], c)' /\ Key(lock[j])' = decision[c] => i < j
    <3> SUFFICES ASSUME NEW c \in Customers, optedOut[c], NEW i \in 1..m, NEW j \in 1..m,
                        Late(lock[i], c)', Key(lock[j])' = decision[c]
                 PROVE  i < j
      OBVIOUS
    <3>1. PICK t : t = lock'[i]
      OBVIOUS
    <3>2. PICK u : u = lock'[j]
      OBVIOUS
    <3>3. Late(t, c)'
      BY <3>1 DEF Late, Busy, Key
    <3>4. Key(u)' = decision[c]
      BY <3>2 DEF Key
    <3> QED BY <2>4, <3>1, <3>2, <3>3, <3>4, Zenon
  <2> QED BY <2>2, <2>5 DEF StopInv, m
<1> QED BY <1>1, <1>7, <1>8 DEF ConsentInv

\* The surroundings, commands and crashes included, keep it.
LEMMA ConsentWorld == ASSUME IInv, IInv', ConsentInv, World PROVE ConsentInv'
<1> USE DEF vars, databaseVars, pacingVars, processVars, providerVars
<1>0. TypeOK /\ TypeOK' /\ SendersOK(sender) /\ ledger \in [Keys -> LedgerRow]
  BY TypeParts DEF IInv, ProcessOK, TypeOK
<1>1. ASSUME UNCHANGED <<lock, optedOut, decision, confirmation, toConfirm, ledger>>,
             \A t \in Senders : sender'[t].key = sender[t].key
      PROVE  ConsentInv'
  BY <1>0, <1>1, ConsentQuiet
<1>2. ASSUME NEW k \in Keys, ResendWindowLapses(k) PROVE ConsentInv'
  <2>1. ledger' = [ledger EXCEPT ![k] = Row("sent", ledger[k].body, ledger[k].code, TRUE)]
        /\ ledger[k].status = "sent" /\ ~Permanent(k)
    BY <1>2 DEF ResendWindowLapses
  <2>2. Row("sent", ledger[k].body, ledger[k].code, TRUE).status = "sent"
    BY DEF Row
  <2>3. \A j \in Keys : ledger'[j].status = ledger[j].status
    BY <1>0, <2>1, <2>2
  <2>4. UNCHANGED <<lock, optedOut, decision, confirmation, toConfirm, sender>>
    BY <1>2 DEF ResendWindowLapses
  <2> QED BY <1>0, <2>3, <2>4, ConsentQuiet
<1>3. ASSUME GapPasses PROVE ConsentInv'
  <2>1. \A t \in Senders : sender'[t].key = sender[t].key
    BY <1>3 DEF GapPasses, Call
  <2> QED BY <1>1, <1>3, <2>1 DEF GapPasses
<1>4. ASSUME RetryConfirmations PROVE ConsentInv'
  <2>1. toConfirm = {} /\ \A k \in toConfirm' : confirmation[k] = "pending"
    BY <1>4 DEF RetryConfirmations
  <2>2. UNCHANGED <<ledger, lock, optedOut, decision, confirmation, sender>>
    BY <1>4 DEF RetryConfirmations
  <2> QED BY <1>0, <2>1, <2>2, ConsentQuiet
<1>5. \A k \in Keys : ledger[k].status = "none" => Restarted[k].status = "none"
  BY <1>0 DEF Restarted
<1>6. ASSUME Crash PROVE ConsentInv'
  BY <1>0, <1>5, <1>6, ConsentRestart DEF Crash
<1>7. ASSUME NEW s \in Senders, CrashWhileRecording(s) PROVE ConsentInv'
  <2>1. Key(s) \in Keys /\ ledger[Key(s)].status = "pending"
    BY <1>7, <1>0, BusyKey DEF CrashWhileRecording, Accepted, IInv, SendingInv
  <2> DEFINE row == Row("sent", ledger[Key(s)].body, "none", FALSE)
  <2>2. ledger' = [Restarted EXCEPT ![Key(s)] = row]
    BY <1>7 DEF CrashWhileRecording
  <2>3. Restarted \in [Keys -> LedgerRow]
    BY <1>0, RestartedTyped
  <2> HIDE DEF row
  <2>4. \A k \in Keys : k # Key(s) => ledger'[k] = Restarted[k]
    BY <2>2, <2>3
  <2>5. \A k \in Keys : ledger[k].status = "none" => ledger'[k].status = "none"
    BY <1>5, <2>1, <2>4
  <2>6. PowerLoss /\ UNCHANGED <<optedOut, decision, confirmation>>
    BY <1>7 DEF CrashWhileRecording
  <2> QED BY <1>0, <2>5, <2>6, ConsentRestart
<1>8. ASSUME NEW k \in Keys, Arrive(k) PROVE ConsentInv'
  BY <1>1, <1>8 DEF Arrive
<1>9. ASSUME NEW c \in Customers, BusyCooldownEnds(c) PROVE ConsentInv'
  BY <1>1, <1>9 DEF BusyCooldownEnds
<1>10. ASSUME Midnight PROVE ConsentInv'
  BY <1>1, <1>10 DEF Midnight
<1> QED BY <1>0, <1>2, <1>3, <1>4, <1>6, <1>7, <1>8, <1>9, <1>10, ConsentRecorded DEF World

\* The code before the lock keeps it.
LEMMA ConsentCalls ==
  ASSUME IInv, ConsentInv, NEW s \in Senders, Calls(s) PROVE ConsentInv'
<1>0. TypeOK /\ SendersOK(sender)
  BY TypeParts DEF IInv, ProcessOK
<1>1. ASSUME NEW k \in Keys, StartConfirmation(s, k) PROVE ConsentInv'
  <2>1. ~Busy(s) /\ k \in toConfirm /\ ~Occupied(k)
        /\ UNCHANGED <<ledger, optedOut, decision>>
    BY <1>1 DEF StartConfirmation
  <2>2. IsConsent(k)
    BY <2>1 DEF ConsentInv, ChainInv
  <2>3. \A t \in Senders : ~Confirming(t)
    BY <2>1, <2>2 DEF Occupied, OneAtATime, Confirming, Key
  <2>4. CASE MayTry(k, Fixed)
    <3>1. Join(s, k, Fixed) /\ UNCHANGED <<confirmation, toConfirm>>
      BY <1>1, <2>4 DEF StartConfirmation
    <3>2. ToCustomer(k) => ~optedOut[Recipient[k]]
      BY <2>2 DEF IsConsent, ToCustomer
    <3> QED BY <1>0, <2>1, <2>3, <3>1, <3>2, ConsentJoin
  <2>5. CASE ~MayTry(k, Fixed)
    <3>1. Acknowledged(k, TRUE) /\ UNCHANGED <<lock, sender>>
      BY <1>1, <2>5 DEF StartConfirmation
    <3> QED BY <2>1, <2>3, <2>5, <3>1, ConsentSettled
  <2> QED BY <2>4, <2>5
<1>2. ASSUME NEW k \in Keys, NEW b \in Texts(k), Start(s, k, b) PROVE ConsentInv'
  <2>1. /\ ~Busy(s) /\ ~IsConsent(k) /\ (ToCustomer(k) => ~optedOut[Recipient[k]])
        /\ Join(s, k, b)
        /\ UNCHANGED <<ledger, optedOut, decision, confirmation, toConfirm>>
    BY <1>2 DEF Start, databaseVars
  <2> QED BY <1>0, <2>1, ConsentJoin
<1> QED BY <1>1, <1>2 DEF Calls

\* The code inside the lock does.
LEMMA ConsentLock ==
  ASSUME IInv, IInv', ConsentInv, NEW s \in Senders, LockStep(s) PROVE ConsentInv'
<1> USE DEF databaseVars, pacingVars, processVars, providerVars
<1>0. TypeOK /\ TypeOK' /\ SendersOK(sender) /\ AtHead(s)
  BY StepAtHead, TypeParts DEF IInv, ProcessOK
<1>1. sender[s].pc # "idle" /\ Busy(s)
  BY DEF LockStep, SuppressBusyReply, PacingRefuses, PacingAllows, ContentRefused, BeginAttempt,
         AttemptRefused, SendConfirmed, SendRejected, SendTimesOut, Accepted, Paced, Busy
<1>2. Key(s) \in Keys
  BY <1>0, <1>1, BusyKey
<1>3. ASSUME NEW row, ledger' = [ledger EXCEPT ![Key(s)] = row]
      PROVE  \A k \in Keys : k # Key(s) => ledger'[k] = ledger[k]
  BY <1>0, <1>2, <1>3, RowTaken
<1>4. ASSUME NEW ok \in BOOLEAN, Return(s, ok), UNCHANGED <<optedOut, decision>>,
             UNCHANGED ledger \/ \E row : ledger' = [ledger EXCEPT ![Key(s)] = row]
      PROVE  ConsentInv'
  <2>1. \A k \in Keys : k # Key(s) => ledger'[k] = ledger[k]
    BY <1>3, <1>4
  <2> QED BY <1>0, <1>1, <1>4, <2>1, ConsentReturn
<1>5. CASE PacingAllows(s)
  <2>1. sender' = [sender EXCEPT ![s] = Call(sender[s].key, sender[s].body, AfterPacing)]
    BY <1>5 DEF PacingAllows
  <2>2. \A t \in Senders : sender'[t].key = sender[t].key
    BY <1>0, <2>1 DEF SendersOK, Call
  <2>3. UNCHANGED <<lock, optedOut, decision, confirmation, toConfirm, ledger>>
    BY <1>5 DEF PacingAllows
  <2> QED BY <1>0, <2>2, <2>3, ConsentQuiet
<1>6. CASE BeginAttempt(s)
  <2>1. sender' = [sender EXCEPT ![s] = Call(sender[s].key, sender[s].body, "sending")]
    BY <1>6 DEF BeginAttempt, Key
  <2>2. \A t \in Senders : sender'[t].key = sender[t].key
    BY <1>0, <2>1 DEF SendersOK, Call
  <2>3. UNCHANGED <<lock, optedOut, decision, confirmation, toConfirm>>
    BY <1>6 DEF BeginAttempt
  <2>4. \A k \in Keys : k # Key(s) => ledger'[k] = ledger[k]
    BY <1>3, <1>6 DEF BeginAttempt
  <2> QED BY <1>0, <2>2, <2>3, <2>4, ConsentQuiet
<1>7. CASE SuppressBusyReply(s) \/ PacingRefuses(s) \/ ContentRefused(s)
  BY <1>4, <1>7 DEF SuppressBusyReply, PacingRefuses, ContentRefused
<1>8. CASE AttemptRefused(s)
  BY <1>4, <1>8 DEF AttemptRefused
<1>9. CASE SendConfirmed(s)
  BY <1>4, <1>9 DEF SendConfirmed, MarkSent
<1>10. CASE SendRejected(s)
  BY <1>4, <1>10 DEF SendRejected
<1>11. CASE SendTimesOut(s)
  BY <1>4, <1>11 DEF SendTimesOut
<1> QED BY <1>5, <1>6, <1>7, <1>8, <1>9, <1>10, <1>11 DEF LockStep

\* It holds at first.
LEMMA ConsentInit == Init => ConsentInv
<1> SUFFICES ASSUME Init PROVE ConsentInv
  OBVIOUS
<1>1. lock = <<>> /\ Len(lock) = 0 /\ toConfirm = {} /\ \A t \in Senders : ~Busy(t)
  BY IdleTyped DEF Init, Busy
<1>2. \A k \in Keys : confirmation[k] = "absent" /\ ledger[k].status = "none"
  BY DEF Init, Row
<1>3. \A c \in Customers : ~optedOut[c]
  BY DEF Init
<1> QED BY <1>1, <1>2, <1>3 DEF ConsentInv, QueueInv, ChainInv, StopInv, Confirming

\* Every step keeps it.
LEMMA ConsentNext == IInv /\ IInv' /\ ConsentInv /\ [Next]_vars => ConsentInv'
<1> SUFFICES ASSUME IInv, IInv', ConsentInv, [Next]_vars PROVE ConsentInv'
  OBVIOUS
<1>1. CASE UNCHANGED vars
  BY <1>1, ConsentQuiet DEF IInv, vars, databaseVars, processVars
<1> QED BY <1>1, ConsentWorld, ConsentCalls, ConsentLock DEF Next

\* The invariant of the consent chain holds always.
LEMMA ConsentInvariant == Spec => [](IInv /\ ConsentInv)
<1>1. Spec => []IInv
  BY Invariant
<1> QED BY <1>1, ConsentInit, ConsentNext, PTL DEF Spec

\* No acknowledgement of a decision that has been superseded goes out.
THEOREM CurrentConfirmations == Spec => ConfirmationsAreCurrent
<1>1. ASSUME IInv, ConsentInv, Next, NEW s \in Senders, HandsOver(s), IsConsent(Key(s))
      PROVE  optedOut[Recipient[Key(s)]] = (Kind[Key(s)] = "stop")
  <2>1. sender[s].pc = "paced"
    BY <1>1, HandsOverOnly DEF BeginAttempt, Paced
  <2>2. Key(s) \in toConfirm /\ toConfirm \subseteq Keys
    BY <1>1, <2>1 DEF Confirming, Busy, ConsentInv, ChainInv, IInv, TypeOK
  <2> QED BY <1>1, <2>2 DEF ConsentInv, ChainInv
<1>2. IInv /\ ConsentInv /\ [Next]_vars =>
        [\A s \in Senders : HandsOver(s) /\ IsConsent(Key(s)) =>
           optedOut[Recipient[Key(s)]] = (Kind[Key(s)] = "stop")]_vars
  BY <1>1
<1> QED BY <1>2, ConsentInvariant, PTL DEF ConfirmationsAreCurrent, Spec

\* Nothing is sent to a customer whose STOP is acknowledged.
THEOREM SilenceAfterStop == Spec => SilentAfterConfirmedStop
<1>1. ASSUME IInv, ConsentInv, Next, NEW s \in Senders, HandsOver(s), ToCustomer(Key(s))
      PROVE  LET c == Recipient[Key(s)]
             IN ~(optedOut[c] /\ decision[c] # None /\ confirmation[decision[c]] = "sent")
  <2>1. sender[s].pc = "paced"
    BY <1>1, HandsOverOnly DEF BeginAttempt, Paced
  <2>2. Key(s) \in Keys /\ Recipient[Key(s)] \in Customers
    BY <1>1, <2>1, BusyKey, TypeParts, OutboundAssumption DEF IInv, ProcessOK
  <2>3. Late(s, Recipient[Key(s)])
    BY <1>1, <2>1 DEF Late, Busy
  <2> QED BY <1>1, <2>2, <2>3 DEF ConsentInv, StopInv
<1>2. IInv /\ ConsentInv /\ [Next]_vars =>
        [\A s \in Senders :
           HandsOver(s) /\ ToCustomer(Key(s)) =>
             LET c == Recipient[Key(s)]
             IN ~(optedOut[c] /\ decision[c] # None /\ confirmation[decision[c]] = "sent")]_vars
  BY <1>1
<1> QED BY <1>2, ConsentInvariant, PTL DEF SilentAfterConfirmedStop, Spec

-----------------------------------------------------------------------------
(* Refinement of ReplyOnce. *)

Attempts == [k \in Replies |-> Attempt(ledger[k])]
Transit == {k \in Replies : flight[k] # "none"}
Arrived == {k \in Replies : wire[k] > 0}
Unmoved == Attempts' = Attempts /\ Transit' = Transit /\ Arrived' = Arrived

\* Steps that leave ledger, flight and wire are stutters of ReplyOnce.
LEMMA Stutters ==
  ASSUME UNCHANGED <<ledger, flight, wire>> PROVE Unmoved
BY DEF Attempts, Transit, Arrived, Unmoved

\* Replacing a row changes the attempt of its reply only.
LEMMA AttemptRow ==
  ASSUME TypeOK, NEW k \in Keys, NEW row, ledger' = [ledger EXCEPT ![k] = row]
  PROVE  /\ Permanent(k) => Attempts' = [Attempts EXCEPT ![k] = Attempt(row)]
         /\ ~Permanent(k) => Attempts' = Attempts
<1>1. ledger'[k] = row /\ \A j \in Keys : j # k => ledger'[j] = ledger[j]
  BY RowTaken
<1>2. \A j \in Replies : j \in Keys /\ Permanent(j)
  BY DEF Replies
<1>3. Attempts' = [j \in Replies |-> Attempt(ledger'[j])]
  BY DEF Attempts
<1>4. ASSUME Permanent(k) PROVE Attempts' = [Attempts EXCEPT ![k] = Attempt(row)]
  <2>1. \A j \in Replies : Attempt(ledger'[j]) = IF j = k THEN Attempt(row) ELSE Attempt(ledger[j])
    BY <1>1, <1>2
  <2>2. [Attempts EXCEPT ![k] = Attempt(row)] =
          [j \in Replies |-> IF j = k THEN Attempt(row) ELSE Attempt(ledger[j])]
    BY DEF Attempts
  <2> QED BY <1>3, <2>1, <2>2, Zenon
<1>5. ASSUME ~Permanent(k) PROVE Attempts' = Attempts
  <2>1. \A j \in Replies : Attempt(ledger'[j]) = Attempt(ledger[j])
    BY <1>1, <1>2, <1>5, Zenon
  <2> QED BY <1>3, <2>1, Zenon DEF Attempts
<1> QED BY <1>4, <1>5

\* What a row just written stands for.
LEMMA AttemptWritten ==
  \A b, c, l : /\ Attempt(Row("pending", b, c, l)) = "tried"
               /\ Attempt(Row("sent", b, c, l)) = "confirmed"
               /\ Attempt(Row("failed", b, c, l)) = "open"
               /\ Attempt(Row("uncertain", b, c, l)) = "unknown"
BY DEF Row, Attempt

\* A definite row is in the set of the abstract states it stands for.
LEMMA AttemptOf ==
  ASSUME NEW row, row.status \in Statuses
  PROVE  /\ row.status \in {"none", "failed"} <=> Attempt(row) = "open"
         /\ row.status = "pending" <=> Attempt(row) = "tried"
         /\ row.status = "sent" <=> Attempt(row) = "confirmed"
         /\ row.status = "uncertain" <=> Attempt(row) = "unknown"
BY DEF Attempt, Statuses

\* Every step is a step of ReplyOnce or a stutter.
LEMMA StepImplements == IInv /\ [Next]_vars => [Once!Next]_(Once!vars)
<1> SUFFICES ASSUME IInv, [Next]_vars PROVE Once!Next \/ Unmoved
  BY DEF Once!vars, Unmoved, Attempts, Transit, Arrived
<1> USE DEF vars, databaseVars, pacingVars, processVars, providerVars
<1>0. TypeOK /\ LedgerInv /\ SendingInv /\ ProcessOK /\ ProviderOK
  BY TypeParts DEF IInv
<1>1. \A k \in Replies : k \in Keys /\ Permanent(k)
  BY DEF Replies
<1>2. \A k \in Keys : ledger[k].status \in Statuses
  BY <1>0 DEF TypeOK, LedgerRow
<1>3. \A k \in Replies : Attempts[k] = Attempt(ledger[k])
  BY DEF Attempts
\* The row of a reply that was tried gets a new status.
<1>4. ASSUME NEW k \in Keys, NEW b,
             ledger' = [ledger EXCEPT ![k] = Row("sent", b, "none", FALSE)], ledger[k].status = "pending",
             Permanent(k) => wire[k] = 1, UNCHANGED <<flight, wire>>
      PROVE  Once!Next \/ Unmoved
  <2>1. Transit' = Transit /\ Arrived' = Arrived
    BY <1>4 DEF Transit, Arrived
  <2>2. CASE ~Permanent(k)
    BY <1>0, <1>4, <2>1, <2>2, AttemptRow DEF Unmoved
  <2>3. CASE Permanent(k)
    <3>1. k \in Replies /\ Attempts[k] = "tried" /\ k \in Arrived
      BY <1>2, <1>3, <1>4, <2>3, AttemptOf DEF Replies, Arrived
    <3>2. Attempts' = [Attempts EXCEPT ![k] = "confirmed"]
      <4>1. Attempt(Row("sent", b, "none", FALSE)) = "confirmed"
        BY AttemptWritten
      <4>2. Attempts' = [Attempts EXCEPT ![k] = Attempt(Row("sent", b, "none", FALSE))]
        BY <1>0, <1>4, <2>3, AttemptRow
      <4> QED BY <4>1, <4>2, Zenon
    <3>3. Once!Confirm(k)
      BY <2>1, <3>1, <3>2 DEF Once!Confirm, Attempts, Transit, Arrived
    <3> QED BY <3>1, <3>3 DEF Once!Next
  <2> QED BY <2>2, <2>3
<1>5. ASSUME NEW k \in Keys, NEW b,
             ledger' = [ledger EXCEPT ![k] = Row("uncertain", b, "unknown", FALSE)], ledger[k].status = "pending", UNCHANGED <<flight, wire>>
      PROVE  Once!Next \/ Unmoved
  <2>1. Transit' = Transit /\ Arrived' = Arrived
    BY <1>5 DEF Transit, Arrived
  <2>2. CASE ~Permanent(k)
    BY <1>0, <1>5, <2>1, <2>2, AttemptRow DEF Unmoved
  <2>3. CASE Permanent(k)
    <3>1. k \in Replies /\ Attempts[k] = "tried"
      BY <1>2, <1>3, <1>5, <2>3, AttemptOf DEF Replies
    <3>2. Attempts' = [Attempts EXCEPT ![k] = "unknown"]
      <4>1. Attempt(Row("uncertain", b, "unknown", FALSE)) = "unknown"
        BY AttemptWritten
      <4>2. Attempts' = [Attempts EXCEPT ![k] = Attempt(Row("uncertain", b, "unknown", FALSE))]
        BY <1>0, <1>5, <2>3, AttemptRow
      <4> QED BY <4>1, <4>2, Zenon
    <3>3. Once!GiveUp(k)
      BY <2>1, <3>1, <3>2 DEF Once!GiveUp, Attempts, Transit, Arrived
    <3> QED BY <3>1, <3>3 DEF Once!Next
  <2> QED BY <2>2, <2>3
<1>6. ASSUME NEW s \in Senders, sender[s].pc = "sending"
      PROVE  Key(s) \in Keys /\ ledger[Key(s)].status = "pending"
             /\ (Permanent(Key(s)) /\ flight[Key(s)] = "none" => wire[Key(s)] = 1)
  BY <1>0, <1>6, BusyKey DEF ProcessOK, SendingInv
<1>7. ASSUME NEW k \in Keys, Arrive(k) PROVE Once!Next \/ Unmoved
  <2>1. flight[k] # "none" /\ flight' = [flight EXCEPT ![k] = "none"]
        /\ wire' = [wire EXCEPT ![k] = OneMore(wire[k])] /\ UNCHANGED ledger
    BY <1>7 DEF Arrive
  <2>2. Attempts' = Attempts
    BY <2>1 DEF Attempts
  <2>3. CASE ~Permanent(k)
    <3>1. \A j \in Replies : flight'[j] = flight[j] /\ wire'[j] = wire[j]
      BY <1>0, <1>1, <2>1, <2>3 DEF ProviderOK
    <3> QED BY <2>2, <3>1 DEF Transit, Arrived, Unmoved
  <2>4. CASE Permanent(k)
    <3>1. k \in Replies /\ wire[k] = 0 /\ OneMore(0) = 1
      BY <1>0, <2>1, <2>4, OutboundAssumption DEF Replies, LedgerInv, OneMore
    <3>2. k \in Transit /\ k \notin Arrived
      BY <2>1, <3>1 DEF Transit, Arrived
    <3>3. Transit' = Transit \ {k}
      BY <1>0, <1>1, <2>1, <3>1 DEF Transit, ProviderOK
    <3>4. Arrived' = Arrived \cup {k}
      BY <1>0, <1>1, <2>1, <3>1 DEF Arrived, ProviderOK
    <3>5. Once!Arrive(k)
      BY <2>2, <3>2, <3>3, <3>4 DEF Once!Arrive, Attempts, Transit, Arrived
    <3> QED BY <3>1, <3>5 DEF Once!Next
  <2> QED BY <2>3, <2>4
<1>8. ASSUME NEW k \in Keys, ResendWindowLapses(k) PROVE Unmoved
  <2>1. Attempts' = Attempts
    BY <1>0, <1>8, AttemptRow DEF ResendWindowLapses
  <2> QED BY <1>8, <2>1 DEF ResendWindowLapses, Transit, Arrived, Unmoved
<1>9. ASSUME NEW s \in Senders, CrashWhileRecording(s) PROVE Once!Next \/ Unmoved
  BY <1>4, <1>6, <1>9, RecordedOne DEF CrashWhileRecording, Accepted, MarkSent
<1>10. CASE World
  <2>1. ASSUME UNCHANGED <<ledger, flight, wire>> PROVE Unmoved
    BY <2>1, Stutters
  <2>2. CASE Crash
    BY <2>1, <2>2, <1>5, RestartedOne DEF Crash
  <2> QED BY <1>7, <1>8, <1>9, <1>10, <2>1, <2>2 DEF World, RecordConsent, BusyCooldownEnds,
             GapPasses, Midnight, RetryConfirmations
<1>11. ASSUME NEW s \in Senders, Calls(s) PROVE Unmoved
  BY <1>11, Stutters DEF Calls, StartConfirmation, Start
<1>12. ASSUME NEW s \in Senders, BeginAttempt(s) PROVE Once!Next \/ Unmoved
  <2>0. PICK k : k = Key(s)
    OBVIOUS
  <2>1. /\ sender[s].pc = "paced"
        /\ Sendable(ledger[k], sender[s].body)
        /\ ledger' = [ledger EXCEPT ![k] = Row("pending", sender[s].body, "none", FALSE)]
        /\ flight' = [flight EXCEPT ![k] =
                        IF NeedsDisclosure(k) THEN "introducing" ELSE "plain"]
        /\ UNCHANGED wire
    BY <1>12, <2>0 DEF BeginAttempt, Paced
  <2>2. k \in Keys
    BY <2>0, <2>1, <1>0, BusyKey DEF ProcessOK
  <2>3. Arrived' = Arrived
    BY <2>1 DEF Arrived
  <2>4. CASE ~Permanent(k)
    <3>1. Attempts' = Attempts
      BY <1>0, <2>1, <2>2, <2>4, AttemptRow
    <3>2. \A j \in Replies : flight'[j] = flight[j]
      BY <1>0, <1>1, <2>1, <2>4 DEF ProviderOK
    <3> QED BY <2>3, <3>1, <3>2 DEF Unmoved, Transit
  <2>5. CASE Permanent(k)
    <3>1. k \in Replies
      BY <2>2, <2>5 DEF Replies
    <3>2. ledger[k].status \in {"none", "failed"} /\ wire[k] = 0
          /\ flight[k] = "none"
      BY <1>0, <2>1, <2>2, <2>5 DEF Sendable, LedgerInv
    <3>3. Attempts[k] = "open"
      BY <1>2, <1>3, <2>2, <3>1, <3>2, AttemptOf
    <3>4. Attempts' = [Attempts EXCEPT ![k] = "tried"]
      <4>1. Attempt(Row("pending", sender[s].body, "none", FALSE)) = "tried"
        BY AttemptWritten
      <4>2. Attempts' =
              [Attempts EXCEPT ![k] = Attempt(Row("pending", sender[s].body, "none", FALSE))]
        BY <1>0, <2>1, <2>2, <2>5, AttemptRow
      <4> QED BY <4>1, <4>2, Zenon
    <3>5. k \notin Arrived \cup Transit
      BY <3>2 DEF Arrived, Transit
    <3>6. Transit' = Transit \cup {k}
      BY <1>0, <1>1, <2>1, <3>1 DEF Transit, ProviderOK
    <3>7. Once!HandOver(k)
      BY <2>3, <3>3, <3>4, <3>5, <3>6 DEF Once!HandOver, Attempts, Transit, Arrived
    <3> QED BY <3>1, <3>7 DEF Once!Next
  <2> QED BY <2>4, <2>5
<1>13. ASSUME NEW s \in Senders, SendRejected(s) PROVE Once!Next \/ Unmoved
  <2>0. PICK k : k = Key(s)
    OBVIOUS
  <2>1. /\ sender[s].pc = "sending" /\ flight[k] # "none"
        /\ flight' = [flight EXCEPT ![k] = "none"]
        /\ UNCHANGED wire
    BY <1>13, <2>0 DEF SendRejected
  <2>2. PICK code \in {"channel_unavailable", "provider_rejected"} :
          ledger' = [ledger EXCEPT ![k] = Row("failed", ledger[k].body, code, FALSE)]
    BY <1>13, <2>0 DEF SendRejected
  <2>3. k \in Keys /\ ledger[k].status = "pending"
    BY <1>6, <2>0, <2>1
  <2>4. Arrived' = Arrived
    BY <2>1 DEF Arrived
  <2>5. CASE ~Permanent(k)
    <3>1. Attempts' = Attempts
      BY <1>0, <2>2, <2>3, <2>5, AttemptRow
    <3>2. \A j \in Replies : flight'[j] = flight[j]
      BY <1>0, <1>1, <2>1, <2>5 DEF ProviderOK
    <3> QED BY <2>4, <3>1, <3>2 DEF Unmoved, Transit
  <2>6. CASE Permanent(k)
    <3>1. k \in Replies
      BY <2>3, <2>6 DEF Replies
    <3>2. Attempts[k] = "tried" /\ k \in Transit
      BY <1>2, <1>3, <2>1, <2>3, <3>1, AttemptOf DEF Transit
    <3>3. Attempts' = [Attempts EXCEPT ![k] = "open"]
      <4>1. Attempt(Row("failed", ledger[k].body, code, FALSE)) = "open"
        BY AttemptWritten
      <4>2. Attempts' =
              [Attempts EXCEPT ![k] = Attempt(Row("failed", ledger[k].body, code, FALSE))]
        BY <1>0, <2>2, <2>3, <2>6, AttemptRow
      <4> QED BY <4>1, <4>2, Zenon
    <3>4. Transit' = Transit \ {k}
      BY <1>0, <1>1, <2>1, <3>1 DEF Transit, ProviderOK
    <3>5. Once!Refuse(k)
      BY <2>4, <3>2, <3>3, <3>4 DEF Once!Refuse, Attempts, Transit, Arrived
    <3> QED BY <3>1, <3>5 DEF Once!Next
  <2> QED BY <2>5, <2>6
<1>14. ASSUME NEW s \in Senders, LockStep(s) PROVE Once!Next \/ Unmoved
  <2>1. ASSUME UNCHANGED <<ledger, flight, wire>> PROVE Unmoved
    BY <2>1, Stutters
  <2>2. CASE AttemptRefused(s)
    <3>1. UNCHANGED <<flight, wire>> /\ Key(s) \in Keys
      BY <2>2, <1>0, BusyKey DEF AttemptRefused, Paced, ProcessOK
    <3>2. CASE UNCHANGED ledger
      BY <2>1, <3>1, <3>2
    <3>3. CASE ledger[Key(s)].status = "pending" /\ ledger[Key(s)].body = sender[s].body
      <4>1. ledger' = [ledger EXCEPT ![Key(s)] =
                         Row("uncertain", ledger[Key(s)].body, "unknown", FALSE)]
        BY <2>2, <3>3 DEF AttemptRefused
      <4> QED BY <3>1, <3>3, <4>1, <1>5
    <3> QED BY <2>2, <3>2, <3>3 DEF AttemptRefused
  <2>3. CASE SendConfirmed(s)
    BY <1>4, <1>6, <2>3 DEF SendConfirmed, Accepted, MarkSent
  <2>4. CASE SendTimesOut(s)
    BY <1>5, <1>6, <2>4 DEF SendTimesOut
  <2> QED BY <1>12, <1>13, <1>14, <2>1, <2>2, <2>3, <2>4 DEF LockStep, SuppressBusyReply,
             PacingRefuses, PacingAllows, ContentRefused
<1>15. CASE UNCHANGED vars
  BY <1>15, Stutters
<1> QED BY <1>10, <1>11, <1>14, <1>15 DEF Next

\* The first state is ReplyOnce's.
LEMMA InitImplements == Init => Once!Init
<1> SUFFICES ASSUME Init PROVE Once!Init
  OBVIOUS
<1>1. \A k \in Replies : k \in Keys
  BY DEF Replies
<1>2. \A k \in Keys : Attempt(ledger[k]) = "open" /\ flight[k] = "none" /\ wire[k] = 0
  BY DEF Init, Row, Attempt
<1> QED BY <1>1, <1>2 DEF Once!Init

\* The ledger over the real gateway implements its abstract specification.
THEOREM RefinesReplyOnce == Spec => ImplementsReplyOnce
<1>1. Init => Once!Init
  BY InitImplements
<1>2. IInv /\ [Next]_vars => [Once!Next]_(Once!vars)
  BY StepImplements
<1> QED BY <1>1, <1>2, Invariant, PTL DEF Spec, ImplementsReplyOnce, Once!Spec
=============================================================================
