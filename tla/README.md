# TLA+ models of the WhatsApp sales assistant

The program (`src/src/`, TypeScript on one Node.js process with one SQLite
database) answers customers of a shop on WhatsApp. A gateway called WAHA
delivers webhooks and sends messages; a language model with tools writes the
answers, takes orders and records payment claims; the owner decides about
payments, refunds and shipping with exact text commands. This directory holds
models of the parts where order, failure or repetition matters, configurations
that check them with TLC, and proofs that TLAPS checks for every size.

Read the modules in the order below; each definition is headed by the code it
stands for, and `PROJECT.json` lists the lines.

## 1. The system

| Part | State it keeps | Operations | Talks to |
|---|---|---|---|
| Webhook entrance (`server.ts`, `inbound-events.ts`) | `inbound_events` rows: processing, done, failed | claim, mark done or failed, ignore history, answer 200 or 503 | consent, abuse control, queue |
| Durable queue (`inbound-jobs.ts`) | `inbound_jobs` rows, worker slots, a timer | enqueue, claim, defer, complete, retry, bury, recover expired | turns, session monitor, AI budget |
| Consent (`consent.ts`, `server.ts`) | opt-out flag, one pending confirmation per customer, a promise chain | STOP, START, acknowledgement, retry pass | send path |
| Delivery ledger (`outbound-delivery.ts`, `db.ts`) | `send_ledger` rows: pending, sent, failed, unknown | begin, sent, failure, startup reconciliation | send path |
| Send path (`agent/send-guards.ts`, `shared.ts`) | send lock, `messages`, `disclosure_sent_at` | guarded send, busy reply, consent acknowledgement, owner alert | pacing, ledger, WAHA |
| Orders (`orders.ts`, `tools/orders.ts`, `ledger.ts`) | `order_drafts`, `orders`, `products`, `ledger` | prepare, confirm, status changes | owner commands, payments |
| Owner shipping commands (`fulfilment-commands.ts`) | `order_fulfilment_intents` | prepare, confirm, cancel, expire | orders |
| Inventory (`inventory.ts`) | `products` | import a file in one transaction | orders |
| Payments and refunds (`payments.ts`, `payment-resolution.ts`, `refunds.ts`) | claims, two-step actions, ledger, refund cases | claim, approve, reject, reverse, open and decide a case | orders |
| Customer turns (`agent/customer-turn.ts`, `turn-close.ts`) | `conversation_checkpoints`, `handoff_ledger`, the trace | OPEN, model and tool loop, silent-no-reply guard, CLOSE | all of the above |
| Owner turns (`agent/owner-turn.ts`, `owner-send.ts`) | none of their own | exact commands, model and tool loop | shipping, payments, send path |
| AI budget (`ai-budget.ts`) | `ai_model_calls` rows of a day | reserve, finish, fail | turns |
| Alerts (`alerts.ts`) | `owner_alerts`, their events, a delivery chain, retry state | raise, group, deliver, retry | send path, session monitor |
| Session monitor (`channel/session-monitor.ts`, `waha.ts`) | cached status, `downSince`, held messages | check, observe, invalidate | queue, alerts |
| Database (`db.ts`, `database-backup.ts`) | the file and its markers, backup files | bootstrap, migrate, refuse, back up, prune | everything |
| Abuse control (`abuse-control.ts`) | decisions within a window | admit | entrance |

All parts share the event loop: between two `await`s nothing else runs, and a
SQLite transaction is atomic. The hard behaviours are therefore at the awaits
and at the process boundary:

* a webhook call waits for its busy reply while the same message is delivered
  again; a consent command waits in the chain of its customer;
* a turn outlives its lease, so that two workers run one message;
* a send is accepted by WAHA although the program saw a timeout, or the program
  crashes with the send under way; a retry words the same reply differently;
* a send has read the opt-out flag, the cap and the throttle and then waits for
  the lock or sleeps;
* customers, the owner, the courier and imports change an order between a
  summary and its confirmation, or between `APPROVE` and `CONFIRM APPROVE`;
* a turn ends in one of many ways (words only, a refused or failed send, the step
  limit, pacing, STOP, a crash) and is then run again with what it already did;
* an owner's command is committed before its answer is sent, and runs again when
  the answer was lost;
* an alert is retried, grouped and raised again while it is being sent;
* the start-up changes a file of an older version statement by statement, and may
  be stopped between any two of them.

What makes the parts correct, and where it is stated:

* an acknowledged message is answered or kept as failed: `ProcessingIsHeld`,
  `QueuedJobFinishes`, `AckedIsDurable` (which fails);
* one message is worked on by one run (`OneRunPerJob`); retries and the queue
  are bounded (`ImplementsDurableQueue`);
* one visible reply per event, a ledger that tells the truth about it, a cap and
  a distance between sends that concurrency does not break;
* consent acknowledgements say what holds, and nothing follows a STOP that was
  acknowledged;
* every unit of stock and every rupee owed can be explained by what happened to
  the orders; a payment is claimed, approved and refunded once;
* no message ends in silence nobody knows of (`NobodyIsLeftWaiting`, which fails,
  and `OnlyRejectedRepliesAreLost`, which says how), the trace says what happened,
  a confirmed order is booked or handed to the owner;
* one message of the owner decides one action, and what it did is not denied;
* an alert that counts as sent was told, the owner is not flooded, an outage is
  not closed by an old reading;
* no order is lost in an upgrade, a half-made file is never served, the newest
  good backup is kept.

## 2. Modules

| Module | Models | Role |
|---|---|---|
| `DurableQueue` | what the queue promises of a message: absent, open, finished or buried, within its capacity | abstract specification |
| `InboundQueue` | webhook entrance, consent chain, queue, workers, restarts | implements `DurableQueue` |
| `InboundQueueProofs` | | theorems |
| `ReplyOnce` | what the ledger promises about one reply | abstract specification |
| `OutboundDelivery` | consent, send lock, pacing, ledger, WAHA, crashes | implements `ReplyOnce` |
| `OutboundDeliveryProofs` | | theorems |
| `BookedOrders` | what the order book promises of an order: its units leave the shelf once and together, and come back once | abstract specification |
| `TwoStepDesk` | what is promised of an action prepared by one message and decided by another: the owner's commands, a customer's order summary | abstract specification |
| `OrderBook` | drafts, orders, stock, order debits, shipping commands, imports | implements `BookedOrders`; its shipping commands and each customer's summaries implement `TwoStepDesk` |
| `OrderBookProofs` | | theorems |
| `CustomerAccounts` | what orders and payments promise of an account: its balance is what was bought less what was paid | abstract specification |
| `PaymentDesk` | claims, two-step decisions, reversals, refund cases; composed with `OrderBook` | EXTENDS `OrderBook`, implements `CustomerAccounts` and, with its decisions, `TwoStepDesk` |
| `PaymentDeskProofs` | | theorems |
| `AiBudget` | the daily allowance of model calls | component, part of both turns |
| `CustomerTurn` | a customer's messages, from claim to completion of their jobs | component that EXTENDS `AiBudget`; its summaries implement `TwoStepDesk` |
| `CustomerTurnProofs` | | theorems |
| `OwnerTurn` | the owner's commands and questions, likewise | EXTENDS `AiBudget`, implements `TwoStepDesk` at either desk |
| `OwnerTurnProofs` | | theorems |
| `SessionMonitor` | status reads and outages | component, part of `OwnerAlerts` |
| `OwnerAlerts` | the alert outbox and the loops that drive it | component that EXTENDS `SessionMonitor` |
| `OwnerAlertsProofs` | | theorems |
| `DatabaseUpgrade` | the start-up on the database file, backups | component |
| `DatabaseUpgradeProofs` | | theorems |
| `MC*` | small sets and symmetry | checking |

### InboundQueue

One row of `inbound_events` per message is `event`, its row of `inbound_jobs` is
`job` (status, attempt, whether due, whether leased); they survive a restart,
like `admission`, the consent rows and the opt-out flag. `request`, `run`,
`chain` and `deferrals` are the memory of the process. A request is a webhook
call parked at an `await`, a run is a worker between claiming a row and its end;
a step is the code from one `await` to the next, including the claims `kick()`
makes at its end. A message may be delivered any number of times, before and
after a restart. Disturbances are actions of the kinds in `FaultKinds`, at most
`MaxFaults` together: restart, a lease that runs out, the WhatsApp session lost,
the AI budget exhausted, the abuse limit reached, a failing database statement.
Time is not counted: clocks are abstracted to what the code compares (`due`,
`leased`, `age`), and what may elapse elapses at some step (`BecomesDue`,
`LeaseExpires`, `SecondPasses`). A throw of the webhook handler comes before the
job is committed (`ReceiveError`) or after it, from a claim or a later statement
(`ReceiveQueuedThrows`: the job stays although the answer is 500). Consent commands go through the serial chain
and have no job. Refinement: the phase of a message in `DurableQueue` is its
row's status, pending and processing both being `open`.

### OutboundDelivery

A *key* is what one ledger row is unique for: a turn's reply, a busy reply, a
consent acknowledgement, an owner alert. A *sender* is a call of a send tool:
`Start` does what happens before the lock (opt-out flag, inspection of the
ledger), then the call waits in `lock`, the promise chain of `shared.ts`, and at
its head it decides pacing, sleeps out the throttle, checks the content, writes
the pending row (`BeginAttempt`), hands the copy over and records what it
learns. WAHA is external: `flight` is a copy not yet decided, `wire` counts the
copies accepted, independently of what the program learnt, so a copy may still
be accepted after the timeout or after a crash, or never. `Crash` loses lock,
senders and sleepers, keeps the tables and applies the startup statement of
`db.ts`, which settles pending rows as uncertain; `CrashWhileRecording` crashes
between the statements that record a receipt. Wording guards and formatting are
one refusal that may happen. Refinement: a reply is `open`, `tried`,
`confirmed` or `unknown` by the status of its row.

### OrderBook

Every operation is one IMMEDIATE transaction, so it is one action; what
interleaves is the order of actions. A draft has the name of the message that
prepared it and so has the order booked from it (a draft is confirmed once). `owed` is the sum of the `ledger` rows of an order.
`supplied` is a history variable: the units on hand at the last import of a
product, those already held by orders included. Refinement: an order in
`BookedOrders` is `reserved` from its booking until it is sent or cancelled; its
items and its total count from the moment it exists, since until then a summary
may still rewrite the basket of its message. In `TwoStepDesk` a shipping action, or
a customer's summary, is `waiting` until it is decided, replaced or out of time,
although the row of one out of time says so only later or never.

### PaymentDesk

Adds claims (their reference, order, method and the turn that told them), the
owner's prepared and confirmed decisions, reversals and refund cases, and puts
them beside `OrderNext`: an order may be cancelled, shipped or delivered between
any two of its steps. A method or order that the customer did not give is
`unknown` or `None`. Refinement: in `CustomerAccounts` a customer has bought the
totals of the orders that stand, and has paid the claims that are approved and not
reversed. Neither is kept anywhere in the program, which only adds up ledger rows
(`Balance`), so that the abstract guard of an approval says what a sum over rows
is worth.

### CustomerTurn

`Turns` are messages of one customer; each has a job with its attempts, an
attempt in progress (`turn`, the locals of `runTurn`), a row per key in `ledger`,
and perhaps a draft. The model is the environment: an answer to `m` is any of
`Responses[m]`, a sequence of tool calls, of which each is one step (`plan` holds
those still to run). A place (`at`) is where the code awaits, or the next piece of
the loop; `MidStep` and `Runnable` say that a turn is interrupted only at an await
(the model, the gateway, the session check). A send is checked and begun in one
step and ends in another; its wait for the lock is in `OutboundDelivery`. The end
of a turn is `finishing`, where the attempt completes the job, is held for the
session, or throws. Claims, refunds and the order behind a booked draft are in
`PaymentDesk` and `OrderBook`; here they are what the rest of the turn is
restricted by (`facts`) or the draft's state. Pictures share one slot, the busy
reply is sent or not, wording guards are a refusal that may happen, except for
the guard on the fixed fallback, whose verdict depends on `facts` alone. What the
attempts do to the summaries, run again, overtaken or closed by the safety net, is
what `OrderBook` says that messages do to them: both implement `TwoStepDesk` there.

### OwnerTurn

A message is a command of a desk (`Desk`, `Does`) or a question. A desk has one
order or claim: what a decision does to it is in `OrderBook` and `PaymentDesk`,
here it matters which message prepared an action, which one decided it
(`confirm_event_key`), and what the server then says (`Texts`). A command takes
effect in one step and the turn goes on to say so, hence a crash, a refused or
lost answer or a held job runs it again against whatever waits by then. That the
desks are the same in the three modules is `TwoStepDesk`: `OrderBook` and
`PaymentDesk` implement it with the commands as they take effect, `OwnerTurn` with
the attempts that are run again. An action whose time has run out is `gone` there,
although its row says `pending` until the next message.

### SessionMonitor and OwnerAlerts

The session works while `epoch` is even; a reading is the epoch in which the
gateway answered, so that the order of readings can be compared. Four callers
check the status, one request is under way at a time and others join it. An
alert groups events of its kind; its text (kind, count, newest reason) is the key
of its ledger row, so a grouped alert has a new key. Calls wait in `queue` for the
delivery chain, `holder` has it, `stage` is how far its send has come, `raiseLag`
and `retryLag` are how old its clock reading is. Times are ages in minutes; what
WhatsApp accepted is `told`, independently of what the program learnt. The age of
an alert is that of the time it was marked with, read before its delivery;
`reached` is a history variable that no action reads: how long ago the owner got
the alert and the program learnt it. What the flood limit is worth to the owner is stated about
`reached`.

### DatabaseUpgrade

`disk` is the file by what the start-up asks of it: the money column of each
table, the checks, the rows and their copies, the columns added since, table by
table, the marker. A column is added to the table that is there at the time, so the
tables the money migration puts in their place lack `products.image_filename` and
the two reversal columns of `payment_claims`; `converted` is a history variable that says whether this
start was one that migrated. `Steps` are the statement groups in order, and outside a transaction each
is a step of its own, so that a crash falls between; a refusal or an error ends
the process and the next start begins with the file as it was left. `Builds` says
whether the SQLite used resolves every trigger when a table is renamed; both are
explored.

## 3. Runs and bounds

Model values stand for messages, customers and calls. Where a whole instance at
once would only multiply states, a constant lists the combinations explored, and
a behaviour stays within one of them: `Arrivals` (the sets of messages or keys that
may come), `Histories` (what was prepared before, and what comes).

| Run | Instance | Question |
|---|---|---|
| `queue_safe` | a question and an owner command, or a question with STOP and START; 2 workers, 2 requests, limit 1, 2 attempts, restart or database fault, 1 of them | does one message ever have two runs while no lease expires, and is the table a `DurableQueue` within its limit? |
| `queue_live` | fair; a question and a command, 2 workers, 1 request, limit 1; every fault, 1 of them | does every queued message end, though two runs may work on one row? |
| `queue_false_ack` | 2 messages of customers, 2 requests, an outage | may 200 be answered without a job? (yes: finding) |
| `send_ledger` | fair; two replies, or a reply with STOP and START, or two busy replies, or a reply with a busy reply or an alert; 2 wordings, 2 senders, cap 2, 1 crash | one reply, truthful ledger, spacing, introduction, current acknowledgements, silence after STOP, refinement, termination |
| `orders` | 2 messages, a third that prepares a summary after a booking, an old order, 4 owner commands, 2 products, 2 inventory files | are stock and debts explained by the orders, does a message book at most one order, and is the whole a book of orders whose items and totals stand? |
| `payments` | 3 claims: a payment, the same told again by the closing step without order or method, an instalment on the other order; 2 references, 11 owner commands, 2 orders, 1 refund case | are balances explained, references and claims used once, approvals within the debt, and is the whole an account? |
| `turn` | after an answered message an order, a question, a payment or a confirmation; 2 answers of the model, 1 failed send, 2 attempts, 1 hold, call and token limits, 1 midnight, 1 restart | is anybody left in silence, is the trace true, is a confirmation settled? |
| `turn_silence` | one question, answered in words | is nobody ever left in silence? (no: finding) |
| `turn_unseen` | an order and its confirmation, handled together | was every booked summary shown? (no: finding) |
| `owner` | at each desk an action waits while another is prepared and a confirmation or cancellation comes, or a question; 2 attempts, 1 hold, 1 restart | does a message decide once, and is what it did denied? |
| `alerts` | 2 handoffs of one reason and an outage, 2 callers of the check, flood limit 1 in a minute, 1 retry, 1 restart | were sent alerts told, how many reach the owner together, is every event counted once, are readings in order? |
| `upgrade` | 2 orders, a send, a memory text; files fresh, or of an older version; 4 backups, retention 2; any number of crashes | are orders lost, half-made files served, opened files refused, good backups pruned? |

Why the bounds are enough to be of interest. Two workers are what it takes for a
stale run to meet its successor, and with two attempts one run is the last and
another is not; a limit of 1 with a deferral or a restart puts the table past
its limit. Two senders race for the lock, the cap and a row, two wordings are a
retry that differs, and copies counted to two (`MaxCopies`) show a duplicate.
Two drafts of one customer are two possible meanings of a yes; four owner
commands are a prepared action, its replacement, a confirmation and a
cancellation, each of which may be delivered again. Three claims are one payment
told twice and another one; eleven commands let an approval be prepared,
confirmed and reversed and its reference be tried again, and with two references
two claims of one customer are approved at once. Two answers of the model
are a tool call whose result is answered, and the step limit right after; one
failed send is the limit of failed sends; two attempts are a rerun that meets
what the first one did. Three messages are what it takes for one of them to
meet a second summary after it booked the first; the third comes only where it
does that, after a booking and with the owner silent (`LateSummary`), and does not
confirm. In `alerts` a delivery takes up
to a minute, as long as the flood window, so that an alert can be marked with a time
before its send; the limit holds in the window less the longest delivery, here
the current minute, and the proof covers all lengths. One retry means that
the backoff is set and not waited out. A retention of 2 with 4 backups lets failed copies outnumber it. Every
action and every disjunct of the next-state relations is taken in some passing
run, and every property is violated when a plausible error is put into the
definitions (`mutants`, and the definitions headed "Mutation of").

What several messages of one customer do to each other is explored in
`turn_unseen` and, for any number, by the proofs about `CustomerTurn`; `turn`
itself follows one message at a time after an earlier one.

Counters with a bound in a guard or a set: faults (`MaxFaults`), crashes
(`MaxCrashes`), copies (`MaxCopies`), midnights (`MaxNights`), drops and outages
of the session (`MaxDrops`, `MaxOutages`), rows of the outbox (`MaxAlerts`), calls
waiting for its chain (`MaxQueue`), the age of a clock reading (`MaxLag`), tokens
of a call (`MaxTokens`), backups (`MaxBackups`). All others are bounded by the
code.

Deadlock is checked except in `send_ledger`, `orders`, `payments`, `owner` and the
`turn` runs: with every message told and every command used up, a shop has
nothing left to do.

## 4. Fairness

* `InboundQueue` (`queue_live`): weak fairness of each worker's steps (every
  `await` of a turn ends, as model calls and HTTP requests have timeouts), of the
  queue's timer (`setInterval`), of each backoff's end, and of the return of a
  lost WhatsApp session. The last is a promise of the environment; without it the
  code rightly defers for ever. Webhook calls are not fair, since nobody need
  write, and faults are bounded: with endless restarts nothing ends.
* `OutboundDelivery` (`send_ledger`): weak fairness of the passing of the gap
  between sends, a sleep of known length, and of the steps of a call at the head
  of the lock, as the HTTP call has a timeout (`waha.ts`). Nothing is assumed of
  WAHA.

The other modules state safety only. A turn or an alert that goes on because its
model call or send returns adds nothing to what these two runs show, and whether
an alert gets out in the end depends on a session and a retry budget that the
code may rightly run out of.

## 5. Proofs

All theorems hold for every choice of the constants that satisfies the
assumptions of the module (named in an `ASSUME` at its head).

`InboundQueueProofs`. The invariant is `TypeOK` with `ProcessingIsHeld`: every
row in processing has a run. The lemmas say what each operation does to the rows
(`Kick` turns due rows into processing ones and gives each a free slot; the end
of a run leaves processing) and the action lemmas follow one by one. From it:
`ProcessingHeld`; `HistoricalNeverStarts` and `FinishedIsFinal`, which no run
checks because each restates too little of the code to be worth one; `QueueRefines`,
where every step changes the phase of at most one message, and acceptance finds
room because rows in processing are at most as many as workers (an injection
into the slots) and pending ones below the limit; `BoundedQueue` by the same
count. `OneRunWhileLeased` assumes that no lease runs out under a run; its own
invariant `Owned` says that a run's row is in processing and that no two runs
have the same row: a claim takes a pending row only, and each end of a run gives
back row and slot in one step. Without that assumption it is false: a worker
whose lease ran out meets its successor.

`OutboundDeliveryProofs`. `AtMostOnce`, `TruthfulLedger`, `CapKept`,
`FinalOutcome`, `Spaced` and `RefinesReplyOnce` are none of them inductive. The
invariant is `TypeOK` and
`LockInv` (a call past the pacing decision is at the head of the lock),
`LedgerInv` (what each status of a permanent row says about the one copy that
was handed over),
`SendingInv` (a call waiting for the gateway has the pending row of its key),
`CapInv` (such a call found room under the cap, and there still is),
`SpaceInv` (a call past the sleep is out of the gap) and
`PendingInv` (a pending row is one a call is waiting for). It is preserved
because everything from pacing to receipt happens at the head of the lock, so
that no two calls are there, and because a crash clears the lock and settles the
pending rows in one step. Three properties need more. `Introduced` rests on
`IntroInv`: whoever is marked as told, has an answer, or is being sent one without
the introduction was sent one with it before. `CurrentConfirmations` and
`SilenceAfterStop` rest on `ConsentInv`: `QueueInv` (the lock queues every call in
progress, once), `ChainInv` (the consent chain has one call at a time, a pending
acknowledgement is that of the decision in force, and one whose decision is not
recorded was never tried) and `StopInv` (while a reply checked before the STOP of
its customer is on its way, the acknowledgement is behind it in the lock, and
neither tried nor delivered). A joining call comes last and is no reply to a
customer who has opted out; the call that returns was first, so nothing it
leaves behind was ahead of it. For the refinement each step is matched with a step of
`ReplyOnce` on one key, or a stutter.

`OrderBookProofs`. `TypeCorrect` (stock stays a natural number: bookings check
all quantities before they take any), `OneChoice` and `BookedOnce` are inductive
with the types. `DebtsReversedOnce`, `UnitsAccounted` and `ReportsStand` need
`BookedInv`: a message whose summary is not confirmed has no order. It is what
makes it harmless that a summary writes the basket of its message, and that a
confirmation writes an order's status without asking the state machine. Units
are counted through the set `TakenBy(S, p)` that a set of orders took: orders
share no unit, so one more order takes its quantity more, and a cancellation is
a booking read backwards. `StepKinds` reduces the eleven actions to five kinds of
step, and `MoveTyped` says what the state machine allows; after that each
theorem has one case per kind. `DebtMoves` says that what is owed on an order and
what it costs move together, whatever was paid on it, and so serves both ledgers.
`RefinesBookedOrders` matches each kind of step with one of `BookedOrders` on one
order; it needs `BookedInv` so that a later summary does not change the items of an
order that exists. `RefinesShippingDesk` needs `IntentInv` (one action is pending, and
none lapses before it was prepared, so that a new one does not start out lapsed).
`RefinesDraftDesks` is the same for the summaries of any one customer, with
`OverdueInv`; the steps of other customers are stutters at his desk.

`PaymentDeskProofs`, about the composition with `OrderBook`, whose lemmas it
uses for the steps of orders. `ShopTypeCorrect`; `ReferencesSpent` and
`ClaimedOnce` are inductive with the types (the first because a verification is
never removed, the second because telling the same payment is symmetric);
`RefundedOnce` uses `RefundInv`, which says the same of pairs of cases, and that
a delivered order stays delivered, which again needs `BookedInv`.
`OrdersBesidePayments` and `ShopRefinesBookedOrders` carry what was proved of the
order book over to the composition: the desk writes `owed` and nothing else of the
orders (`DeskKeepsOrders`), so the stock, the one booking per message and the
promise of `BookedOrders` survive all that the desk does.

The balances are sums over finite sets, which the community modules define by a
recursive function on sets. The prover cannot instantiate an induction scheme, but it
can argue from a least counterexample: `SmallestSubset` takes a set of least size
among those of which a formula fails, from the well-founded order of the natural
numbers, and `PartialSums` gets the recursive equation from it. The lemmas about sums
(one element more, one value changed, a part of a set, a union, sums by group)
follow. `BalancesExplained` is then inductive as `LedgerInv`, which adds that a
reversed claim is approved: otherwise a reversal could take back what was never
credited. `ApprovedWithinDebt` adds `ClaimedOrders`, that a claim on an order names
an order that was booked, of the same customer; that the order is not cancelled
follows from its debt, which would not be positive (`DebtorsLive`).
`RefinesCustomerAccounts` needs in addition that claims never approved have no
verified reference (`Unverified`), and `AccountExplained`, where the sums meet: the
balance over all rows of a customer is the total of the orders that stand less the
claims approved, whatever order those name. `RefinesDecisionDesk` and
`ShopRefinesShippingDesk` are for the two desks side by side.

`CustomerTurnProofs`. `SilenceExplained` and `TraceTold` say something of
completed jobs only, so the invariant follows a message through its turn:
`Shaped` (the place a turn is at fits what it has left to do), `Attempted` (a turn
runs while its job does), `Replying` (an answer the turn counts has a row in the
ledger that was sent, is unknown, or was refused in a first wording, unless the
channel failed in between), `Stops`, `Hinted` (what the trace is going to say holds
when CLOSE begins) and `Finished` (and of every completed message). That rows
settled as sent or unknown never change back is what carries a reply across a
rerun. `BudgetInv` counts, beside the tokens used, what the calls in flight may
still take: a call is reserved below the limit, so each adds at most one answer
(`SpendingBounded`; the limit on calls is the guard of a reservation and no property).
`OrderInv` keeps one open draft, and is all that
`RefinesDraftDesk` needs: `BookDecides` shows that a booking by the tool or by the net
decides the draft that waits or finds the one it made before. The lemmas follow the turn: one about each helper
that builds a turn record, one per piece of the loop, then the same for the other
messages, which a step leaves alone but for the flags of the customer.

`OwnerTurnProofs` is built in the same way. `DeskInv` says that one action waits
at a desk, that a message decides one action, and that an action carried out was
decided by a confirmation; `Told`, that a confirmation at the fulfilment desk never
reaches the model and, once its action is carried out, is not about to say that
nothing was changed. `DecideKept` is where a rerun is excluded: the confirmation
has decided nothing yet. `RefinesShippingDesk` and `RefinesPaymentDesk` say of each
desk what every step does to it, at the desk of the message and at the other one
(`DesksMove`).

`OwnerAlertsProofs`. `SentIsTold` needs `SendInv` (while an alert is being sent it
stays pending, with the text that is sent, and whoever holds the chain sends it),
`TablesInv` (each event is on one row, and a row counts its events) and `RetryInv`
(one round of the retry loop at a time). `NoFlood` is about what reached the owner, by
the time it reached him, and the code counts by the time it wrote. `WindowInv`: the
window an alert was let through with has room until it is marked, however old the
clock reading, because sends happen one at a time. `ReachedInv`: the time written
is at most `MaxLag` before the alert reached the owner, so that those of the last
`Window - MaxLag` minutes are among those counted in a window. For a whole window
it is false (section 6). `InOrder` uses `SessionInv`: one
status request is under way, and what is cached was observed last; without the
joining of requests (`Joins`) it is false.

`DatabaseUpgradeProofs`. The argument is that only a file from before the ledger is
ever rebuilt (`OnlyLegacyRebuilt`: products in rupees, no ledger in rupees), and such a file is
refused when the money is looked at, so no half-rebuilt file is served; that the
orders are where they were or all in the copy (`Rows`); that each place of the
start-up implies what the places before it did (`Progress`); and that the
redaction marker is written after the last check that can refuse (`Opened`). Which
columns are there is part of `Progress`: each table has its own after they were
added, and the tables the money migration has replaced are the exception
`ServedFileIsWhole` names.
`NewestStays` follows the shelf of backups, whose names are in order.

### Checked by TLC only

* `QueuedJobFinishes`, `EveryCallReturns`: liveness under fairness (and
  `ENABLED`) is beyond the prover.

Proved without a run of their own, because they add little to what the runs show:
`FinishedIsFinal`, `HistoricalNeverStarts`, `BoundedQueue`, `CapKept`,
`FinalOutcome`, `OneChoice`, `ReportsStand`, `ShopTypeCorrect`, `RefundedOnce`, the
types of `OrderBook` and `DatabaseUpgrade` (`TypeCorrect`, `TypesKept`), and the
order book's properties beside the payment desk (`OrdersBesidePayments`,
`ShopRefinesBookedOrders`, `ShopRefinesShippingDesk`). `SpendingBounded` has none because
it takes turns whose calls overlap, and `turn` follows one at a time; TLC agrees on
two turns that only call the model, where one call before two that overlap reaches
the last token the bound allows. TLC agrees that the desks
implement `TwoStepDesk` on the instances of `orders`, `payments` (with fewer commands),
`owner` and `turn`; evaluating the mapping at every step takes too long to keep it in
the runs, and TLC does not take the instance with a parameter that
`RefinesDraftDesks` is about.

## 6. Findings

Three, each with a run that shows it (`findings` in `PROJECT.json`): a duplicate
answered 200 although the first call then refuses the message
(`queue_false_ack`); a reply the gateway refused, reworded by the model as it was
asked to, taken for delivered, so that nobody hears anything (`turn_silence`; the
same happens to the owner's answers); an order booked on a summary the customer
never got (`turn_unseen`).

Other behaviours met while modelling, which the models show but no run is about.

Entrance, queue and sending:

* A job may be completed with its event failed, after a lease ran out under a live
  turn, or when the webhook call throws after it committed the job (HTTP 500).
* The opt-out flag is read before the wait for the send lock (`send-guards.ts:161`,
  lock at `:235`) and not again, so a queued reply goes out after the customer's
  STOP was recorded, against `docs/REAL_BUSINESS_PRODUCTION_READINESS.md:314`
  ("independently blocks automated replies while opted out");
  `SilentAfterConfirmedStop` shows that nothing follows its acknowledgement.
* The introduction is sent again after a send with unknown outcome.
* A STOP that waits in the consent chain at a restart is only known again when the
  provider delivers it again (`server.ts:403`).
* No order is promised between messages of one customer: workers and retries
  answer them as they come (`inbound-jobs.ts:207`).

Customer turns:

* The fixed fallback can be vetoed by its own wording guard: a turn with a claim
  and a refund among its facts, or a refused status update, gets neither reply nor
  fallback (but the owner is told), against `customer-turn.ts:44-50`.
* An answer that sends a message and prepares an order gives two visible
  messages, against `customer-turn.ts:313-315`.
* When the closing call fails after the reply was delivered, the retried turn may
  send a fallback after the answer.
* A retried turn sends the summary of a draft booked in the meantime again, still
  marked as not booked.
* Skipped closing steps can add up to more turns than the history window holds,
  against `customer-turn.ts:88-91`.
* A job that fails in all its attempts leaves no handoff.

Owner:

* A payment confirmation that is run again after its effect was committed finds no
  waiting action and is answered that nothing was changed
  (`payment-resolution.ts:359-371`), although it approved the claim; the answer
  meant for this case (`:179-181`) is not reached. The fulfilment desk looks for
  the event key first and does not have this (`ShippingIsNotDenied`).
* A confirmation run late can decide an action prepared after it, and a payment
  cancellation run again cancels one (only the message that prepared an action is
  excluded, `fulfilment-commands.ts:243`). A rerun that would decide a second
  action meets the unique `confirm_event_key` and the attempt fails.
* An answer that pacing refuses is not repeated: the command took effect and the
  owner is not told. The comment in `owner-turn.ts:24-26` predates the ledger.

Alerts and session:

* More alerts than the flood limit can reach the owner within one window, against
  `docs/ENGINEERING_ROADMAP.md:2852` ("a durable rolling ceiling of six deliveries per
  ten minutes") and `.env.example:80-81`. A delivery is marked with the time its call
  read before the send (`alerts.ts:219-226`), by a retry before it waits for the lock
  (`:272-274`), so that it leaves the counted window that much before it leaves
  the owner's. With a window of 2 minutes and deliveries of up to 2, TLC finds two
  alerts within it at a limit of 1. What does hold is `FloodCap`.
* An alert the owner got with the process killed, or unsure of it, is on no row
  marked sent, and the flood limit does not count it.
* An alert whose delivery is unknown is never sent again under the same text, since
  its ledger row stands, although `alerts.ts:95-97` has it delivered after a
  restart; a refusal by pacing uses up one of its six retries.
* Messages held while no outage is known (`recordHeld` without `downSince`) cannot
  occur.

Database:

* A file that counts in rupees cannot be opened with an SQLite that resolves
  triggers at a rename: the money migration renames a table that a trigger on the
  new one names, and is rolled back at every start. A file from before the ledger
  is given new tables by the schema first and then refused as mixed, against the
  comment at `db.ts:47-50`.
* The start that migrates the money replaces `products` and `payment_claims` after
  the columns were added to them (`db.ts:66-72`, `:256-290`). Until the next start the
  first lacks `image_filename`, and what was in it is gone, and the second
  `approval_reversed_at` and `approval_reversed_by_customer_id`, so that statements
  that name them fail (`payments.ts:348`, `payment-resolution.ts:166`, `:327`).
* A crash between creating `orders_new` and renaming it leaves a file every later
  start fails on, with all its orders in it.
* Failed copies count against the retention of backups.

Not stated as a property because nothing in the repository promises the contrary:
an inventory import sets stock to the file's count while orders hold units, so that
it depends on the owner whether held units are in that count.

## 7. Assumptions

* A response of WAHA other than OK means that the message was not accepted
  (`waha.ts` treats it so, 5xx included); a timeout means nothing.
* SQLite statements do not fail, but for the database fault of the queue runs and
  the refusals of the start-up.
* Orders and claims are finitely many.
* Every payment reference passes the check for weak evidence; references are
  distinct names.
* Orders in `placed` exist only as rows of an earlier version: `confirm_order`
  books them as `confirmed`. An order becomes `paid` by an integration only.
* Time is abstract: expiry of drafts, actions, leases and backoffs happens at
  any moment after it can. Where it is counted (`OwnerAlerts`) it is in minutes,
  and what takes seconds ends within one.
* Code between two awaits is not interrupted.
* A model call takes no more than `MaxTokens`, and a delivery no longer than
  `MaxLag`; both are parameters, for which nothing but being natural numbers is
  assumed.

## 8. Not modelled

Wording, safety and language guards are pure functions on text, as are message
parsing, payment instructions, identity and the webhook's HMAC; they
are tables and regular expressions that the unit tests serve better. Catalog,
media, order lookup and reports only read. Metrics and logs feed nothing
back; of the trace the outcome is modelled. The count of abuse control over its
window is read and written in one transaction and used nowhere else, so its
verdict is nondeterministic. Quiet hours and warm-up of the pacing engine depend
on the clock only. The demo and the scripts are not part
of the service. `PROJECT.json` lists each under `components`.

## 9. Plan

Sections 2 to 5 are done. What is left, in order:

1. `BudgetKept` for `OwnerTurn`: the lemmas about `AiBudget` are proved beside
   `CustomerTurn` and would have to move to a module both can use.
2. The composition of `CustomerTurn` with `OrderBook`, whose drafts so far share
   `TwoStepDesk` only: together they would say of a confirmation what it does to
   stock.
3. Larger instances of `turn` (two messages at once in every kind) on a machine
   that can afford them; the proofs cover them for the properties proved.
