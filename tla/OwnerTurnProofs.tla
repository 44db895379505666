-------------------------- MODULE OwnerTurnProofs --------------------------
(***************************************************************************)
(* Proofs about OwnerTurn for any commands and questions, any actions that *)
(* wait at first, any answers of the model, any limits and restarts.       *)
(***************************************************************************)
EXTENDS OwnerTurn, TLAPS

-----------------------------------------------------------------------------
(* Turn records. *)

\* Where a turn is says whether tool calls are left, and how many answers of
\* the model there were.
Shaped(t) ==
  /\ t \in TurnRecord
  /\ t.at \in {"command", "ask", "asked"} => t.step # MaxToolSteps
  /\ t.at = "tools" => t.plan # <<>>
  /\ t.at \in {"command", "ask", "asked", "after"} => t.plan = <<>>

LoopStates == {"ask", "tools", "trying", "after"}

\* To the next call of the answer, or past the last one.
LEMMA ProceedShaped ==
  ASSUME NEW t \in TurnRecord
  PROVE  Shaped(Proceed(t)) /\ Proceed(t).at \in LoopStates
<1>1. CASE t.plan # <<>> /\ Head(t.plan) \in Words
  <2> DEFINE text == Head(t.plan)
             u == [t EXCEPT !.at = "trying", !.text = text, !.called = TRUE]
  <2>1. Proceed(t) = u
    BY <1>1 DEF Proceed
  <2>2. text \in Texts
    BY <1>1 DEF Texts
  <2> HIDE DEF text
  <2>3. u \in TurnRecord /\ u.at = "trying"
    BY <2>2 DEF TurnRecord
  <2> HIDE DEF u
  <2> QED BY <2>1, <2>3 DEF Shaped, LoopStates
<1>2. CASE t.plan # <<>> /\ Head(t.plan) \notin Words
  <2> DEFINE u == [t EXCEPT !.at = "tools"]
  <2>1. Proceed(t) = u
    BY <1>2 DEF Proceed
  <2>2. u \in TurnRecord /\ u.at = "tools" /\ u.plan = t.plan
    BY DEF TurnRecord
  <2> HIDE DEF u
  <2> QED BY <1>2, <2>1, <2>2 DEF Shaped, LoopStates
<1>3. CASE t.plan = <<>>
  <2> DEFINE at == IF t.step = MaxToolSteps THEN "after" ELSE "ask"
             u == [t EXCEPT !.at = at]
  <2>1. Proceed(t) = u
    BY <1>3 DEF Proceed
  <2>2. at \in {"after", "ask"} /\ (at = "ask" => t.step # MaxToolSteps)
    OBVIOUS
  <2> HIDE DEF at
  <2>3. u \in TurnRecord /\ u.at = at /\ u.plan = <<>> /\ u.step = t.step
    BY <1>3, <2>2 DEF TurnRecord
  <2> HIDE DEF u
  <2> QED BY <2>1, <2>2, <2>3 DEF Shaped, LoopStates
<1> QED BY <1>1, <1>2, <1>3

\* The first call of the plan is done.
LEMMA ReturnedShaped ==
  ASSUME NEW t \in TurnRecord, t.plan # <<>>
  PROVE  Shaped(Returned(t)) /\ Returned(t).at \in LoopStates
<1> DEFINE rest == Tail(t.plan)
           u == [t EXCEPT !.plan = rest]
<1>1. rest \in Seq(Tools)
  BY DEF TurnRecord
<1> HIDE DEF rest
<1>2. u \in TurnRecord
  BY <1>1 DEF TurnRecord
<1>3. Returned(t) = Proceed(u)
  BY DEF Returned, rest
<1> HIDE DEF u
<1> QED BY <1>2, <1>3, ProceedShaped

\* The model's answer.
LEMMA AnswerShaped ==
  ASSUME NEW t, Shaped(t), t.at = "asked", NEW plan \in Seq(Tools)
  PROVE  LET u == [t EXCEPT !.step = @ + 1, !.plan = plan]
             v == IF plan = <<>> THEN [u EXCEPT !.at = "after"] ELSE Proceed(u)
         IN  Shaped(v) /\ v.at \in LoopStates
<1> DEFINE n == t.step + 1
           u == [t EXCEPT !.step = n, !.plan = plan]
           w == [u EXCEPT !.at = "after"]
<1>1. n \in 0 .. MaxToolSteps
  BY OwnerAssumption DEF Shaped, TurnRecord
<1> HIDE DEF n
<1>2. u \in TurnRecord /\ u.plan = plan
  BY <1>1 DEF Shaped, TurnRecord
<1>4. [t EXCEPT !.step = @ + 1, !.plan = plan] = u
  BY DEF n
<1> HIDE DEF u
<1>5. CASE plan = <<>>
  <2>1. w \in TurnRecord /\ w.at = "after" /\ w.plan = <<>>
    BY <1>2, <1>5 DEF TurnRecord
  <2> HIDE DEF w
  <2>2. Shaped(w)
    BY <2>1 DEF Shaped
  <2> QED BY <1>4, <1>5, <2>1, <2>2 DEF LoopStates, w
<1>6. CASE plan # <<>>
  BY <1>2, <1>4, <1>6, ProceedShaped
<1> QED BY <1>5, <1>6

\* A send is over: back to the loop, or to the end of a turn without one.
LEMMA SendReturnsShaped ==
  ASSUME NEW t \in TurnRecord, NEW ok \in BOOLEAN, NEW u, u = SendReturns(t, ok)
  PROVE  /\ Shaped(u)
         /\ IF t.plan = <<>> THEN u.at = "finishing" /\ u.plan = <<>> ELSE u.at \in LoopStates
<1> DEFINE hint == IF ok \/ t.hint = "replied" THEN "replied" ELSE "no_reply"
           told == [t EXCEPT !.hint = hint]
<1>1. hint \in {"none", "replied", "no_reply"}
  OBVIOUS
<1>2. u = IF t.plan = <<>> THEN [told EXCEPT !.at = "finishing"] ELSE Returned(told)
  BY DEF SendReturns
<1> HIDE DEF hint
<1>3. told \in TurnRecord /\ told.plan = t.plan
  BY <1>1 DEF TurnRecord
<1> HIDE DEF told
<1>4. CASE t.plan = <<>>
  <2>1. u = [told EXCEPT !.at = "finishing"]
    BY <1>2, <1>4
  <2>2. u \in TurnRecord /\ u.at = "finishing" /\ u.plan = <<>>
    BY <1>3, <1>4, <2>1 DEF TurnRecord
  <2> QED BY <1>4, <2>2 DEF Shaped
<1>5. CASE t.plan # <<>>
  BY <1>2, <1>3, <1>5, ReturnedShaped
<1> QED BY <1>4, <1>5

\* No attempt is under way.
LEMMA NoTurnShaped == Shaped(NoTurn)
<1>1. NoTurn \in TurnRecord
  BY OwnerAssumption DEF NoTurn, TurnRecord, Texts
<1> QED BY <1>1 DEF NoTurn, Shaped

-----------------------------------------------------------------------------
(* The inductive invariant. *)

\* A turn runs while its job does; a reserved call has a turn that waits for it.
Attempted(m) ==
  /\ turn[m].at = "idle" <=> job[m].status # "running"
  /\ flight[m] # "none" => turn[m].at = "asked"
  /\ job[m].status = "running" => job[m].attempts # 0

\* A confirmation at the fulfilment desk never reaches the model, and once its
\* action is carried out it has something else to say than that nothing was
\* changed.
Told(m) ==
  Does[m] = "confirm" /\ Desk[m] = "fulfilment" =>
    /\ turn[m].at \in {"idle", "command", "trying", "sending", "finishing"}
    /\ turn[m].plan = <<>>
    /\ turn[m].at = "trying" /\ Applied(m) => turn[m].text # "nothing"

Message(m) == Shaped(turn[m]) /\ Attempted(m) /\ Told(m)

\* One action waits at a desk, a message decides one action, and an action that
\* was carried out was confirmed at its desk.
DeskInv ==
  /\ action \in [Turns -> {"none", "pending", "confirmed", "gone"}]
  /\ decidedBy \in [Turns -> Turns \cup {None}]
  /\ \A a \in Turns : action[a] # "none" => Does[a] = "prepare"
  /\ \A a, b \in Turns :
       action[a] = "pending" /\ action[b] = "pending" /\ Desk[a] = Desk[b] => a = b
  /\ \A a \in Turns : action[a] = "confirmed" => decidedBy[a] # None
  /\ \A a, m \in Turns : action[a] = "confirmed" /\ decidedBy[a] = m => Does[m] = "confirm"
  /\ OneActionPerCommand

Jobs == [status : {"absent", "ready", "running", "done", "failed"}, attempts : 0..MaxAttempts]
Outcomes == {"none", "replied", "no_reply", "error", "deferred"}

Typed ==
  /\ BudgetTypeOK
  /\ job \in [Turns -> Jobs]
  /\ holds \in [Turns -> 0..MaxHolds]
  /\ turn \in [Turns -> TurnRecord]
  /\ answer \in [Turns -> [status : Rows, text : Texts]]
  /\ outcome \in [Turns -> Outcomes]
  /\ crashes \in Nat

Inv == Typed /\ DeskInv /\ \A m \in Turns : Message(m)

-----------------------------------------------------------------------------
(* The desks. *)

\* Waiting actions are dropped, and the one who cancelled them is noted or not.
LEMMA DroppedKept ==
  ASSUME DeskInv, NEW d, NEW m \in Turns,
         action' = [a \in Turns |-> IF a \in Waiting(d) THEN "gone" ELSE action[a]],
         \/ decidedBy' = decidedBy
         \/ /\ decidedBy' = [a \in Turns |-> IF a \in Waiting(d) THEN m ELSE decidedBy[a]]
            /\ Waiting(d) # {} => ~Decided(m)
  PROVE  DeskInv' /\ \A n \in Turns : Applied(n)' = Applied(n)
<1>1. \A a, b \in Waiting(d) : a = b
  BY DEF DeskInv, Waiting
<1>2. \A a \in Turns : a \in Waiting(d) => action[a] = "pending"
  BY DEF Waiting
<1>3. ASSUME decidedBy' = decidedBy PROVE DeskInv'
  BY <1>2, <1>3 DEF DeskInv, OneActionPerCommand
<1>4. ASSUME decidedBy' = [a \in Turns |-> IF a \in Waiting(d) THEN m ELSE decidedBy[a]],
             Waiting(d) # {} => ~Decided(m)
      PROVE  DeskInv'
  <2>1. /\ action' \in [Turns -> {"none", "pending", "confirmed", "gone"}]
        /\ decidedBy' \in [Turns -> Turns \cup {None}]
    BY <1>4 DEF DeskInv
  <2>2. OneActionPerCommand'
    BY <1>1, <1>4, <2>1, OwnerAssumption DEF DeskInv, OneActionPerCommand, Decided
  <2> QED BY <1>2, <1>4, <2>1, <2>2 DEF DeskInv
<1>5. \A a \in Turns : action'[a] = "confirmed" <=> action[a] = "confirmed"
  BY <1>2 DEF DeskInv
<1>6. \A a \in Turns : action[a] = "confirmed" => decidedBy'[a] = decidedBy[a]
  BY <1>2
<1>7. \A n \in Turns : Applied(n)' = Applied(n)
  BY <1>5, <1>6 DEF Applied
<1> QED BY <1>3, <1>4, <1>7

\* A confirmation decides the one action that waits.
LEMMA DecideKept ==
  ASSUME DeskInv, NEW m \in Turns, Does[m] = "confirm", ~Decided(m), NEW a \in Waiting(Desk[m]),
         NEW how \in {"confirmed", "gone"},
         action' = [action EXCEPT ![a] = how], decidedBy' = [decidedBy EXCEPT ![a] = m]
  PROVE  DeskInv' /\ \A n \in Turns \ {m} : Applied(n)' = Applied(n)
<1>1. a \in Turns /\ action[a] = "pending"
  BY DEF Waiting
<1>2. /\ action' \in [Turns -> {"none", "pending", "confirmed", "gone"}]
      /\ decidedBy' \in [Turns -> Turns \cup {None}]
  BY <1>1 DEF DeskInv
<1>3. OneActionPerCommand'
  BY <1>1, <1>2 DEF DeskInv, OneActionPerCommand, Decided
<1>4. DeskInv'
  BY <1>1, <1>2, <1>3, OwnerAssumption DEF DeskInv
<1>5. \A n \in Turns \ {m} : Applied(n)' = Applied(n)
  BY <1>1 DEF DeskInv, Applied
<1> QED BY <1>4, <1>5

\* A new action replaces the one that waits.
LEMMA PreparedKept ==
  ASSUME DeskInv, NEW m \in Turns, action[m] = "none", Does[m] = "prepare", action' = Prepared(m),
         decidedBy' = decidedBy
  PROVE  DeskInv' /\ \A n \in Turns : Applied(n)' = Applied(n)
<1>1. \A a \in Turns : a \in Waiting(Desk[m]) <=> Desk[a] = Desk[m] /\ action[a] = "pending"
  BY DEF Waiting
<1>2. DeskInv'
  BY <1>1 DEF DeskInv, Prepared, OneActionPerCommand
<1>3. \A n \in Turns : Applied(n)' = Applied(n)
  BY <1>1 DEF Applied, Prepared, DeskInv
<1> QED BY <1>2, <1>3

\* What a confirmation does to its desk: nothing, or it decides.
LEMMA ConfirmKept ==
  ASSUME DeskInv, NEW m \in Turns, ConfirmFulfilment(m) \/ ConfirmPayment(m)
  PROVE  DeskInv' /\ \A n \in Turns \ {m} : Applied(n)' = Applied(n)
<1>1. CASE UNCHANGED deskVars
  BY <1>1 DEF deskVars, DeskInv, OneActionPerCommand, Applied
<1>2. CASE ~Decided(m) /\ Decide(m)
  <2>1. Does[m] = "confirm"
    BY DEF ConfirmFulfilment, ConfirmPayment, Commands
  <2>2. PICK a \in Waiting(Desk[m]), how \in {"confirmed", "gone"} :
          action' = [action EXCEPT ![a] = how] /\ decidedBy' = [decidedBy EXCEPT ![a] = m]
    BY <1>2 DEF Decide
  <2> QED BY <1>2, <2>1, <2>2, DecideKept
<1> QED BY <1>1, <1>2, Zenon DEF ConfirmFulfilment, ConfirmPayment

\* A cancellation drops what waits.
LEMMA CancelKept ==
  ASSUME DeskInv, NEW m \in Turns, Cancel(m)
  PROVE  DeskInv' /\ \A n \in Turns : Applied(n)' = Applied(n)
<1>1. /\ action' = [a \in Turns |-> IF a \in Waiting(Desk[m]) THEN "gone" ELSE action[a]]
      /\ decidedBy' = [a \in Turns |-> IF a \in Waiting(Desk[m]) /\ Desk[m] = "fulfilment"
                                       THEN m ELSE decidedBy[a]]
      /\ Desk[m] = "fulfilment" /\ Waiting(Desk[m]) # {} => ~Decided(m)
  BY Zenon DEF Cancel
<1>2. CASE Desk[m] = "fulfilment"
  BY <1>1, <1>2, DroppedKept
<1>3. CASE Desk[m] # "fulfilment"
  <2>1. decidedBy' = decidedBy
    BY <1>1, <1>3 DEF DeskInv
  <2> QED BY <1>1, <2>1, DroppedKept
<1> QED BY <1>2, <1>3

\* A preparation replaces what waits, or finds its own action.
LEMMA PrepareKept ==
  ASSUME DeskInv, NEW m \in Turns, Prepare(m)
  PROVE  DeskInv' /\ \A n \in Turns : Applied(n)' = Applied(n)
<1>1. Does[m] = "prepare" /\ decidedBy' = decidedBy
  BY DEF Prepare, Commands
<1>2. CASE action[m] = "none" /\ action' = Prepared(m)
  BY <1>1, <1>2, PreparedKept
<1>3. CASE UNCHANGED action
  BY <1>1, <1>3 DEF DeskInv, OneActionPerCommand, Applied
<1> QED BY <1>2, <1>3, Zenon DEF Prepare

\* The other steps of a turn leave the desks alone.
LEMMA DesksLeft ==
  ASSUME NEW m \in Turns, Attempt(m) \/ Loop(m) \/ Send(m) \/ KeyTaken(m) \/ Ask(m)
  PROVE  UNCHANGED deskVars
BY Zenon DEF Attempt, Open, Complete, HoldForSession, ConsumeAttempt, Loop, CallModel, BudgetRefuses,
   ModelFails, ModelAnswers, Report, SendLastText, LoopDone, Send, Refused, FoundSent, BeginSend,
   SendEnds, SendFails, KeyTaken, Ask

\* No step of a message makes another one's command applied.
LEMMA StepDesk ==
  ASSUME DeskInv, NEW m \in Turns, Step(m)
  PROVE  /\ DeskInv'
         /\ \A n \in Turns \ {m} : Applied(n)' = Applied(n)
         /\ ~(ConfirmFulfilment(m) \/ ConfirmPayment(m)) => Applied(m)' = Applied(m)
<1>1. CASE Attempt(m) \/ Loop(m) \/ Send(m) \/ KeyTaken(m) \/ Ask(m)
  <2>1. UNCHANGED deskVars
    BY <1>1, DesksLeft
  <2> QED BY <2>1 DEF deskVars, DeskInv, OneActionPerCommand, Applied
<1>2. CASE Prepare(m)
  BY <1>2, PrepareKept
<1>3. CASE ConfirmFulfilment(m) \/ ConfirmPayment(m)
  BY <1>3, ConfirmKept
<1>4. CASE Cancel(m)
  BY <1>4, CancelKept
<1> QED BY <1>1, <1>2, <1>3, <1>4, Zenon DEF Step, Command

\* Nor does anything else.
LEMMA OthersDesk ==
  ASSUME DeskInv, Crash \/ World \/ UNCHANGED vars
  PROVE  DeskInv' /\ \A n \in Turns : Applied(n)' = Applied(n)
<1>1. CASE UNCHANGED deskVars
  BY <1>1 DEF deskVars, DeskInv, OneActionPerCommand, Applied
<1>2. CASE \E d \in {"fulfilment", "payment"} : ActionExpires(d)
  <2>1. PICK d : /\ Waiting(d) # {} /\ decidedBy' = decidedBy
                 /\ action' = [a \in Turns |-> IF a \in Waiting(d) THEN "gone" ELSE action[a]]
    BY <1>2, Zenon DEF ActionExpires
  <2>2. PICK m \in Turns : m \in Waiting(d)
    BY <2>1 DEF Waiting
  <2> QED BY <2>1, <2>2, DroppedKept
<1>3. CASE Crash \/ Midnight \/ UNCHANGED vars
  <2>1. UNCHANGED deskVars
    BY <1>3, Zenon DEF Crash, Midnight, vars
  <2> QED BY <1>1, <2>1
<1> QED BY <1>2, <1>3, Zenon DEF World

-----------------------------------------------------------------------------
(* Steps, as a message sees them. *)

\* Nothing of the message changes.
Same(m) ==
  /\ turn'[m] = turn[m] /\ job'[m] = job[m] /\ Applied(m)' = Applied(m)
  /\ flight[m] = "none" => flight'[m] = "none"

\* A message whose part of the state stays keeps its invariant.
LEMMA SameKept ==
  ASSUME NEW m \in Turns, Message(m), Same(m)
  PROVE  Message(m)'
BY DEF Message, Same, Shaped, Attempted, Told

\* The turn moves on.
LEMMA Moves ==
  ASSUME NEW m \in Turns, Message(m), job[m].status = "running", NEW u, turn'[m] = u, Shaped(u),
         u.at # "idle", job'[m] = job[m], flight'[m] # "none" => u.at = "asked", Told(m)'
  PROVE  Message(m)'
BY DEF Message, Attempted

\* The attempt ends.
LEMMA Leaves ==
  ASSUME NEW m \in Turns, turn'[m] = NoTurn, job'[m].status # "running", flight'[m] = "none"
  PROVE  Message(m)'
<1>1. Shaped(turn[m])'
  BY NoTurnShaped
<1>2. Attempted(m)' /\ Told(m)'
  BY DEF NoTurn, Attempted, Told
<1> QED BY <1>1, <1>2 DEF Message

\* The facts of a message and its types.
LEMMA Known ==
  ASSUME Inv, NEW m \in Turns
  PROVE  /\ Message(m) /\ turn \in [Turns -> TurnRecord] /\ job \in [Turns -> Jobs]
         /\ flight \in [Turns -> {"none", "today", "earlier"}]
         /\ turn[m] \in TurnRecord
BY DEF Inv, Typed, BudgetTypeOK

\* The attempt begins.
LEMMA OpenKept ==
  ASSUME Inv, NEW m \in Turns, Open(m)
  PROVE  Message(m)'
<1>0. /\ Message(m) /\ turn \in [Turns -> TurnRecord] /\ job \in [Turns -> Jobs]
      /\ flight \in [Turns -> {"none", "today", "earlier"}]
  BY Known
<1> DEFINE u == [NoTurn EXCEPT !.at = "command"]
<1>1. NoTurn \in TurnRecord /\ NoTurn.plan = <<>> /\ NoTurn.step = 0
  BY NoTurnShaped DEF Shaped, NoTurn
<1>2. u \in TurnRecord /\ u.at = "command" /\ u.plan = <<>> /\ u.step = 0
  BY <1>1 DEF TurnRecord
<1>3. /\ turn'[m] = u /\ job'[m] = [status |-> "running", attempts |-> job[m].attempts + 1]
      /\ flight' = flight /\ job[m].status = "ready"
  BY <1>0 DEF Open, Go, budgetVars
<1> HIDE DEF u
<1>4. Shaped(turn[m])'
  BY <1>2, <1>3, OwnerAssumption DEF Shaped
<1>5. flight[m] = "none"
  BY <1>0, <1>3 DEF Message, Attempted
<1>6. job[m].attempts + 1 # 0
  BY <1>0 DEF Jobs
<1>7. Attempted(m)' /\ Told(m)'
  BY <1>2, <1>3, <1>5, <1>6 DEF Attempted, Told
<1> QED BY <1>4, <1>7 DEF Message

\* The attempt ends: completed, given back, or after an error.
LEMMA EndingKept ==
  ASSUME Inv, NEW m \in Turns,
         \/ Complete(m) \/ HoldForSession(m) \/ ConsumeAttempt(m) \/ BudgetRefuses(m)
         \/ ModelFails(m) \/ KeyTaken(m)
  PROVE  Message(m)'
<1>0. /\ Message(m) /\ turn \in [Turns -> TurnRecord] /\ job \in [Turns -> Jobs]
      /\ flight \in [Turns -> {"none", "today", "earlier"}]
  BY Known
<1>1. PICK status \in {"done", "ready", "failed"} : \E n, how : End(m, status, n, how)
  BY Zenon DEF Complete, HoldForSession, ConsumeAttempt, BudgetRefuses, ModelFails, KeyTaken, Throws, Defers
<1>2. turn'[m] = NoTurn /\ job'[m].status # "running"
  BY <1>0, <1>1 DEF End, Go
<1>3. flight'[m] = "none"
  <2>1. CASE ModelFails(m)
    BY <1>0, <2>1 DEF ModelFails, FinishCall
  <2>2. CASE Complete(m) \/ HoldForSession(m) \/ ConsumeAttempt(m) \/ BudgetRefuses(m) \/ KeyTaken(m)
    <3>1. flight' = flight /\ turn[m].at \in {"finishing", "ask", "command"}
      BY <2>2, Zenon DEF Complete, HoldForSession, ConsumeAttempt, BudgetRefuses, KeyTaken, Commands, At,
         budgetVars
    <3> QED BY <1>0, <3>1 DEF Message, Attempted
  <2> QED BY <2>1, <2>2
<1> QED BY <1>2, <1>3, Leaves

\* The server has something to say of a command, or the question goes on.
LEMMA CommandKept ==
  ASSUME Inv, NEW m \in Turns,
         Prepare(m) \/ ConfirmFulfilment(m) \/ ConfirmPayment(m) \/ Cancel(m) \/ Ask(m)
  PROVE  Message(m)'
<1>0. /\ Message(m) /\ turn \in [Turns -> TurnRecord] /\ turn[m] \in TurnRecord
      /\ flight \in [Turns -> {"none", "today", "earlier"}] /\ DeskInv
  BY Known DEF Inv
<1>1. turn[m].at = "command" /\ job' = job /\ flight' = flight
  BY Zenon DEF Prepare, ConfirmFulfilment, ConfirmPayment, Cancel, Ask, Commands, At, jobVars, budgetVars
<1>2. /\ job[m].status = "running" /\ flight'[m] = "none" /\ turn[m].plan = <<>>
      /\ turn[m].step # MaxToolSteps
  BY <1>0, <1>1 DEF Message, Attempted, Shaped
<1>3. ASSUME NEW text \in Texts, Says(m, text),
             Does[m] = "confirm" /\ Desk[m] = "fulfilment" /\ Applied(m)' => text # "nothing"
      PROVE  Message(m)'
  <2> DEFINE u == [turn[m] EXCEPT !.at = "trying", !.text = text]
  <2>1. u \in TurnRecord /\ u.at = "trying" /\ u.plan = <<>> /\ u.text = text
    BY <1>0, <1>2 DEF TurnRecord
  <2>2. turn'[m] = u
    BY <1>0, <1>3 DEF Says, Go
  <2> HIDE DEF u
  <2>3. Shaped(u)
    BY <2>1 DEF Shaped
  <2>4. Told(m)'
    BY <1>3, <2>1, <2>2 DEF Told
  <2> QED BY <1>0, <1>1, <1>2, <2>1, <2>2, <2>3, <2>4, Moves
<1>4. {"prepared", "again", "nothing", "already", "changed", "waiting"} \subseteq Texts
  BY DEF Texts
<1>5. CASE Prepare(m) \/ Cancel(m)
  <2>1. \E text \in {"prepared", "again", "nothing"} : Says(m, text)
    BY <1>5, Zenon DEF Prepare, Cancel
  <2>2. Does[m] # "confirm"
    BY <1>5 DEF Prepare, Cancel, Commands
  <2> QED BY <1>3, <1>4, <2>1, <2>2
<1>6. CASE ConfirmPayment(m)
  <2>1. \E text \in {"changed", "nothing"} : Says(m, text)
    BY <1>6, Zenon DEF ConfirmPayment, Decide
  <2>2. Desk[m] # "fulfilment"
    BY <1>6 DEF ConfirmPayment, Commands
  <2> QED BY <1>3, <1>4, <2>1, <2>2
<1>7. CASE ConfirmFulfilment(m)
  <2>1. CASE /\ Decided(m) /\ UNCHANGED deskVars
             /\ Says(m, IF \E a \in Turns : decidedBy[a] = m /\ action[a] = "confirmed"
                        THEN "already" ELSE "nothing")
    <3>1. Applied(m)' = Applied(m)
      BY <2>1 DEF deskVars, Applied
    <3>2. Says(m, IF Applied(m) THEN "already" ELSE "nothing")
      BY <2>1, Zenon DEF Applied
    <3> QED BY <1>3, <1>4, <3>1, <3>2
  <2>2. CASE ~Decided(m) /\ Decide(m)
    <3>1. PICK a \in Waiting(Desk[m]), how \in {"confirmed", "gone"} :
            /\ action' = [action EXCEPT ![a] = how] /\ decidedBy' = [decidedBy EXCEPT ![a] = m]
            /\ Says(m, IF how = "confirmed" THEN "changed" ELSE "nothing")
      BY <2>2, Zenon DEF Decide
    <3>2. CASE how = "confirmed"
      BY <1>3, <1>4, <3>1, <3>2
    <3>3. CASE how = "gone"
      <4>1. ~Applied(m)'
        BY <1>0, <2>2, <3>1, <3>3 DEF Decided, Applied, DeskInv, Waiting
      <4> QED BY <1>3, <1>4, <3>1, <3>3, <4>1
    <3> QED BY <3>2, <3>3
  <2>3. CASE /\ ~Decided(m) /\ UNCHANGED deskVars
             /\ Says(m, "nothing") \/ Says(m, "already")
    <3>1. ~Applied(m)'
      BY <2>3 DEF deskVars, Decided, Applied
    <3> QED BY <1>3, <1>4, <2>3, <3>1
  <2> QED BY <1>7, <2>1, <2>2, <2>3, Zenon DEF ConfirmFulfilment
<1>8. CASE Ask(m)
  <2>1. Does[m] = "ask"
    BY <1>8 DEF Ask
  <2>2. CASE Says(m, "waiting")
    BY <1>3, <1>4, <2>1, <2>2
  <2>3. CASE Go(m, [turn[m] EXCEPT !.at = "ask"])
    <3> DEFINE u == [turn[m] EXCEPT !.at = "ask"]
    <3>1. u \in TurnRecord /\ u.at = "ask" /\ u.plan = <<>> /\ u.step = turn[m].step
      BY <1>0, <1>2 DEF TurnRecord
    <3>2. turn'[m] = u
      BY <1>0, <2>3 DEF Go
    <3> HIDE DEF u
    <3>3. Shaped(u)
      BY <1>2, <3>1 DEF Shaped
    <3>4. Told(m)'
      BY <2>1 DEF Told
    <3> QED BY <1>0, <1>1, <1>2, <3>1, <3>2, <3>3, <3>4, Moves
  <2> QED BY <1>8, <2>2, <2>3, Zenon DEF Ask
<1> QED BY <1>5, <1>6, <1>7, <1>8

\* The model is asked and answers; reports; the last words of a turn.
LEMMA LoopKept ==
  ASSUME Inv, NEW m \in Turns,
         CallModel(m) \/ ModelAnswers(m) \/ Report(m) \/ SendLastText(m) \/ LoopDone(m)
  PROVE  Message(m)'
<1>0. /\ Message(m) /\ turn \in [Turns -> TurnRecord] /\ turn[m] \in TurnRecord
      /\ flight \in [Turns -> {"none", "today", "earlier"}]
  BY Known
<1>1. turn[m].at \in {"ask", "asked", "tools", "after"} /\ job' = job
  BY Zenon DEF CallModel, ModelAnswers, Report, SendLastText, LoopDone, At, jobVars
<1>2. job[m].status = "running" /\ Told(m)'
  BY <1>0, <1>1 DEF Message, Attempted, Told
<1>3. CASE CallModel(m)
  <2> DEFINE u == [turn[m] EXCEPT !.at = "asked"]
  <2>1. turn[m].at = "ask" /\ turn'[m] = u
    BY <1>0, <1>3 DEF CallModel, At, Go
  <2>2. u \in TurnRecord /\ u.at = "asked" /\ u.plan = turn[m].plan /\ u.step = turn[m].step
    BY <1>0 DEF TurnRecord
  <2> HIDE DEF u
  <2>3. Shaped(u)
    BY <1>0, <2>1, <2>2 DEF Message, Shaped
  <2> QED BY <1>0, <1>1, <1>2, <2>1, <2>2, <2>3, Moves
<1>4. CASE ModelAnswers(m)
  <2>1. PICK plan \in Responses[m] :
          turn'[m] = LET t == [turn[m] EXCEPT !.step = @ + 1, !.plan = plan]
                     IN IF plan = <<>> THEN [t EXCEPT !.at = "after"] ELSE Proceed(t)
    BY <1>0, <1>4 DEF ModelAnswers, Go
  <2>2. plan \in Seq(Tools)
    BY OwnerAssumption
  <2>3. turn[m].at = "asked" /\ flight'[m] = "none"
    BY <1>0, <1>4 DEF ModelAnswers, At, FinishCall
  <2>4. Shaped(turn[m])
    BY <1>0 DEF Message
  <2> DEFINE u == [turn[m] EXCEPT !.step = @ + 1, !.plan = plan]
             v == IF plan = <<>> THEN [u EXCEPT !.at = "after"] ELSE Proceed(u)
  <2>5. Shaped(v) /\ v.at \in LoopStates
    BY <2>2, <2>3, <2>4, AnswerShaped
  <2>6. turn'[m] = v
    BY <2>1
  <2> HIDE DEF v
  <2>7. Shaped(turn[m])' /\ turn'[m].at \in LoopStates
    BY <2>5, <2>6
  <2> QED BY <1>0, <1>1, <1>2, <2>3, <2>7, Moves DEF LoopStates
<1>5. CASE Report(m) \/ SendLastText(m) \/ LoopDone(m)
  <2>1. turn[m].at \in {"tools", "after"} /\ flight' = flight
    BY <1>5, Zenon DEF Report, SendLastText, LoopDone, At, budgetVars
  <2>2. flight'[m] = "none"
    BY <1>0, <2>1 DEF Message, Attempted
  <2>3. CASE Report(m)
    <3>1. turn'[m] = Returned(turn[m]) /\ turn[m].plan # <<>>
      BY <1>0, <2>3 DEF Report, At, Go, Message, Shaped
    <3>2. Shaped(turn[m])' /\ turn'[m].at \in LoopStates
      BY <1>0, <3>1, ReturnedShaped
    <3> QED BY <1>0, <1>1, <1>2, <2>2, <3>2, Moves DEF LoopStates
  <2>4. CASE SendLastText(m)
    <3>1. PICK words \in Words : turn' = [turn EXCEPT ![m] = [turn[m] EXCEPT !.at = "trying", !.text = words]]
      BY <2>4 DEF SendLastText, Says, Go
    <3> DEFINE u == [turn[m] EXCEPT !.at = "trying", !.text = words]
    <3>2. words \in Texts
      BY DEF Texts
    <3>3. u \in TurnRecord /\ u.at = "trying"
      BY <1>0, <3>2 DEF TurnRecord
    <3>4. turn'[m] = u
      BY <1>0, <3>1
    <3> HIDE DEF u
    <3>5. Shaped(u)
      BY <3>3 DEF Shaped
    <3> QED BY <1>0, <1>1, <1>2, <2>2, <3>3, <3>4, <3>5, Moves
  <2>5. CASE LoopDone(m)
    <3> DEFINE hint == IF turn[m].hint = "replied" THEN turn[m].hint ELSE "no_reply"
               u == [turn[m] EXCEPT !.at = "finishing", !.hint = hint]
    <3>1. turn'[m] = u
      BY <1>0, <2>5 DEF LoopDone, Go
    <3>2. hint \in {"none", "replied", "no_reply"}
      BY <1>0 DEF TurnRecord
    <3> HIDE DEF hint
    <3>3. u \in TurnRecord /\ u.at = "finishing"
      BY <1>0, <3>2 DEF TurnRecord
    <3> HIDE DEF u
    <3>4. Shaped(u)
      BY <3>3 DEF Shaped
    <3> QED BY <1>0, <1>1, <1>2, <2>2, <3>1, <3>3, <3>4, Moves
  <2> QED BY <1>5, <2>3, <2>4, <2>5
<1> QED BY <1>3, <1>4, <1>5

\* A send begins, is refused, or ends one way or another.
LEMMA SendKept ==
  ASSUME Inv, NEW m \in Turns, Send(m)
  PROVE  Message(m)'
<1>0. /\ Message(m) /\ turn \in [Turns -> TurnRecord] /\ turn[m] \in TurnRecord
      /\ flight \in [Turns -> {"none", "today", "earlier"}]
  BY Known
<1>1. turn[m].at \in {"trying", "sending"} /\ job' = job /\ flight' = flight
  BY Zenon DEF Send, Refused, FoundSent, BeginSend, SendEnds, SendFails, At, jobVars, budgetVars
<1>2. job[m].status = "running" /\ flight'[m] = "none"
  BY <1>0, <1>1 DEF Message, Attempted
<1>3. CASE BeginSend(m)
  <2> DEFINE u == [turn[m] EXCEPT !.at = "sending"]
  <2>1. turn'[m] = u
    BY <1>0, <1>3 DEF BeginSend, Go
  <2>2. u \in TurnRecord /\ u.at = "sending" /\ u.plan = turn[m].plan
    BY <1>0 DEF TurnRecord
  <2> HIDE DEF u
  <2>3. Shaped(u) /\ Told(m)'
    BY <1>0, <2>1, <2>2 DEF Shaped, Message, Told
  <2> QED BY <1>0, <1>1, <1>2, <2>1, <2>2, <2>3, Moves
<1>4. CASE Refused(m) \/ FoundSent(m) \/ SendEnds(m) \/ SendFails(m)
  <2>1. PICK t \in TurnRecord, ok \in BOOLEAN :
          t.plan = turn[m].plan /\ turn' = [turn EXCEPT ![m] = SendReturns(t, ok)]
    <3>1. CASE Refused(m)
      BY <1>0, <3>1 DEF Refused, Go
    <3>2. CASE FoundSent(m)
      BY <1>0, <3>2 DEF FoundSent, Go
    <3>3. ASSUME NEW b \in BOOLEAN, NEW t, t = [turn[m] EXCEPT !.delivered = b]
                                        \/ t = [turn[m] EXCEPT !.unavailable = b]
          PROVE  t \in TurnRecord /\ t.plan = turn[m].plan
      BY <1>0, <3>3 DEF TurnRecord
    <3>4. CASE SendEnds(m)
      <4>1. PICK status \in Settled :
              turn' = [turn EXCEPT ![m] =
                         SendReturns([turn[m] EXCEPT !.delivered = @ \/ status = "sent"], TRUE)]
        BY <3>4 DEF SendEnds, Go
      <4> DEFINE b == turn[m].delivered \/ status = "sent"
                 t == [turn[m] EXCEPT !.delivered = b]
      <4>2. b \in BOOLEAN
        BY Zenon
      <4>3. turn' = [turn EXCEPT ![m] = SendReturns(t, TRUE)]
        BY <4>1
      <4> HIDE DEF b
      <4>4. t \in TurnRecord /\ t.plan = turn[m].plan
        BY <3>3, <4>2
      <4> HIDE DEF t
      <4> QED BY <4>3, <4>4
    <3>5. CASE SendFails(m)
      <4>1. PICK status \in {"rejected", "unavailable"} :
              turn' = [turn EXCEPT ![m] =
                         SendReturns([turn[m] EXCEPT !.unavailable = @ \/ status = "unavailable"], FALSE)]
        BY <3>5 DEF SendFails, Go
      <4> DEFINE b == turn[m].unavailable \/ status = "unavailable"
                 t == [turn[m] EXCEPT !.unavailable = b]
      <4>2. b \in BOOLEAN
        BY Zenon
      <4>3. turn' = [turn EXCEPT ![m] = SendReturns(t, FALSE)]
        BY <4>1
      <4> HIDE DEF b
      <4>4. t \in TurnRecord /\ t.plan = turn[m].plan
        BY <3>3, <4>2
      <4> HIDE DEF t
      <4> QED BY <4>3, <4>4
    <3> QED BY <1>4, <3>1, <3>2, <3>4, <3>5
  <2> DEFINE u == SendReturns(t, ok)
  <2>2. /\ Shaped(u)
        /\ IF t.plan = <<>> THEN u.at = "finishing" /\ u.plan = <<>> ELSE u.at \in LoopStates
    BY SendReturnsShaped
  <2>3. turn'[m] = u
    BY <1>0, <2>1
  <2> HIDE DEF u
  <2>4. Told(m)'
    BY <1>0, <2>1, <2>2, <2>3 DEF Message, Told
  <2> QED BY <1>0, <1>1, <1>2, <2>2, <2>3, <2>4, Moves DEF LoopStates
<1> QED BY <1>3, <1>4 DEF Send

\* A step of another message.
LEMMA OthersSame ==
  ASSUME Inv, NEW n \in Turns, Step(n), NEW m \in Turns \ {n}
  PROVE  Same(m)
<1>0. /\ turn \in [Turns -> TurnRecord] /\ job \in [Turns -> Jobs]
      /\ flight \in [Turns -> {"none", "today", "earlier"}] /\ DeskInv
  BY DEF Inv, Typed, BudgetTypeOK
<1>1. Applied(m)' = Applied(m)
  BY <1>0, StepDesk
<1>2. \/ job' = job
      \/ \E entry : job' = [job EXCEPT ![n] = entry]
  BY Zenon DEF Step, Attempt, Open, Complete, HoldForSession, ConsumeAttempt, Command, Prepare,
     ConfirmFulfilment, ConfirmPayment, Cancel, KeyTaken, Ask, Loop, CallModel, BudgetRefuses, ModelFails,
     ModelAnswers, Report, SendLastText, LoopDone, Send, Refused, FoundSent, BeginSend, SendEnds,
     SendFails, Throws, Defers, End, jobVars
<1>3. \E t : turn' = [turn EXCEPT ![n] = t]
  <2>1. CASE Attempt(n) \/ BudgetRefuses(n) \/ ModelFails(n) \/ KeyTaken(n)
    BY <2>1, Zenon DEF Attempt, Open, Complete, HoldForSession, ConsumeAttempt, BudgetRefuses, ModelFails,
       KeyTaken, Throws, Defers, End, Go
  <2>2. CASE Prepare(n) \/ ConfirmFulfilment(n) \/ ConfirmPayment(n) \/ Cancel(n) \/ Ask(n)
    BY <2>2, Zenon DEF Prepare, ConfirmFulfilment, ConfirmPayment, Cancel, Ask, Decide, Says, Go
  <2>3. CASE CallModel(n) \/ ModelAnswers(n)
    BY <2>3 DEF CallModel, ModelAnswers, Go
  <2>4. CASE Report(n) \/ SendLastText(n) \/ LoopDone(n) \/ Send(n)
    BY <2>4, Zenon DEF Report, SendLastText, LoopDone, Send, Refused, FoundSent, BeginSend, SendEnds,
       SendFails, Says, Go
  <2> QED BY <2>1, <2>2, <2>3, <2>4, Zenon DEF Step, Command, Loop
<1>4. flight'[m] = flight[m]
  <2>1. CASE CallModel(n) \/ ModelFails(n) \/ ModelAnswers(n)
    BY <1>0, <2>1 DEF CallModel, ModelFails, ModelAnswers, Reserve, FinishCall
  <2>2. CASE \/ Attempt(n) \/ Command(n) \/ Send(n) \/ BudgetRefuses(n)
             \/ Report(n) \/ SendLastText(n) \/ LoopDone(n)
    BY <2>2, Zenon DEF Attempt, Open, Complete, HoldForSession, ConsumeAttempt, Command, Prepare,
       ConfirmFulfilment, ConfirmPayment, Cancel, KeyTaken, Ask, BudgetRefuses, Report, SendLastText,
       LoopDone, Send, Refused, FoundSent, BeginSend, SendEnds, SendFails, budgetVars
  <2> QED BY <2>1, <2>2, Zenon DEF Step, Loop
<1> QED BY <1>0, <1>1, <1>2, <1>3, <1>4 DEF Same

\* Every message stays in shape, whoever takes the step.
LEMMA MessagesStep ==
  ASSUME Inv, [Next]_vars
  PROVE  \A m \in Turns : Message(m)'
<1>0. (\A m \in Turns : Message(m)) /\ DeskInv /\ flight \in [Turns -> {"none", "today", "earlier"}]
  BY DEF Inv, Typed, BudgetTypeOK
<1>1. CASE World \/ UNCHANGED vars
  <2>1. UNCHANGED <<turn, job>>
    BY <1>1, Zenon DEF World, Midnight, ActionExpires, vars, jobVars
  <2>2. \A m \in Turns : flight[m] = "none" => flight'[m] = "none"
    BY <1>0, <1>1 DEF World, Midnight, ActionExpires, NewDay, vars, budgetVars
  <2>3. \A m \in Turns : Applied(m)' = Applied(m)
    BY <1>0, <1>1, OthersDesk
  <2>4. \A m \in Turns : Same(m)
    BY <2>1, <2>2, <2>3 DEF Same
  <2> QED BY <1>0, <2>4, SameKept
<1>2. CASE Crash
  <2>1. ASSUME NEW m \in Turns
        PROVE  turn'[m] = NoTurn /\ job'[m].status # "running" /\ flight'[m] = "none"
    <3>1. job \in [Turns -> Jobs]
      BY DEF Inv, Typed
    <3>2. /\ turn' = [n \in Turns |-> NoTurn] /\ flight' = [n \in Turns |-> "none"]
          /\ job'[m] = IF job[m].status # "running" THEN job[m]
                       ELSE [job[m] EXCEPT !.status = IF job[m].attempts < MaxAttempts
                                                      THEN "ready" ELSE "failed"]
      BY <1>2 DEF Crash, LoseCalls
    <3>3. job[m] \in Jobs
      BY <3>1
    <3> QED BY <3>2, <3>3 DEF Jobs
  <2> QED BY <2>1, Leaves
<1>3. ASSUME NEW n \in Turns, Step(n)
      PROVE  Message(n)'
  <2>1. CASE Attempt(n)
    BY <2>1, OpenKept, EndingKept DEF Attempt
  <2>2. CASE Command(n)
    BY <2>2, CommandKept, EndingKept DEF Command
  <2>3. CASE Loop(n)
    BY <2>3, LoopKept, EndingKept DEF Loop
  <2>4. CASE Send(n)
    BY <2>4, SendKept
  <2> QED BY <1>3, <2>1, <2>2, <2>3, <2>4 DEF Step
<1>4. ASSUME NEW n \in Turns, Step(n)
      PROVE  \A m \in Turns : Message(m)'
  <2>1. ASSUME NEW m \in Turns \ {n} PROVE Message(m)'
    BY <1>0, <1>4, <2>1, OthersSame, SameKept
  <2> QED BY <1>3, <1>4, <2>1
<1> QED BY <1>1, <1>2, <1>4, Zenon DEF Next

-----------------------------------------------------------------------------
(* Types. *)

\* Calls of the model.
LEMMA BudgetTyped ==
  ASSUME BudgetTypeOK, [Next]_vars
  PROVE  BudgetTypeOK'
<1>1. CASE UNCHANGED budgetVars
  BY <1>1 DEF budgetVars, BudgetTypeOK
<1>2. ASSUME NEW m \in Turns, Reserve(m) PROVE BudgetTypeOK'
  BY <1>2 DEF Reserve, BudgetTypeOK
<1>3. ASSUME NEW m \in Turns, NEW used \in 0..MaxTokens, FinishCall(m, used) PROVE BudgetTypeOK'
  <2>1. used \in Nat
    BY BudgetAssumption
  <2> QED BY <1>3, <2>1 DEF FinishCall, BudgetTypeOK
<1>4. CASE NewDay
  BY <1>4 DEF NewDay, BudgetTypeOK
<1>5. CASE LoseCalls
  BY <1>5 DEF LoseCalls, BudgetTypeOK
<1>6. ASSUME NEW m \in Turns, Step(m)
      PROVE  \/ UNCHANGED budgetVars \/ Reserve(m)
             \/ \E used \in 0..MaxTokens : FinishCall(m, used)
  <2>0. 0 \in 0..MaxTokens
    BY BudgetAssumption
  <2>1. CASE ModelFails(m)
    BY <2>0, <2>1 DEF ModelFails
  <2>2. CASE ~ModelFails(m)
    BY <1>6, <2>2, Zenon DEF Step, Attempt, Open, Complete, HoldForSession, ConsumeAttempt, Command,
       Prepare, ConfirmFulfilment, ConfirmPayment, Cancel, KeyTaken, Ask, Loop, CallModel, BudgetRefuses,
       ModelAnswers, Report, SendLastText, LoopDone, Send, Refused, FoundSent, BeginSend, SendEnds,
       SendFails
  <2> QED BY <2>1, <2>2
<1>7. CASE UNCHANGED vars \/ \E d \in {"fulfilment", "payment"} : ActionExpires(d)
  <2>1. UNCHANGED budgetVars
    BY <1>7, Zenon DEF vars, ActionExpires
  <2> QED BY <1>1, <2>1
<1>8. Crash => LoseCalls
  BY DEF Crash
<1>9. Midnight => NewDay
  BY DEF Midnight
<1> QED BY <1>1, <1>2, <1>3, <1>4, <1>5, <1>6, <1>7, <1>8, <1>9, Zenon DEF Next, World

\* The turns as a whole, once each message is known to be in shape.
LEMMA TurnsTyped ==
  ASSUME turn \in [Turns -> TurnRecord], [Next]_vars, \A m \in Turns : Message(m)'
  PROVE  turn' \in [Turns -> TurnRecord]
<1>1. \A m \in Turns : turn'[m] \in TurnRecord
  BY DEF Message, Shaped
<1>2. CASE turn' = turn
  BY <1>2
<1>3. CASE Crash
  BY <1>1, <1>3 DEF Crash
<1>4. ASSUME NEW m \in Turns, NEW t, turn' = [turn EXCEPT ![m] = t]
      PROVE  turn' \in [Turns -> TurnRecord]
  <2>1. t \in TurnRecord
    BY <1>1, <1>4
  <2> QED BY <1>4, <2>1
<1>5. ASSUME NEW n \in Turns, Step(n)
      PROVE  \E t : turn' = [turn EXCEPT ![n] = t]
  <2>1. CASE Attempt(n) \/ BudgetRefuses(n) \/ ModelFails(n) \/ KeyTaken(n)
    BY <2>1, Zenon DEF Attempt, Open, Complete, HoldForSession, ConsumeAttempt, BudgetRefuses, ModelFails,
       KeyTaken, Throws, Defers, End, Go
  <2>2. CASE Prepare(n) \/ ConfirmFulfilment(n) \/ ConfirmPayment(n) \/ Cancel(n) \/ Ask(n)
    BY <2>2, Zenon DEF Prepare, ConfirmFulfilment, ConfirmPayment, Cancel, Ask, Decide, Says, Go
  <2>3. CASE CallModel(n) \/ ModelAnswers(n)
    BY <2>3 DEF CallModel, ModelAnswers, Go
  <2>4. CASE Report(n) \/ SendLastText(n) \/ LoopDone(n) \/ Send(n)
    BY <2>4, Zenon DEF Report, SendLastText, LoopDone, Send, Refused, FoundSent, BeginSend, SendEnds,
       SendFails, Says, Go
  <2> QED BY <1>5, <2>1, <2>2, <2>3, <2>4, Zenon DEF Step, Command, Loop
<1>6. World => turn' = turn
  BY Zenon DEF World, Midnight, ActionExpires
<1> QED BY <1>2, <1>3, <1>4, <1>5, <1>6 DEF Next, vars

\* The jobs.
LEMMA JobsTyped ==
  ASSUME Typed, \A m \in Turns : Message(m), [Next]_vars
  PROVE  /\ job' \in [Turns -> Jobs] /\ holds' \in [Turns -> 0..MaxHolds]
         /\ outcome' \in [Turns -> Outcomes]
<1>0. /\ job \in [Turns -> Jobs] /\ holds \in [Turns -> 0..MaxHolds] /\ outcome \in [Turns -> Outcomes]
      /\ MaxAttempts \in Nat /\ MaxHolds \in Nat
      /\ turn \in [Turns -> TurnRecord]
  BY OwnerAssumption DEF Typed
<1> DEFINE Goal == /\ job' \in [Turns -> Jobs] /\ holds' \in [Turns -> 0..MaxHolds]
                   /\ outcome' \in [Turns -> Outcomes]
<1>1. ASSUME NEW m \in Turns, Open(m) PROVE Goal
  <2>1. [status |-> "running", attempts |-> job[m].attempts + 1] \in Jobs
    BY <1>0, <1>1 DEF Open, Jobs
  <2> QED BY <1>0, <1>1, <2>1 DEF Open, Outcomes
<1>2. ASSUME NEW m \in Turns, NEW status \in {"absent", "ready", "running", "done", "failed"},
             NEW n \in 0..MaxAttempts, NEW how \in Outcomes, End(m, status, n, how)
      PROVE  job' \in [Turns -> Jobs] /\ outcome' \in [Turns -> Outcomes]
  BY <1>0, <1>2 DEF End, Jobs
<1>3. ASSUME NEW m \in Turns, job[m].status = "running"
      PROVE  job[m].attempts \in 0..MaxAttempts /\ job[m].attempts - 1 \in 0..MaxAttempts
  <2>1. job[m].attempts \in 0..MaxAttempts /\ job[m].attempts # 0
    BY <1>0, <1>3 DEF Message, Attempted, Jobs
  <2> DEFINE a == job[m].attempts
  <2>2. a \in 0..MaxAttempts /\ a # 0
    BY <2>1
  <2> HIDE DEF a
  <2>3. a - 1 \in 0..MaxAttempts
    BY <1>0, <2>2
  <2> QED BY <2>2, <2>3 DEF a
<1>4. ASSUME NEW m \in Turns,
             \/ Complete(m) \/ HoldForSession(m) \/ ConsumeAttempt(m) \/ BudgetRefuses(m)
             \/ ModelFails(m) \/ KeyTaken(m)
      PROVE  Goal
  <2>1. job[m].status = "running"
    <3>1. turn[m].at # "idle"
      BY <1>4, Zenon DEF Complete, HoldForSession, ConsumeAttempt, BudgetRefuses, ModelFails, KeyTaken,
         Commands, At
    <3> QED BY <3>1 DEF Message, Attempted
  <2>2. turn[m].hint \in Outcomes
    BY <1>0 DEF TurnRecord, Outcomes
  <2>3. CASE Complete(m)
    <3>1. End(m, "done", job[m].attempts, turn[m].hint) /\ holds' = [holds EXCEPT ![m] = 0]
      BY <2>3 DEF Complete
    <3> QED BY <1>0, <1>2, <1>3, <2>1, <2>2, <3>1
  <2>4. CASE HoldForSession(m) \/ BudgetRefuses(m)
    <3>1. End(m, "ready", job[m].attempts - 1, "deferred")
      BY <2>4 DEF HoldForSession, BudgetRefuses, Defers
    <3>2. holds' \in [Turns -> 0..MaxHolds]
      BY <1>0, <2>4 DEF HoldForSession, BudgetRefuses
    <3> QED BY <1>2, <1>3, <2>1, <3>1, <3>2 DEF Outcomes
  <2>5. CASE ConsumeAttempt(m) \/ ModelFails(m) \/ KeyTaken(m)
    <3>1. Throws(m) /\ holds' = holds
      BY <2>5 DEF ConsumeAttempt, ModelFails, KeyTaken
    <3>2. PICK status \in {"ready", "failed"} : End(m, status, job[m].attempts, "error")
      BY <3>1 DEF Throws
    <3> QED BY <1>0, <1>2, <1>3, <2>1, <3>1, <3>2 DEF Outcomes
  <2> QED BY <1>4, <2>3, <2>4, <2>5
<1>5. CASE Crash
  <2>1. \A m \in Turns : [job[m] EXCEPT !.status = IF job[m].attempts < MaxAttempts
                                                THEN "ready" ELSE "failed"] \in Jobs
    BY <1>0 DEF Jobs
  <2>2. job' \in [Turns -> Jobs]
    BY <1>0, <1>5, <2>1 DEF Crash
  <2>3. 0 \in 0..MaxHolds
    BY <1>0
  <2>4. holds' \in [Turns -> 0..MaxHolds] /\ outcome' = outcome
    BY <1>5, <2>3 DEF Crash
  <2> QED BY <1>0, <2>2, <2>4
<1>6. CASE UNCHANGED jobVars
  BY <1>0, <1>6 DEF jobVars
<1>7. ASSUME NEW m \in Turns, Step(m)
      PROVE  \/ UNCHANGED jobVars \/ Open(m)
             \/ Complete(m) \/ HoldForSession(m) \/ ConsumeAttempt(m) \/ BudgetRefuses(m)
             \/ ModelFails(m) \/ KeyTaken(m)
  BY <1>7, Zenon DEF Step, Attempt, Command, Prepare, ConfirmFulfilment, ConfirmPayment, Cancel, Ask, Loop,
     CallModel, ModelAnswers, Report, SendLastText, LoopDone, Send, Refused, FoundSent, BeginSend, SendEnds,
     SendFails
<1>8. CASE World \/ UNCHANGED vars
  <2>1. UNCHANGED jobVars
    BY <1>8, Zenon DEF World, Midnight, ActionExpires, vars
  <2> QED BY <1>6, <2>1
<1> QED BY <1>1, <1>4, <1>5, <1>6, <1>7, <1>8, Zenon DEF Next

\* The answers, and the count of restarts.
LEMMA AnswersTyped ==
  ASSUME Typed, [Next]_vars
  PROVE  answer' \in [Turns -> [status : Rows, text : Texts]] /\ crashes' \in Nat
<1>0. /\ answer \in [Turns -> [status : Rows, text : Texts]] /\ crashes \in Nat
      /\ turn \in [Turns -> TurnRecord]
  BY DEF Typed
<1>1. CASE UNCHANGED <<answer, crashes>>
  BY <1>0, <1>1
<1>2. ASSUME NEW m \in Turns, NEW row \in [status : Rows, text : Texts],
             answer' = [answer EXCEPT ![m] = row], crashes' = crashes
      PROVE  answer' \in [Turns -> [status : Rows, text : Texts]] /\ crashes' \in Nat
  BY <1>0, <1>2
<1>3. ASSUME NEW m \in Turns, BeginSend(m)
      PROVE  answer' \in [Turns -> [status : Rows, text : Texts]] /\ crashes' \in Nat
  <2>1. turn[m].text \in Texts
    BY <1>0 DEF TurnRecord
  <2>2. [status |-> "pending", text |-> turn[m].text] \in [status : Rows, text : Texts]
    BY <2>1 DEF Rows
  <2>3. answer' = [answer EXCEPT ![m] = [status |-> "pending", text |-> turn[m].text]] /\ crashes' = crashes
    BY <1>3 DEF BeginSend
  <2> QED BY <1>2, <2>2, <2>3
<1>4. ASSUME NEW m \in Turns, NEW status \in Rows, Row(m, status), crashes' = crashes
      PROVE  answer' \in [Turns -> [status : Rows, text : Texts]] /\ crashes' \in Nat
  <2>1. [answer[m] EXCEPT !.status = status] \in [status : Rows, text : Texts]
    BY <1>0
  <2>2. answer' = [answer EXCEPT ![m] = [answer[m] EXCEPT !.status = status]]
    BY <1>4 DEF Row
  <2> QED BY <1>2, <1>4, <2>1, <2>2
<1>5. ASSUME NEW m \in Turns, SendEnds(m) \/ SendFails(m)
      PROVE  answer' \in [Turns -> [status : Rows, text : Texts]] /\ crashes' \in Nat
  <2>1. (\E status \in Settled \cup {"rejected", "unavailable"} : Row(m, status)) /\ crashes' = crashes
    BY <1>5 DEF SendEnds, SendFails
  <2>2. Settled \cup {"rejected", "unavailable"} \subseteq Rows
    BY DEF Settled, Rows
  <2> QED BY <1>4, <2>1, <2>2
<1>6. CASE Crash
  <2>1. \A m \in Turns : (IF answer[m].status = "pending" THEN [answer[m] EXCEPT !.status = "uncertain"]
                          ELSE answer[m]) \in [status : Rows, text : Texts]
    <3>1. "uncertain" \in Rows
      BY DEF Rows
    <3> QED BY <1>0, <3>1
  <2>2. answer' \in [Turns -> [status : Rows, text : Texts]]
    BY <1>6, <2>1 DEF Crash
  <2>3. crashes' \in Nat
    BY <1>0, <1>6 DEF Crash
  <2> QED BY <2>2, <2>3
<1>7. ASSUME NEW m \in Turns, Step(m)
      PROVE  UNCHANGED <<answer, crashes>> \/ BeginSend(m) \/ SendEnds(m) \/ SendFails(m)
  BY <1>7, Zenon DEF Step, Attempt, Open, Complete, HoldForSession, ConsumeAttempt, Command, Prepare,
     ConfirmFulfilment, ConfirmPayment, Cancel, KeyTaken, Ask, Loop, CallModel, BudgetRefuses, ModelFails,
     ModelAnswers, Report, SendLastText, LoopDone, Send, Refused, FoundSent
<1>8. CASE World \/ UNCHANGED vars
  <2>1. UNCHANGED <<answer, crashes>>
    BY <1>8, Zenon DEF World, Midnight, ActionExpires, vars
  <2> QED BY <1>1, <2>1
<1> QED BY <1>1, <1>3, <1>5, <1>6, <1>7, <1>8, Zenon DEF Next

-----------------------------------------------------------------------------
(* The invariant holds. *)

\* At first only actions of earlier messages wait, one at a desk at most, and
\* no attempt is under way.
LEMMA FirstInv == Init => Inv
<1> SUFFICES ASSUME Init PROVE Inv
  OBVIOUS
<1>1. PICK h \in Histories :
        /\ job = [m \in Turns |->
                    IF m \in h.waiting THEN [status |-> "done", attempts |-> 1]
                    ELSE [status |-> IF m \in h.coming THEN "ready" ELSE "absent", attempts |-> 0]]
        /\ answer = [m \in Turns |->
                       IF m \in h.waiting THEN [status |-> "sent", text |-> "prepared"]
                       ELSE [status |-> "none", text |-> "none"]]
        /\ action = [m \in Turns |-> IF m \in h.waiting THEN "pending" ELSE "none"]
        /\ outcome = [m \in Turns |-> IF m \in h.waiting THEN "replied" ELSE "none"]
  BY Zenon DEF Init
<1>2. /\ turn = [m \in Turns |-> NoTurn] /\ decidedBy = [m \in Turns |-> None]
      /\ holds = [m \in Turns |-> 0] /\ crashes = 0
      /\ flight = [m \in Turns |-> "none"] /\ BudgetTypeOK
  BY DEF Init, BudgetInit, BudgetTypeOK
<1>3. /\ \A m \in h.waiting : Does[m] = "prepare"
      /\ \A a, b \in h.waiting : Desk[a] = Desk[b] => a = b
      /\ None \notin Turns
      /\ 0 \in 0..MaxHolds /\ {0, 1} \subseteq 0..MaxAttempts
  BY OwnerAssumption
<1>4. Shaped(NoTurn) /\ NoTurn \in TurnRecord
  BY NoTurnShaped DEF Shaped
<1>5. Typed
  <2>1. job \in [Turns -> Jobs]
    BY <1>1, <1>3 DEF Jobs
  <2>2. answer \in [Turns -> [status : Rows, text : Texts]]
    BY <1>1 DEF Rows, Texts
  <2>3. outcome \in [Turns -> Outcomes]
    BY <1>1 DEF Outcomes
  <2>4. holds \in [Turns -> 0..MaxHolds] /\ crashes \in Nat
    BY <1>2, <1>3
  <2>5. turn \in [Turns -> TurnRecord]
    BY <1>2, <1>4
  <2> QED BY <1>2, <2>1, <2>2, <2>3, <2>4, <2>5 DEF Typed
<1>6. DeskInv
  BY <1>1, <1>2, <1>3 DEF DeskInv, OneActionPerCommand
<1>7. ASSUME NEW m \in Turns PROVE Message(m)
  <2>1. turn[m] = NoTurn /\ flight[m] = "none" /\ job[m].status # "running"
    BY <1>1, <1>2
  <2>2. NoTurn.at = "idle" /\ NoTurn.plan = <<>>
    BY DEF NoTurn
  <2> QED BY <1>4, <2>1, <2>2 DEF Message, Attempted, Told
<1> QED BY <1>5, <1>6, <1>7 DEF Inv

\* Every step keeps it.
LEMMA StepKept == Inv /\ [Next]_vars => Inv'
<1> SUFFICES ASSUME Inv, [Next]_vars PROVE Inv'
  OBVIOUS
<1>1. Typed /\ DeskInv /\ BudgetTypeOK /\ turn \in [Turns -> TurnRecord] /\ \A m \in Turns : Message(m)
  BY DEF Inv, Typed
<1>2. \A m \in Turns : Message(m)'
  BY MessagesStep
<1>3. DeskInv'
  <2>1. CASE Crash \/ World \/ UNCHANGED vars
    BY <1>1, <2>1, OthersDesk
  <2>2. CASE \E m \in Turns : Step(m)
    BY <1>1, <2>2, StepDesk
  <2> QED BY <2>1, <2>2, Zenon DEF Next
<1>4. Typed'
  BY <1>1, <1>2, BudgetTyped, TurnsTyped, JobsTyped, AnswersTyped DEF Typed
<1> QED BY <1>2, <1>3, <1>4 DEF Inv

\* It holds in every reachable state.
LEMMA AlwaysInv == Spec => []Inv
BY FirstInv, StepKept, PTL DEF Spec

-----------------------------------------------------------------------------
(* The theorems. *)

\* Every variable keeps its type, a turn runs exactly while its job does, and
\* one action at most waits at a desk.
THEOREM TypesKept == Spec => []TypeOK
<1>1. Inv => TypeOK
  BY DEF Inv, Typed, DeskInv, TypeOK, Jobs, Outcomes, Message, Attempted
<1> QED BY <1>1, AlwaysInv, PTL

\* A message decides one action, however often its attempt is run again.
THEOREM OneDecision == Spec => []OneActionPerCommand
<1>1. Inv => OneActionPerCommand
  BY DEF Inv, DeskInv
<1> QED BY <1>1, AlwaysInv, PTL

\* A confirmation that moved an order is never answered later that nothing was
\* changed, however often its attempt is run again and whatever the crashes.
THEOREM ShippingStands == Spec => ShippingIsNotDenied
<1>1. Inv /\ [Next]_vars => [NotDenied("fulfilment")]_vars
  <2> SUFFICES ASSUME Inv, Next,
                      NEW m \in Turns, Desk[m] = "fulfilment", Applied(m), Begins(m)
               PROVE  answer'[m].text # "nothing"
    BY Zenon DEF NotDenied, vars
  <2>0. /\ answer \in [Turns -> [status : Rows, text : Texts]] /\ DeskInv /\ Message(m)
    BY DEF Inv, Typed
  <2>1. Does[m] = "confirm"
    BY <2>0 DEF Applied, DeskInv
  <2>2. answer'[m].status = "pending" /\ answer[m].status # "pending"
    BY DEF Begins
  <2>3. ~Crash
    <3>1. ASSUME Crash PROVE FALSE
      <4>1. answer'[m] = IF answer[m].status = "pending"
                         THEN [answer[m] EXCEPT !.status = "uncertain"] ELSE answer[m]
        BY <3>1 DEF Crash
      <4> QED BY <2>2, <4>1
    <3> QED BY <3>1
  <2>4. ~World
    BY <2>2, Zenon DEF World, Midnight, ActionExpires
  <2>5. PICK n \in Turns : Step(n)
    BY <2>3, <2>4, Zenon DEF Next
  <2>6. CASE BeginSend(n)
    <3>1. n = m
      BY <2>0, <2>2, <2>6 DEF BeginSend
    <3>2. answer'[m].text = turn[m].text /\ turn[m].at = "trying"
      BY <2>0, <2>6, <3>1 DEF BeginSend, At
    <3> QED BY <2>0, <2>1, <3>2 DEF Message, Told
  <2>7. CASE SendEnds(n) \/ SendFails(n)
    <3>1. PICK status \in {"sent", "uncertain", "rejected", "unavailable"} : Row(n, status)
      BY <2>7 DEF SendEnds, SendFails, Settled
    <3>2. answer'[m].status \in {answer[m].status, status}
      BY <2>0, <3>1 DEF Row
    <3> QED BY <2>2, <3>2
  <2>8. CASE UNCHANGED answer
    BY <2>2, <2>8
  <2> QED
    BY <2>5, <2>6, <2>7, <2>8, Zenon DEF Step, Attempt, Open, Complete, HoldForSession, ConsumeAttempt,
       Command, Prepare, ConfirmFulfilment, ConfirmPayment, Cancel, KeyTaken, Ask, Loop, CallModel,
       BudgetRefuses, ModelFails, ModelAnswers, Report, SendLastText, LoopDone, Send, Refused, FoundSent
<1> QED BY <1>1, AlwaysInv, PTL DEF Spec, ShippingIsNotDenied

-----------------------------------------------------------------------------
(* The desks implement TwoStepDesk. *)

MessagesAt(d) == {m \in Turns : Desk[m] = d}

\* Steps of TwoStepDesk, said of the mapping for the messages of a desk.
Prepares(S, m) ==
  /\ Actions(S)[m] = "none"
  /\ Actions(S)' = [a \in S |-> IF a = m THEN "waiting"
                     ELSE IF Actions(S)[a] = "waiting" THEN "gone" ELSE Actions(S)[a]]
  /\ Deciders(S)' = Deciders(S)
Decides(S, m, a) ==
  /\ Actions(S)[a] = "waiting"
  /\ \A b \in S : Deciders(S)[b] # m
  /\ \E how \in {"done", "gone"} : Actions(S)' = [Actions(S) EXCEPT ![a] = how]
  /\ Deciders(S)' = [Deciders(S) EXCEPT ![a] = m]
Drops(S, a) ==
  /\ Actions(S)[a] = "waiting"
  /\ Actions(S)' = [Actions(S) EXCEPT ![a] = "gone"]
  /\ Deciders(S)' = Deciders(S)
DeskMoves(S) ==
  \/ \E m \in S : Prepares(S, m) \/ Drops(S, m)
  \/ \E m, a \in S : Decides(S, m, a)
  \/ UNCHANGED <<Actions(S), Deciders(S)>>

\* What no step touches is not noticed.
LEMMA DeskUnnoted ==
  ASSUME NEW S, \A a \in S : action'[a] = action[a] /\ decidedBy'[a] = decidedBy[a]
  PROVE  DeskMoves(S)
<1>1. \A a \in S : ActionAtDesk(a)' = ActionAtDesk(a)
  BY DEF ActionAtDesk
<1> QED
  BY <1>1 DEF DeskMoves, Actions, Deciders

\* The action that waits ends, carried out or not, decided by somebody or not.
LEMMA ActionEnds ==
  ASSUME NEW S, NEW a \in S, action[a] = "pending", NEW how \in {"confirmed", "gone"},
         \A b \in S : action'[b] = IF b = a THEN how ELSE action[b],
         \/ how = "gone" /\ \A b \in S : decidedBy'[b] = decidedBy[b]
         \/ \E m \in S : /\ \A b \in S : decidedBy[b] # m
                         /\ \A b \in S : decidedBy'[b] = IF b = a THEN m ELSE decidedBy[b]
  PROVE  DeskMoves(S)
<1>1. ActionAtDesk(a) = "waiting" /\ \A b \in S \ {a} : ActionAtDesk(b)' = ActionAtDesk(b)
  BY DEF ActionAtDesk
<1>2. PICK end \in {"done", "gone"} : ActionAtDesk(a)' = end /\ (how = "gone" => end = "gone")
  BY DEF ActionAtDesk
<1>3. Actions(S)[a] = "waiting" /\ Actions(S)' = [Actions(S) EXCEPT ![a] = end]
  BY <1>1, <1>2 DEF Actions
<1>4. CASE how = "gone" /\ \A b \in S : decidedBy'[b] = decidedBy[b]
  <2>1. Deciders(S)' = Deciders(S)
    BY <1>4 DEF Deciders
  <2>2. Drops(S, a)
    BY <1>2, <1>3, <1>4, <2>1 DEF Drops
  <2> QED
    BY <2>2 DEF DeskMoves
<1>5. ASSUME NEW m \in S, \A b \in S : decidedBy[b] # m,
             \A b \in S : decidedBy'[b] = IF b = a THEN m ELSE decidedBy[b]
      PROVE  DeskMoves(S)
  <2>1. /\ Deciders(S)' = [Deciders(S) EXCEPT ![a] = m]
        /\ \A b \in S : Deciders(S)[b] # m
    BY <1>5 DEF Deciders
  <2>2. Decides(S, m, a)
    BY <1>3, <2>1 DEF Decides
  <2> QED
    BY <2>2 DEF DeskMoves
<1> QED
  BY <1>4, <1>5

\* A preparation, at its desk and at the other one.
LEMMA PrepareMoves ==
  ASSUME DeskInv, NEW m \in Turns, action[m] = "none", action' = Prepared(m),
         decidedBy' = decidedBy, NEW d
  PROVE  DeskMoves(MessagesAt(d))
<1> DEFINE S == MessagesAt(d)
<1>1. \A a \in Turns : action'[a] = IF a = m THEN "pending"
                                    ELSE IF Desk[a] = Desk[m] /\ action[a] = "pending" THEN "gone"
                                    ELSE action[a]
  BY DEF Prepared, Waiting
<1>2. CASE d # Desk[m]
  <2>1. \A a \in S : action'[a] = action[a] /\ decidedBy'[a] = decidedBy[a]
    BY <1>1, <1>2 DEF MessagesAt
  <2> QED
    BY <2>1, DeskUnnoted
<1>3. CASE d = Desk[m]
  <2>1. m \in S /\ \A a \in S : a \in Turns /\ Desk[a] = Desk[m]
    BY <1>3 DEF MessagesAt
  <2>2. ActionAtDesk(m) = "none" /\ ActionAtDesk(m)' = "waiting"
    BY <1>1 DEF ActionAtDesk
  <2>3. \A a \in S \ {m} :
          ActionAtDesk(a)' = IF ActionAtDesk(a) = "waiting" THEN "gone" ELSE ActionAtDesk(a)
    <3> SUFFICES ASSUME NEW a \in S \ {m}
                 PROVE  ActionAtDesk(a)' =
                          IF ActionAtDesk(a) = "waiting" THEN "gone" ELSE ActionAtDesk(a)
      OBVIOUS
    <3>1. /\ action'[a] = IF action[a] = "pending" THEN "gone" ELSE action[a]
          /\ action[a] \in {"none", "pending", "confirmed", "gone"}
      BY <1>1, <2>1 DEF DeskInv
    <3> QED
      BY <3>1 DEF ActionAtDesk
  <2> HIDE DEF S
  <2>4. /\ Actions(S)[m] = "none"
        /\ Actions(S)' = [a \in S |-> IF a = m THEN "waiting"
                            ELSE IF Actions(S)[a] = "waiting" THEN "gone" ELSE Actions(S)[a]]
    <3>1. Actions(S)[m] = "none"
      BY <2>1, <2>2 DEF Actions
    <3>2. \A a \in S : Actions(S)[a] = ActionAtDesk(a)
      BY DEF Actions
    <3>3. Actions(S)' = [a \in S |-> ActionAtDesk(a)']
      BY DEF Actions, S, MessagesAt
    <3> QED
      BY <2>2, <2>3, <3>1, <3>2, <3>3
  <2>5. Deciders(S)' = Deciders(S)
    BY DEF Deciders, S, MessagesAt
  <2>6. Prepares(S, m)
    BY <2>4, <2>5 DEF Prepares
  <2> QED
    BY <2>1, <2>6 DEF DeskMoves, S
<1> QED
  BY <1>2, <1>3

\* A confirmation that decides, at its desk and at the other one.
LEMMA DecideMoves ==
  ASSUME DeskInv, NEW m \in Turns, ~Decided(m), NEW a \in Waiting(Desk[m]),
         NEW how \in {"confirmed", "gone"},
         action' = [action EXCEPT ![a] = how], decidedBy' = [decidedBy EXCEPT ![a] = m], NEW d
  PROVE  DeskMoves(MessagesAt(d))
<1> DEFINE S == MessagesAt(d)
<1>1. a \in Turns /\ Desk[a] = Desk[m] /\ action[a] = "pending"
  BY DEF Waiting
<1>2. \A b \in Turns : /\ action'[b] = IF b = a THEN how ELSE action[b]
                       /\ decidedBy'[b] = IF b = a THEN m ELSE decidedBy[b]
  BY DEF DeskInv
<1>3. CASE d # Desk[m]
  <2>1. \A b \in S : action'[b] = action[b] /\ decidedBy'[b] = decidedBy[b]
    BY <1>1, <1>2, <1>3 DEF MessagesAt
  <2> QED
    BY <2>1, DeskUnnoted
<1>4. CASE d = Desk[m]
  <2>1. a \in S /\ m \in S /\ S \subseteq Turns /\ \A b \in S : decidedBy[b] # m
    BY <1>1, <1>4 DEF MessagesAt, Decided
  <2>2. /\ \A b \in S : action'[b] = IF b = a THEN how ELSE action[b]
        /\ \A b \in S : decidedBy'[b] = IF b = a THEN m ELSE decidedBy[b]
    BY <1>2, <2>1
  <2> HIDE DEF S
  <2>3. DeskMoves(S)
    BY <1>1, <2>1, <2>2, ActionEnds
  <2> QED
    BY <2>3 DEF S
<1> QED
  BY <1>3, <1>4

\* What waits at a desk is dropped, and who cancelled it is noted or not.
LEMMA DropMoves ==
  ASSUME DeskInv, NEW e, NEW m \in Turns,
         action' = [a \in Turns |-> IF a \in Waiting(e) THEN "gone" ELSE action[a]],
         \/ decidedBy' = decidedBy
         \/ /\ decidedBy' = [a \in Turns |-> IF a \in Waiting(e) THEN m ELSE decidedBy[a]]
            /\ Desk[m] = e /\ (Waiting(e) # {} => ~Decided(m)),
         NEW d
  PROVE  DeskMoves(MessagesAt(d))
<1> DEFINE S == MessagesAt(d)
<1>1. \A a, b \in Waiting(e) : a = b
  BY DEF DeskInv, Waiting
<1>2. CASE d # e \/ Waiting(e) = {}
  <2>1. \A a \in S : a \in Turns /\ a \notin Waiting(e)
    BY <1>2 DEF MessagesAt, Waiting
  <2>2. \A a \in S : action'[a] = action[a] /\ decidedBy'[a] = decidedBy[a]
    BY <2>1
  <2> QED
    BY <2>2, DeskUnnoted
<1>3. CASE d = e /\ Waiting(e) # {}
  <2>1. PICK a \in Waiting(e) : TRUE
    BY <1>3
  <2>2. /\ a \in S /\ action[a] = "pending" /\ S \subseteq Turns
        /\ \A b \in Turns : b \in Waiting(e) <=> b = a
    BY <1>1, <1>3, <2>1 DEF MessagesAt, Waiting
  <2>3. \A b \in S : action'[b] = IF b = a THEN "gone" ELSE action[b]
    BY <2>2
  <2>4. CASE decidedBy' = decidedBy
    <3> HIDE DEF S
    <3>1. DeskMoves(S)
      BY <2>2, <2>3, <2>4, ActionEnds
    <3> QED
      BY <3>1 DEF S
  <2>5. CASE /\ decidedBy' = [x \in Turns |-> IF x \in Waiting(e) THEN m ELSE decidedBy[x]]
             /\ Desk[m] = e /\ (Waiting(e) # {} => ~Decided(m))
    <3>1. m \in S /\ \A b \in S : decidedBy[b] # m
      BY <1>3, <2>2, <2>5 DEF MessagesAt, Decided
    <3>2. \A b \in S : decidedBy'[b] = IF b = a THEN m ELSE decidedBy[b]
      BY <2>2, <2>5
    <3> HIDE DEF S
    <3>3. DeskMoves(S)
      BY <2>2, <2>3, <3>1, <3>2, ActionEnds
    <3> QED
      BY <3>3 DEF S
  <2> QED
    BY <2>4, <2>5
<1> QED
  BY <1>2, <1>3

\* What a step of a message does to a desk.
LEMMA StepMoves ==
  ASSUME DeskInv, NEW m \in Turns, Step(m), NEW d
  PROVE  DeskMoves(MessagesAt(d))
<1>1. CASE UNCHANGED deskVars
  BY <1>1, DeskUnnoted DEF deskVars
<1>2. CASE Prepare(m)
  <2>1. CASE action[m] = "none" /\ action' = Prepared(m) /\ decidedBy' = decidedBy
    BY <2>1, PrepareMoves
  <2> QED
    BY <1>1, <1>2, <2>1, Zenon DEF Prepare, deskVars
<1>3. CASE ConfirmFulfilment(m) \/ ConfirmPayment(m)
  <2>1. CASE ~Decided(m) /\ Decide(m)
    <3>1. PICK a \in Waiting(Desk[m]), how \in {"confirmed", "gone"} :
            action' = [action EXCEPT ![a] = how] /\ decidedBy' = [decidedBy EXCEPT ![a] = m]
      BY <2>1 DEF Decide
    <3> QED
      BY <2>1, <3>1, DecideMoves
  <2> QED
    BY <1>1, <1>3, <2>1, Zenon DEF ConfirmFulfilment, ConfirmPayment
<1>4. CASE Cancel(m)
  <2>1. /\ action' = [a \in Turns |-> IF a \in Waiting(Desk[m]) THEN "gone" ELSE action[a]]
        /\ decidedBy' = [a \in Turns |-> IF a \in Waiting(Desk[m]) /\ Desk[m] = "fulfilment"
                                         THEN m ELSE decidedBy[a]]
        /\ Desk[m] = "fulfilment" /\ Waiting(Desk[m]) # {} => ~Decided(m)
    BY <1>4, Zenon DEF Cancel
  <2>2. CASE Desk[m] = "fulfilment"
    BY <2>1, <2>2, DropMoves
  <2>3. CASE Desk[m] # "fulfilment"
    <3>1. decidedBy' = decidedBy
      BY <2>1, <2>3 DEF DeskInv
    <3> QED
      BY <2>1, <3>1, DropMoves
  <2> QED
    BY <2>2, <2>3
<1>5. CASE Attempt(m) \/ Loop(m) \/ Send(m) \/ KeyTaken(m) \/ Ask(m)
  BY <1>1, <1>5, DesksLeft
<1> QED
  BY <1>2, <1>3, <1>4, <1>5, Zenon DEF Step, Command

\* Every step moves each desk as TwoStepDesk does, or leaves it.
LEMMA DesksMove ==
  ASSUME Inv, [Next]_vars, NEW d
  PROVE  DeskMoves(MessagesAt(d))
<1>0. DeskInv
  BY DEF Inv
<1>1. CASE Crash \/ Midnight \/ UNCHANGED vars
  <2>1. UNCHANGED deskVars
    BY <1>1, Zenon DEF Crash, Midnight, vars
  <2> QED
    BY <2>1, DeskUnnoted DEF deskVars
<1>2. CASE \E e \in {"fulfilment", "payment"} : ActionExpires(e)
  <2>1. PICK e : /\ Waiting(e) # {} /\ decidedBy' = decidedBy
                 /\ action' = [a \in Turns |-> IF a \in Waiting(e) THEN "gone" ELSE action[a]]
    BY <1>2, Zenon DEF ActionExpires
  <2>2. PICK m \in Turns : m \in Waiting(e)
    BY <2>1 DEF Waiting
  <2> QED
    BY <1>0, <2>1, <2>2, DropMoves
<1>3. CASE \E m \in Turns : Step(m)
  BY <1>0, <1>3, StepMoves
<1> QED
  BY <1>1, <1>2, <1>3, Zenon DEF Next, World

\* At first one prepared action waits at a desk, at most, and nothing is decided.
LEMMA DeskAtFirst ==
  ASSUME Init, NEW d
  PROVE  LET S == MessagesAt(d)
         IN /\ Actions(S) \in [S -> {"none", "waiting"}]
            /\ \A a, b \in S : Actions(S)[a] = "waiting" /\ Actions(S)[b] = "waiting" => a = b
            /\ Deciders(S) = [a \in S |-> None]
<1>1. PICK h \in Histories : action = [m \in Turns |-> IF m \in h.waiting THEN "pending" ELSE "none"]
  BY Zenon DEF Init
<1>2. \A a, b \in h.waiting : Desk[a] = Desk[b] => a = b
  BY OwnerAssumption
<1>3. \A a \in Turns : /\ ActionAtDesk(a) \in {"none", "waiting"}
                       /\ ActionAtDesk(a) = "waiting" => a \in h.waiting
                       /\ decidedBy[a] = None
  BY <1>1 DEF ActionAtDesk, Init
<1> QED
  BY <1>2, <1>3 DEF MessagesAt, Actions, Deciders

\* However often attempts are run again, a shipping action is decided once and by
\* one message, the last one prepared is the one that waits, and none comes back.
THEOREM RefinesShippingDesk == Spec => ImplementsShippingDesk
<1> DEFINE S == ShippingMessages
<1>1. S = MessagesAt("fulfilment")
  BY DEF ShippingMessages, MessagesAt
<1>2. Init => Shipping!Init
  <2> SUFFICES ASSUME Init PROVE Shipping!Init
    OBVIOUS
  <2>1. /\ Actions(S) \in [S -> {"none", "waiting"}]
        /\ \A a, b \in S : Actions(S)[a] = "waiting" /\ Actions(S)[b] = "waiting" => a = b
        /\ Deciders(S) = [a \in S |-> None]
    BY <1>1, DeskAtFirst
  <2> QED
    BY <2>1 DEF Shipping!Init, Shipping!Waits
<1>3. Inv /\ [Next]_vars => [Shipping!Next]_(Shipping!vars)
  <2> SUFFICES ASSUME Inv, [Next]_vars PROVE [Shipping!Next]_(Shipping!vars)
    OBVIOUS
  <2>1. DeskMoves(S)
    BY <1>1, DesksMove
  <2> QED
    BY <2>1 DEF DeskMoves, Prepares, Decides, Drops, Shipping!Next, Shipping!Prepare,
       Shipping!Decide, Shipping!Drop, Shipping!Waits, Shipping!vars
<1> QED
  BY <1>2, <1>3, AlwaysInv, PTL DEF Spec, ImplementsShippingDesk, Shipping!Spec

\* The same of payment actions, although a rerun confirmation or cancellation may
\* find another action waiting (handleOwnerPaymentCommand).
THEOREM RefinesPaymentDesk == Spec => ImplementsPaymentDesk
<1> DEFINE S == PaymentMessages
<1>1. S = MessagesAt("payment")
  BY DEF PaymentMessages, MessagesAt
<1>2. Init => Payment!Init
  <2> SUFFICES ASSUME Init PROVE Payment!Init
    OBVIOUS
  <2>1. /\ Actions(S) \in [S -> {"none", "waiting"}]
        /\ \A a, b \in S : Actions(S)[a] = "waiting" /\ Actions(S)[b] = "waiting" => a = b
        /\ Deciders(S) = [a \in S |-> None]
    BY <1>1, DeskAtFirst
  <2> QED
    BY <2>1 DEF Payment!Init, Payment!Waits
<1>3. Inv /\ [Next]_vars => [Payment!Next]_(Payment!vars)
  <2> SUFFICES ASSUME Inv, [Next]_vars PROVE [Payment!Next]_(Payment!vars)
    OBVIOUS
  <2>1. DeskMoves(S)
    BY <1>1, DesksMove
  <2> QED
    BY <2>1 DEF DeskMoves, Prepares, Decides, Drops, Payment!Next, Payment!Prepare,
       Payment!Decide, Payment!Drop, Payment!Waits, Payment!vars
<1> QED
  BY <1>2, <1>3, AlwaysInv, PTL DEF Spec, ImplementsPaymentDesk, Payment!Spec
=============================================================================
