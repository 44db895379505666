------------------------- MODULE CustomerTurnProofs -------------------------
(***************************************************************************)
(* Proofs about AiBudget and CustomerTurn for any messages arriving in any *)
(* order, any answers of the model, any limits.                            *)
(***************************************************************************)
EXTENDS CustomerTurn, FiniteSetTheorems, TLAPS

-----------------------------------------------------------------------------
(* Turn records. *)

\* Where a turn is says whether tool calls are left, which send is under way
\* and whether its outcome is known.
Shaped(t) ==
  /\ t \in TurnRecord
  /\ t.at \in {"ask", "asked"} => t.step # MaxToolSteps
  /\ t.at = "tools" => t.plan # <<>>
  /\ t.at \in {"idle", "ask", "asked", "after", "close", "closing", "finishing"} => t.plan = <<>>
  /\ t.at \in {"trying", "sending"} => t.slot \in Answers /\ (t.plan = <<>> <=> t.slot = "fallback")
  /\ t.at \in {"ask", "asked", "tools", "after"} => t.hint = "none"
  /\ t.at \in {"trying", "sending"} => t.hint = IF t.plan = <<>> THEN "no_reply" ELSE "none"
  /\ t.at \in {"trying", "sending"} /\ t.plan = <<>> => ~t.replied
  /\ t.at \in {"close", "closing", "finishing"} => t.hint # "none"

\* What the rest of a turn keeps of it.
Keeps(t, u) ==
  /\ u.replied = t.replied /\ u.delivered = t.delivered /\ u.unavailable = t.unavailable
  /\ u.error = t.error /\ u.hint = t.hint

\* A turn that goes on with its loop.
LoopStates == {"ask", "tools", "trying", "after"}

\* To the next call of the answer, or past the last one.
LEMMA ProceedShaped ==
  ASSUME NEW t \in TurnRecord, t.hint = "none"
  PROVE  Shaped(Proceed(t)) /\ Keeps(t, Proceed(t)) /\ Proceed(t).at \in LoopStates
<1> USE TurnAssumption
<1>1. CASE t.plan # <<>>
  <2> DEFINE tool == Head(t.plan)
  <2>1. tool \in AllTools
    BY <1>1 DEF TurnRecord
  <2>2. tool \in Replies => SlotOf(tool) \in Answers \ {"fallback"}
    BY DEF SlotOf, Replies, Slots, Answers
  <2>3. Answers \subseteq Slots
    BY DEF Answers
  <2> DEFINE at == IF tool \in Replies THEN "trying" ELSE "tools"
             slot == IF tool \in Replies THEN SlotOf(tool) ELSE None
             called == t.called \cup {tool}
             u == [t EXCEPT !.at = at, !.slot = slot, !.called = called]
  <2>4. Proceed(t) = u
    BY <1>1 DEF Proceed
  <2>5. /\ at \in {"trying", "tools"} /\ slot \in Slots \cup {None}
        /\ called \in SUBSET (AllTools \cup {"summary"})
        /\ at = "trying" => slot \in Answers \ {"fallback"}
    BY <2>1, <2>2, <2>3 DEF TurnRecord
  <2> HIDE DEF at, slot, called, tool
  <2>6. u \in TurnRecord
    BY <2>5 DEF TurnRecord
  <2>7. u.at = at /\ u.slot = slot /\ u.plan = t.plan /\ Keeps(t, u)
    BY DEF TurnRecord, Keeps
  <2> HIDE DEF u
  <2> QED BY <1>1, <2>4, <2>5, <2>6, <2>7 DEF Shaped, LoopStates, Keeps
<1>2. CASE t.plan = <<>>
  <2> DEFINE at == IF t.stop \/ t.here \/ t.failed >= MaxFailedSends \/ t.step = MaxToolSteps
                   THEN "after" ELSE "ask"
             u == [t EXCEPT !.slot = None, !.at = at]
  <2>1. Proceed(t) = u
    BY <1>2 DEF Proceed
  <2>2. at \in {"after", "ask"} /\ (at = "ask" => t.step # MaxToolSteps)
    OBVIOUS
  <2> HIDE DEF at
  <2>3. u \in TurnRecord
    BY <2>2 DEF TurnRecord
  <2>4. u.at = at /\ u.plan = <<>> /\ u.step = t.step /\ Keeps(t, u)
    BY <1>2 DEF TurnRecord, Keeps
  <2> HIDE DEF u
  <2> QED BY <2>1, <2>2, <2>3, <2>4 DEF Shaped, LoopStates, Keeps
<1> QED BY <1>1, <1>2

\* The first call of the plan is done.
LEMMA ReturnedShaped ==
  ASSUME NEW t \in TurnRecord, t.hint = "none", t.plan # <<>>
  PROVE  Shaped(Returned(t)) /\ Keeps(t, Returned(t)) /\ Returned(t).at \in LoopStates
<1> DEFINE rest == Tail(t.plan)
           u == [t EXCEPT !.plan = rest]
<1>1. rest \in Seq(AllTools)
  BY DEF TurnRecord
<1> HIDE DEF rest
<1>2. u \in TurnRecord /\ Keeps(t, u)
  BY <1>1 DEF TurnRecord, Keeps
<1>3. u.hint = "none"
  BY <1>2 DEF Keeps
<1>4. Returned(t) = Proceed(u)
  BY DEF Returned, rest
<1> HIDE DEF u
<1> QED BY <1>2, <1>3, <1>4, ProceedShaped DEF Keeps

\* The model's answer.
LEMMA AnswerShaped ==
  ASSUME NEW t, Shaped(t), t.at = "asked", NEW plan \in Seq(AllTools)
  PROVE  LET u == [t EXCEPT !.step = @ + 1, !.plan = plan]
             v == IF plan = <<>> THEN [u EXCEPT !.at = "after"] ELSE Proceed(u)
         IN  Shaped(v) /\ Keeps(t, v) /\ v.at \in LoopStates
<1> DEFINE n == t.step + 1
           u == [t EXCEPT !.step = n, !.plan = plan]
           w == [u EXCEPT !.at = "after"]
<1>1. n \in 0 .. MaxToolSteps
  BY TurnAssumption DEF Shaped, TurnRecord
<1> HIDE DEF n
<1>2. u \in TurnRecord /\ Keeps(t, u) /\ u.plan = plan
  BY <1>1 DEF Shaped, TurnRecord, Keeps
<1>3. u.hint = "none" /\ t.hint = "none"
  BY <1>2 DEF Keeps, Shaped
<1>4. [t EXCEPT !.step = @ + 1, !.plan = plan] = u
  BY DEF n
<1> HIDE DEF u
<1>5. CASE plan = <<>>
  <2>1. w \in TurnRecord /\ Keeps(u, w) /\ w.at = "after" /\ w.plan = <<>>
    BY <1>2, <1>5 DEF TurnRecord, Keeps
  <2> HIDE DEF w
  <2>2. Shaped(w) /\ Keeps(t, w)
    BY <1>2, <1>3, <2>1 DEF Shaped, Keeps
  <2> QED BY <1>4, <1>5, <2>1, <2>2 DEF LoopStates, w
<1>6. CASE plan # <<>>
  BY <1>2, <1>3, <1>4, <1>6, ProceedShaped DEF Keeps
<1> QED BY <1>5, <1>6

\* A tool is no fallback.
LEMMA ToolsOnly == ASSUME NEW t \in TurnRecord, t.plan # <<>>
                   PROVE  Sending(t) # "fallback" /\ Sending(t) = Head(t.plan)
<1>1. Head(t.plan) \in AllTools
  BY DEF TurnRecord
<1> QED BY <1>1 DEF Sending, AllTools, Replies, Sensitive

\* A send that counts as an answer.
LEMMA SentShaped ==
  ASSUME NEW t, Shaped(t), t.at \in {"trying", "sending"}
  PROVE  /\ Shaped(Sent(t))
         /\ Sent(t).delivered = t.delivered /\ Sent(t).unavailable = t.unavailable
         /\ Sent(t).error = t.error
         /\ IF t.plan = <<>>
            THEN Sent(t).at = "close" /\ Sent(t).hint = "fallback" /\ ~Sent(t).replied
            ELSE Sent(t).at \in LoopStates /\ Sent(t).hint = "none" /\ Sent(t).replied = TRUE
<1>0. t \in TurnRecord
  BY DEF Shaped
<1>1. CASE t.plan = <<>>
  <2> DEFINE u == [t EXCEPT !.at = "close", !.slot = None, !.hint = "fallback"]
  <2>1. Sent(t) = u
    BY <1>1 DEF Sent, Sending
  <2>2. u \in TurnRecord
    BY <1>0 DEF TurnRecord
  <2>3. /\ u.at = "close" /\ u.hint = "fallback" /\ u.plan = <<>> /\ u.replied = t.replied
        /\ u.delivered = t.delivered /\ u.unavailable = t.unavailable /\ u.error = t.error
    BY <1>0, <1>1 DEF TurnRecord
  <2>4. ~t.replied
    BY <1>1 DEF Shaped
  <2> HIDE DEF u
  <2> QED BY <1>1, <2>1, <2>2, <2>3, <2>4 DEF Shaped
<1>2. CASE t.plan # <<>>
  <2>1. Sending(t) # "fallback" /\ t.hint = "none"
    BY <1>0, <1>2, ToolsOnly DEF Shaped
  <2> DEFINE ends == t.stop \/ Sending(t) \in {"show", "pictures"}
             u == [t EXCEPT !.replied = TRUE]
             v == [t EXCEPT !.replied = TRUE, !.here = TRUE, !.stop = ends]
  <2>2. Sent(t) = Returned(u) \/ Sent(t) = Returned(v)
    BY <2>1 DEF Sent
  <2>3. ends \in BOOLEAN
    BY Zenon
  <2> HIDE DEF ends
  <2>4. u \in TurnRecord /\ v \in TurnRecord
    BY <1>0, <2>3 DEF TurnRecord
  <2>5. /\ u.replied = TRUE /\ u.plan = t.plan /\ u.hint = t.hint
        /\ u.delivered = t.delivered /\ u.unavailable = t.unavailable /\ u.error = t.error
        /\ v.replied = TRUE /\ v.plan = t.plan /\ v.hint = t.hint
        /\ v.delivered = t.delivered /\ v.unavailable = t.unavailable /\ v.error = t.error
    BY <1>0 DEF TurnRecord
  <2> HIDE DEF u, v
  <2> QED BY <1>2, <2>1, <2>2, <2>4, <2>5, ReturnedShaped DEF Keeps
<1> QED BY <1>1, <1>2

\* A send that failed or was refused.
LEMMA UnsentShaped ==
  ASSUME NEW t \in TurnRecord, NEW why \in {"other", "pacing", "optedout"},
         IF t.plan = <<>> THEN t.hint = "no_reply" ELSE t.hint = "none"
  PROVE  /\ Shaped(Unsent(t, why))
         /\ Unsent(t, why).delivered = t.delivered /\ Unsent(t, why).unavailable = t.unavailable
         /\ Unsent(t, why).replied = t.replied /\ Unsent(t, why).hint = t.hint
         /\ IF t.plan = <<>>
            THEN Unsent(t, why).at = "close" /\ Unsent(t, why).error = t.error
            ELSE Unsent(t, why).at \in LoopStates /\ Unsent(t, why).error = why
<1>1. CASE t.plan = <<>>
  <2> DEFINE u == [t EXCEPT !.at = "close", !.slot = None]
  <2>1. Unsent(t, why) = u
    BY <1>1 DEF Unsent, Sending
  <2>2. u \in TurnRecord
    BY DEF TurnRecord
  <2>3. /\ u.at = "close" /\ u.hint = t.hint /\ u.plan = <<>> /\ u.replied = t.replied
        /\ u.delivered = t.delivered /\ u.unavailable = t.unavailable /\ u.error = t.error
    BY <1>1 DEF TurnRecord
  <2> HIDE DEF u
  <2> QED BY <1>1, <2>1, <2>2, <2>3 DEF Shaped
<1>2. CASE t.plan # <<>>
  <2>1. Sending(t) # "fallback"
    BY <1>2, ToolsOnly
  <2> DEFINE n == t.failed + 1
             u == [t EXCEPT !.error = why]
             v == [t EXCEPT !.failed = n, !.error = why]
  <2>2. Unsent(t, why) = Returned(u) \/ Unsent(t, why) = Returned(v)
    BY <2>1 DEF Unsent
  <2>3. n \in Nat
    BY DEF TurnRecord
  <2> HIDE DEF n
  <2>4. u \in TurnRecord /\ v \in TurnRecord
    BY <2>3 DEF TurnRecord
  <2>5. /\ u.replied = t.replied /\ u.plan = t.plan /\ u.hint = t.hint
        /\ u.delivered = t.delivered /\ u.unavailable = t.unavailable /\ u.error = why
        /\ v.replied = t.replied /\ v.plan = t.plan /\ v.hint = t.hint
        /\ v.delivered = t.delivered /\ v.unavailable = t.unavailable /\ v.error = why
    BY DEF TurnRecord
  <2> HIDE DEF u, v
  <2> QED BY <1>2, <2>2, <2>4, <2>5, ReturnedShaped DEF Keeps
<1> QED BY <1>1, <1>2

\* That a send got through is put on record first.
LEMMA DeliveredNoted ==
  ASSUME NEW t, Shaped(t), NEW b \in BOOLEAN, NEW u, u = [t EXCEPT !.delivered = b]
  PROVE  /\ Shaped(u) /\ u.at = t.at /\ u.plan = t.plan /\ u.replied = t.replied /\ u.hint = t.hint
         /\ u.delivered = b /\ u.unavailable = t.unavailable /\ u.error = t.error
<1>1. t \in TurnRecord
  BY DEF Shaped
<1>2. u \in TurnRecord
  BY <1>1 DEF TurnRecord
<1>3. /\ u.at = t.at /\ u.plan = t.plan /\ u.replied = t.replied /\ u.hint = t.hint
      /\ u.delivered = b /\ u.unavailable = t.unavailable /\ u.error = t.error
      /\ u.step = t.step /\ u.slot = t.slot
  BY <1>1 DEF TurnRecord
<1>4. Shaped(u)
  BY <1>2, <1>3, Zenon DEF Shaped
<1> QED BY <1>3, <1>4

\* So is that the channel was not available.
LEMMA DownNoted ==
  ASSUME NEW t, Shaped(t), NEW b \in BOOLEAN, NEW u, u = [t EXCEPT !.unavailable = b]
  PROVE  /\ Shaped(u) /\ u.at = t.at /\ u.plan = t.plan /\ u.replied = t.replied /\ u.hint = t.hint
         /\ u.unavailable = b /\ u.delivered = t.delivered /\ u.error = t.error
<1>1. t \in TurnRecord
  BY DEF Shaped
<1>2. u \in TurnRecord
  BY <1>1 DEF TurnRecord
<1>3. /\ u.at = t.at /\ u.plan = t.plan /\ u.replied = t.replied /\ u.hint = t.hint
      /\ u.unavailable = b /\ u.delivered = t.delivered /\ u.error = t.error
      /\ u.step = t.step /\ u.slot = t.slot
  BY <1>1 DEF TurnRecord
<1>4. Shaped(u)
  BY <1>2, <1>3, Zenon DEF Shaped
<1> QED BY <1>3, <1>4

\* No attempt is under way.
LEMMA NoTurnShaped == Shaped(NoTurn)
<1>1. NoTurn \in TurnRecord
  BY TurnAssumption DEF NoTurn, TurnRecord
<1> QED BY <1>1 DEF NoTurn, Shaped

-----------------------------------------------------------------------------
(* The inductive invariant. *)

\* A turn runs while its job does; a reserved call has a turn that waits for it.
Attempted(m) ==
  /\ turn[m].at = "idle" <=> job[m].status # "running"
  /\ flight[m] # "none" => turn[m].at \in {"asked", "closing"}
  /\ job[m].status = "running" => job[m].attempts # 0

\* Whoever was silenced by STOP had opted out while his message was handled.
Stops(m) ==
  job[m].status = "running" /\ (optedOut \/ turn[m].error = "optedout") => m \in stopped

\* An answer the turn counts is in the ledger: sent, or nobody knows; or the
\* gateway refused the first wording; or the channel failed in between.
Replying(m) ==
  /\ At(m, "sending") => ledger[m][turn[m].slot] = "pending"
  /\ turn[m].replied =>
       \/ HasSent(m, Answers \ {"fallback"}) \/ ledger[m]["reply"] = "rejected"
       \/ At(m, "sending") /\ turn[m].slot = "reply"
       \/ turn[m].unavailable
  /\ turn[m].delivered => HasSent(m, Answers \ {"fallback"}) \/ turn[m].hint = "fallback"

\* What the trace will say holds when CLOSE begins.
Hinted(m) ==
  turn[m].at \in {"close", "closing", "finishing"} =>
    /\ turn[m].hint = "replied" => turn[m].replied
    /\ turn[m].hint = "fallback" => ledger[m]["fallback"] \in Settled \cup {"rejected"}
    /\ turn[m].hint = "no_reply" => "reply_failure" \in noted[m]
    /\ turn[m].hint = "silenced" => m \in stopped

\* And it holds of every completed message.
Finished(m) ==
  job[m].status = "done" =>
    /\ outcome[m] \in {"replied", "fallback", "no_reply", "silenced"}
    /\ outcome[m] = "replied" =>
         HasSent(m, Answers \ {"fallback"}) \/ ledger[m]["reply"] = "rejected"
    /\ outcome[m] = "fallback" => ledger[m]["fallback"] \in Settled \cup {"rejected"}
    /\ outcome[m] = "no_reply" => "reply_failure" \in noted[m]
    /\ outcome[m] = "silenced" => m \in stopped

Message(m) ==
  /\ Shaped(turn[m]) /\ Attempted(m) /\ Stops(m) /\ Replying(m) /\ Hinted(m) /\ Finished(m)

Typed ==
  /\ BudgetTypeOK
  /\ job \in [Turns -> [status : {"absent", "ready", "running", "done", "failed"},
                        attempts : 0..MaxAttempts]]
  /\ holds \in [Turns -> 0..MaxHolds]
  /\ turn \in [Turns -> TurnRecord]
  /\ ledger \in [Turns -> [Slots -> Rows]]
  /\ noted \in [Turns -> SUBSET Handoffs]
  /\ optedOut \in BOOLEAN
  /\ remembered \in BOOLEAN
  /\ uncovered \subseteq Turns
  /\ outcome \in [Turns -> Outcomes]
  /\ stopped \subseteq Turns
  /\ crashes \in Nat

\* A draft is booked by one message, and one draft at most is open.
OrderInv ==
  /\ drafts \in [Turns -> {"none", "open", "gone", "booked"}]
  /\ bookedBy \in [Turns -> Turns \cup {None}]
  /\ \A d \in Turns : drafts[d] = "booked" <=> bookedBy[d] # None
  /\ \A d, e \in Turns : drafts[d] = "open" /\ drafts[e] = "open" => d = e

\* The calls in flight can still take the day over its limit, each once.
BudgetInv ==
  /\ calls <= CallLimit
  /\ tokens + Cardinality({m \in Turns : flight[m] = "today"}) * MaxTokens
       < TokenLimit + Cardinality(Turns) * MaxTokens

Inv == Typed /\ OrderInv /\ BudgetInv /\ \A m \in Turns : Message(m)

-----------------------------------------------------------------------------
(* Steps, as a message sees them. *)

\* Nothing of the message changes.
Same(m) ==
  /\ turn'[m] = turn[m] /\ job'[m] = job[m] /\ outcome'[m] = outcome[m]
  /\ ledger'[m] = ledger[m] /\ noted'[m] = noted[m]
  /\ flight[m] = "none" => flight'[m] = "none"
  /\ m \in stopped => m \in stopped'
  /\ job[m].status = "running" /\ optedOut' => optedOut \/ m \in stopped'

\* A message whose part of the state stays keeps its invariant.
LEMMA SameKept ==
  ASSUME NEW m \in Turns, Message(m), Same(m)
  PROVE  Message(m)'
<1>1. Shaped(turn[m])'
  BY DEF Message, Same
<1>2. Attempted(m)' /\ Stops(m)'
  BY DEF Message, Same, Attempted, Stops
<1>3. HasSent(m, Answers \ {"fallback"})' = HasSent(m, Answers \ {"fallback"})
  BY DEF Same, HasSent, Has
<1>4. Replying(m)'
  BY <1>3 DEF Message, Same, Replying, At
<1>5. Hinted(m)' /\ Finished(m)'
  BY <1>3 DEF Message, Same, Hinted, Finished
<1> QED BY <1>1, <1>2, <1>4, <1>5 DEF Message

\* The turn moves on and sends nothing.
LEMMA Moves ==
  ASSUME NEW m \in Turns, Message(m), job[m].status = "running", NEW u, turn'[m] = u,
         Shaped(u), u.at \notin {"idle", "sending"}, turn[m].at # "sending",
         job'[m] = job[m], ledger'[m] = ledger[m], flight'[m] # "none" => u.at \in {"asked", "closing"},
         m \in stopped => m \in stopped', optedOut' = optedOut,
         u.error = "optedout" => turn[m].error = "optedout" \/ optedOut,
         u.replied = turn[m].replied, u.delivered = turn[m].delivered,
         u.unavailable = turn[m].unavailable, turn[m].hint = "fallback" => u.hint = "fallback",
         Hinted(m)'
  PROVE  Message(m)'
<1>1. Attempted(m)' /\ Stops(m)'
  BY DEF Message, Attempted, Stops
<1>2. HasSent(m, Answers \ {"fallback"})' = HasSent(m, Answers \ {"fallback"})
  BY DEF HasSent, Has
<1>3. Replying(m)'
  BY <1>2 DEF Message, Replying, At
<1>4. Finished(m)'
  BY DEF Finished
<1> QED BY <1>1, <1>3, <1>4 DEF Message

\* The attempt ends.
LEMMA Leaves ==
  ASSUME NEW m \in Turns, turn'[m] = NoTurn, job'[m].status # "running", flight'[m] = "none",
         Finished(m)'
  PROVE  Message(m)'
<1>1. Shaped(turn[m])'
  BY NoTurnShaped
<1>2. Attempted(m)' /\ Stops(m)' /\ Replying(m)' /\ Hinted(m)'
  BY DEF NoTurn, Attempted, Stops, Replying, Hinted, At
<1> QED BY <1>1, <1>2 DEF Message

\* The attempt ends: completed, given back, or after an error.
LEMMA EndingKept ==
  ASSUME Inv, NEW m \in Turns,
         Complete(m) \/ HoldForSession(m) \/ ConsumeAttempt(m) \/ BudgetRefuses(m) \/ ModelFails(m)
  PROVE  Message(m)'
<1>0. /\ Message(m) /\ job \in [Turns -> [status : {"absent", "ready", "running", "done", "failed"},
                                           attempts : 0..MaxAttempts]]
      /\ turn \in [Turns -> TurnRecord] /\ outcome \in [Turns -> Outcomes]
      /\ flight \in [Turns -> {"none", "today", "earlier"}]
  BY DEF Inv, Typed, BudgetTypeOK
<1>1. CASE Complete(m)
  <2>1. /\ turn[m].at = "finishing" /\ ~(turn[m].unavailable /\ ~turn[m].delivered)
        /\ turn'[m] = NoTurn /\ job'[m].status = "done" /\ outcome'[m] = turn[m].hint
        /\ UNCHANGED <<flight, ledger, noted, stopped>>
    BY <1>0, <1>1 DEF Complete, At, Undelivered, End, Go, budgetVars, consentVars
  <2>2. flight'[m] = "none"
    BY <1>0, <2>1 DEF Message, Attempted
  <2>3. turn[m].hint \in {"replied", "fallback", "no_reply", "silenced"}
    BY <1>0, <2>1 DEF Message, Shaped, TurnRecord
  <2>4. /\ turn[m].hint = "replied" => turn[m].replied
        /\ turn[m].hint = "fallback" => ledger[m]["fallback"] \in Settled \cup {"rejected"}
        /\ turn[m].hint = "no_reply" => "reply_failure" \in noted[m]
        /\ turn[m].hint = "silenced" => m \in stopped
    BY <1>0, <2>1 DEF Message, Hinted
  <2>5. turn[m].hint = "replied" =>
          HasSent(m, Answers \ {"fallback"}) \/ ledger[m]["reply"] = "rejected"
    BY <1>0, <2>1, <2>4 DEF Message, Replying, At
  <2>6. HasSent(m, Answers \ {"fallback"})' = HasSent(m, Answers \ {"fallback"})
    BY <2>1 DEF HasSent, Has
  <2>7. Finished(m)'
    BY <2>1, <2>3, <2>4, <2>5, <2>6 DEF Finished
  <2> QED BY <2>1, <2>2, <2>7, Leaves
<1>2. CASE HoldForSession(m) \/ ConsumeAttempt(m) \/ BudgetRefuses(m) \/ ModelFails(m)
  <2>1. turn'[m] = NoTurn /\ job'[m].status \notin {"running", "done"}
    BY <1>0, <1>2 DEF HoldForSession, ConsumeAttempt, BudgetRefuses, ModelFails, Defers, Throws, End, Go
  <2>2. flight'[m] = "none"
    <3>1. CASE ModelFails(m)
      BY <1>0, <3>1 DEF ModelFails, FinishCall
    <3>2. CASE HoldForSession(m) \/ ConsumeAttempt(m) \/ BudgetRefuses(m)
      <4>1. flight' = flight /\ turn[m].at \in {"finishing", "ask", "close"}
        BY <3>2, Zenon DEF HoldForSession, ConsumeAttempt, BudgetRefuses, CallsModel, At, budgetVars
      <4> QED BY <1>0, <4>1 DEF Message, Attempted
    <3> QED BY <1>2, <3>1, <3>2
  <2> QED BY <2>1, <2>2, Leaves DEF Finished
<1> QED BY <1>1, <1>2

\* The attempt begins.
LEMMA OpenKept ==
  ASSUME Inv, NEW m \in Turns, Open(m)
  PROVE  Message(m)'
<1>0. /\ Message(m) /\ job \in [Turns -> [status : {"absent", "ready", "running", "done", "failed"},
                                           attempts : 0..MaxAttempts]]
      /\ turn \in [Turns -> TurnRecord] /\ remembered \in BOOLEAN /\ stopped \subseteq Turns
      /\ flight \in [Turns -> {"none", "today", "earlier"}]
  BY DEF Inv, Typed, BudgetTypeOK
<1> DEFINE u == [NoTurn EXCEPT !.at = "ask", !.known = remembered]
<1>1. u \in TurnRecord
  <2>1. NoTurn \in TurnRecord
    BY NoTurnShaped DEF Shaped
  <2> QED BY <1>0, <2>1 DEF TurnRecord
<1>2. /\ u.at = "ask" /\ u.step = 0 /\ u.plan = <<>> /\ u.hint = "none" /\ u.error = "none"
      /\ u.replied = FALSE /\ u.delivered = FALSE
  BY DEF NoTurn
<1>3. /\ turn'[m] = u /\ job'[m].status = "running" /\ job'[m].attempts = job[m].attempts + 1
      /\ job[m].status = "ready" /\ flight' = flight /\ (optedOut' => m \in stopped')
  BY <1>0 DEF Open, Go, budgetVars
<1> HIDE DEF u
<1>4. Shaped(u)
  BY <1>1, <1>2, TurnAssumption DEF Shaped
<1>5. Attempted(m)'
  <2>1. job[m].attempts + 1 # 0
    BY <1>0
  <2> QED BY <1>0, <1>2, <1>3, <2>1 DEF Message, Attempted
<1>6. Stops(m)' /\ Replying(m)' /\ Hinted(m)' /\ Finished(m)'
  BY <1>2, <1>3 DEF Stops, Replying, Hinted, Finished, At
<1> QED BY <1>3, <1>4, <1>5, <1>6 DEF Message

\* The model is asked, and answers.
LEMMA ModelKept ==
  ASSUME Inv, NEW m \in Turns, CallModel(m) \/ ModelAnswers(m)
  PROVE  Message(m)' /\ turn' \in [Turns -> TurnRecord]
<1>0. /\ Message(m) /\ turn \in [Turns -> TurnRecord]
      /\ flight \in [Turns -> {"none", "today", "earlier"}]
  BY DEF Inv, Typed, BudgetTypeOK
<1>1. CASE CallModel(m)
  <2> DEFINE at == IF turn[m].at = "ask" THEN "asked" ELSE "closing"
             u == [turn[m] EXCEPT !.at = at]
  <2>1. /\ turn' = [turn EXCEPT ![m] = u] /\ turn[m].at \in {"ask", "close"}
        /\ UNCHANGED <<job, outcome, ledger, noted, optedOut, stopped>>
    BY <1>1 DEF CallModel, CallsModel, At, Go, jobVars, consentVars
  <2>3. /\ at \in {"asked", "closing"}
        /\ turn[m].at = "ask" => at = "asked"
        /\ turn[m].at = "close" => at = "closing"
    OBVIOUS
  <2> HIDE DEF at
  <2>7. turn[m] \in TurnRecord
    BY <1>0
  <2>2. /\ u \in TurnRecord /\ u.at = at /\ u.plan = turn[m].plan /\ u.step = turn[m].step
        /\ Keeps(turn[m], u)
    BY <2>3, <2>7 DEF TurnRecord, Keeps
  <2> HIDE DEF u
  <2>4. Shaped(u)
    BY <1>0, <2>1, <2>2, <2>3 DEF Message, Shaped, Keeps
  <2>5. Hinted(m)'
    BY <1>0, <2>1, <2>2, <2>3 DEF Message, Hinted, Keeps
  <2>6. job[m].status = "running"
    BY <1>0, <2>1 DEF Message, Attempted
  <2> QED BY <1>0, <2>1, <2>2, <2>3, <2>4, <2>5, <2>6, Moves DEF Keeps
<1>2. CASE ModelAnswers(m)
  <2>1. PICK plan \in Responses[m] :
          turn' = [turn EXCEPT ![m] =
                     LET t == [turn[m] EXCEPT !.step = @ + 1, !.plan = plan]
                     IN IF plan = <<>> THEN [t EXCEPT !.at = "after"] ELSE Proceed(t)]
    BY <1>2 DEF ModelAnswers, Go
  <2> DEFINE u == LET t == [turn[m] EXCEPT !.step = @ + 1, !.plan = plan]
                  IN IF plan = <<>> THEN [t EXCEPT !.at = "after"] ELSE Proceed(t)
  <2>2. /\ turn[m].at = "asked" /\ flight'[m] = "none"
        /\ UNCHANGED <<job, outcome, ledger, noted, optedOut, stopped>>
    BY <1>0, <1>2 DEF ModelAnswers, At, FinishCall, jobVars, consentVars
  <2>3. plan \in Seq(AllTools)
    BY <2>1, TurnAssumption
  <2>4. Shaped(u) /\ Keeps(turn[m], u) /\ u.at \in LoopStates
    BY <1>0, <2>2, <2>3, AnswerShaped DEF Message
  <2>5. turn' = [turn EXCEPT ![m] = u]
    BY <2>1
  <2> HIDE DEF u
  <2>6. Hinted(m)'
    BY <1>0, <2>4, <2>5 DEF Hinted, LoopStates
  <2>7. job[m].status = "running"
    BY <1>0, <2>2 DEF Message, Attempted
  <2>8. u \in TurnRecord
    BY <2>4 DEF Shaped
  <2> QED BY <1>0, <2>2, <2>4, <2>5, <2>6, <2>7, <2>8, Moves DEF Keeps, LoopStates
<1> QED BY <1>1, <1>2

\* A call of the loop ends, and nothing was sent.
LEMMA LoopMoves ==
  ASSUME Inv, NEW m \in Turns, turn[m].at \in {"tools", "trying", "after"}, NEW u,
         turn' = [turn EXCEPT ![m] = u], Shaped(u), u.at \in LoopStates,
         u.replied = turn[m].replied, u.delivered = turn[m].delivered,
         u.unavailable = turn[m].unavailable, u.hint = turn[m].hint \/ turn[m].hint = "none",
         u.error = "optedout" => turn[m].error = "optedout" \/ optedOut,
         UNCHANGED <<flight, job, ledger, optedOut, stopped>>
  PROVE  Message(m)' /\ turn' \in [Turns -> TurnRecord]
<1>0. Message(m) /\ turn \in [Turns -> TurnRecord]
  BY DEF Inv, Typed
<1>1. flight'[m] = "none" /\ job[m].status = "running"
  BY <1>0 DEF Message, Attempted
<1>2. turn'[m] = u /\ u \in TurnRecord
  BY <1>0 DEF Shaped
<1>3. Hinted(m)'
  BY <1>2 DEF Hinted, LoopStates
<1>4. Message(m)'
  BY <1>0, <1>1, <1>2, <1>3, Moves DEF LoopStates
<1> QED BY <1>0, <1>2, <1>4

\* Tools that only compute or record.
LEMMA ToolKept ==
  ASSUME Inv, NEW m \in Turns,
         \/ ReadOrRefuse(m) \/ ClaimPayment(m) \/ RequestRefund(m) \/ StatusRefused(m)
         \/ NotifyOwner(m) \/ ConfirmOrder(m)
  PROVE  Message(m)' /\ turn' \in [Turns -> TurnRecord]
<1>0. Message(m) /\ turn \in [Turns -> TurnRecord]
  BY DEF Inv, Typed
<1>1. At(m, "tools") /\ UNCHANGED <<flight, job, ledger, optedOut, stopped>>
  BY Zenon DEF ReadOrRefuse, ClaimPayment, RequestRefund, StatusRefused, NotifyOwner, ConfirmOrder, Runs,
     Leads, budgetVars, jobVars, consentVars
<1>2. turn[m].at = "tools" /\ turn[m].plan # <<>> /\ turn[m].hint = "none" /\ turn[m] \in TurnRecord
  BY <1>0, <1>1 DEF At, Message, Shaped
<1>3. PICK u : /\ turn' = [turn EXCEPT ![m] = Returned(u)]
               /\ u \in TurnRecord /\ u.hint = "none" /\ u.plan # <<>> /\ Keeps(turn[m], u)
  <2>1. CASE ReadOrRefuse(m) \/ NotifyOwner(m) \/ ConfirmOrder(m)
    <3>1. turn' = [turn EXCEPT ![m] = Returned(turn[m])]
      BY <2>1, Zenon DEF ReadOrRefuse, NotifyOwner, ConfirmOrder, Leads, Go
    <3> QED BY <1>2, <3>1 DEF Keeps
  <2>2. CASE ClaimPayment(m) \/ RequestRefund(m) \/ StatusRefused(m)
    <3>1. PICK fact \in Sensitive : turn' = [turn EXCEPT ![m] = Captured(turn[m], fact)]
      BY <2>2 DEF ClaimPayment, RequestRefund, StatusRefused, Leads, Go, Sensitive
    <3> DEFINE facts == turn[m].facts \cup {fact}
               u == [turn[m] EXCEPT !.facts = facts]
    <3>2. facts \in SUBSET Sensitive
      BY <1>2 DEF TurnRecord
    <3>3. Captured(turn[m], fact) = Returned(u)
      BY DEF Captured
    <3> HIDE DEF facts
    <3>4. u \in TurnRecord /\ u.hint = "none" /\ u.plan = turn[m].plan /\ Keeps(turn[m], u)
      BY <1>2, <3>2 DEF TurnRecord, Keeps
    <3> HIDE DEF u
    <3> QED BY <1>2, <3>1, <3>3, <3>4
  <2> QED BY <2>1, <2>2
<1>4. Shaped(Returned(u)) /\ Keeps(u, Returned(u)) /\ Returned(u).at \in LoopStates
  BY <1>3, ReturnedShaped
<1> QED BY <1>1, <1>2, <1>3, <1>4, LoopMoves DEF Keeps

\* A summary is about to be sent.
LEMMA SummaryKept ==
  ASSUME Inv, NEW m \in Turns, ShowPendingOrder(m) \/ PrepareOrder(m)
  PROVE  Message(m)' /\ turn' \in [Turns -> TurnRecord]
<1>0. Message(m) /\ turn \in [Turns -> TurnRecord]
  BY DEF Inv, Typed
<1>1. At(m, "tools") /\ UNCHANGED <<flight, job, ledger, optedOut, stopped>>
  BY Zenon DEF ShowPendingOrder, PrepareOrder, Runs, budgetVars, jobVars, consentVars
<1>2. turn[m].at = "tools" /\ turn[m].plan # <<>> /\ turn[m].hint = "none" /\ turn[m] \in TurnRecord
  BY <1>0, <1>1 DEF At, Message, Shaped
<1>3. Turns \subseteq Answers \ {"fallback"} /\ Turns \subseteq Slots
  BY TurnAssumption DEF Answers, Slots
<1>4. PICK u : /\ turn' = [turn EXCEPT ![m] = u] /\ u \in TurnRecord /\ u.at = "trying"
               /\ u.slot \in Answers \ {"fallback"} /\ u.plan = turn[m].plan /\ Keeps(turn[m], u)
  <2>1. CASE ShowPendingOrder(m)
    <3>1. PICK d \in Turns : turn' = [turn EXCEPT ![m] = [turn[m] EXCEPT !.at = "trying", !.slot = d]]
      BY <2>1 DEF ShowPendingOrder, OpenDrafts, Go
    <3> DEFINE u == [turn[m] EXCEPT !.at = "trying", !.slot = d]
    <3>2. u \in TurnRecord /\ u.at = "trying" /\ u.slot = d /\ u.plan = turn[m].plan /\ Keeps(turn[m], u)
      BY <1>2, <1>3 DEF TurnRecord, Keeps
    <3> HIDE DEF u
    <3>3. turn' = [turn EXCEPT ![m] = u]
      BY <3>1 DEF u
    <3> QED BY <1>3, <3>2, <3>3
  <2>2. CASE PrepareOrder(m)
    <3> DEFINE called == turn[m].called \cup {"summary"}
               u == [turn[m] EXCEPT !.at = "trying", !.slot = m, !.stop = TRUE, !.called = called]
    <3>1. turn' = [turn EXCEPT ![m] = u]
      BY <2>2 DEF PrepareOrder, Go
    <3>2. called \in SUBSET (AllTools \cup {"summary"})
      BY <1>2 DEF TurnRecord
    <3> HIDE DEF called
    <3>3. u \in TurnRecord /\ u.at = "trying" /\ u.slot = m /\ u.plan = turn[m].plan /\ Keeps(turn[m], u)
      BY <1>2, <1>3, <3>2 DEF TurnRecord, Keeps
    <3> HIDE DEF u
    <3> QED BY <1>3, <3>1, <3>3
  <2> QED BY <2>1, <2>2
<1>5. Shaped(u)
  BY <1>2, <1>4 DEF Shaped, Keeps
<1> QED BY <1>1, <1>2, <1>4, <1>5, LoopMoves DEF Keeps, LoopStates

\* There is nothing to show.
LEMMA NothingKept ==
  ASSUME Inv, NEW m \in Turns, NothingToShow(m)
  PROVE  Message(m)' /\ turn' \in [Turns -> TurnRecord]
<1>0. Message(m) /\ turn \in [Turns -> TurnRecord]
  BY DEF Inv, Typed
<1>1. /\ At(m, "tools") /\ UNCHANGED <<flight, job, ledger, optedOut, stopped>>
      /\ turn' = [turn EXCEPT ![m] = Unsent(turn[m], "other")]
  BY Zenon DEF NothingToShow, Runs, Leads, Go, budgetVars, jobVars, consentVars
<1>2. turn[m].at = "tools" /\ turn[m].plan # <<>> /\ turn[m].hint = "none" /\ turn[m] \in TurnRecord
  BY <1>0, <1>1 DEF At, Message, Shaped
<1> DEFINE u == Unsent(turn[m], "other")
<1>3. /\ Shaped(u) /\ u.at \in LoopStates /\ u.replied = turn[m].replied
      /\ u.delivered = turn[m].delivered /\ u.unavailable = turn[m].unavailable
      /\ u.hint = turn[m].hint /\ u.error = "other"
  BY <1>2, UnsentShaped
<1> HIDE DEF u
<1>4. turn' = [turn EXCEPT ![m] = u]
  BY <1>1 DEF u
<1> QED BY <1>1, <1>2, <1>3, <1>4, LoopMoves

-----------------------------------------------------------------------------
(* Sends. *)

\* A send writes one row.
LEMMA RowWritten ==
  ASSUME Typed, NEW m \in Turns, NEW slot \in Slots, NEW status \in Rows,
         ledger' = [ledger EXCEPT ![m][slot] = status]
  PROVE  /\ ledger' \in [Turns -> [Slots -> Rows]]
         /\ ledger'[m][slot] = status
         /\ \A s \in Slots \ {slot} : ledger'[m][s] = ledger[m][s]
         /\ \A n \in Turns \ {m} : ledger'[n] = ledger[n]
BY DEF Typed

\* Keys of the ledger under one message.
LEMMA SlotFacts ==
  /\ Answers \subseteq Slots /\ "fallback" \in Slots /\ "reply" \in Answers \ {"fallback"}
  /\ "busy" \in Slots \ Answers
BY TurnAssumption DEF Answers, Slots

\* What was sent stays sent.
LEMMA SentStays ==
  ASSUME NEW m \in Turns,
         \A s \in Answers \ {"fallback"} : ledger[m][s] \in Settled => ledger'[m][s] \in Settled
  PROVE  HasSent(m, Answers \ {"fallback"}) => HasSent(m, Answers \ {"fallback"})'
BY DEF HasSent, Has

\* A refused send.
LEMMA RefusedKept ==
  ASSUME Inv, NEW m \in Turns, Refused(m)
  PROVE  Message(m)' /\ turn' \in [Turns -> TurnRecord]
<1>0. Message(m) /\ turn \in [Turns -> TurnRecord] /\ noted \in [Turns -> SUBSET Handoffs]
  BY DEF Inv, Typed
<1>1. PICK why \in Refusals(m) : turn' = [turn EXCEPT ![m] = Unsent(turn[m], why)]
  BY DEF Refused, Go
<1>2. /\ turn[m].at = "trying" /\ NoteFallback(m)
      /\ UNCHANGED <<flight, job, outcome, ledger, optedOut, stopped>>
  BY DEF Refused, At, budgetVars, jobVars, consentVars
<1>3. why \in {"other", "pacing", "optedout"} /\ (why = "optedout" => optedOut)
  BY DEF Refusals
<1>4. turn[m] \in TurnRecord /\ IF turn[m].plan = <<>> THEN turn[m].hint = "no_reply" ELSE turn[m].hint = "none"
  BY <1>0, <1>2 DEF Message, Shaped
<1> DEFINE u == Unsent(turn[m], why)
<1>5. /\ Shaped(u) /\ u.replied = turn[m].replied
      /\ u.delivered = turn[m].delivered /\ u.unavailable = turn[m].unavailable /\ u.hint = turn[m].hint
      /\ IF turn[m].plan = <<>> THEN u.at = "close" /\ u.error = turn[m].error
         ELSE u.at \in LoopStates /\ u.error = why
  BY <1>3, <1>4, UnsentShaped
<1>6. turn' = [turn EXCEPT ![m] = u]
  BY <1>1
<1> HIDE DEF u
<1>7. CASE turn[m].plan = <<>>
  <2>1. "reply_failure" \in noted'[m]
    BY <1>0, <1>2, <1>7 DEF NoteFallback, Sending, Note
  <2>2. turn'[m] = u /\ u \in TurnRecord /\ job[m].status = "running" /\ flight'[m] = "none"
    BY <1>0, <1>2, <1>5, <1>6 DEF Message, Attempted, Shaped
  <2>3. Hinted(m)'
    BY <1>4, <1>5, <1>7, <2>1, <2>2 DEF Hinted
  <2>4. Message(m)'
    BY <1>0, <1>2, <1>4, <1>5, <1>7, <2>2, <2>3, Moves
  <2> QED BY <1>0, <1>6, <2>2, <2>4
<1>8. CASE turn[m].plan # <<>>
  BY <1>2, <1>3, <1>4, <1>5, <1>6, <1>8, LoopMoves
<1> QED BY <1>7, <1>8

\* A send the ledger knows already.
LEMMA FoundKept ==
  ASSUME Inv, NEW m \in Turns, FoundSent(m)
  PROVE  Message(m)' /\ turn' \in [Turns -> TurnRecord]
<1>0. Message(m) /\ turn \in [Turns -> TurnRecord] /\ noted \in [Turns -> SUBSET Handoffs]
  BY DEF Inv, Typed
<1>1. /\ turn[m].at = "trying" /\ turn' = [turn EXCEPT ![m] = Sent(turn[m])]
      /\ UNCHANGED <<flight, job, outcome, ledger, optedOut, stopped>>
      /\ \/ ledger[m][turn[m].slot] \in Settled
         \/ ledger[m][turn[m].slot] = "rejected" /\ turn[m].slot \in Reworded
  BY DEF FoundSent, At, Go, budgetVars, jobVars, consentVars
<1> DEFINE u == Sent(turn[m])
<1>2. /\ Shaped(u) /\ u.delivered = turn[m].delivered /\ u.unavailable = turn[m].unavailable
      /\ u.error = turn[m].error
      /\ IF turn[m].plan = <<>> THEN u.at = "close" /\ u.hint = "fallback" /\ ~u.replied
         ELSE u.at \in LoopStates /\ u.hint = "none" /\ u.replied = TRUE
  BY <1>0, <1>1, SentShaped DEF Message
<1>3. turn[m].slot \in Answers /\ (turn[m].plan = <<>> <=> turn[m].slot = "fallback")
  BY <1>0, <1>1 DEF Message, Shaped
<1>4. turn' = [turn EXCEPT ![m] = u]
  BY <1>1
<1> HIDE DEF u
<1>5. /\ turn'[m] = u /\ u \in TurnRecord /\ job[m].status = "running" /\ flight'[m] = "none"
  BY <1>0, <1>1, <1>2, <1>4 DEF Message, Attempted, Shaped
<1>6. HasSent(m, Answers \ {"fallback"})' = HasSent(m, Answers \ {"fallback"})
  BY <1>1 DEF HasSent, Has
<1>7. Attempted(m)' /\ Stops(m)' /\ Finished(m)'
  BY <1>0, <1>1, <1>2, <1>5 DEF Message, Attempted, Stops, Finished, LoopStates
<1>8. Hinted(m)'
  BY <1>1, <1>2, <1>3, <1>5 DEF Hinted, LoopStates, Reworded
<1>9. Replying(m)'
  <2>1. CASE turn[m].plan = <<>>
    BY <1>2, <1>5, <2>1 DEF Replying, At
  <2>2. CASE turn[m].plan # <<>>
    <3>1. turn[m].hint = "none"
      BY <1>0, <1>1, <2>2 DEF Message, Shaped
    <3>2. HasSent(m, Answers \ {"fallback"}) \/ ledger[m]["reply"] = "rejected"
      BY <1>1, <1>3, <2>2 DEF HasSent, Has, Reworded
    <3>3. turn[m].delivered => HasSent(m, Answers \ {"fallback"})
      BY <1>0, <3>1 DEF Message, Replying
    <3>4. u.at # "sending"
      BY <1>2, <2>2 DEF LoopStates
    <3> QED BY <1>1, <1>2, <1>5, <1>6, <3>2, <3>3, <3>4 DEF Replying, At
  <2> QED BY <2>1, <2>2
<1> QED BY <1>0, <1>2, <1>4, <1>5, <1>7, <1>8, <1>9 DEF Message

\* A send begins.
LEMMA BeginKept ==
  ASSUME Inv, NEW m \in Turns, BeginSend(m)
  PROVE  Message(m)' /\ turn' \in [Turns -> TurnRecord] /\ ledger' \in [Turns -> [Slots -> Rows]]
<1>0. Message(m) /\ turn \in [Turns -> TurnRecord] /\ Typed
  BY DEF Inv, Typed
<1> DEFINE u == [turn[m] EXCEPT !.at = "sending"]
<1>1. /\ turn[m].at = "trying" /\ turn' = [turn EXCEPT ![m] = u]
      /\ UNCHANGED <<flight, job, outcome, noted, optedOut, stopped>>
      /\ ledger' = [ledger EXCEPT ![m][turn[m].slot] = "pending"]
      /\ ledger[m][turn[m].slot] \in {"none", "rejected", "unavailable"}
  BY DEF BeginSend, At, Go, budgetVars, jobVars, consentVars
<1>2. turn[m] \in TurnRecord
  BY <1>0
<1>3. /\ u \in TurnRecord /\ u.at = "sending" /\ u.plan = turn[m].plan /\ u.slot = turn[m].slot
      /\ Keeps(turn[m], u)
  BY <1>2 DEF TurnRecord, Keeps
<1> HIDE DEF u
<1>4. Shaped(u)
  BY <1>0, <1>1, <1>3 DEF Message, Shaped, Keeps
<1>5. u.slot \in Answers
  BY <1>3, <1>4 DEF Shaped
<1>6. /\ ledger' \in [Turns -> [Slots -> Rows]] /\ ledger'[m][u.slot] = "pending"
      /\ \A s \in Slots \ {u.slot} : ledger'[m][s] = ledger[m][s]
  BY <1>0, <1>1, <1>3, <1>5, SlotFacts, RowWritten DEF Rows
<1>7. turn'[m] = u /\ job[m].status = "running" /\ flight'[m] = "none"
  BY <1>0, <1>1 DEF Message, Attempted
<1>8. Attempted(m)' /\ Stops(m)' /\ Finished(m)' /\ Hinted(m)'
  BY <1>0, <1>1, <1>3, <1>7 DEF Message, Attempted, Stops, Finished, Hinted, Keeps
<1>9. HasSent(m, Answers \ {"fallback"}) => HasSent(m, Answers \ {"fallback"})'
  BY <1>1, <1>3, <1>6, SlotFacts, SentStays DEF Settled
<1>10. ledger[m]["reply"] = "rejected" => ledger'[m]["reply"] = "rejected" \/ u.slot = "reply"
  BY <1>6, SlotFacts
<1>11. Replying(m)'
  BY <1>0, <1>1, <1>3, <1>6, <1>7, <1>9, <1>10 DEF Message, Replying, At, Keeps
<1> QED BY <1>0, <1>1, <1>3, <1>4, <1>6, <1>7, <1>8, <1>11 DEF Message

\* What is true of a send under way.
LEMMA SendFacts ==
  ASSUME Inv, NEW m \in Turns, turn[m].at = "sending", NEW status \in Rows, Row(m, status)
  PROVE  /\ ledger' \in [Turns -> [Slots -> Rows]] /\ ledger'[m][turn[m].slot] = status
         /\ \A s \in Slots \ {turn[m].slot} : ledger'[m][s] = ledger[m][s]
         /\ HasSent(m, Answers \ {"fallback"}) => HasSent(m, Answers \ {"fallback"})'
         /\ turn[m].slot \in Answers /\ (turn[m].plan = <<>> <=> turn[m].slot = "fallback")
         /\ ledger[m][turn[m].slot] = "pending"
<1>1. turn[m].slot \in Answers /\ (turn[m].plan = <<>> <=> turn[m].slot = "fallback")
  BY DEF Inv, Message, Shaped
<1>2. ledger[m][turn[m].slot] = "pending"
  BY DEF Inv, Message, Replying, At
<1>3. /\ ledger' \in [Turns -> [Slots -> Rows]] /\ ledger'[m][turn[m].slot] = status
      /\ \A s \in Slots \ {turn[m].slot} : ledger'[m][s] = ledger[m][s]
  <2>1. turn[m].slot \in Slots /\ Typed
    BY <1>1, SlotFacts DEF Inv
  <2>2. ledger' = [ledger EXCEPT ![m][turn[m].slot] = status]
    BY DEF Row
  <2> QED BY <2>1, <2>2, RowWritten
<1>4. HasSent(m, Answers \ {"fallback"}) => HasSent(m, Answers \ {"fallback"})'
  BY <1>2, <1>3, SlotFacts, SentStays DEF Settled
<1> QED BY <1>1, <1>2, <1>3, <1>4

\* WhatsApp has the text, or may have it.
LEMMA EndsKept ==
  ASSUME Inv, NEW m \in Turns, SendEnds(m)
  PROVE  Message(m)' /\ turn' \in [Turns -> TurnRecord] /\ ledger' \in [Turns -> [Slots -> Rows]]
<1>0. Message(m) /\ turn \in [Turns -> TurnRecord] /\ Typed
  BY DEF Inv, Typed
<1>1. PICK status \in Settled :
        /\ Row(m, status)
        /\ turn' = [turn EXCEPT ![m] = Sent([turn[m] EXCEPT !.delivered = @ \/ status = "sent"])]
  BY DEF SendEnds, Go
<1>2. /\ turn[m].at = "sending" /\ UNCHANGED <<flight, job, outcome, optedOut, stopped>>
  BY DEF SendEnds, At, budgetVars, jobVars, consentVars
<1>3. /\ ledger' \in [Turns -> [Slots -> Rows]] /\ ledger'[m][turn[m].slot] = status
      /\ turn[m].slot \in Answers /\ (turn[m].plan = <<>> <=> turn[m].slot = "fallback")
  BY <1>1, <1>2, SendFacts DEF Settled, Rows
<1> DEFINE b == turn[m].delivered \/ status = "sent"
           v == [turn[m] EXCEPT !.delivered = b]
           u == Sent(v)
<1>4. b \in BOOLEAN
  BY Zenon
<1>5. turn' = [turn EXCEPT ![m] = u]
  BY <1>1
<1> HIDE DEF b
<1>6. /\ Shaped(v) /\ v.at = turn[m].at /\ v.plan = turn[m].plan /\ v.error = turn[m].error
  <2>1. Shaped(turn[m])
    BY <1>0 DEF Message
  <2> HIDE DEF u
  <2> QED BY <1>4, <2>1, DeliveredNoted
<1> HIDE DEF v
<1>7. /\ Shaped(u) /\ u.error = turn[m].error
      /\ IF turn[m].plan = <<>> THEN u.at = "close" /\ u.hint = "fallback" /\ ~u.replied
         ELSE u.at \in LoopStates /\ u.hint = "none" /\ u.replied = TRUE
  BY <1>2, <1>6, SentShaped
<1> HIDE DEF u
<1>8. turn'[m] = u /\ u \in TurnRecord /\ job[m].status = "running" /\ flight'[m] = "none"
  BY <1>0, <1>2, <1>5, <1>7 DEF Message, Attempted, Shaped
<1>9. Attempted(m)' /\ Stops(m)' /\ Finished(m)'
  BY <1>0, <1>2, <1>7, <1>8 DEF Message, Attempted, Stops, Finished, LoopStates
<1>10. Hinted(m)'
  BY <1>3, <1>7, <1>8 DEF Hinted, LoopStates
<1>11. turn[m].plan # <<>> => HasSent(m, Answers \ {"fallback"})'
  BY <1>3 DEF HasSent, Has
<1>12. Replying(m)'
  BY <1>7, <1>8, <1>11 DEF Replying, At, LoopStates
<1> QED BY <1>0, <1>3, <1>5, <1>7, <1>8, <1>9, <1>10, <1>12 DEF Message

\* The gateway refuses the text, or the channel is down.
LEMMA FailsKept ==
  ASSUME Inv, NEW m \in Turns, SendFails(m)
  PROVE  Message(m)' /\ turn' \in [Turns -> TurnRecord] /\ ledger' \in [Turns -> [Slots -> Rows]]
<1>0. Message(m) /\ turn \in [Turns -> TurnRecord] /\ noted \in [Turns -> SUBSET Handoffs] /\ Typed
  BY DEF Inv, Typed
<1>1. PICK status \in {"rejected", "unavailable"} :
        /\ Row(m, status)
        /\ turn' = [turn EXCEPT ![m] =
             Unsent([turn[m] EXCEPT !.unavailable = @ \/ status = "unavailable"], "other")]
  BY DEF SendFails, Go
<1>2. /\ turn[m].at = "sending" /\ UNCHANGED <<flight, job, outcome, optedOut, stopped>>
      /\ NoteFallback(m)
  BY DEF SendFails, At, budgetVars, jobVars, consentVars
<1>3. /\ ledger' \in [Turns -> [Slots -> Rows]] /\ ledger'[m][turn[m].slot] = status
      /\ \A s \in Slots \ {turn[m].slot} : ledger'[m][s] = ledger[m][s]
      /\ HasSent(m, Answers \ {"fallback"}) => HasSent(m, Answers \ {"fallback"})'
      /\ turn[m].slot \in Answers /\ (turn[m].plan = <<>> <=> turn[m].slot = "fallback")
      /\ ledger[m][turn[m].slot] = "pending"
  BY <1>1, <1>2, SendFacts DEF Rows
<1> DEFINE b == turn[m].unavailable \/ status = "unavailable"
           v == [turn[m] EXCEPT !.unavailable = b]
           u == Unsent(v, "other")
<1>4. b \in BOOLEAN
  BY Zenon
<1>5. turn' = [turn EXCEPT ![m] = u]
  BY <1>1
<1>6. (turn[m].unavailable => b) /\ (status = "unavailable" => b)
  OBVIOUS
<1> HIDE DEF b
<1>7. /\ Shaped(v) /\ v.at = turn[m].at /\ v.plan = turn[m].plan /\ v.error = turn[m].error
      /\ v.replied = turn[m].replied /\ v.hint = turn[m].hint /\ v.delivered = turn[m].delivered
      /\ v.unavailable = b
  <2>1. Shaped(turn[m])
    BY <1>0 DEF Message
  <2> HIDE DEF u
  <2> QED BY <1>4, <2>1, DownNoted
<1> HIDE DEF v
<1>8. v \in TurnRecord /\ IF v.plan = <<>> THEN v.hint = "no_reply" ELSE v.hint = "none"
  BY <1>2, <1>7 DEF Shaped
<1>9. /\ Shaped(u) /\ u.delivered = turn[m].delivered /\ u.unavailable = b
      /\ u.replied = turn[m].replied /\ u.hint = turn[m].hint
      /\ IF turn[m].plan = <<>> THEN u.at = "close" /\ u.error = turn[m].error
         ELSE u.at \in LoopStates /\ u.error = "other"
  BY <1>7, <1>8, UnsentShaped
<1> HIDE DEF u
<1>10. turn'[m] = u /\ u \in TurnRecord /\ job[m].status = "running" /\ flight'[m] = "none"
  BY <1>0, <1>2, <1>5, <1>9 DEF Message, Attempted, Shaped
<1>11. Attempted(m)' /\ Stops(m)' /\ Finished(m)'
  BY <1>0, <1>2, <1>9, <1>10 DEF Message, Attempted, Stops, Finished, LoopStates
<1>12. turn[m].plan = <<>> => "reply_failure" \in noted'[m]
  BY <1>0, <1>2 DEF NoteFallback, Sending, Note
<1>13. Hinted(m)'
  BY <1>7, <1>8, <1>9, <1>10, <1>12 DEF Hinted, LoopStates
<1>14. Replying(m)'
  <2>1. u.at # "sending"
    BY <1>9 DEF LoopStates
  <2>2. ledger[m]["reply"] = "rejected" => ledger'[m]["reply"] = "rejected"
    BY <1>3, SlotFacts
  <2>3. turn[m].slot = "reply" => ledger'[m]["reply"] = "rejected" \/ u.unavailable
    BY <1>3, <1>6, <1>9
  <2>4. turn[m].unavailable => u.unavailable
    BY <1>6, <1>9
  <2> QED BY <1>0, <1>3, <1>9, <1>10, <2>1, <2>2, <2>3, <2>4 DEF Message, Replying, At
<1> QED BY <1>0, <1>3, <1>5, <1>9, <1>10, <1>11, <1>13, <1>14 DEF Message

-----------------------------------------------------------------------------
(* The guard and CLOSE. *)

\* The guard decides what becomes of a turn whose loop is over.
LEMMA GuardKept ==
  ASSUME Inv, NEW m \in Turns, Guard(m)
  PROVE  Message(m)' /\ turn' \in [Turns -> TurnRecord]
<1>0. Message(m) /\ turn \in [Turns -> TurnRecord] /\ noted \in [Turns -> SUBSET Handoffs]
  BY DEF Inv, Typed
<1>1. /\ turn[m].at = "after" /\ UNCHANGED <<flight, job, outcome, ledger, optedOut, stopped>>
  BY Zenon DEF Guard, Answered, KeepSilent, HeldByPacing, FallBack, Leads, At, budgetVars, jobVars,
     consentVars
<1>2. turn[m] \in TurnRecord /\ turn[m].plan = <<>> /\ turn[m].hint = "none"
  BY <1>0, <1>1 DEF Message, Shaped
<1>3. job[m].status = "running" /\ flight'[m] = "none"
  BY <1>0, <1>1 DEF Message, Attempted
<1>4. CASE Answered(m)
  <2> DEFINE u == [turn[m] EXCEPT !.at = "close", !.hint = "replied"]
  <2>1. turn' = [turn EXCEPT ![m] = u] /\ turn[m].replied
    BY <1>4 DEF Answered, AnsweredByLoop, Leads, Go
  <2>2. /\ u \in TurnRecord /\ u.at = "close" /\ u.hint = "replied" /\ u.plan = <<>>
        /\ u.replied = turn[m].replied /\ u.delivered = turn[m].delivered
        /\ u.unavailable = turn[m].unavailable /\ u.error = turn[m].error
    BY <1>2 DEF TurnRecord
  <2> HIDE DEF u
  <2>3. Shaped(u)
    BY <2>2 DEF Shaped
  <2>4. turn'[m] = u
    BY <1>0, <2>1
  <2>5. Hinted(m)'
    BY <2>1, <2>2, <2>4 DEF Hinted
  <2> QED BY <1>0, <1>1, <1>2, <1>3, <2>1, <2>2, <2>3, <2>4, <2>5, Moves
<1>5. CASE KeepSilent(m)
  <2> DEFINE u == [turn[m] EXCEPT !.at = "finishing", !.hint = "silenced"]
  <2>1. turn' = [turn EXCEPT ![m] = u] /\ turn[m].error = "optedout"
    BY <1>5 DEF KeepSilent, IsOptOutVeto, Leads, Go
  <2>2. /\ u \in TurnRecord /\ u.at = "finishing" /\ u.hint = "silenced" /\ u.plan = <<>>
        /\ u.replied = turn[m].replied /\ u.delivered = turn[m].delivered
        /\ u.unavailable = turn[m].unavailable /\ u.error = turn[m].error
    BY <1>2 DEF TurnRecord
  <2> HIDE DEF u
  <2>3. Shaped(u)
    BY <2>2 DEF Shaped
  <2>4. turn'[m] = u
    BY <1>0, <2>1
  <2>5. m \in stopped'
    BY <1>0, <1>1, <1>3, <2>1 DEF Message, Stops
  <2>6. Hinted(m)'
    BY <2>2, <2>4, <2>5 DEF Hinted
  <2> QED BY <1>0, <1>1, <1>2, <1>3, <2>1, <2>2, <2>3, <2>4, <2>6, Moves
<1>6. CASE HeldByPacing(m)
  <2> DEFINE u == [turn[m] EXCEPT !.at = "close", !.hint = "no_reply"]
  <2>1. turn' = [turn EXCEPT ![m] = u] /\ "reply_failure" \in noted'[m]
    BY <1>0, <1>6 DEF HeldByPacing, Go, Note
  <2>2. /\ u \in TurnRecord /\ u.at = "close" /\ u.hint = "no_reply" /\ u.plan = <<>>
        /\ u.replied = turn[m].replied /\ u.delivered = turn[m].delivered
        /\ u.unavailable = turn[m].unavailable /\ u.error = turn[m].error
    BY <1>2 DEF TurnRecord
  <2> HIDE DEF u
  <2>3. Shaped(u)
    BY <2>2 DEF Shaped
  <2>4. turn'[m] = u
    BY <1>0, <2>1
  <2>5. Hinted(m)'
    BY <2>1, <2>2, <2>4 DEF Hinted
  <2> QED BY <1>0, <1>1, <1>2, <1>3, <2>1, <2>2, <2>3, <2>4, <2>5, Moves
<1>7. CASE FallBack(m)
  <2> DEFINE u == [turn[m] EXCEPT !.at = "trying", !.slot = "fallback", !.hint = "no_reply"]
  <2>1. turn' = [turn EXCEPT ![m] = u] /\ ~turn[m].replied
    BY <1>7 DEF FallBack, AnsweredByLoop, Leads, Go
  <2>2. /\ u \in TurnRecord /\ u.at = "trying" /\ u.slot = "fallback" /\ u.hint = "no_reply"
        /\ u.plan = <<>> /\ u.replied = turn[m].replied /\ u.delivered = turn[m].delivered
        /\ u.unavailable = turn[m].unavailable /\ u.error = turn[m].error
    BY <1>2, SlotFacts DEF TurnRecord
  <2> HIDE DEF u
  <2>3. "fallback" \in Answers
    BY DEF Answers, Slots
  <2>4. Shaped(u)
    BY <2>1, <2>2, <2>3 DEF Shaped
  <2>5. turn'[m] = u
    BY <1>0, <2>1
  <2>6. Hinted(m)'
    BY <2>2, <2>5 DEF Hinted
  <2> QED BY <1>0, <1>1, <1>2, <1>3, <2>1, <2>2, <2>4, <2>5, <2>6, Moves
<1> QED BY <1>4, <1>5, <1>6, <1>7 DEF Guard

\* The net adds to what the owner is told.
LEMMA NetNotes ==
  ASSUME noted \in [Turns -> SUBSET Handoffs], NEW m \in Turns, NEW reported \in SUBSET Handoffs,
         Net(m, reported)
  PROVE  /\ noted' \in [Turns -> SUBSET Handoffs] /\ noted[m] \subseteq noted'[m]
         /\ \A n \in Turns \ {m} : noted'[n] = noted[n]
<1>1. PICK more \in SUBSET Handoffs : noted' = [noted EXCEPT ![m] = @ \cup more]
  <2>1. {"unlogged_order"} \subseteq Handoffs
    BY DEF Handoffs
  <2>2. \/ noted' = [noted EXCEPT ![m] = @ \cup (reported \ {"unlogged_order"})]
        \/ noted' = [noted EXCEPT ![m] = @ \cup (reported \cup {"unlogged_order"})]
        \/ noted' = [noted EXCEPT ![m] = @ \cup reported]
    BY DEF Net
  <2> QED BY <2>1, <2>2
<1> QED BY <1>1

\* What the closing call reports.
LEMMA ReportsKnown ==
  \A m : \A reports \in SUBSET Reports : {r \in reports : Credible(m, r)} \in SUBSET Handoffs
BY TurnAssumption DEF Handoffs

\* The last step of a turn.
LEMMA CloseKept ==
  ASSUME Inv, NEW m \in Turns, Close(m)
  PROVE  /\ Message(m)' /\ turn' \in [Turns -> TurnRecord] /\ noted' \in [Turns -> SUBSET Handoffs]
         /\ \A n \in Turns \ {m} : noted'[n] = noted[n]
<1>0. /\ Message(m) /\ turn \in [Turns -> TurnRecord] /\ noted \in [Turns -> SUBSET Handoffs]
      /\ flight \in [Turns -> {"none", "today", "earlier"}]
  BY DEF Inv, Typed, BudgetTypeOK
<1> DEFINE u == [turn[m] EXCEPT !.at = "finishing"]
<1>1. /\ turn[m].at \in {"close", "closing"} /\ turn' = [turn EXCEPT ![m] = u]
      /\ UNCHANGED <<job, outcome, ledger, optedOut, stopped>>
  BY Zenon DEF Close, SkipClosing, CloseWithModel, At, Go, jobVars, consentVars
<1>2. flight'[m] = "none"
  <2>1. CASE SkipClosing(m)
    BY <1>0, <2>1 DEF SkipClosing, At, budgetVars, Message, Attempted
  <2>2. CASE CloseWithModel(m)
    BY <1>0, <2>2 DEF CloseWithModel, FinishCall
  <2> QED BY <2>1, <2>2 DEF Close
<1>3. /\ noted' \in [Turns -> SUBSET Handoffs] /\ noted[m] \subseteq noted'[m]
      /\ \A n \in Turns \ {m} : noted'[n] = noted[n]
  <2>1. PICK reported \in SUBSET Handoffs : Net(m, reported)
    <3>1. CASE SkipClosing(m)
      BY <3>1 DEF SkipClosing
    <3>2. CASE CloseWithModel(m)
      BY <3>2, ReportsKnown DEF CloseWithModel
    <3> QED BY <3>1, <3>2 DEF Close
  <2> QED BY <1>0, <2>1, NetNotes
<1>4. turn[m] \in TurnRecord /\ job[m].status = "running" /\ turn[m].plan = <<>>
  BY <1>0, <1>1 DEF Message, Attempted, Shaped
<1>5. u \in TurnRecord /\ u.at = "finishing" /\ u.plan = <<>> /\ Keeps(turn[m], u)
  BY <1>4 DEF TurnRecord, Keeps
<1> HIDE DEF u
<1>6. Shaped(u)
  BY <1>0, <1>1, <1>5 DEF Message, Shaped, Keeps
<1>7. turn'[m] = u
  BY <1>0, <1>1
<1>8. Hinted(m)'
  BY <1>0, <1>1, <1>3, <1>5, <1>7 DEF Message, Hinted, Keeps
<1>9. Message(m)'
  BY <1>0, <1>1, <1>2, <1>4, <1>5, <1>6, <1>7, <1>8, Moves DEF Keeps
<1> QED BY <1>0, <1>1, <1>3, <1>5, <1>9

-----------------------------------------------------------------------------
(* The other messages, the world and the crash. *)

\* A turn's step leaves the other messages alone.
LEMMA OthersSame ==
  ASSUME Inv, NEW n \in Turns, Step(n), NEW m \in Turns \ {n}
  PROVE  Same(m)
<1>0. /\ turn \in [Turns -> TurnRecord] /\ noted \in [Turns -> SUBSET Handoffs]
      /\ ledger \in [Turns -> [Slots -> Rows]] /\ outcome \in [Turns -> Outcomes]
      /\ job \in [Turns -> [status : {"absent", "ready", "running", "done", "failed"},
                            attempts : 0..MaxAttempts]]
      /\ flight \in [Turns -> {"none", "today", "earlier"}] /\ m # n
  BY DEF Inv, Typed, BudgetTypeOK
<1>1. CASE Open(n)
  BY <1>0, <1>1 DEF Open, Go, Same, budgetVars
<1>2. CASE Complete(n) \/ HoldForSession(n) \/ ConsumeAttempt(n)
  <2>1. \E status, attempts, how : End(n, status, attempts, how)
    BY <1>2, Zenon DEF Complete, HoldForSession, ConsumeAttempt, Throws, Defers
  <2>2. UNCHANGED <<flight, ledger, noted, stopped, optedOut>>
    BY <1>2, Zenon DEF Complete, HoldForSession, ConsumeAttempt, budgetVars, consentVars
  <2> QED BY <1>0, <2>1, <2>2 DEF End, Go, Same
<1>3. CASE BudgetRefuses(n) \/ ModelFails(n)
  <2>1. \E status, attempts, how : End(n, status, attempts, how)
    BY <1>3, Zenon DEF BudgetRefuses, ModelFails, Throws, Defers
  <2>2. UNCHANGED <<noted, stopped, optedOut>>
    BY <1>3, Zenon DEF BudgetRefuses, ModelFails, consentVars
  <2>3. flight'[m] = flight[m] /\ ledger'[m] = ledger[m]
    BY <1>0, <1>3 DEF BudgetRefuses, ModelFails, FinishCall, budgetVars
  <2> QED BY <1>0, <2>1, <2>2, <2>3 DEF End, Go, Same
<1>4. CASE CallModel(n) \/ ModelAnswers(n)
  <2>1. UNCHANGED <<job, outcome, ledger, noted, stopped, optedOut>>
    BY <1>4, Zenon DEF CallModel, ModelAnswers, jobVars, consentVars
  <2>2. flight'[m] = flight[m]
    BY <1>0, <1>4 DEF CallModel, ModelAnswers, Reserve, FinishCall
  <2>3. turn'[m] = turn[m]
    BY <1>0, <1>4 DEF CallModel, ModelAnswers, Go
  <2> QED BY <2>1, <2>2, <2>3 DEF Same
<1>5. CASE \/ ReadOrRefuse(n) \/ ClaimPayment(n) \/ RequestRefund(n) \/ StatusRefused(n)
           \/ NothingToShow(n) \/ PrepareOrder(n) \/ ShowPendingOrder(n) \/ ConfirmOrder(n)
  <2>1. UNCHANGED <<flight, job, outcome, ledger, noted, stopped, optedOut>>
    BY <1>5, Zenon DEF ReadOrRefuse, ClaimPayment, RequestRefund, StatusRefused, NothingToShow, PrepareOrder,
       ShowPendingOrder, ConfirmOrder, Leads, budgetVars, jobVars, consentVars
  <2>2. \E t : turn' = [turn EXCEPT ![n] = t]
    BY <1>5, Zenon DEF ReadOrRefuse, ClaimPayment, RequestRefund, StatusRefused, NothingToShow, PrepareOrder,
       ShowPendingOrder, ConfirmOrder, Leads, Go
  <2> QED BY <1>0, <2>1, <2>2 DEF Same
<1>6. CASE NotifyOwner(n) \/ Refused(n) \/ FoundSent(n)
  <2>1. UNCHANGED <<flight, job, outcome, ledger, stopped, optedOut>>
    BY <1>6, Zenon DEF NotifyOwner, Refused, FoundSent, budgetVars, jobVars, consentVars
  <2>2. \E t : turn' = [turn EXCEPT ![n] = t]
    BY <1>6, Zenon DEF NotifyOwner, Refused, FoundSent, Go
  <2>3. noted'[m] = noted[m]
    BY <1>0, <1>6 DEF NotifyOwner, Refused, FoundSent, Note, NoteFallback
  <2> QED BY <1>0, <2>1, <2>2, <2>3 DEF Same
<1>7. CASE BeginSend(n) \/ SendEnds(n) \/ SendFails(n)
  <2>1. UNCHANGED <<flight, job, outcome, stopped, optedOut>>
    BY <1>7, Zenon DEF BeginSend, SendEnds, SendFails, budgetVars, jobVars, consentVars
  <2>2. \E t : turn' = [turn EXCEPT ![n] = t]
    BY <1>7, Zenon DEF BeginSend, SendEnds, SendFails, Go
  <2>3. noted'[m] = noted[m]
    BY <1>0, <1>7 DEF BeginSend, SendEnds, SendFails, Note, NoteFallback
  <2>4. \E row : ledger' = [ledger EXCEPT ![n] = row]
    BY <1>7 DEF BeginSend, SendEnds, SendFails, Row
  <2> QED BY <1>0, <2>1, <2>2, <2>3, <2>4 DEF Same
<1>8. CASE Guard(n)
  <2>1. UNCHANGED <<flight, job, outcome, ledger, stopped, optedOut>>
    BY <1>8, Zenon DEF Guard, Answered, KeepSilent, HeldByPacing, FallBack, Leads, budgetVars, jobVars,
       consentVars
  <2>2. \E t : turn' = [turn EXCEPT ![n] = t]
    BY <1>8, Zenon DEF Guard, Answered, KeepSilent, HeldByPacing, FallBack, Leads, Go
  <2>3. noted'[m] = noted[m]
    BY <1>0, <1>8 DEF Guard, Answered, KeepSilent, HeldByPacing, FallBack, Leads, Note
  <2> QED BY <1>0, <2>1, <2>2, <2>3 DEF Same
<1>9. CASE Close(n)
  <2>1. UNCHANGED <<job, outcome, ledger, stopped, optedOut>>
    BY <1>9, Zenon DEF Close, SkipClosing, CloseWithModel, jobVars, consentVars
  <2>2. \E t : turn' = [turn EXCEPT ![n] = t]
    BY <1>9, Zenon DEF Close, SkipClosing, CloseWithModel, Go
  <2>3. flight'[m] = flight[m]
    BY <1>0, <1>9 DEF Close, SkipClosing, CloseWithModel, FinishCall, budgetVars
  <2>4. noted'[m] = noted[m]
    BY <1>9, CloseKept
  <2> QED BY <1>0, <2>1, <2>2, <2>3, <2>4 DEF Same
<1> QED
  BY <1>1, <1>2, <1>3, <1>4, <1>5, <1>6, <1>7, <1>8, <1>9, Zenon DEF Step, Attempt, Loop, Send

\* STOP, START, an expired draft and midnight leave every message as it was.
LEMMA WorldSame ==
  ASSUME Inv, World, NEW m \in Turns
  PROVE  Same(m)
<1>0. flight \in [Turns -> {"none", "today", "earlier"}] /\ stopped \subseteq Turns /\ optedOut \in BOOLEAN
  BY DEF Inv, Typed, BudgetTypeOK
<1>1. UNCHANGED <<turn, job, outcome, ledger, noted>>
  BY Zenon DEF World, OptOut, OptIn, DraftExpires, Midnight, jobVars
<1>2. flight[m] = "none" => flight'[m] = "none"
  BY <1>0 DEF World, OptOut, OptIn, DraftExpires, Midnight, NewDay, budgetVars
<1>3. /\ m \in stopped => m \in stopped'
      /\ job[m].status = "running" /\ optedOut' => optedOut \/ m \in stopped'
  BY <1>0 DEF World, OptOut, OptIn, DraftExpires, Midnight, consentVars
<1> QED BY <1>1, <1>2, <1>3 DEF Same

\* A restart forgets the turns; what was sent counts as sent.
LEMMA CrashKept ==
  ASSUME Inv, Crash, NEW m \in Turns
  PROVE  Message(m)'
<1>0. Message(m) /\ job \in [Turns -> [status : {"absent", "ready", "running", "done", "failed"},
                                         attempts : 0..MaxAttempts]]
      /\ ledger \in [Turns -> [Slots -> Rows]]
  BY DEF Inv, Typed
<1>1. /\ turn'[m] = NoTurn /\ flight'[m] = "none" /\ UNCHANGED <<outcome, noted, stopped>>
      /\ job'[m].status = IF job[m].status # "running" THEN job[m].status
                         ELSE IF job[m].attempts < MaxAttempts THEN "ready" ELSE "failed"
      /\ \A s \in Slots : ledger'[m][s] = IF ledger[m][s] = "pending" THEN "uncertain" ELSE ledger[m][s]
  BY <1>0 DEF Crash, LoseCalls, consentVars
<1>2. HasSent(m, Answers \ {"fallback"}) => HasSent(m, Answers \ {"fallback"})'
  BY <1>1, SlotFacts, SentStays DEF Settled
<1>3. /\ ledger[m]["reply"] = "rejected" => ledger'[m]["reply"] = "rejected"
      /\ ledger[m]["fallback"] \in Settled \cup {"rejected"} =>
           ledger'[m]["fallback"] \in Settled \cup {"rejected"}
  BY <1>1, SlotFacts DEF Settled
<1>4. Finished(m)'
  BY <1>0, <1>1, <1>2, <1>3 DEF Message, Finished
<1> QED BY <1>1, <1>4, Leaves

-----------------------------------------------------------------------------
(* The budget. *)

\* The calls of today that are in flight.
Today == {m \in Turns : flight[m] = "today"}

\* Calls in flight are no more than the turns.
LEMMA TodayFinite ==
  /\ IsFiniteSet(Turns) /\ IsFiniteSet(Today) /\ Cardinality(Today) \in Nat
  /\ Cardinality(Turns) \in Nat /\ Cardinality(Today) <= Cardinality(Turns)
<1>1. Today \subseteq Turns /\ IsFiniteSet(Turns)
  BY BudgetAssumption DEF Today
<1> QED BY <1>1, FS_Subset, FS_CardinalityType

\* A product with the same factor.
LEMMA TimesGrows ==
  ASSUME NEW a \in Nat, NEW b \in Nat, NEW c \in Nat, a <= b
  PROVE  a * c <= b * c /\ a * c \in Nat /\ b * c \in Nat
OBVIOUS

\* One more call.
LEMMA OneMore ==
  ASSUME NEW a \in Nat, NEW c \in Nat
  PROVE  (a + 1) * c = a * c + c
OBVIOUS

\* A call reserved counts as the most it can take, until it is counted.
LEMMA BudgetStep ==
  ASSUME BudgetTypeOK, BudgetInv,
         \/ \E m \in Turns : Reserve(m) \/ \E used \in 0 .. MaxTokens : FinishCall(m, used)
         \/ NewDay \/ LoseCalls \/ UNCHANGED budgetVars
  PROVE  BudgetTypeOK' /\ BudgetInv'
<1> DEFINE N == Cardinality(Turns)
           k == Cardinality(Today)
<1>0. /\ calls \in Nat /\ tokens \in Nat /\ nights \in Nat
      /\ flight \in [Turns -> {"none", "today", "earlier"}]
      /\ calls <= CallLimit /\ tokens + k * MaxTokens < TokenLimit + N * MaxTokens
  BY DEF BudgetTypeOK, BudgetInv, Today
<1>1. N \in Nat /\ k \in Nat /\ k <= N /\ IsFiniteSet(Today) /\ IsFiniteSet(Turns)
  BY TodayFinite
<1>2. MaxTokens \in Nat /\ TokenLimit \in Nat \ {0} /\ CallLimit \in Nat \ {0}
  BY BudgetAssumption
<1>3. N * MaxTokens \in Nat /\ k * MaxTokens \in Nat
  BY <1>1, <1>2, TimesGrows
<1>4. (TokenLimit + N * MaxTokens)' = TokenLimit + N * MaxTokens
  OBVIOUS
<1> HIDE DEF N, k
<1>5. SUFFICES BudgetTypeOK' /\ calls' <= CallLimit
               /\ tokens' + Cardinality(Today') * MaxTokens < TokenLimit + N * MaxTokens
  BY DEF BudgetInv, Today, N
<1>6. ASSUME NEW m \in Turns, Reserve(m)
      PROVE  BudgetTypeOK' /\ calls' <= CallLimit
             /\ tokens' + Cardinality(Today') * MaxTokens < TokenLimit + N * MaxTokens
  <2>1. tokens' = tokens /\ tokens < TokenLimit /\ calls < CallLimit /\ calls' = calls + 1
    BY <1>0, <1>2, <1>6 DEF Reserve, Exhausted
  <2>2. BudgetTypeOK'
    BY <1>0, <1>6 DEF BudgetTypeOK, Reserve
  <2>3. Today' \subseteq Turns
    BY DEF Today
  <2>4. Cardinality(Today') \in Nat /\ Cardinality(Today') <= N
    BY <1>1, <2>3, FS_Subset, FS_CardinalityType DEF N
  <2>5. Cardinality(Today') * MaxTokens <= N * MaxTokens /\ Cardinality(Today') * MaxTokens \in Nat
    BY <1>1, <1>2, <2>4, TimesGrows
  <2> QED BY <1>0, <1>2, <1>3, <2>1, <2>2, <2>5
<1>7. ASSUME NEW m \in Turns, NEW used \in 0 .. MaxTokens, FinishCall(m, used)
      PROVE  BudgetTypeOK' /\ calls' <= CallLimit
             /\ tokens' + Cardinality(Today') * MaxTokens < TokenLimit + N * MaxTokens
  <2>1. BudgetTypeOK' /\ calls' = calls
    BY <1>0, <1>2, <1>7 DEF BudgetTypeOK, FinishCall
  <2>2. CASE flight[m] = "today"
    <3>1. Today' = Today \ {m} /\ m \in Today /\ tokens' = tokens + used
      BY <1>0, <1>7, <2>2 DEF Today, FinishCall
    <3>2. Cardinality(Today') = k - 1
      BY <1>1, <3>1, FS_RemoveElement DEF k
    <3>3. Cardinality(Today') \in Nat
      BY <1>1, <3>1, FS_Subset, FS_CardinalityType
    <3>4. k * MaxTokens = Cardinality(Today') * MaxTokens + MaxTokens
      <4>1. k = Cardinality(Today') + 1
        BY <1>1, <3>2
      <4> QED BY <1>2, <3>3, <4>1, OneMore
    <3>5. Cardinality(Today') * MaxTokens \in Nat
      BY <1>2, <3>3, TimesGrows
    <3> QED BY <1>0, <1>2, <1>3, <2>1, <3>1, <3>4, <3>5
  <2>3. CASE flight[m] # "today"
    <3>1. Today' = Today /\ tokens' = tokens
      BY <1>0, <1>7, <2>3 DEF Today, FinishCall
    <3> QED BY <1>0, <2>1, <3>1 DEF k
  <2> QED BY <2>2, <2>3
<1>8. CASE NewDay \/ LoseCalls
  <2>1. BudgetTypeOK' /\ calls' <= CallLimit /\ (tokens' = 0 \/ tokens' = tokens)
    BY <1>0, <1>2, <1>8, BudgetAssumption DEF BudgetTypeOK, NewDay, LoseCalls
  <2>2. Today' = {}
    BY <1>0, <1>8 DEF Today, NewDay, LoseCalls
  <2>3. Cardinality(Today') * MaxTokens = 0
    BY <1>2, <2>2, FS_EmptySet
  <2> QED BY <1>0, <1>2, <1>3, <2>1, <2>3
<1>9. CASE UNCHANGED budgetVars
  <2>1. Today' = Today /\ tokens' = tokens /\ calls' = calls
    BY <1>9 DEF budgetVars, Today
  <2>2. BudgetTypeOK'
    BY <1>9 DEF budgetVars, BudgetTypeOK
  <2> QED BY <1>0, <2>1, <2>2 DEF k
<1> QED BY <1>6, <1>7, <1>8, <1>9

\* Every step moves the budget so, or not at all.
LEMMA BudgetMoves ==
  ASSUME [Next]_vars
  PROVE  \/ \E m \in Turns : Reserve(m) \/ \E used \in 0 .. MaxTokens : FinishCall(m, used)
         \/ NewDay \/ LoseCalls \/ UNCHANGED budgetVars
<1>1. CASE Crash
  BY <1>1 DEF Crash
<1>2. CASE World
  BY <1>2, Zenon DEF World, OptOut, OptIn, DraftExpires, Midnight
<1>3. ASSUME NEW m \in Turns, Step(m)
      PROVE  \/ Reserve(m) \/ \E used \in 0 .. MaxTokens : FinishCall(m, used)
             \/ UNCHANGED budgetVars
  <2>0. 0 \in 0 .. MaxTokens
    BY BudgetAssumption
  <2>1. CASE ModelFails(m)
    BY <2>0, <2>1 DEF ModelFails
  <2>2. CASE ModelAnswers(m) \/ CloseWithModel(m)
    BY <2>2, Zenon DEF ModelAnswers, CloseWithModel
  <2>3. CASE CallModel(m)
    BY <2>3 DEF CallModel
  <2>4. CASE Attempt(m) \/ Guard(m) \/ Send(m) \/ BudgetRefuses(m) \/ SkipClosing(m)
    BY <2>4, Zenon DEF Attempt, Open, Complete, HoldForSession, ConsumeAttempt, Guard, Answered, KeepSilent,
       HeldByPacing, FallBack, Leads, Send, Refused, FoundSent, BeginSend, SendEnds, SendFails,
       BudgetRefuses, SkipClosing
  <2>5. CASE \/ ReadOrRefuse(m) \/ ClaimPayment(m) \/ RequestRefund(m) \/ StatusRefused(m)
             \/ NotifyOwner(m) \/ PrepareOrder(m) \/ ShowPendingOrder(m) \/ NothingToShow(m)
             \/ ConfirmOrder(m)
    BY <2>5, Zenon DEF ReadOrRefuse, ClaimPayment, RequestRefund, StatusRefused, NotifyOwner, PrepareOrder,
       ShowPendingOrder, NothingToShow, ConfirmOrder, Leads
  <2> QED BY <1>3, <2>1, <2>2, <2>3, <2>4, <2>5, Zenon DEF Step, Loop, Close
<1>4. CASE UNCHANGED vars
  BY <1>4 DEF vars
<1> QED BY <1>1, <1>2, <1>3, <1>4, Zenon DEF Next

-----------------------------------------------------------------------------
(* The drafts, and the types. *)

\* A booking books the open draft, or repeats what was booked.
LEMMA BookKept ==
  ASSUME OrderInv, NEW m \in Turns, Book(m)
  PROVE  OrderInv'
<1>0. None \notin Turns
  BY TurnAssumption DEF Slots
<1>1. CASE UNCHANGED orderVars
  BY <1>1 DEF orderVars, OrderInv
<1>2. CASE \E d \in Confirmable(m) : /\ drafts' = [drafts EXCEPT ![d] = "booked"]
                                     /\ bookedBy' = [bookedBy EXCEPT ![d] = m]
  BY <1>0, <1>2 DEF OrderInv, Confirmable, OpenDrafts
<1> QED BY <1>1, <1>2 DEF Book

\* Drafts and bookings change only as prepare, confirm, expiry and the net change them.
LEMMA DraftsMove ==
  ASSUME [Next]_vars
  PROVE  \/ UNCHANGED orderVars
         \/ DraftExpires
         \/ \E m \in Turns :
              PrepareOrder(m) \/ ConfirmOrder(m) \/ SkipClosing(m) \/ CloseWithModel(m)
<1>1. ASSUME NEW m \in Turns, Step(m)
      PROVE  \/ UNCHANGED orderVars \/ PrepareOrder(m)
             \/ ConfirmOrder(m) \/ SkipClosing(m) \/ CloseWithModel(m)
  BY <1>1, Zenon DEF Step, Attempt, Open, Complete, HoldForSession, ConsumeAttempt, Loop, CallModel,
     BudgetRefuses, ModelFails, ModelAnswers, ReadOrRefuse, ClaimPayment, RequestRefund, StatusRefused,
     NotifyOwner, ShowPendingOrder, NothingToShow, Leads, Send, Refused, FoundSent, BeginSend, SendEnds,
     SendFails, Guard, Answered, KeepSilent, HeldByPacing, FallBack, Close, orderVars
<1>2. CASE Crash \/ OptOut \/ OptIn \/ Midnight \/ UNCHANGED vars
  BY <1>2, Zenon DEF Crash, OptOut, OptIn, Midnight, vars, orderVars
<1> QED BY <1>1, <1>2, Zenon DEF Next, World

\* A draft stays with the message that books it, and one draft stays open.
LEMMA OrderStep ==
  ASSUME OrderInv, [Next]_vars
  PROVE  OrderInv'
<1>1. CASE UNCHANGED orderVars
  BY <1>1 DEF orderVars, OrderInv
<1>2. CASE DraftExpires
  BY <1>2 DEF DraftExpires, OrderInv
<1>3. ASSUME NEW m \in Turns, PrepareOrder(m)
      PROVE  OrderInv'
  <2>1. CASE drafts[m] # "none"
    BY <1>3, <2>1 DEF PrepareOrder, OrderInv
  <2>2. CASE drafts[m] = "none"
    <3>1. /\ drafts' = [d \in Turns |-> IF d = m THEN "open"
                                       ELSE IF drafts[d] = "open" THEN "gone" ELSE drafts[d]]
          /\ bookedBy' = bookedBy
      BY <1>3, <2>2 DEF PrepareOrder, Superseding
    <3> QED BY <2>2, <3>1 DEF OrderInv
  <2> QED BY <2>1, <2>2
<1>4. ASSUME NEW m \in Turns, ConfirmOrder(m) \/ SkipClosing(m) \/ CloseWithModel(m)
      PROVE  OrderInv'
  <2>1. Book(m) \/ UNCHANGED orderVars
    BY <1>4, Zenon DEF ConfirmOrder, SkipClosing, CloseWithModel, Net
  <2> QED BY <1>1, <2>1, BookKept
<1> QED BY <1>1, <1>2, <1>3, <1>4, DraftsMove

\* The turns as a whole, once each message is known to be in shape.
LEMMA TurnsTyped ==
  ASSUME turn \in [Turns -> TurnRecord], [Next]_vars, \A m \in Turns : Message(m)'
  PROVE  turn' \in [Turns -> TurnRecord]
<1>1. \A m \in Turns : turn'[m] \in TurnRecord
  BY DEF Message, Shaped
<1>2. CASE turn' = turn
  BY <1>2
<1>3. CASE Crash
  BY <1>1, <1>3 DEF Crash
<1>4. ASSUME NEW m \in Turns, NEW t, turn' = [turn EXCEPT ![m] = t]
      PROVE  turn' \in [Turns -> TurnRecord]
  <2>1. t \in TurnRecord
    BY <1>1, <1>4
  <2> QED BY <1>4, <2>1
<1>5. ASSUME NEW m \in Turns, Step(m)
      PROVE  \E t : turn' = [turn EXCEPT ![m] = t]
  <2>1. CASE Attempt(m) \/ BudgetRefuses(m) \/ ModelFails(m)
    BY <2>1, Zenon DEF Attempt, Open, Complete, HoldForSession, ConsumeAttempt, BudgetRefuses, ModelFails,
       Throws, Defers, End, Go
  <2>2. CASE CallModel(m) \/ ModelAnswers(m)
    BY <2>2 DEF CallModel, ModelAnswers, Go
  <2>3. CASE \/ ReadOrRefuse(m) \/ ClaimPayment(m) \/ RequestRefund(m) \/ StatusRefused(m)
             \/ NotifyOwner(m) \/ PrepareOrder(m) \/ ShowPendingOrder(m) \/ NothingToShow(m)
             \/ ConfirmOrder(m)
    BY <2>3, Zenon DEF ReadOrRefuse, ClaimPayment, RequestRefund, StatusRefused, NotifyOwner, PrepareOrder,
       ShowPendingOrder, NothingToShow, ConfirmOrder, Leads, Go
  <2>4. CASE Send(m) \/ Guard(m) \/ Close(m)
    BY <2>4, Zenon DEF Send, Refused, FoundSent, BeginSend, SendEnds, SendFails, Guard, Answered, KeepSilent,
       HeldByPacing, FallBack, Leads, Close, SkipClosing, CloseWithModel, Go
  <2> QED BY <1>5, <2>1, <2>2, <2>3, <2>4, Zenon DEF Step, Loop
<1>6. World => turn' = turn
  BY Zenon DEF World, OptOut, OptIn, DraftExpires, Midnight
<1> QED BY <1>2, <1>3, <1>4, <1>5, <1>6 DEF Next, vars

\* The variables no message's invariant speaks of.
LEMMA JobsTyped ==
  ASSUME Typed, \A m \in Turns : Message(m), [Next]_vars
  PROVE  /\ job' \in [Turns -> [status : {"absent", "ready", "running", "done", "failed"},
                               attempts : 0..MaxAttempts]]
         /\ holds' \in [Turns -> 0..MaxHolds]
         /\ outcome' \in [Turns -> Outcomes]
<1> DEFINE Jobs == [status : {"absent", "ready", "running", "done", "failed"}, attempts : 0..MaxAttempts]
<1>0. /\ job \in [Turns -> Jobs] /\ holds \in [Turns -> 0..MaxHolds] /\ outcome \in [Turns -> Outcomes]
      /\ MaxAttempts \in Nat /\ MaxHolds \in Nat
      /\ turn \in [Turns -> TurnRecord]
  BY TurnAssumption DEF Typed
<1> DEFINE Goal == job' \in [Turns -> Jobs] /\ holds' \in [Turns -> 0..MaxHolds] /\ outcome' \in [Turns -> Outcomes]
<1>1. ASSUME NEW m \in Turns, Open(m) PROVE Goal
  <2>1. [status |-> "running", attempts |-> job[m].attempts + 1] \in Jobs
    BY <1>0, <1>1 DEF Open
  <2> QED BY <1>0, <1>1, <2>1 DEF Open, Outcomes
<1>2. ASSUME NEW m \in Turns, NEW status \in {"absent", "ready", "running", "done", "failed"},
             NEW n \in 0..MaxAttempts, NEW how \in Outcomes, End(m, status, n, how)
      PROVE  job' \in [Turns -> Jobs] /\ outcome' \in [Turns -> Outcomes]
  BY <1>0, <1>2 DEF End
<1>3. ASSUME NEW m \in Turns, job[m].status = "running"
      PROVE  job[m].attempts \in 0..MaxAttempts /\ job[m].attempts - 1 \in 0..MaxAttempts
  <2>1. job[m].attempts \in 0..MaxAttempts /\ job[m].attempts # 0
    BY <1>0, <1>3 DEF Message, Attempted
  <2> DEFINE a == job[m].attempts
  <2>2. a \in 0..MaxAttempts /\ a # 0
    BY <2>1
  <2> HIDE DEF a
  <2>3. a - 1 \in 0..MaxAttempts
    BY <1>0, <2>2
  <2> QED BY <2>2, <2>3 DEF a
<1>4. ASSUME NEW m \in Turns,
             Complete(m) \/ HoldForSession(m) \/ ConsumeAttempt(m) \/ BudgetRefuses(m) \/ ModelFails(m)
      PROVE  Goal
  <2>1. job[m].status = "running"
    <3>1. turn[m].at # "idle"
      BY <1>4, Zenon DEF Complete, HoldForSession, ConsumeAttempt, BudgetRefuses, ModelFails, CallsModel, At
    <3> QED BY <3>1 DEF Message, Attempted
  <2>2. turn[m].hint \in Outcomes
    BY <1>0 DEF TurnRecord, Outcomes
  <2>3. CASE Complete(m)
    <3>1. End(m, "done", job[m].attempts, turn[m].hint) /\ holds' = [holds EXCEPT ![m] = 0]
      BY <2>3 DEF Complete
    <3> QED BY <1>0, <1>2, <1>3, <2>1, <2>2, <3>1
  <2>4. CASE HoldForSession(m) \/ BudgetRefuses(m)
    <3>1. End(m, "ready", job[m].attempts - 1, "deferred")
      BY <2>4 DEF HoldForSession, BudgetRefuses, Defers
    <3>2. holds' \in [Turns -> 0..MaxHolds]
      BY <1>0, <2>4 DEF HoldForSession, BudgetRefuses
    <3> QED BY <1>2, <1>3, <2>1, <3>1, <3>2 DEF Outcomes
  <2>5. CASE ConsumeAttempt(m) \/ ModelFails(m)
    <3>1. Throws(m) /\ holds' = holds
      BY <2>5 DEF ConsumeAttempt, ModelFails
    <3>2. PICK status \in {"ready", "failed"} : End(m, status, job[m].attempts, "error")
      BY <3>1 DEF Throws
    <3> QED BY <1>0, <1>2, <1>3, <2>1, <3>1, <3>2 DEF Outcomes
  <2> QED BY <1>4, <2>3, <2>4, <2>5
<1>5. CASE Crash
  <2>1. \A m \in Turns : [job[m] EXCEPT !.status = IF job[m].attempts < MaxAttempts
                                                THEN "ready" ELSE "failed"] \in Jobs
    BY <1>0
  <2>2. job' \in [Turns -> Jobs]
    BY <1>0, <1>5, <2>1 DEF Crash
  <2>3. 0 \in 0..MaxHolds
    BY <1>0
  <2>4. holds' \in [Turns -> 0..MaxHolds] /\ outcome' = outcome
    BY <1>5, <2>3 DEF Crash
  <2> QED BY <1>0, <2>2, <2>4
<1>6. CASE UNCHANGED jobVars
  BY <1>0, <1>6 DEF jobVars
<1>7. ASSUME NEW m \in Turns, Step(m)
      PROVE  \/ UNCHANGED jobVars \/ Open(m)
             \/ Complete(m) \/ HoldForSession(m) \/ ConsumeAttempt(m) \/ BudgetRefuses(m) \/ ModelFails(m)
  BY <1>7, Zenon DEF Step, Attempt, Loop, CallModel, ModelAnswers, ReadOrRefuse, ClaimPayment, RequestRefund,
     StatusRefused, NotifyOwner, PrepareOrder, ShowPendingOrder, NothingToShow, ConfirmOrder, Leads, Send,
     Refused, FoundSent, BeginSend, SendEnds, SendFails, Guard, Answered, KeepSilent, HeldByPacing,
     FallBack, Close, SkipClosing, CloseWithModel
<1>8. CASE World \/ UNCHANGED vars
  <2>1. UNCHANGED jobVars
    BY <1>8, Zenon DEF World, OptOut, OptIn, DraftExpires, Midnight, vars
  <2> QED BY <1>6, <2>1
<1> QED BY <1>1, <1>4, <1>5, <1>6, <1>7, <1>8, Zenon DEF Next

\* The ledger, the handoffs and what the turns share keep their types.
LEMMA LedgerTyped ==
  ASSUME Inv, [Next]_vars
  PROVE  ledger' \in [Turns -> [Slots -> Rows]]
<1>0. Typed /\ ledger \in [Turns -> [Slots -> Rows]]
  BY DEF Inv, Typed
<1>1. CASE UNCHANGED ledger
  BY <1>0, <1>1
<1>2. ASSUME NEW m \in Turns, BeginSend(m) \/ SendEnds(m) \/ SendFails(m)
      PROVE  ledger' \in [Turns -> [Slots -> Rows]]
  BY <1>2, BeginKept, EndsKept, FailsKept
<1>3. ASSUME NEW m \in Turns, ledger' = [ledger EXCEPT ![m]["busy"] = "sent"]
      PROVE  ledger' \in [Turns -> [Slots -> Rows]]
  <2>1. "busy" \in Slots /\ "sent" \in Rows
    BY SlotFacts DEF Rows
  <2> QED BY <1>0, <1>3, <2>1, RowWritten
<1>4. CASE Crash
  <2>1. \A m \in Turns, s \in Slots :
          (IF ledger[m][s] = "pending" THEN "uncertain" ELSE ledger[m][s]) \in Rows
    BY <1>0 DEF Rows
  <2>2. ledger' = [m \in Turns |-> [s \in Slots |->
                     IF ledger[m][s] = "pending" THEN "uncertain" ELSE ledger[m][s]]]
    BY <1>4 DEF Crash
  <2> QED BY <2>1, <2>2
<1>5. ASSUME NEW m \in Turns, Step(m)
      PROVE  \/ UNCHANGED ledger \/ BeginSend(m) \/ SendEnds(m) \/ SendFails(m)
             \/ ledger' = [ledger EXCEPT ![m]["busy"] = "sent"]
  BY <1>5, Zenon DEF Step, Attempt, Open, Complete, HoldForSession, ConsumeAttempt, Loop, CallModel,
     BudgetRefuses, ModelFails, ModelAnswers, ReadOrRefuse, ClaimPayment, RequestRefund, StatusRefused,
     NotifyOwner, PrepareOrder, ShowPendingOrder, NothingToShow, ConfirmOrder, Leads, Send, Refused,
     FoundSent, Guard, Answered, KeepSilent, HeldByPacing, FallBack, Close, SkipClosing, CloseWithModel
<1>6. CASE World \/ UNCHANGED vars
  <2>1. UNCHANGED ledger
    BY <1>6, Zenon DEF World, OptOut, OptIn, DraftExpires, Midnight, vars
  <2> QED BY <1>1, <2>1
<1> QED BY <1>1, <1>2, <1>3, <1>4, <1>5, <1>6, Zenon DEF Next

\* So do the handoffs.
LEMMA NotedTyped ==
  ASSUME Inv, [Next]_vars
  PROVE  noted' \in [Turns -> SUBSET Handoffs]
<1>0. noted \in [Turns -> SUBSET Handoffs]
  BY DEF Inv, Typed
<1>1. CASE UNCHANGED noted
  BY <1>0, <1>1
<1>2. ASSUME NEW m \in Turns, NEW kind \in Handoffs, Note(m, kind)
      PROVE  noted' \in [Turns -> SUBSET Handoffs]
  BY <1>0, <1>2 DEF Note
<1>3. {"reply_failure", "customer_handoff"} \subseteq Handoffs
  BY DEF Handoffs
<1>4. ASSUME NEW m \in Turns, Close(m)
      PROVE  noted' \in [Turns -> SUBSET Handoffs]
  BY <1>4, CloseKept
<1>5. ASSUME NEW m \in Turns, Step(m)
      PROVE  \/ UNCHANGED noted \/ Close(m)
             \/ Note(m, "reply_failure") \/ Note(m, "customer_handoff")
  BY <1>5, Zenon DEF Step, Attempt, Open, Complete, HoldForSession, ConsumeAttempt, Loop, CallModel,
     BudgetRefuses, ModelFails, ModelAnswers, ReadOrRefuse, ClaimPayment, RequestRefund, StatusRefused,
     NotifyOwner, PrepareOrder, ShowPendingOrder, NothingToShow, ConfirmOrder, Leads, Send, Refused,
     FoundSent, BeginSend, SendEnds, SendFails, NoteFallback, Guard, Answered, KeepSilent, HeldByPacing,
     FallBack
<1>6. CASE Crash \/ World \/ UNCHANGED vars
  <2>1. UNCHANGED noted
    BY <1>6, Zenon DEF Crash, World, OptOut, OptIn, DraftExpires, Midnight, vars
  <2> QED BY <1>1, <2>1
<1> QED
  <2>1. "reply_failure" \in Handoffs /\ "customer_handoff" \in Handoffs
    BY <1>3
  <2> QED BY <1>1, <1>2, <2>1, <1>4, <1>5, <1>6, Zenon DEF Next

\* So do consent, the memory and the count of restarts.
LEMMA SharedTyped ==
  ASSUME Typed, [Next]_vars
  PROVE  /\ optedOut' \in BOOLEAN /\ stopped' \subseteq Turns
         /\ remembered' \in BOOLEAN /\ uncovered' \subseteq Turns
         /\ crashes' \in Nat
<1>0. /\ optedOut \in BOOLEAN /\ stopped \subseteq Turns
      /\ remembered \in BOOLEAN /\ uncovered \subseteq Turns /\ crashes \in Nat
  BY DEF Typed
<1>1. CASE UNCHANGED <<consentVars, memoryVars, crashes>>
  BY <1>0, <1>1 DEF consentVars, memoryVars
<1>2. ASSUME NEW m \in Turns, Open(m)
      PROVE  /\ optedOut' = optedOut /\ stopped' \subseteq Turns
             /\ remembered' = remembered /\ uncovered' \subseteq Turns /\ crashes' = crashes
  BY <1>0, <1>2 DEF Open
<1>3. ASSUME NEW m \in Turns, CloseWithModel(m)
      PROVE  /\ UNCHANGED consentVars /\ remembered' = TRUE /\ uncovered' = {} /\ crashes' = crashes
  BY <1>3 DEF CloseWithModel
<1>4. CASE OptOut
  BY <1>0, <1>4 DEF OptOut, memoryVars
<1>5. CASE OptIn
  BY <1>0, <1>5 DEF OptIn, memoryVars
<1>6. CASE Crash
  BY <1>0, <1>6 DEF Crash, memoryVars, consentVars
<1>7. ASSUME NEW m \in Turns, Step(m)
      PROVE  UNCHANGED <<consentVars, memoryVars, crashes>> \/ Open(m) \/ CloseWithModel(m)
  BY <1>7, Zenon DEF Step, Attempt, Complete, HoldForSession, ConsumeAttempt, Loop, CallModel,
     BudgetRefuses, ModelFails, ModelAnswers, ReadOrRefuse, ClaimPayment, RequestRefund, StatusRefused,
     NotifyOwner, PrepareOrder, ShowPendingOrder, NothingToShow, ConfirmOrder, Leads, Send, Refused,
     FoundSent, BeginSend, SendEnds, SendFails, Guard, Answered, KeepSilent, HeldByPacing, FallBack,
     Close, SkipClosing
<1>8. CASE DraftExpires \/ Midnight \/ UNCHANGED vars
  <2>1. UNCHANGED <<consentVars, memoryVars, crashes>>
    BY <1>8, Zenon DEF DraftExpires, Midnight, vars, consentVars, memoryVars
  <2> QED BY <1>1, <2>1
<1>9. ASSUME NEW m \in Turns, Step(m)
      PROVE  /\ optedOut' \in BOOLEAN /\ stopped' \subseteq Turns
             /\ remembered' \in BOOLEAN /\ uncovered' \subseteq Turns
             /\ crashes' \in Nat
  BY <1>0, <1>1, <1>2, <1>3, <1>7, <1>9 DEF consentVars
<1> QED BY <1>4, <1>5, <1>6, <1>8, <1>9, Zenon DEF Next, World

\* Every message stays in shape, whoever takes the step.
LEMMA MessagesStep ==
  ASSUME Inv, [Next]_vars
  PROVE  \A m \in Turns : Message(m)'
<1>0. \A m \in Turns : Message(m)
  BY DEF Inv
<1>1. CASE World
  BY <1>0, <1>1, WorldSame, SameKept
<1>2. CASE Crash
  BY <1>2, CrashKept
<1>3. CASE UNCHANGED vars
  <2>1. ASSUME NEW m \in Turns PROVE Same(m)
    BY <1>3 DEF vars, budgetVars, jobVars, consentVars, Same
  <2> QED BY <1>0, <2>1, SameKept
<1>4. ASSUME NEW n \in Turns, Step(n)
      PROVE  Message(n)'
  <2>1. CASE Attempt(n)
    BY <2>1, OpenKept, EndingKept DEF Attempt
  <2>2. CASE Loop(n)
    BY <2>2, ModelKept, EndingKept, ToolKept, SummaryKept, NothingKept DEF Loop
  <2>3. CASE Send(n)
    BY <2>3, RefusedKept, FoundKept, BeginKept, EndsKept, FailsKept DEF Send
  <2>4. CASE Guard(n)
    BY <2>4, GuardKept
  <2>5. CASE Close(n)
    BY <2>5, CloseKept
  <2> QED BY <1>4, <2>1, <2>2, <2>3, <2>4, <2>5 DEF Step
<1>5. ASSUME NEW n \in Turns, Step(n)
      PROVE  \A m \in Turns : Message(m)'
  <2>1. ASSUME NEW m \in Turns \ {n} PROVE Message(m)'
    BY <1>0, <1>5, <2>1, OthersSame, SameKept
  <2> QED BY <1>4, <1>5, <2>1
<1> QED BY <1>1, <1>2, <1>3, <1>5, Zenon DEF Next

-----------------------------------------------------------------------------
(* The theorems. *)

\* What was answered before is in the ledger as sent.
LEMMA Begins == Init => Inv
<1> SUFFICES ASSUME Init PROVE Inv
  OBVIOUS
<1> USE TurnAssumption, BudgetAssumption
<1>1. Typed
  <2>1. BudgetTypeOK
    BY DEF Init, BudgetInit, BudgetTypeOK
  <2>2. /\ job \in [Turns -> [status : {"absent", "ready", "running", "done", "failed"},
                              attempts : 0..MaxAttempts]]
        /\ holds \in [Turns -> 0..MaxHolds] /\ outcome \in [Turns -> Outcomes]
    <3>1. 0 \in 0..MaxHolds /\ 0 \in 0..MaxAttempts /\ 1 \in 0..MaxAttempts
      OBVIOUS
    <3> QED BY <3>1 DEF Init, Outcomes
  <2>3. turn \in [Turns -> TurnRecord]
    BY NoTurnShaped DEF Init, Shaped
  <2>4. ledger \in [Turns -> [Slots -> Rows]]
    BY DEF Init, Rows
  <2> QED BY <2>1, <2>2, <2>3, <2>4 DEF Init, Typed
<1>2. OrderInv
  BY DEF Init, OrderInv, Slots
<1>3. BudgetInv
  <2>1. {m \in Turns : flight[m] = "today"} = {}
    BY DEF Init, BudgetInit
  <2>2. Cardinality({m \in Turns : flight[m] = "today"}) = 0
    BY <2>1, FS_EmptySet
  <2>3. Cardinality(Turns) \in Nat
    BY FS_CardinalityType
  <2> DEFINE N == Cardinality(Turns)
             k == Cardinality({m \in Turns : flight[m] = "today"})
  <2>4. k = 0 /\ N \in Nat /\ calls = 0 /\ tokens = 0
    BY <2>2, <2>3 DEF Init, BudgetInit
  <2> HIDE DEF N, k
  <2>5. 0 * MaxTokens = 0 /\ 0 * MaxTokens <= N * MaxTokens /\ N * MaxTokens \in Nat
    BY <2>4, TimesGrows
  <2>6. calls <= CallLimit /\ tokens + k * MaxTokens < TokenLimit + N * MaxTokens
    BY <2>4, <2>5
  <2> QED BY <2>6 DEF BudgetInv, N, k
<1>4. ASSUME NEW m \in Turns PROVE Message(m)
  <2>1. Shaped(turn[m]) /\ turn[m] = NoTurn /\ turn[m].at = "idle"
    BY NoTurnShaped DEF Init, NoTurn
  <2>2. Attempted(m) /\ Stops(m)
    <3>1. job[m].status \in {"done", "ready", "absent"}
      BY DEF Init
    <3> QED BY <2>1, <3>1 DEF Init, BudgetInit, Attempted, Stops
  <2>3. Replying(m) /\ Hinted(m)
    BY <2>1 DEF NoTurn, Replying, Hinted, At
  <2>4. Finished(m)
    <3>1. CASE m \in Earlier
      <4>1. \E s \in Answers \ {"fallback"} : ledger[m][s] = "sent"
        <5>1. PICK shown \in SUBSET (Earlier \cap Orders) :
                ledger = [n \in Turns |-> [s \in Slots |->
                            IF n \in Earlier /\ s = (IF n \in shown THEN n ELSE "reply")
                            THEN "sent" ELSE "none"]]
          BY DEF Init
        <5> DEFINE s == IF m \in shown THEN m ELSE "reply"
        <5>2. s \in Answers \ {"fallback"} /\ s \in Slots
          BY SlotFacts DEF Answers, Slots
        <5>3. ledger[m][s] = "sent"
          BY <3>1, <5>1, <5>2
        <5> HIDE DEF s
        <5> QED BY <5>2, <5>3
      <4>2. outcome[m] = "replied"
        BY <3>1 DEF Init
      <4> QED BY <4>1, <4>2 DEF Finished, HasSent, Has, Settled
    <3>2. CASE m \notin Earlier
      <4>1. job[m].status \in {"ready", "absent"}
        BY <3>2 DEF Init
      <4> QED BY <4>1 DEF Finished
    <3> QED BY <3>1, <3>2
  <2> QED BY <2>1, <2>2, <2>3, <2>4 DEF Message
<1> QED BY <1>1, <1>2, <1>3, <1>4 DEF Inv

\* The invariant is inductive.
LEMMA StepKept == Inv /\ [Next]_vars => Inv'
<1> SUFFICES ASSUME Inv, [Next]_vars PROVE Inv'
  OBVIOUS
<1>1. /\ Typed /\ OrderInv /\ BudgetInv /\ BudgetTypeOK /\ turn \in [Turns -> TurnRecord]
      /\ \A m \in Turns : Message(m)
  BY DEF Inv, Typed
<1>2. \A m \in Turns : Message(m)'
  BY MessagesStep
<1>3. BudgetTypeOK' /\ BudgetInv'
  BY <1>1, BudgetMoves, BudgetStep
<1>4. OrderInv'
  BY <1>1, OrderStep
<1>5. Typed'
  <2>1. turn' \in [Turns -> TurnRecord]
    BY <1>1, <1>2, TurnsTyped
  <2>2. /\ job' \in [Turns -> [status : {"absent", "ready", "running", "done", "failed"},
                               attempts : 0..MaxAttempts]]
        /\ holds' \in [Turns -> 0..MaxHolds]
        /\ outcome' \in [Turns -> Outcomes]
    BY <1>1, JobsTyped
  <2>3. ledger' \in [Turns -> [Slots -> Rows]]
    BY LedgerTyped
  <2>4. noted' \in [Turns -> SUBSET Handoffs]
    BY NotedTyped
  <2>5. /\ optedOut' \in BOOLEAN /\ stopped' \subseteq Turns
        /\ remembered' \in BOOLEAN /\ uncovered' \subseteq Turns /\ crashes' \in Nat
    BY <1>1, SharedTyped
  <2> QED BY <1>3, <2>1, <2>2, <2>3, <2>4, <2>5 DEF Typed
<1> QED BY <1>2, <1>3, <1>4, <1>5 DEF Inv

\* The invariant holds in every reachable state.
LEMMA AlwaysInv == Spec => []Inv
BY Begins, StepKept, PTL DEF Spec

\* The variables keep their types; a turn runs exactly while its job does, a
\* reserved call belongs to a turn that waits for it, a booked draft has the
\* message that booked it, and one draft at most is open.
THEOREM TypesKept == Spec => []TypeOK
<1>1. Inv => TypeOK
  BY DEF Inv, Typed, OrderInv, TypeOK, Message, Attempted
<1> QED BY <1>1, AlwaysInv, PTL

\* A completed message is answered, or may have been, or the owner was told, or
\* the customer had opted out; the one way out is a reply the gateway refused
\* whose second wording the ledger took for the first (runTurn's guard, over
\* refusals, failures, retries, restarts and STOP).
THEOREM SilenceExplained == Spec => []OnlyRejectedRepliesAreLost
<1>1. ASSUME Inv, NEW m \in Turns, job[m].status = "done"
      PROVE  Answerable(m) \/ Has(m, {"rejected"}, Reworded)
  <2>1. Finished(m)
    BY <1>1 DEF Inv, Message
  <2>2. /\ Answers \subseteq Slots /\ "fallback" \in Answers
        /\ "reply" \in Reworded /\ "fallback" \in Reworded
    BY TurnAssumption DEF Answers, Slots, Reworded
  <2>3. HasSent(m, Answers \ {"fallback"}) => HasSent(m, Answers)
    BY DEF HasSent, Has
  <2>4. ledger[m]["fallback"] \in Settled => HasSent(m, Answers)
    BY <2>2 DEF HasSent, Has
  <2>5. ledger[m]["fallback"] = "rejected" \/ ledger[m]["reply"] = "rejected" =>
          Has(m, {"rejected"}, Reworded)
    BY <2>2 DEF Has
  <2> QED BY <1>1, <2>1, <2>3, <2>4, <2>5 DEF Finished, Answerable
<1>2. Inv => OnlyRejectedRepliesAreLost
  BY <1>1 DEF OnlyRejectedRepliesAreLost
<1> QED BY <1>2, AlwaysInv, PTL

\* The outcome in the trace of a completed message is what happened to it
\* (obs/trace.ts as runTurn and the job around it fill it in).
THEOREM TraceTold == Spec => []TracedAsItWas
<1>1. ASSUME Inv, NEW m \in Turns, job[m].status = "done"
      PROVE  /\ outcome[m] = "replied" =>
                  HasSent(m, Answers \ {"fallback"}) \/ Has(m, {"rejected"}, {"reply"})
             /\ outcome[m] = "fallback" => Has(m, Settled \cup {"rejected"}, {"fallback"})
             /\ outcome[m] = "no_reply" => "reply_failure" \in noted[m]
             /\ outcome[m] = "silenced" => m \in stopped
  <2>1. Finished(m)
    BY <1>1 DEF Inv, Message
  <2> QED BY <1>1, <2>1 DEF Finished, Has
<1>2. Inv => TracedAsItWas
  BY <1>1 DEF TracedAsItWas
<1> QED BY <1>2, AlwaysInv, PTL

\* A day's tokens pass their limit by less than one call of every turn, however
\* the calls overlap, fail, are cut off or end on another day (ai-budget.ts,
\* reserveAiModelCall and finishAiModelCall).
THEOREM SpendingBounded == Spec => []BudgetKept
<1>1. Inv => BudgetKept
  <2> SUFFICES ASSUME Inv PROVE BudgetKept
    OBVIOUS
  <2> DEFINE N == Cardinality(Turns)
             k == Cardinality({m \in Turns : flight[m] = "today"})
  <2>1. calls <= CallLimit /\ tokens + k * MaxTokens < TokenLimit + N * MaxTokens
    BY DEF Inv, BudgetInv
  <2>2. tokens \in Nat
    BY DEF Inv, Typed, BudgetTypeOK
  <2>3. N \in Nat /\ k \in Nat
    BY TodayFinite DEF Today
  <2>4. MaxTokens \in Nat /\ TokenLimit \in Nat
    BY BudgetAssumption
  <2> HIDE DEF N, k
  <2>5. k * MaxTokens \in Nat /\ N * MaxTokens \in Nat
    BY <2>3, <2>4, TimesGrows
  <2>6. tokens < TokenLimit + N * MaxTokens
    BY <2>1, <2>2, <2>4, <2>5
  <2> QED BY <2>6 DEF BudgetKept, N
<1> QED BY <1>1, AlwaysInv, PTL

\* A clear confirmation of an open order is never dropped when a turn closes:
\* asked of the server, booked, or handed to the owner (turn-close.ts).
THEOREM ConfirmationsHandled == Spec => ConfirmationsSettled
<1> DEFINE Handled(m) ==
      Closes(m) /\ m \in Confirms /\ OpenDrafts # {} =>
        \/ "confirm" \in turn[m].called
        \/ \E d \in Turns : bookedBy'[d] = m
        \/ "unlogged_order" \in noted'[m]
<1>1. ASSUME Inv, NEW m \in Turns, SkipClosing(m) \/ CloseWithModel(m), m \in Confirms, OpenDrafts # {},
             "confirm" \notin turn[m].called
      PROVE  (\E d \in Turns : bookedBy'[d] = m) \/ "unlogged_order" \in noted'[m]
  <2>1. PICK reported : Net(m, reported)
    BY <1>1, Zenon DEF SkipClosing, CloseWithModel
  <2>2. NetApplies(m)
    BY <1>1 DEF NetApplies
  <2>3. CASE UNCHANGED orderVars /\ noted' = [noted EXCEPT ![m] = @ \cup reported \cup {"unlogged_order"}]
    BY <1>1, <2>3 DEF Inv, Typed
  <2>4. CASE Book(m)
    <3>1. bookedBy \in [Turns -> Turns \cup {None}]
      BY <1>1 DEF Inv, OrderInv
    <3> QED BY <2>4, <3>1 DEF Book, AlreadyBooked, orderVars, Confirmable, OpenDrafts
  <2> QED BY <2>1, <2>2, <2>3, <2>4 DEF Net
<1>2. ASSUME Inv, [Next]_vars, NEW m \in Turns, Closes(m)
      PROVE  SkipClosing(m) \/ CloseWithModel(m)
  <2>0. Message(m) /\ turn \in [Turns -> TurnRecord]
    BY <1>2 DEF Inv, Typed
  <2>1. turn[m].at \in {"close", "closing"} /\ turn'[m].at = "finishing"
    BY <1>2 DEF Closes
  <2>2. turn'[m] # turn[m]
    BY <2>1
  <2>3. ~Crash
    BY <2>1 DEF Crash, NoTurn
  <2>4. PICK n \in Turns : Step(n)
    <3>1. World \/ UNCHANGED vars => turn' = turn
      BY Zenon DEF World, OptOut, OptIn, DraftExpires, Midnight, vars
    <3> QED BY <1>2, <2>2, <2>3, <3>1, Zenon DEF Next
  <2>5. n = m
    BY <1>2, <2>2, <2>4, OthersSame DEF Same
  <2>6. ~Attempt(m)
    BY <2>0, <2>1 DEF Attempt, Open, Complete, HoldForSession, ConsumeAttempt, At, Message, Attempted
  <2>7. ~(\/ ReadOrRefuse(m) \/ ClaimPayment(m) \/ RequestRefund(m) \/ StatusRefused(m)
          \/ NotifyOwner(m) \/ PrepareOrder(m) \/ ShowPendingOrder(m) \/ NothingToShow(m)
          \/ ConfirmOrder(m) \/ Send(m) \/ Guard(m) \/ ModelAnswers(m))
    <3>1. turn[m].at \notin {"tools", "trying", "sending", "after", "asked"}
      BY <2>1
    <3> QED BY <3>1, Zenon DEF ReadOrRefuse, ClaimPayment, RequestRefund, StatusRefused, NotifyOwner,
              PrepareOrder, ShowPendingOrder, NothingToShow, ConfirmOrder, Send, Refused, FoundSent,
              BeginSend, SendEnds, SendFails, Guard, Answered, KeepSilent, HeldByPacing, FallBack,
              ModelAnswers, Runs, At
  <2>8. ~CallModel(m)
    <3> SUFFICES ASSUME CallModel(m) PROVE FALSE
      OBVIOUS
    <3> DEFINE at == IF turn[m].at = "ask" THEN "asked" ELSE "closing"
               u == [turn[m] EXCEPT !.at = at]
    <3>1. turn'[m] = u
      BY <2>0 DEF CallModel, Go
    <3>2. u.at # "finishing"
      BY <2>0 DEF TurnRecord
    <3> QED BY <2>1, <3>1, <3>2
  <2>9. ~(BudgetRefuses(m) \/ ModelFails(m))
    <3> SUFFICES ASSUME BudgetRefuses(m) \/ ModelFails(m) PROVE FALSE
      OBVIOUS
    <3>1. turn' = [turn EXCEPT ![m] = NoTurn]
      BY Zenon DEF BudgetRefuses, ModelFails, Throws, Defers, End, Go
    <3> QED BY <2>0, <2>1, <3>1 DEF NoTurn
  <2> QED BY <2>4, <2>5, <2>6, <2>7, <2>8, <2>9, Zenon DEF Step, Loop, Close
<1>3. Inv /\ [Next]_vars => [\A m \in Turns : Handled(m)]_vars
  <2> SUFFICES ASSUME Inv, [Next]_vars, NEW m \in Turns, Closes(m), m \in Confirms, OpenDrafts # {}
               PROVE  \/ "confirm" \in turn[m].called
                      \/ \E d \in Turns : bookedBy'[d] = m
                      \/ "unlogged_order" \in noted'[m]
    OBVIOUS
  <2> QED BY <1>1, <1>2
<1> QED BY <1>3, AlwaysInv, PTL DEF Spec, ConfirmationsSettled, Handled
-----------------------------------------------------------------------------
(* The drafts implement TwoStepDesk. *)

\* The drafts as the desk sees them.
DeskDrafts == [d \in Turns |-> DraftAtDesk(d)]

\* A step of TwoStepDesk, said of the mapping.
LEMMA DraftDeskAs ==
  /\ \A m : DraftDesk!Prepare(m) <=>
       /\ DeskDrafts[m] = "none"
       /\ DeskDrafts' = [d \in Turns |-> IF d = m THEN "waiting"
                           ELSE IF DeskDrafts[d] = "waiting" THEN "gone" ELSE DeskDrafts[d]]
       /\ UNCHANGED bookedBy
  /\ \A m, d : DraftDesk!Decide(m, d) <=>
       /\ DeskDrafts[d] = "waiting"
       /\ \A e \in Turns : bookedBy[e] # m
       /\ \E how \in {"done", "gone"} : DeskDrafts' = [DeskDrafts EXCEPT ![d] = how]
       /\ bookedBy' = [bookedBy EXCEPT ![d] = m]
  /\ \A d : DraftDesk!Drop(d) <=>
       /\ DeskDrafts[d] = "waiting"
       /\ DeskDrafts' = [DeskDrafts EXCEPT ![d] = "gone"]
       /\ UNCHANGED bookedBy
BY DEF DraftDesk!Prepare, DraftDesk!Decide, DraftDesk!Drop, DraftDesk!Waits, DeskDrafts

\* A booking decides the open draft, or was made before.
LEMMA BookDecides ==
  ASSUME OrderInv, NEW m \in Turns, Book(m)
  PROVE  UNCHANGED orderVars \/ \E d \in Turns : DraftDesk!Decide(m, d)
<1>1. CASE UNCHANGED orderVars
  BY <1>1
<1>2. ASSUME NEW d \in Confirmable(m), ~AlreadyBooked(m),
             drafts' = [drafts EXCEPT ![d] = "booked"],
             bookedBy' = [bookedBy EXCEPT ![d] = m]
      PROVE  \E e \in Turns : DraftDesk!Decide(m, e)
  <2>1. d \in Turns /\ drafts[d] = "open"
    BY DEF Confirmable, OpenDrafts
  <2>2. DraftAtDesk(d) = "waiting" /\ DraftAtDesk(d)' = "done"
    BY <1>2, <2>1 DEF OrderInv, DraftAtDesk
  <2>3. \A e \in Turns \ {d} : DraftAtDesk(e)' = DraftAtDesk(e)
    BY <1>2, <2>1 DEF OrderInv, DraftAtDesk
  <2>4. DeskDrafts[d] = "waiting" /\ DeskDrafts' = [DeskDrafts EXCEPT ![d] = "done"]
    BY <2>1, <2>2, <2>3 DEF DeskDrafts
  <2>5. \A e \in Turns : bookedBy[e] # m
    BY <1>2 DEF AlreadyBooked
  <2> QED BY <1>2, <2>1, <2>4, <2>5, DraftDeskAs
<1> QED BY <1>1, <1>2 DEF Book

\* A new summary replaces the open one.
LEMMA SummaryPrepares ==
  ASSUME OrderInv, NEW m \in Turns, PrepareOrder(m)
  PROVE  UNCHANGED orderVars \/ DraftDesk!Prepare(m)
<1>1. CASE drafts[m] # "none"
  BY <1>1 DEF PrepareOrder, orderVars
<1>2. CASE drafts[m] = "none"
  <2>1. /\ drafts' = [d \in Turns |-> IF d = m THEN "open"
                                     ELSE IF drafts[d] = "open" THEN "gone" ELSE drafts[d]]
        /\ bookedBy' = bookedBy
    BY <1>2 DEF PrepareOrder, Superseding
  <2>2. DraftAtDesk(m) = "none" /\ DraftAtDesk(m)' = "waiting"
    BY <1>2, <2>1 DEF DraftAtDesk
  <2>3. \A d \in Turns \ {m} :
          DraftAtDesk(d)' = IF DraftAtDesk(d) = "waiting" THEN "gone" ELSE DraftAtDesk(d)
    BY <2>1 DEF OrderInv, DraftAtDesk
  <2>4. DeskDrafts[m] = "none"
    BY <2>2 DEF DeskDrafts
  <2>5. DeskDrafts' = [d \in Turns |-> IF d = m THEN "waiting"
                         ELSE IF DeskDrafts[d] = "waiting" THEN "gone" ELSE DeskDrafts[d]]
    BY <2>2, <2>3 DEF DeskDrafts
  <2> QED BY <2>1, <2>4, <2>5, DraftDeskAs
<1> QED BY <1>1, <1>2

\* The one open draft runs out.
LEMMA ExpiryDrops ==
  ASSUME OrderInv, DraftExpires
  PROVE  \E d \in Turns : DraftDesk!Drop(d)
<1>1. PICK d \in Turns : drafts[d] = "open"
  BY DEF DraftExpires, OpenDrafts
<1>2. /\ drafts' = [e \in Turns |-> IF drafts[e] = "open" THEN "gone" ELSE drafts[e]]
      /\ bookedBy' = bookedBy
  BY DEF DraftExpires
<1>3. DraftAtDesk(d) = "waiting" /\ DraftAtDesk(d)' = "gone"
  BY <1>1, <1>2 DEF DraftAtDesk
<1>4. \A e \in Turns \ {d} : DraftAtDesk(e)' = DraftAtDesk(e)
  BY <1>1, <1>2 DEF OrderInv, DraftAtDesk
<1>5. DeskDrafts[d] = "waiting" /\ DeskDrafts' = [DeskDrafts EXCEPT ![d] = "gone"]
  BY <1>3, <1>4 DEF DeskDrafts
<1> QED BY <1>2, <1>5, DraftDeskAs

\* Every step of the turns is one of the desk, or changes nothing there.
LEMMA DraftDeskStep ==
  OrderInv /\ [Next]_vars => [DraftDesk!Next]_(DraftDesk!vars)
<1> SUFFICES ASSUME OrderInv, [Next]_vars
             PROVE  DraftDesk!Next \/ UNCHANGED <<DeskDrafts, bookedBy>>
  BY DEF DraftDesk!vars, DeskDrafts
<1>1. CASE UNCHANGED orderVars
  <2>1. drafts' = drafts /\ bookedBy' = bookedBy
    BY <1>1 DEF orderVars
  <2>2. \A d \in Turns : DraftAtDesk(d)' = DraftAtDesk(d)
    BY <2>1 DEF DraftAtDesk
  <2> QED BY <2>1, <2>2 DEF DeskDrafts
<1>2. CASE DraftExpires
  <2>1. \E d \in Turns : DraftDesk!Drop(d)
    BY <1>2, ExpiryDrops
  <2> QED BY <2>1, Zenon DEF DraftDesk!Next
<1>3. ASSUME NEW m \in Turns, PrepareOrder(m)
      PROVE  UNCHANGED orderVars \/ DraftDesk!Next
  BY <1>3, SummaryPrepares, Zenon DEF DraftDesk!Next
<1>4. ASSUME NEW m \in Turns, ConfirmOrder(m) \/ SkipClosing(m) \/ CloseWithModel(m)
      PROVE  UNCHANGED orderVars \/ DraftDesk!Next
  <2>1. Book(m) \/ UNCHANGED orderVars
    BY <1>4, Zenon DEF ConfirmOrder, SkipClosing, CloseWithModel, Net
  <2>2. UNCHANGED orderVars \/ \E d \in Turns : DraftDesk!Decide(m, d)
    BY <2>1, BookDecides
  <2> QED BY <2>2, Zenon DEF DraftDesk!Next
<1> QED BY <1>1, <1>2, <1>3, <1>4, DraftsMove

\* At first at most one summary waits, and none is booked.
LEMMA DraftDeskInit == Init => DraftDesk!Init
<1> SUFFICES ASSUME Init PROVE DraftDesk!Init
  OBVIOUS
<1>1. /\ \A d \in Turns : drafts[d] \in {"none", "open"}
      /\ \A d, e \in Turns : drafts[d] = "open" /\ drafts[e] = "open" => d = e
      /\ bookedBy = [m \in Turns |-> None]
  BY DEF Init
<1>2. /\ \A d \in Turns : DraftAtDesk(d) \in {"none", "waiting"}
      /\ \A d \in Turns : DraftAtDesk(d) = "waiting" => drafts[d] = "open"
  BY <1>1 DEF DraftAtDesk
<1> QED BY <1>1, <1>2 DEF DraftDesk!Init, DraftDesk!Waits

\* Over every interleaving of the attempts on a customer's messages, reruns,
\* restarts and expiry: a summary is booked once and by one message, the one that
\* waits is the last one prepared, and none comes back (tools/orders.ts).
THEOREM RefinesDraftDesk == Spec => ImplementsDraftDesk
<1>1. Inv => OrderInv
  BY DEF Inv
<1> QED BY <1>1, DraftDeskInit, DraftDeskStep, AlwaysInv, PTL
        DEF Spec, ImplementsDraftDesk, DraftDesk!Spec
=============================================================================
