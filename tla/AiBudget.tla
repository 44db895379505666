------------------------------ MODULE AiBudget ------------------------------
(***************************************************************************)
(* The daily allowance of model calls (ai-budget.ts) as callModel (llm.ts) *)
(* uses it: a call is reserved in one transaction before the request is    *)
(* made, its tokens are known only when it ends, and both are counted on   *)
(* the day it was reserved.  Several turns call the model at once.         *)
(***************************************************************************)
EXTENDS Integers, FiniteSets

CONSTANTS
  Turns,       \* whoever may call the model; one call at a time each
  CallLimit,   \* AI_DAILY_CALL_LIMIT
  TokenLimit,  \* AI_DAILY_TOKEN_LIMIT
  MaxTokens,   \* the most tokens one call can take
  MaxNights    \* bound: midnights

ASSUME BudgetAssumption ==
  /\ IsFiniteSet(Turns)
  /\ CallLimit \in Nat \ {0}
  /\ TokenLimit \in Nat \ {0}
  /\ MaxTokens \in Nat
  /\ MaxNights \in Nat

VARIABLES
  calls,   \* rows of ai_model_calls with today's day_key
  tokens,  \* the sum of their total_tokens
  flight,  \* the reserved row of a turn: of today, of an earlier day, or none
  nights

budgetVars == <<calls, tokens, flight, nights>>

BudgetTypeOK ==
  /\ calls \in Nat
  /\ tokens \in Nat
  /\ flight \in [Turns -> {"none", "today", "earlier"}]
  /\ nights \in Nat

BudgetInit ==
  /\ calls = 0
  /\ tokens = 0
  /\ flight = [m \in Turns |-> "none"]
  /\ nights = 0

-----------------------------------------------------------------------------

\* Neither limit may have been reached when a call is reserved.
Exhausted == calls >= CallLimit \/ tokens >= TokenLimit

Reserve(m) ==
  /\ ~Exhausted
  /\ calls' = calls + 1
  /\ flight' = [flight EXCEPT ![m] = "today"]
  /\ UNCHANGED <<tokens, nights>>

\* The answer arrives with its usage, 0 when the provider reports none or the
\* call failed; a row of an earlier day counts there.
FinishCall(m, used) ==
  /\ flight[m] # "none"
  /\ tokens' = IF flight[m] = "today" THEN tokens + used ELSE tokens
  /\ flight' = [flight EXCEPT ![m] = "none"]
  /\ UNCHANGED <<calls, nights>>

\* A new day_key: no rows yet.
NewDay ==
  /\ nights < MaxNights
  /\ nights' = nights + 1
  /\ calls' = 0
  /\ tokens' = 0
  /\ flight' = [m \in Turns |-> IF flight[m] = "none" THEN "none" ELSE "earlier"]

\* The rows of calls a crash interrupts stay reserved, with no tokens.
LoseCalls ==
  /\ flight' = [m \in Turns |-> "none"]
  /\ UNCHANGED <<calls, tokens, nights>>

\* A day's tokens pass their limit by no more than what one call of everybody
\* can take together: the limit is read when a call is reserved, tokens are
\* counted when it ends, whatever day that is (ai-budget.ts).
BudgetKept == tokens < TokenLimit + Cardinality(Turns) * MaxTokens
=============================================================================
