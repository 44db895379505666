SPECIFICATION Spec
CONSTANTS
  first = first
  order = order
  question = question
  payment = payment
  confirmation = confirmation
  None = None
  Turns = {first, order, question, payment, confirmation}
  Earlier = {first}
  Arrivals <- OneAtATime
  Orders = {first, order}
  Confirms = {confirmation}
  Signals = {first, order, confirmation}
  Responses <- AllKinds
  Reports = {"unlogged_order"}
  MaxToolSteps = 2
  MaxFailedSends = 1
  MaxAttempts = 2
  MaxHolds = 1
  Every = 2
  MaxCrashes = 1
  CallLimit = 2
  TokenLimit = 1
  MaxTokens = 1
  MaxNights = 1
INVARIANTS TypeOK OnlyRejectedRepliesAreLost TracedAsItWas
PROPERTY ConfirmationsSettled
CHECK_DEADLOCK FALSE
