SPECIFICATION Spec
CONSTANTS
  first = first
  order = order
  question = question
  payment = payment
  confirmation = confirmation
  None = None
  Turns = {first, order, question, payment, confirmation}
  Earlier = {}
  Arrivals <- Alone
  Orders = {order}
  Confirms = {confirmation}
  Signals = {order, confirmation}
  Responses <- Worded
  Reports = {}
  MaxToolSteps = 2
  MaxFailedSends = 2
  MaxAttempts = 2
  MaxHolds = 1
  Every = 1
  MaxCrashes = 0
  CallLimit = 20
  TokenLimit = 20
  MaxTokens = 1
  MaxNights = 0
INVARIANT NobodyIsLeftWaiting
CHECK_DEADLOCK FALSE
