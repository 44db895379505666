SPECIFICATION Spec
CONSTANTS
  ship = ship
  shipAgain = shipAgain
  confirmShip = confirmShip
  cancelShip = cancelShip
  approve = approve
  approveAgain = approveAgain
  confirmApprove = confirmApprove
  cancelPayment = cancelPayment
  question = question
  None = None
  Turns = {ship, shipAgain, confirmShip, cancelShip, approve, approveAgain, confirmApprove, cancelPayment, question}
  Histories <- Everything
  Desk <- DeskOf
  Does <- Job
  Responses <- Answers
  MaxToolSteps = 2
  MaxAttempts = 2
  MaxHolds = 1
  MaxCrashes = 1
  CallLimit = 2
  TokenLimit = 1
  MaxTokens = 1
  MaxNights = 1
INVARIANTS TypeOK OneActionPerCommand
PROPERTY ShippingIsNotDenied
CHECK_DEADLOCK FALSE
