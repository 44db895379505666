SPECIFICATION FairSpec
CONSTANTS
  turn = turn
  turn2 = turn2
  stop = stop
  start = start
  busy = busy
  busy2 = busy2
  alert = alert
  c1 = c1
  s1 = s1
  s2 = s2
  b1 = b1
  b2 = b2
  None = None
  Fixed = Fixed
  Keys = {turn, turn2, stop, start, busy, busy2, alert}
  Kind <- KindOf
  Customers = {c1}
  Recipient <- OneCustomer
  Wordings = {b1, b2}
  Senders = {s1, s2}
  DailyCap = 2
  MaxCopies = 2
  MaxCrashes = 1
  Arrivals <- Everything
INVARIANTS TypeOK AtMostOneReply LedgerIsTruthful RepliesAreIntroduced
PROPERTIES ConfirmationsAreCurrent SilentAfterConfirmedStop SpacedSends ImplementsReplyOnce EveryCallReturns
CHECK_DEADLOCK FALSE
