SPECIFICATION Spec
CONSTANTS
  question = question
  question2 = question2
  command = command
  stop = stop
  start = start
  w1 = w1
  w2 = w2
  r1 = r1
  r2 = r2
  None = None
  Events = {question, command, stop, start}
  Kind <- KindOf
  Workers = {w1, w2}
  Requests = {r1, r2}
  MaxPending = 1
  MaxAttempts = 2
  MaxDeferrals = 1
  Arrivals <- WithConsent
  FaultKinds = {"restart", "database"}
  MaxFaults = 1
SYMMETRY SlotSymmetry
INVARIANT OneRunPerJob
PROPERTY ImplementsDurableQueue
