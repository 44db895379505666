SPECIFICATION Spec
CONSTANTS
  question = question
  question2 = question2
  command = command
  stop = stop
  start = start
  w1 = w1
  w2 = w2
  r1 = r1
  r2 = r2
  None = None
  Events = {question, question2}
  Kind <- KindOf
  Workers = {w1, w2}
  Requests = {r1, r2}
  MaxPending = 1
  MaxAttempts = 2
  MaxDeferrals = 1
  Arrivals <- Together
  FaultKinds = {"outage"}
  MaxFaults = 1
INVARIANT AckedIsDurable
