SPECIFICATION FairSpec
CONSTANTS
  question = question
  question2 = question2
  command = command
  stop = stop
  start = start
  w1 = w1
  w2 = w2
  r1 = r1
  r2 = r2
  None = None
  Events = {question, command}
  Kind <- KindOf
  Workers = {w1, w2}
  Requests = {r1}
  MaxPending = 1
  MaxAttempts = 2
  MaxDeferrals = 1
  Arrivals <- Together
  FaultKinds = {"restart", "lease", "outage", "budget", "flood", "database"}
  MaxFaults = 1
INVARIANTS TypeOK ProcessingIsHeld
PROPERTY QueuedJobFinishes
