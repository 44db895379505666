SPECIFICATION Spec
CONSTANTS
  h1 = h1
  r1 = r1
  Asked = Asked
  h2 = h2
  retry = retry
  worker = worker
  Nobody = Nobody
  Checks = {retry, worker}
  RetryCheck = retry
  Handoffs = {h1, h2}
  Reason <- SameReason
  LongOutage = 0
  MaxDrops = 1
  MaxOutages = 1
  FloodMax = 1
  Window = 1
  MaxRetries = 1
  MaxDelay = 1
  MaxLag = 1
  MaxAlerts = 3
  MaxQueue = 1
  MaxCrashes = 1
INVARIANTS TypeOK SentAlertsAreTold FloodCap OccurrencesCounted
PROPERTIES ReadingsInOrder
SYMMETRY HandoffSymmetry
