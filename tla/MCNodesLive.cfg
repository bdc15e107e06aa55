SPECIFICATION NodesFairSpec
CONSTANTS
  c1 = c1
  v1 = v1
  v2 = v2
  write = write
  noop = noop
  Conns = {}
  Payloads = {write, noop}
  Unprovable = {noop}
  PolicySet = {"Hybrid"}
  BatchSizes = {1}
  BatchTimeout = 1
  MaxCount = 200
  LatencyBudget = 1
  BroadcastAddr = TRUE
  Faults = FALSE
  MaxTx = 2
  MaxBatches = 2
  MaxAge = 1
  MaxDue = 1
  MaxRestarts = 0
  MaxBackSteps = 1
  VConns = {v1, v2}
  PollProofs = TRUE
  SenderOf <- MCSenderOf
  Writes <- MCWrites
  VFaults = FALSE
  MaxRequests = 0
  MaxVRestarts = 0
PROPERTIES AnnouncedIsVerified PendingDrains
