SPECIFICATION NodesSpec
CONSTANTS
  c1 = c1
  v1 = v1
  v2 = v2
  write = write
  noop = noop
  Conns = {}
  Payloads = {write, noop}
  Unprovable = {}
  PolicySet = {"Hybrid"}
  BatchSizes = {1}
  BatchTimeout = 1
  MaxCount = 200
  LatencyBudget = 1
  BroadcastAddr = TRUE
  Faults = TRUE
  MaxTx = 1
  MaxBatches = 1
  MaxAge = 1
  MaxDue = 1
  MaxRestarts = 1
  MaxBackSteps = 1
  VConns = {v1}
  PollProofs = TRUE
  SenderOf <- MCSenderOf
  Writes <- MCWrites
  VFaults = TRUE
  MaxRequests = 1
  MaxVRestarts = 1
INVARIANTS VerifiedArtifactsWhole PolledAtMostOnce
PROPERTY AttestationStable
