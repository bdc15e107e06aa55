SPECIFICATION ClientFairSpec
CONSTANTS
  a = a
  b = b
  c1 = c1
  c2 = c2
  ok = ok
  Clients = {b}
  Command <- FullBatch
  Conns = {c1}
  Payloads = {ok}
  Unprovable = {}
  PolicySet = {"Hybrid"}
  BatchSizes = {2}
  BatchTimeout = 2
  MaxCount = 200
  LatencyBudget = 2
  BroadcastAddr = FALSE
  Faults = TRUE
  MaxTx = 2
  MaxBatches = 2
  MaxAge = 2
  MaxDue = 1
  MaxRestarts = 1
  MaxBackSteps = 1
PROPERTIES ClientsFinish PendingEventuallySealed NoEarlySeal
