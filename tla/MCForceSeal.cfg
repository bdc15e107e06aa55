SPECIFICATION ClientFairSpec
CONSTANTS
  a = a
  b = b
  c1 = c1
  c2 = c2
  ok = ok
  Clients = {a}
  Command <- RestOfBatch
  Conns = {c1}
  Payloads = {ok}
  Unprovable = {}
  PolicySet = {"Fixed", "Hybrid", "Adaptive"}
  BatchSizes = {2}
  BatchTimeout = 1
  MaxCount = 200
  LatencyBudget = 1
  BroadcastAddr = FALSE
  Faults = FALSE
  MaxTx = 2
  MaxBatches = 2
  MaxAge = 1
  MaxDue = 1
  MaxRestarts = 0
  MaxBackSteps = 0
PROPERTY ForceSealSeals
