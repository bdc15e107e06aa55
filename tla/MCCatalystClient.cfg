SPECIFICATION ClientSpec
CONSTANTS
  a = a
  b = b
  c1 = c1
  c2 = c2
  ok = ok
  Clients = {a, b}
  Command <- SubmitAndSeal
  Conns = {c1, c2}
  Payloads = {ok}
  Unprovable = {}
  PolicySet = {"Hybrid"}
  BatchSizes = {0, 2}
  BatchTimeout = 1
  MaxCount = 200
  LatencyBudget = 1
  BroadcastAddr = TRUE
  Faults = TRUE
  MaxTx = 2
  MaxBatches = 2
  MaxAge = 1
  MaxDue = 1
  MaxRestarts = 1
  MaxBackSteps = 0
SYMMETRY Symmetry
INVARIANTS TypeOK TxInOnePlace SealedInOrder RecordedIsOnDisk AtMostOnce AnsweredWithOwnId SealedIsRecorded
PROPERTY ImplementsLedger
