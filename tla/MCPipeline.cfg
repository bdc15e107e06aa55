SPECIFICATION Spec
CONSTANTS
  Plans <- MCPlans
  SampleMs = {2, 40, 300}
  SamplePriorities = {"Low", "Normal", "High"}
  SampleOps = {0, 3, 4}
  TxCount = 4
  CountThreshold = 3
  TimeThreshold = 60
  LatencyBudget = 56
  SlaLatency = 1
  ProveMs = {0, 55}
  VerifyMs = {1}
  Faults = TRUE
INVARIANTS TypeOK SealedOnceInOrder TimesInOrder ReportComplete LatencyFiguresAgree
PROPERTY SealedWithinGap
CHECK_DEADLOCK FALSE
