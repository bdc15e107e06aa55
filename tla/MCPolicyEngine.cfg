SPECIFICATION EngineSpec
CONSTANTS
  BaseCount = 10
  MaxBatchSize = 15
  LatencyBudget = 20
  Latencies = {0, 1, 13, 20, 90}
  Rates = {0, 16, 80}
  MaxGrowths = 3
  Scale = 1250
  RingSize = 3
  MinBatch = 2
  MaxBatch = 4
  MaxLatency = 300
  ArrivalGaps = {0, 1, 400, 1000, 5000}
  GrowthRates = {10, 21}
  MaxArrivals = 5
INVARIANTS EngineTypeOK OverBudgetShrinks RingCountsArrivals LimitsFollowPattern
PROPERTIES ControllerSteersBack BurstHoldsBackOnlySteady
