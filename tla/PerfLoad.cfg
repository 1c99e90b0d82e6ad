SPECIFICATION FairSpec
CONSTANTS
  Workers = {w1, w2}
  MaxRequests = 4
  bucketWidth = 3
  overflowFrom = 10
  Latencies <- MCLatencies
  Percents <- MCPercents
CHECK_DEADLOCK FALSE
INVARIANTS
  SummaryComplete
  PercentileExact
PROPERTIES
  RunReturns
