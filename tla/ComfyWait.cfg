SPECIFICATION FairSpec
CONSTANTS
  j1 = j1
  j2 = j2
  m1 = m1
  m2 = m2
  Jobs = {j1, j2}
  Workers = {w1, w2}
  Models = {m1, m2}
  ModelOf <- OwnModels
  StallCheck = TRUE
  MaxFaults = 2
  NoJob = NoJob
  NoModel = NoModel
INVARIANTS TypeOK VerdictIsTrue FuturesMatchWaits DoubleLoadExplained
PROPERTIES TimeoutMeansMissed EveryWaitEnds
