SPECIFICATION MixedSpec
CONSTANTS
  JobIds = {j1, j2}
  Workers = {w1, w2}
  Models = {"m1", "m2"}
  Requests <- MixedRequests
  MaxQueue = 1
  MaxFaults = 1
  MaxCrashes = 1
  NoJob = NoJob
  NoModel = "none"
SYMMETRY Symmetry
CHECK_DEADLOCK FALSE
INVARIANTS TypeOK SingleOwner WritesAllowed NoJobForgotten RepliesMatchRows BarrierRespectsHandler
PROPERTY KeepsContract
