SPECIFICATION Spec
CONSTANTS
  JobIds = {j1}
  Workers = {w1}
  Models = {"m1", "m2"}
  Requests <- SyncRequests
  MaxQueue = 1
  MaxFaults = 0
  MaxCrashes = 0
  NoJob = NoJob
  NoModel = "none"
CHECK_DEADLOCK FALSE
INVARIANT FailureRecorded
