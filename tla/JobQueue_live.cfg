SPECIFICATION FairSpec
CONSTANTS
  JobIds = {j1, j2}
  Workers = {w1}
  Models = {"m1", "m2"}
  Requests <- SyncRequests
  MaxQueue = 1
  MaxFaults = 0
  MaxCrashes = 1
  NoJob = NoJob
  NoModel = "none"


PROPERTIES EveryJobSettles EveryRequestAnswered
