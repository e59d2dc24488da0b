SPECIFICATION FairSpec
CONSTANTS
  JobIds = {j1, j2}
  MaxInFlight = 1
  Schedule <- ShortSchedule
  MaxFaults = 1
  MaxCrashes = 1
INVARIANTS StatusIsTrue AttemptLog BarrierAndSemaphore
PROPERTIES NoPostAfterSuccess SettlesUnlessCutShort
