SPECIFICATION FairSpec
CONSTANTS
  JobIds = {j1}
  MaxInFlight = 1
  Schedule <- FullSchedule
  MaxFaults = 0
  MaxCrashes = 1
CHECK_DEADLOCK FALSE
PROPERTY EveryWebhookSettles
