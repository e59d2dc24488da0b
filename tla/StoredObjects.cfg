SPECIFICATION FairSpec
CONSTANTS
  Jobs = {j1, j2}
  Clients = {c1}
  MaxOutputs = 2
  MaxAttempts = 2
  MaxFaults = 1
  MaxCrashes = 1
  MaxTouches = 1
INVARIANTS TypeOK GoneMeansReaped LeftoversExplained
PROPERTIES KeptOnceFetched OrphansGo
