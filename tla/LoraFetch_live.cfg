SPECIFICATION FairSpec
CONSTANTS
  Requests = {r1, r2}
  Versions = {v1, v2}
  Size <- UnitSize
  Claims = {0, 1, 2}
  FileMax = 1
  DirMax = 2
  MaxConcurrent = 1
  GenJobs = {}
  Kind <- ImageJobs
  MaxFaults = 1
  MaxStops = 1
  None = None
PROPERTY EveryFetchSettles
