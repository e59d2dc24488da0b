SPECIFICATION Spec
CONSTANTS
  Requests = {r1, r2}
  Versions = {v1, v2}
  Size <- UnitSize
  Claims = {1}
  FileMax = 1
  DirMax = 2
  MaxConcurrent = 1
  GenJobs = {g1}
  Kind <- VideoJobs
  MaxFaults = 0
  MaxStops = 0
  None = None
SYMMETRY FetchSymmetry
PROPERTY ActiveJobsKeepLoras
