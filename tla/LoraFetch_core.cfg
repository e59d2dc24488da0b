SPECIFICATION Spec
CONSTANTS
  Requests = {r1, r2}
  Versions = {v1, v2, v3}
  Size <- UnitSize
  Claims = {1}
  FileMax = 1
  DirMax = 2
  MaxConcurrent = 1
  GenJobs = {g1}
  Kind <- ImageJobs
  MaxFaults = 0
  MaxStops = 1
  None = None
SYMMETRY FetchSymmetry
INVARIANTS OneTaskPerVersion AnswersAreServed FilesAccounted RoomAfterEviction
PROPERTIES TransitionsAllowed DoneMeansInstalled HandDropsSurvive
