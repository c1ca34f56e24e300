SPECIFICATION FairSpec
CONSTANTS
  j1 = j1
  j2 = j2
  w1 = w1
  w2 = w2
  k1 = k1
  Job = {j1, j2}
  Worker = {w1, w2}
  Key = {k1}
  NoJob = NoJob
  NoKey = NoKey
  Stock = 2
  MaxRestores = 0
  Faults = {"worker"}
PROPERTY EveryJobFinishes
