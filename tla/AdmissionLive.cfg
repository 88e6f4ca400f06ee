SPECIFICATION FairSpec
CONSTANTS
  deploy = deploy
  NoGroup = NoGroup
  Nobody = Nobody
  Runs = {1, 2}
  Group <- MCGroup
  CancelsHolder = {2}
  Keyed = {1, 2}
  Replicas = {r1}
  r1 = r1
  r2 = r2
  GlobalCap = 2
  ProjectCap = 2
  MaxFaults = 1
  MaxCancels = 1
  MaxReruns = 1
PROPERTIES  CreationEnds
CHECK_DEADLOCK FALSE
