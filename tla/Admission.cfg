SPECIFICATION Spec
CONSTANTS
  deploy = deploy
  NoGroup = NoGroup
  Nobody = Nobody
  Runs = {1, 2, 3}
  Group <- MCGroup
  CancelsHolder = {2}
  Keyed = {1, 3}
  Replicas = {r1, r2}
  r1 = r1
  r2 = r2
  GlobalCap = 2
  ProjectCap = 2
  MaxFaults = 1
  MaxCancels = 1
  MaxReruns = 0
INVARIANTS AdmissionTypeOK OneRunPerGroup GlobalCapHolds
PROPERTY NewestWins
SYMMETRY SameReplicas
CHECK_DEADLOCK FALSE
