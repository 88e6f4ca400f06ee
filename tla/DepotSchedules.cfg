SPECIFICATION BothSpec
CONSTANTS
  f1 = f1
  f2 = f2
  d1 = d1
  x = x
  c1 = c1
  s1 = s1
  s2 = s2
  Fences = {f1, f2}
  Blobs = {x}
  Closure <- SameBlobs
  Depots = {d1}
  NoFence = NoFence
  NoPack = NoPack
  NoDepot = NoDepot
  MaxPacks = 2
  MaxUpsets = 1
  MaxReopens = 1
  Crons = {c1}
  Minutes <- OneMinute
  MaxHead = 2
  Declares <- ThenDropped
  Servers = {s1, s2}
  MaxClock = 3
  MaxHitches = 1
INVARIANTS BothTypeOK RecordsAreBacked PointersBeforeBytes OneRunPerSlot
PROPERTY RunsOfTheLiveHead
SYMMETRY SameFences
CHECK_DEADLOCK FALSE
