SPECIFICATION Spec
CONSTANTS
  b = b
  d = d
  gate = gate
  w = w
  Work = {b, d, w}
  Gates = {gate}
  Needs <- Fork
  Order <- ForkOrder
  Kinds = {"timer"}
  Replicas = {r1, r2}
  Callers = {c1}
  Timer = 1
  Expiry = 2
  Quorum = 1
  Budget = 1
  MaxCalls = 0
  MaxReruns = 1
  MaxCancels = 1
  MaxTerms = 1
  MaxEvents = 1
INVARIANTS TypeOK SuspendedIsIdle  OnlyActiveTimeBills
CHECK_DEADLOCK FALSE
