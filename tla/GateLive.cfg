SPECIFICATION FairSpec
CONSTANTS
  b = b
  d = d
  gate = gate
  w = w
  Work = {b, d}
  Gates = {gate}
  Needs <- Line
  Order <- LineOrder
  Kinds = {"plugin", "external", "deployment", "approval", "plain", "timer"}
  Replicas = {r1}
  Callers = {c1}
  Timer = 1
  Expiry = 2
  Quorum = 1
  Budget = 0
  MaxCalls = 1
  MaxReruns = 0
  MaxCancels = 1
  MaxTerms = 0
  MaxEvents = 1
PROPERTIES  SuspendedResumes
CHECK_DEADLOCK FALSE
