SPECIFICATION Spec
CONSTANTS
  Replicas = {r1, r2}
  None = None
  MaxFailures = 1
  MaxErrors = 1
  MaxCrashes = 0
  MaxPauses = 1
  Refusals = TRUE
SYMMETRY Symmetry
PROPERTIES IntentSticks VerdictIsCurrent
