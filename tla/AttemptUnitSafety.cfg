SPECIFICATION Spec
CONSTANTS
  Replicas = {r1, r2}
  None = None
  MaxFailures = 2
  MaxErrors = 1
  MaxCrashes = 1
  MaxPauses = 0
  Refusals = FALSE
SYMMETRY Symmetry
INVARIANTS TypeOK NoOrphan
PROPERTIES NeverRelaunched
