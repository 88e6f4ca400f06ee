SPECIFICATION Spec
CONSTANTS
  Steps <- ForkSteps
  Needs <- ForkNeeds
  Order <- ForkOrder
  Replicas = {r1, r2}
  Contents = {1}
  MaxAttempts = 1
  MaxReruns = 0
  MaxCancels = 1
  MaxTerms = 1
INVARIANTS TypeOK 
PROPERTIES StartsAfterNeeds
CHECK_DEADLOCK FALSE
