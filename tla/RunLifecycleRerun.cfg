SPECIFICATION FairSpec
CONSTANTS
  Steps <- ForkSteps
  Needs <- ChainNeeds
  Order <- ForkOrder
  Replicas = {r1}
  Contents = {1}
  MaxAttempts = 2
  MaxReruns = 1
  MaxCancels = 0
  MaxTerms = 0
PROPERTIES EachTransitionPosted RunSettles
CHECK_DEADLOCK FALSE
