SPECIFICATION FairSpec
CONSTANTS
  Replicas = {r1}
  None = None
  MaxFailures = 2
  MaxErrors = 0
  MaxCrashes = 1
  MaxPauses = 0
  Refusals = FALSE
PROPERTIES AttemptConcludes TornDownInTheEnd
