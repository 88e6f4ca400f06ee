SPECIFICATION LoopsSpec
CONSTANTS
  r1 = r1
  r2 = r2
  d1 = d1
  d2 = d2
  Replicas = {r1, r2}
  NoOne = NoOne
  MaxTerm = 4
  MaxWrites = 3
  Rounds = 2
  Drainers = {d1, d2}
  Unclaimed = Unclaimed
  Lapsed = Lapsed
  MaxGen = 1
  MaxDeliveries = 1
  MaxUpsets = 1
  MaxTakes = 2
  MaxCancels = 1
  MaxTurns = 1
INVARIANTS TypeOK TermsInOrder LoopsTypeOK OldWordsAreDropped
PROPERTIES FencedWritesLandInTheirTerm GoneLeaderReplaced VerdictDelivered   UserProceeds
CHECK_DEADLOCK FALSE
