SPECIFICATION FairSpec
CONSTANTS
  t1 = t1
  t2 = t2
  t3 = t3
  Thread = {t1, t2, t3}
  NoThread = NoThread
  MaxDepth = 2
INVARIANTS
  ExclusionHolds
  CountMeansOwnership
  OwnersNest
PROPERTIES
  OwnershipSpec
  Progress
