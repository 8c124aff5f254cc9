SPECIFICATION FairSpec
CONSTANTS
  q1 = q1
  c1 = c1
  c2 = c2
  p1 = p1
  Queue = {q1}
  Consumer = {c1, c2}
  Caller = {p1}
  Nobody = Nobody
  MaxPush = 2
  Calls <- OneQueueCalls
INVARIANTS
  FirstInFirstOut
  WaitsAreJustified
PROPERTIES
  Delivered
  SleepersAreReached
