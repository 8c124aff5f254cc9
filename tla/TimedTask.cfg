SPECIFICATION FairSpec
CONSTANTS
  c1 = c1
  m1 = m1
  Caller = {c1}
  Client = {m1}
  NoThread = NoThread
  MaxCalls <- CallsOfCallers
  Thread <- AllThreads
  FirstDestructors <- OneDestructor
  MaxDestructors = 2
INVARIANTS
  DestructorsRun
  AnswersAreOwn
CHECK_DEADLOCK FALSE
PROPERTIES
  EndingEnds
  CallsAreAnswered
