SPECIFICATION FairSpec
CONSTANTS
  w1 = w1
  w2 = w2
  w3 = w3
  c1 = c1
  owner = owner
  Worker = {w1, w2}
  FirstThreads <- TwoThreads
  Client = {owner}
  NoThread = NoThread
  Id <- FirstPoolIds
  MaxTasks = 3
  Calls = {"enqueue"}
CHECK_DEADLOCK FALSE
PROPERTY
  AcceptedTasksRun
