SPECIFICATION FairSpec
CONSTANTS
  w1 = w1
  w2 = w2
  w3 = w3
  c1 = c1
  owner = owner
  Worker = {w1}
  FirstThreads <- OneThread
  Client = {owner, c1}
  NoThread = NoThread
  Id <- FirstPoolIds
  MaxTasks = 3
  Calls = {"enqueue", "size"}
CHECK_DEADLOCK FALSE
PROPERTIES
  AcceptedTasksRun
  EnqueueReturns
