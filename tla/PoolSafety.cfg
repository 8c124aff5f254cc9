SPECIFICATION Spec
CONSTANTS
  w1 = w1
  w2 = w2
  w3 = w3
  c1 = c1
  owner = owner
  Worker = {w1, w2, w3}
  FirstThreads <- TwoThreads
  Client = {owner, c1}
  NoThread = NoThread
  Id <- FirstPoolIds
  MaxTasks = 2
  Calls = {"enqueue", "remove_threads", "destroy", "add_threads"}
VIEW PoolView
CHECK_DEADLOCK FALSE
INVARIANTS
  PendingInOnePlace
  TablesAreTrue
  NoLockCycle
PROPERTY ImplementsTaskPool
