SPECIFICATION PartsSpec
CONSTANTS
  Parts = {"text", "command line", "files", "locks", "parser", "ids", "queues", "coroutines"}
  MaxCp = 15
  IntTypes <- SmallTypes
  CommandLines <- SomeCommandLines
  Exists = {"include", "other", "in"}
  SrcFile = {"a", "b", "included"}
  Variable = {"a", "b"}
  Path = {"p", "q"}
  Process = {"m", "n"}
  Bytes = 4
  MaxLen = 4
  Lines <- SomeLines
  MaxLines = 3
  Mutex = {"m1", "m2"}
  Thread = {"t1", "t2"}
  NoThread = "NoThread"
  MaxId = 4
  MaxDepth = 2
  Queue = {"q1", "q2"}
  Consumer = {"c1", "c2"}
  Caller = {"p1"}
  Nobody = "Nobody"
  MaxPush = 2
  Calls <- SwapCalls
  Object = {"o1", "o2"}
  Frame = {"f1", "f2"}
  NoFrame = "NoFrame"
  MaxTo = 1
CHECK_DEADLOCK FALSE
INVARIANTS
  TextSurvives
  TablesAreRight
  SaturationIsExact
  SourceIsRead
  EngineFollows
  FilesAreWhole
  ListsAreTrue
  ParserIsExact
  IdsKeepLocksApart
  ExactlyOnce
  CoroutinesAreWhole
