SPECIFICATION FairSpec
CONSTANTS
  MaxCp = 5
  Threads = {1, 2, 3}
  Cats <- MCCats
  UnicodeData <- MCUnicodeData
  Options <- MCOptions
  MaxRuns = 2
INVARIANTS
  TasksAreDone
  OutputIsComplete
PROPERTY RunEnds
