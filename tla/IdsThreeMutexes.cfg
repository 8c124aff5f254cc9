SPECIFICATION IdsSpec
CONSTANTS
  t1 = t1
  t2 = t2
  m1 = m1
  m2 = m2
  m3 = m3
  Thread = {t1}
  NoThread = NoThread
  Mutex = {m1, m2, m3}
  MaxId = 3
  MaxDepth = 2
SYMMETRY IdsSymmetry
INVARIANT ReleaseFindsEntry
