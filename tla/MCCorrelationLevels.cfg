SPECIFICATION Spec
CONSTANTS
  s1 = s1
  s2 = s2
  e1 = e1
  e2 = e2
  e3 = e3
  f1 = f1
  f2 = f2
  f3 = f3
  e4 = e4
  e5 = e5
  f4 = f4
  b = b
  d = d
  c1 = c1
  c2 = c2
  c3 = c3
  c4 = c4
  Shards = {s1, s2}
  Events = {e1, e2, e3, f1, f2}
  Feed <- LevelsFeed
  Time <- LevelsTime
  Base <- LevelsBase
  Children <- LevelsChildren
  Kind <- LevelsKind
  Watched <- LevelsWatched
  Frequency <- LevelsFrequency
  Timeframe <- LevelsTimeframe
  Level <- LevelsLevel
  IgnoreTime <- LevelsIgnoreTime
  Alike <- LevelsAlike
  SidMax = 5
  MemSize = 5
  MinEvict = 1
  MaxFreq = 1
  LastMax = 2
  None = None
CHECK_DEADLOCK FALSE
INVARIANT TriggersAvoided
