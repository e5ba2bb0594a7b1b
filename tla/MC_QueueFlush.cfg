CONSTANTS
  e1 = e1
  e2 = e2
  NULL = NULL
  Errnos <- MCErrnos
  WriteErr = e2
  CallLevels <- MCLevels
  MaxCalls = 3
  BufSize = 4
  ErrTextLen = 2
  SizeTModulus = 65536
  Lengths = {1, 3}
  MaxSizes <- MCMaxSizes
  SecondsPerDay = 2
  UtcOffset = 0
  MaxTime = 3
  Empty = Empty

SPECIFICATION FlushSpec
INVARIANT ReplayKeepsCallTime
