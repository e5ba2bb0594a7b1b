CONSTANTS
  SecondsPerDay = 4
  UtcOffset = 1
  MaxTime = 14
  Empty = Empty
  LONG_STRING = 2
  HdrLens = {3}
  MsgLens = {0, 1, 2}
  ErrLens = {2}
  LineLevels <- MCLineLevels
  FileLevels = {0}

SPECIFICATION LineSpec
INVARIANT LineTypeOK
INVARIANT StderrCountMatchesOutput
PROPERTY TimestampRefinesSpec
