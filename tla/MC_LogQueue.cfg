CONSTANTS
  e1 = e1
  e2 = e2
  NULL = NULL
  Errnos <- MCErrnos
  WriteErr = e2
  CallLevels <- MCLevels
  MaxCalls = 4
  BufSize = 4
  ErrTextLen = 2
  SizeTModulus = 65536
  Lengths = {1, 3}
  MaxSizes <- MCMaxSizes

SPECIFICATION QueueSpec
PROPERTY QueueRefinesSinkSpec
