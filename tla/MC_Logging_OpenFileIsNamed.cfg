CONSTANTS
  e1 = e1
  e2 = e2
  f1 = f1
  f2 = f2
  v1 = v1
  NULL = NULL
  Errnos <- MCErrnos
  WriteErr = e2
  FileNames <- MCFileNames
  Versions <- MCVersions
  CallLevels <- MCLevels
  MaxCalls = 2
  BufSize = 4
  ErrTextLen = 2
  SizeTModulus = 65536
  Lengths = {1}
  MaxSizes <- MCMaxSizes
  FileLevels = {0, 1}

SPECIFICATION Spec
SYMMETRY FileSymmetry
VIEW StateView
CONSTRAINT OutputBound
INVARIANT OpenFileIsNamed
