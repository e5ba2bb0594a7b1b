CONSTANTS
  n1 = n1
  n2 = n2
  h1 = h1
  Empty = Empty
  NULL = NULL
  Types <- MCTypes
  Names = {n1, n2}
  CfgValues = {n1}
  HostNames = {h1}
  Ports = {993}
  Urls <- MCUrls

SPECIFICATION AcctSpec

INVARIANTS
  AcctTypeOK
  UrlRebuildsAccount
  LoginIsResolved
