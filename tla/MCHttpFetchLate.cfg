CONSTANTS
  h1 = h1
  h2 = h2
  h3 = h3
  NULL = NULL
  Hosts <- MCHosts
  Dotted <- MCDotted
  Responses <- MCResponses
  Name <- MCName
  ToLower <- MCToLower
  ShortMax = 32767
  RecvBufSize = 4
  HeaderBufSize = 8
  MaxFetches = 2

SPECIFICATION Spec
CHECK_DEADLOCK FALSE

INVARIANT GetsTheURI
