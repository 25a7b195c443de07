CONSTANTS
  Name <- MCName
  ToLower <- MCToLower
  ShortMax = 19
  MaxPort = 100
  ByteMax = 17
  UriSize = 18
  Alphabets <- MCAlphabets
  MaxLength <- MCMaxLength
  Bases <- MCBases

SPECIFICATION Spec
CHECK_DEADLOCK FALSE

INVARIANTS HeaderEndFound FindsFields SplitsUrl SanitizeStable OpensPickedFile LinksStay
PROPERTIES HeaderEndStays
