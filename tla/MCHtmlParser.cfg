SPECIFICATION Spec
CONSTANTS
  TextSize = 3
  TagSize = 12
  EntitySize = 4
  TitleSize = 3
  StackSize = 2
  MaxInsert = 6
  HrWidth = 2
  FirstLinks = 1
  MaxShort = 2
  Vocabulary <- Themes
  Shortages <- Failures
  MaxChunks = 4
  MaxPages = 2
INVARIANTS BuffersHold TextInOrder StyleKept LinksCoverText HeadingsClose HrefsOwned SpacesCollapse
PROPERTIES EndIsIdempotent
CHECK_DEADLOCK FALSE
