CONSTANTS
  about = about
  file = file
  http = http
  i1 = i1
  i2 = i2
  i3 = i3
  NULL = NULL
  Junk = Junk
  Addresses <- MCAddresses
  Provider <- MCProvider
  Homes <- MCHomes
  Items <- MCItems
  MaxRequests = 2
  MaxAmount = 2

SYMMETRY Symmetry
SPECIFICATION WindowSpec
CHECK_DEADLOCK FALSE

INVARIANTS WellLinked DisposesOnce NeighboursDiffer WindowShowsHistory ChoiceReached DataFreedOnce
PROPERTIES VisitsInOrder
