CONSTANTS
  Masters <- MCMasters
  Leaves <- MCLeaves
  Globals = {"Crc"}
  EbmlCrc32 = "Crc"
  Children <- MCChildren
  Contexts <- MCContexts
  CanHaveInfiniteSize = {"A", "B"}
  Root = "R"
  StreamEnd = 5
  SizeBound = 1
  ElementMax = 6
  Null = Null
SPECIFICATION ProgramSpec
INVARIANTS
  OwnedOnce
  BudgetIsExact
  ChildrenInside
  ReadInOrder
  InContext
  NothingLost
  SkipsWholeElements
  StopsAtOutsider
PROPERTIES
  Returns
CHECK_DEADLOCK FALSE
