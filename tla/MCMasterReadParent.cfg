CONSTANTS
  Masters <- MCMasters
  Leaves <- MCLeaves
  Globals = {"Crc"}
  EbmlCrc32 = "Crc"
  Children <- MCChildren
  Contexts <- MCContexts
  CanHaveInfiniteSize = {"A", "B"}
  Root = "R"
  StreamEnd = 5
  SizeBound = 2
  ElementMax = 6
  Null = Null
SPECIFICATION ProgramSpec
INVARIANT ParentIsNull
CHECK_DEADLOCK FALSE
