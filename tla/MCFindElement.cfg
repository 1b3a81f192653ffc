CONSTANTS
  Mask <- MCMask
  AllOnes <- MCAllOnes
  IdMax = 2
  BufLen = 5
  Uninitialised = Uninitialised
  Alphabet = {0, 1, 2, 4, 5, 7}
  StreamMax = 6
  MaxDataSizes = {0, 3, 5, 9}
  Path <- MCPath
  GlobalIds <- MCGlobalIds
  CanHaveInfiniteSize <- MCCanHaveInfiniteSize
  SizeIsValid <- MCSizeIsValid
  ClassIds <- MCClassIds
  Scan = Scan
  DummySizeMax = 63
SPECIFICATION StreamSpec
INVARIANTS
  TypeOK
  WindowIsStream
  FirstElementFound
  NothingMissed
  PlacedAtData
  LevelOfResult
  WrittenHeadIsRead
  HeadsAgree
PROPERTIES
  Terminates
CHECK_DEADLOCK FALSE
