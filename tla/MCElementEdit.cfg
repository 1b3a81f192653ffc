CONSTANTS
  Mask <- MCMask
  AllOnes <- MCAllOnes
  IdMax = 2
  Leaves = {"e", "f"}
  Voids = {"v"}
  Master = "M"
  Filler = "filler"
  ID_LENGTH <- MCLength
  Sizes = {2, 5}
  SizeLengths = {0, 2}
  MasterSizeLengths = {1, 2}
  FileMax = 19
SPECIFICATION CarefulSpec
INVARIANTS
  FileReads
  ObjectsMatchFile
  MasterEncloses
PROPERTIES
  EditsInPlace
CHECK_DEADLOCK FALSE
