CONSTANTS
  Mask <- MCMask
  AllOnes <- MCAllOnes
  IdMax = 2
  Leaves = {"e", "f"}
  Voids = {"v"}
  Master = "M"
  Filler = "filler"
  ID_LENGTH <- MCLength
  Sizes = {0, 2}
  SizeLengths = {0, 2}
  MasterSizeLengths = {2}
  FileMax = 19
SPECIFICATION Spec
INVARIANT VoidedIsVoid
CHECK_DEADLOCK FALSE
