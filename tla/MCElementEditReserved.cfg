CONSTANTS
  Mask <- MCMask
  AllOnes <- MCAllOnes
  IdMax = 2
  Leaves = {"e", "f"}
  Voids = {"v"}
  Master = "M"
  Filler = "filler"
  ID_LENGTH <- MCLength
  Sizes = {1}
  SizeLengths = {0}
  MasterSizeLengths = {1}
  FileMax = 19
SPECIFICATION Spec
INVARIANT MasterEncloses
CHECK_DEADLOCK FALSE
