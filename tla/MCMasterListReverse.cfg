CONSTANTS
  Semantic <- MCSemantic
  Mandatory = {"EDocType", "EVersion"}
  Unique = {"EDocType"}
  HasDefault = {"EVersion"}
  Deprecated = {"EOld"}
  Value <- MCValue
  Object = {o1, o2, o3}
  DefaultSize <- MCDefaultSize
  ChildrenMax = 2
SPECIFICATION ReverseSpec
VIEW MCView
SYMMETRY Objects
INVARIANTS
  RemovedIsGone
