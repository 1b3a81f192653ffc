CONSTANTS
  Base = 4
  WordOctets = 3
  FloatOctets = 2
  Builds = {"little", "msvc"}
  UnixEpochDelay = 2
  Nanos = 3
  SizeLimit = 4
  LengthMax = 4
SPECIFICATION Spec
INVARIANTS
  OptimizedIsGeneric
CHECK_DEADLOCK FALSE
