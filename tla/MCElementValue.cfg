CONSTANTS
  Base = 4
  WordOctets = 3
  FloatOctets = 2
  Builds = {"big", "little"}
  UnixEpochDelay = 2
  Nanos = 3
  SizeLimit = 4
  LengthMax = 4
SPECIFICATION Spec
INVARIANTS
  TypeOK
  SizeIsWritten
  ReadsWhatWasWritten
  RewriteIsShortest
  WholeOrNothing
CHECK_DEADLOCK FALSE
