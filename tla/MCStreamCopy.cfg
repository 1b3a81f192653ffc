CONSTANTS
  Octet = {0, 1}
  Half = 3
  Narrow = 2
  SizeMax = 2
  Modes = {"MODE_READ", "MODE_SAFE", "MODE_WRITE", "MODE_CREATE"}
  FileMax = 2
SPECIFICATION ReaderSpec
VIEW MCView
CHECK_DEADLOCK FALSE
PROPERTIES
  BufferStaysInside
  MemoryIsStream
  FileIsStream
  ViewIsStream
  ReaderDoesAsAsked
