CONSTANTS
  Width = 2
  Polynomial <- MCPolynomial
  s_tab <- MCTable
  LengthMax = 6
  Data <- MCData
  GatheredMax = 5
  Elements <- MCElements
  Unknown = Unknown
SPECIFICATION Spec
INVARIANTS
  TypeOK
  ChunksAreOctets
  FinalIsOfData
  ErrorsAreDetected
