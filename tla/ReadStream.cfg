SPECIFICATION Spec
CONSTANTS
  Size = 3
  Contents <- FourBytes
  Lengths = {0, 2, 4}
  StringLengths = {0, 1}
INVARIANTS
  TypeOK
  NothingLost
  EofIsEnd
  LineIsOneLine
PROPERTIES
  CallsReturn
  ByteStreamSpec
