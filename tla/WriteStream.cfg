SPECIFICATION Spec
CONSTANTS
  Size = 4
  Lengths = {0, 1, 3, 5}
  MaxBytes = 9
INVARIANTS
  TypeOK
PROPERTIES
  SentOrTimedOut
  ByteStreamSpec
