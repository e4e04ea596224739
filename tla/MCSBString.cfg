CONSTANTS
  Chars = {1, 2}
  FieldSize = 4
  SrcStrings <- MCSrcStrings
  Default <- MCDefault
  DestSizes = {0, 1, 3, 5}
  Garbage = Garbage
  None = None

SPECIFICATION Spec
INVARIANTS
  TypeOK
  StringGetMatchesReference
  FieldRoundTrip
