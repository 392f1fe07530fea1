CONSTANTS
  Sessions = {s1, s2}
  Parsers = {p1, p2, p3}
  Texts <- MCTexts
  MaxKeys = 1
  None = None
SPECIFICATION Spec
INVARIANTS
  OwnTokens
PROPERTIES
  ImplementsPrivate
  ParsesEnd
