SPECIFICATION Spec
CONSTANTS
  Word = 3
  Literals <- MCLiterals
  Patterns <- MCPatterns
  Large = 1
  ElementSize = 4
  PatternWindow = 8
  SampleWindow = 12
INVARIANTS
  AcceptsGrammar
  ScannersAgree
  TokenizersAgree
  KeysCompareExactly
