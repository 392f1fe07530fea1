CONSTANTS
  Schemas <- MCSchemas
  Def <- MCDef
  Data <- MCData
  Of <- MCOf
  Conditions <- MCConditions
  Rule <- MCRule
  Common <- MCCommon
  None = None
  Failed = Failed
  NoText = NoText
  Positions <- MCPositions
  CustomOK <- MCCustomOK
  One = 2
  Mantissa = 16
  MaxInt64 = 31
  Depth <- MCDepth
SPECIFICATION Spec
INVARIANTS
  Denotation
  ErrorsLocated
  PathsAgree
  CompiledAgrees
