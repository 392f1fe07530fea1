CONSTANTS
  Nodes <- MCNodes
  Missing = "missing"
  NodeKind <- MCKind
  Names = {"a", "b"}
  Field <- MCFields
  Items <- MCItems
  Indices = {"0", "1", "2", "7"}
  Huge = {"huge"}
  Number <- MCNumber
  Refused = {"y", "line1", "null"}
  Inputs <- MCInputs
  MaxTokens = 4
  MaxPath = 5
SPECIFICATION QuerySpec
INVARIANTS
  ParsesGrammar
  ExpansionExact
  WalkExact
PROPERTIES
  CallReturns
