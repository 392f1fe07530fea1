CONSTANTS
  Slots <- MCSlots
  Root = "root"
  NoSlot = "none"
  Parent <- MCParent
  Above <- MCAbove
  Kind <- MCKind
  Index <- MCIndex
  Required = {"root"}
  Nullable = {"list", "tags"}
  MustExist = {}
  Closed = {}
  MinItems <- MCMinItems
  MaxItems <- MCMaxItems
  Unique = {"list"}
  Leaf <- MCLeaf
  Absent = "absent"
  Nil = "nil"
  Tree = "tree"
  Failed = "failed"
  Trans <- MCTrans
  Accepts <- MCAccepts
  Shown <- MCShown
  CustomOK <- MCCustomOK
  Inputs <- MCInputs
  AsyncChoices <- MCAsyncChoices
  CompiledChoices = {FALSE}
  MaxAsync = 2
SPECIFICATION Spec
INVARIANT
  NeverPanics
