CONSTANTS
  Slots <- MCSlots
  Root = "root"
  NoSlot = "none"
  Parent <- MCParent
  Above <- MCAbove
  Kind <- MCKind
  Index <- MCIndex
  Required = {"root"}
  Nullable = {"sub"}
  MustExist = {"b"}
  Closed = {"root"}
  MinItems <- MCIndex
  MaxItems <- MCIndex
  Unique = {}
  Leaf <- MCLeaf
  Absent = "absent"
  Nil = "nil"
  Tree = "tree"
  Failed = "failed"
  Trans <- MCTrans
  Accepts <- MCAccepts
  Shown <- MCShown
  CustomOK <- MCCustomOK
  Inputs <- MCInputs
  AsyncChoices <- MCAsyncChoices
  CompiledChoices = {FALSE}
  MaxAsync = 2
SPECIFICATION FairSpec
INVARIANTS
  AsyncOnlyAfterCleanSync
  NoSilentSkip
  OneLateStart
PROPERTIES
  Termination
  ImplementsContract
