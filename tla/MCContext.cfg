CONSTANTS
  Messages = {"short"}
  Segments = {"user"}
  MaxErrors = 3
  MaxDepth = 1
  MaxHeld = 2
  MaxArrays = 5
SPECIFICATION Spec
INVARIANTS
  ErrorsComplete
  HeldUntilReset
