SPECIFICATION Spec
CONSTANTS
  Call = {1}
  Sources = 3
  Builtin = 1
  Priority <- MCPriority
  Name = {"x"}
  MaxEdits = 1
CHECK_DEADLOCK FALSE
INVARIANT DeletedWasApproved
