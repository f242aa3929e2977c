\* One pipeline of two programs.
CONSTANTS
  Pid = {1, 2}
  Lines <- OnlyPipe
  Keys = {"INT"}
  Raised = {}
  Faults = {}
SPECIFICATION Spec
CHECK_DEADLOCK FALSE
INVARIANTS
  SameGroup
