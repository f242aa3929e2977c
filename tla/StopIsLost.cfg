\* One background program that stops itself, and fg.
CONSTANTS
  Pid = {1}
  Lines <- BackThenFg
  Keys = {}
  Raised = {"TSTP"}
  Faults = {}
SPECIFICATION FairSpec
CHECK_DEADLOCK FALSE
PROPERTIES
  StoppedJobIsLeft
