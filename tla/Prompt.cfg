\* Two processes: a pipeline or two jobs, Ctrl-C and programs that stop
\* themselves, fair scheduling.  The shell may exit.
CONSTANTS
  Pid = {1, 2}
  Lines <- PipeAndBack
  Keys = {"INT"}
  Raised = {"TSTP"}
  Faults = {}
SPECIFICATION FairSpec
CHECK_DEADLOCK FALSE
PROPERTIES
  ZombiesAreReaped
  EndedJobIsLeft
  StoppedJobIsLeft
