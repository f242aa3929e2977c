\* Three processes: a pipeline of three, or a forked built-in and a program,
\* brought to the foreground and stopped from the keyboard; fork may fail.
\* The shell may exit, so a state without successors is no deadlock.
CONSTANTS
  Pid = {1, 2, 3}
  Lines <- PipeAndTable
  Keys = {"TSTP"}
  Raised = {}
  Faults = {"fork_fails"}
SPECIFICATION Spec
VIEW View
CHECK_DEADLOCK FALSE
INVARIANTS
  TypeOK
  ProcessesAreCounted
  HandlerFindsJob
  ForegroundIsAwaited
  JobIdsDescend
  ReaderSeesEnd
