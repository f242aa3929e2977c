\* The accepted lines of up to five tokens against the syntax that parser.h
\* gives.  A line that has been answered ends the run.
CONSTANTS
  GROW = 2
  MaxLen = 5
  Faults = {}
SPECIFICATION Spec
INVARIANTS
  AcceptedIsInGrammar
CHECK_DEADLOCK FALSE
