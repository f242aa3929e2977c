\* The line parser on every line of up to twelve tokens, with arrays that grow
\* by two.  A line that has been answered ends the run.
CONSTANTS
  GROW = 2
  MaxLen = 12
  Faults = {"no_memory"}
SPECIFICATION Spec
INVARIANTS
  TypeOK
  TakesTheGrammar
  ArraysHold
  BuildsTheJobs
CHECK_DEADLOCK FALSE
