\* Four trees, with every order of their entries, every set of options and up
\* to three paths, two of which are accepted.  The program ends.
CONSTANTS
  Trees <- SomeTrees
  Arguments <- SomeArguments
  Options <- SomeOptions
  CURDIR <- Current
  MAX_DIR = 2
  CAPACITY = 1
  WIDTH = 8
  CHUNK = 4
  MAX_STREAMS = 3
  Faults = {"no_memory"}
SPECIFICATION Spec
INVARIANTS
  TypeOK
  ListsTheTree
  CountsTheTree
CHECK_DEADLOCK FALSE
