\* Two threads, orders for one of two burgers, buffers of two bytes that must
\* grow, and everything that may go wrong, the network resetting at most one
\* connection.  The run ends when main has returned.
CONSTANTS
  NumThreads = 2
  Burger = {"bigmac", "cheese"}
  MAX_BURGERS = 1
  BURGER_NUM_RAND = TRUE
  BUF_SIZE = 2
  Faults = {"no_socket", "no_server", "full", "reset", "no_thread"}
  MaxResets = 1
SPECIFICATION FairSpec
INVARIANTS
  TypeOK
  NothingSkipped
  ServedHasReply
PROPERTIES
  ClientEnds
CHECK_DEADLOCK FALSE
