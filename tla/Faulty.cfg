\* Two kitchens, two connections for one seat, three burgers, spurious wakeups
\* and every call that can fail failing.
CONSTANTS
  k1 = k1  k2 = k2  c1 = c1  c2 = c2
  bigmac = bigmac  cheese = cheese
  Nobody = Nobody
  Kitchen = {k1, k2}
  Customer = {c1, c2}
  Type = {bigmac, cheese}
  Requests <- Three
  CUSTOMER_MAX = 1
  MAX_BURGERS = 3
  COUNT_MOD = 8
  Faults = {"spurious_wakeup", "peer_closes", "net_error", "no_memory", "no_thread", "accept_error"}
SPECIFICATION Spec
SYMMETRY Symmetry
INVARIANTS
  RemainIsPending
  NodeIsInOnePlace
  OneCookPerOrder
  ReplyIsTheRequest
  BurgersAreCounted
  SeatsAreCounted
