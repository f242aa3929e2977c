\* Two kitchens, two connections for one seat, fair scheduling.
CONSTANTS
  k1 = k1  k2 = k2  c1 = c1  c2 = c2
  bigmac = bigmac  cheese = cheese
  Nobody = Nobody
  Kitchen = {k1, k2}
  Customer = {c1, c2}
  Type = {bigmac, cheese}
  Requests <- OnlyTwo
  CUSTOMER_MAX = 1
  MAX_BURGERS = 2
  COUNT_MOD = 8
  Faults = {}
SPECIFICATION FairSpec
INVARIANTS
  TypeOK
  NoUseAfterFree
  WokenMeansCompleted
PROPERTIES
  OnlyEarlySignalsAreLost
  OrderStringIsStable
  EveryOrderIsServed
  ImplementsShop
