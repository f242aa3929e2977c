\* Kitchens terminate by the value of list.count.
CONSTANTS
  k1 = k1  k2 = k2  c1 = c1  c2 = c2
  bigmac = bigmac  cheese = cheese
  Nobody = Nobody
  Kitchen = {k1, k2}
  Customer = {c1, c2}
  Type = {bigmac, cheese}
  Requests <- OnlyOne
  CUSTOMER_MAX = 2
  MAX_BURGERS = 1
  COUNT_MOD = 8
  Faults = {}
SPECIFICATION Spec
PROPERTIES
  TerminatesOnEmptyList
