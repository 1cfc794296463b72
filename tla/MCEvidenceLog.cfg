SPECIFICATION Spec
CONSTANTS
  g1 = g1
  t1 = t1
  t2 = t2
  w1 = w1
  w2 = w2
  p1 = p1
  p2 = p2
  None = None
  Gateways = {g1}
  Tenants = {t1, t2}
  Replayers = {p1, p2}
  Writers = {w1, w2}
  GatewayOf <- MCGatewayOf
  Records <- MCRecords
  Unappendable <- MCUnappendable
  MaxPending = 2
  MaxStaged = 1
  StoreMayLie = TRUE
  ReadsMayLag = TRUE
SYMMETRY Interchangeable
INVARIANTS
  NoDuplicateRecords
  NothingLost
  BacklogBounded
PROPERTIES
  ReplayKeepsStagingOrder
  ImplementsDurableEvidence
