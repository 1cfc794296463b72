SPECIFICATION FairSpec
CONSTANTS
  g1 = g1
  t1 = t1
  t2 = t2
  w1 = w1
  w2 = w2
  p1 = p1
  p2 = p2
  None = None
  Gateways = {g1}
  Tenants = {t1, t2}
  Replayers = {p1}
  Writers = {w1, w2}
  GatewayOf <- MCGatewayOf
  Records <- MCRecoveryRecords
  Unappendable <- MCUnappendable
  MaxPending = 3
  MaxStaged = 1
  StoreMayLie = FALSE
  ReadsMayLag = FALSE
PROPERTY
  StagedDrains
