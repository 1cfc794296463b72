SPECIFICATION Spec
CONSTANTS
  g1 = g1
  g2 = g2
  t1 = t1
  d1 = d1
  c1 = c1
  c2 = c2
  c3 = c3
  p1 = p1
  None = None
  Gateways = {g1, g2}
  Tenants = {t1}
  Replayers = {p1}
  Calls = {c1, c2}
  Decisions = {d1}
  GatewayOf <- MCGatewayOf
  TenantOf <- MCTenantOf
  DecisionOf <- MCDecisionOf
  Requests <- MCAllow
  Unappendable = {}
  MaxPending = 2
  StoreMayLie = FALSE
  ReadsMayLag = FALSE
INVARIANT
  RecordedMeansAuthorised
