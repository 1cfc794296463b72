SPECIFICATION Spec
CONSTANTS
  d1 = d1
  d2 = d2
  t1 = t1
  t2 = t2
  t3 = t3
  e1 = e1
  e2 = e2
  x = x
  y = y
  k1 = k1
  k2 = k2
  b1 = b1
  b2 = b2
  th1 = th1
  th2 = th2
  th3 = th3
  None = None
  Decisions = {d1, d2}
  Tokens = {t1, t3}
  Bindings = {e1}
  Bundles = {x}
  Keys = {k1}
  Brokers = {b1}
  Threads = {th1, th2}
  DecisionOf <- MCDecisionOf
  BindingOf <- MCBindingOf
  BrokerOf <- MCBrokerOf
  Warrants <- Allowed
  ClassModes = {"enforce"}
  Revocable = {}
  Lifetimes = {6}
  Ttl = 1
  Retention = 4
  Grace = 0
  MaxStall = 1
  MaxTime = 6
INVARIANTS
  SpentIsRemembered
