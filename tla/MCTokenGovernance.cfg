SPECIFICATION Spec
CONSTANTS
  d1 = d1
  d2 = d2
  t1 = t1
  t2 = t2
  t3 = t3
  e1 = e1
  e2 = e2
  x = x
  y = y
  k1 = k1
  k2 = k2
  b1 = b1
  b2 = b2
  th1 = th1
  th2 = th2
  th3 = th3
  None = None
  Decisions = {d1}
  Tokens = {t1}
  Bindings = {e1, e2}
  Bundles = {x, y}
  Keys = {k1, k2}
  Brokers = {b1}
  Threads = {th1}
  DecisionOf <- MCDecisionOf
  BindingOf <- MCBindingOf
  BrokerOf <- MCBrokerOf
  Warrants <- Mixed
  ClassModes = {"shadow", "enforce", "halted"}
  Revocable = {t1, k1}
  Lifetimes = {2}
  Ttl = 1
  Retention = 4
  Grace = 1
  MaxStall = 1
  MaxTime = 2
INVARIANTS
  RefusedStaysRefused
