SPECIFICATION FairHealth
CONSTANTS
  p1 = p1
  p2 = p2
  s1 = s1
  s2 = s2
  k1 = k1
  h1 = h1
  h2 = h2
  Probe = {h1, h2}
  Unreliable = {"database", "redis"}
  Product = {p1, p2}
  Session = {s1, s2}
  Key = {k1}
  NoKey = NoKey
  NoSession = NoSession
  NoRow = NoRow
  NoRequest = NoRequest
  Quantity <- MCQuantity
  Amount <- MCAmount
  Request <- MCRequest
  Publisher = {s2}
  EarlyReply = {s1}
  Failing = {s1, s2}
  PoolSize = 2
INVARIANT HoldersAreConnected
PROPERTIES
  ImplementsPool
  OrdersFinishBesideProbes
  ProbesAreServed
