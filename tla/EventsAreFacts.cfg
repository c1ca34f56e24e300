SPECIFICATION PlacementSpec
CONSTANTS
  p1 = p1
  p2 = p2
  s1 = s1
  s2 = s2
  s3 = s3
  k1 = k1
  Product = {p1, p2}
  Session = {s1, s2}
  Key = {k1}
  NoKey = NoKey
  NoSession = NoSession
  NoRow = NoRow
  NoRequest = NoRequest
  Quantity <- MCQuantity
  Amount <- MCAmount
  Request <- KeyedRequests
  Publisher = {s1, s2}
  EarlyReply = {}
  Failing = {}
INVARIANT EventsAreFacts
