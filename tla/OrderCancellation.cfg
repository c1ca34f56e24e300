SPECIFICATION FairCancellation
CONSTANTS
  p1 = p1
  p2 = p2
  s1 = s1
  s2 = s2
  s3 = s3
  o1 = o1
  o2 = o2
  o3 = o3
  o4 = o4
  Product = {p1, p2}
  Session = {s1, s2, s3}
  Order = {o1, o2, o3, o4}
  NoSession = NoSession
  NoRow = NoRow
  NoRequest = NoRequest
  Quantity <- MCQuantity
  Amount <- MCAmount
  Placed <- MCPlaced
  InitialStatus <- MCInitialStatus
  Seeded <- MCSeeded
  Request <- MCRequest
  Publisher = {s1, s2}
  Failing = {s2, s3}
INVARIANTS
  CancellationIInv
  StockBacksLiveOrders
  ReleaseNeverFails
  OneSetOfItems
PROPERTIES
  OnlyPendingIsCancelled
  ImplementsBook
  CancelsFinish
