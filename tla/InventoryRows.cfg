SPECIFICATION RowsSpec
CONSTANTS
  p1 = p1
  p2 = p2
  s1 = s1
  s2 = s2
  Product = {p1, p2}
  Session = {s1, s2}
  NoSession = NoSession
  NoRow = NoRow
  Quantity <- MCQuantity
  Amount <- MCAmount
  MaxVersion = 1
CONSTRAINT VersionBound
INVARIANTS
  RowsIInv
  NoOversell
  NoLostUpdate
PROPERTY VersionAdvances
