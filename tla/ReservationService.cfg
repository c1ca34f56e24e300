SPECIFICATION Spec
CONSTANTS
  p1 = p1
  p2 = p2
  Product = {p1, p2}
  NoEntry = NoEntry
  MaxAmount = 2
  MaxItems = 3
INVARIANTS
  WalkMatchesTotals
  ShortageLeavesNoTrace
  RollbackCannotFail
  ReservationIInv
