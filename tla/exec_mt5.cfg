SPECIFICATION FairSpec
CONSTANTS
  Tickets = {t1, t2}
  MaxOpen = 2
  Backend = "mt5"
  Faults <- ServiceFaults
  MaxFaults = 3
INVARIANT PositionsInv
PROPERTY GoneIsResolved
PROPERTY Announced
