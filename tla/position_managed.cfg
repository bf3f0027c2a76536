SPECIFICATION FairSpec
CHECK_DEADLOCK FALSE
CONSTANTS
  MaxPrice = 6
  Spread = 1
  Entry = 3
  Risk = 1
  Reward = 2
  BreakevenAtR = 1
  Buffer = 1
  MaxFaults = 2
INVARIANT StopInv
INVARIANT AccountAgrees
PROPERTY StopOnlyTightens
PROPERTY ExitsClose
