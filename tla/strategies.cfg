SPECIFICATION StrategiesSpec
CONSTANTS
  MaxPrice = 5
  Levels = {2, 4}
  FreshBars = 3
  LookbackBars = 2
  MaxDistance = 2
  MaxAttempts = 2
  Zone = 1
  Buffer = 1
  MinRR = 1
  AtrPeriod = 2
  SwingFloor = 25
  Tolerance = 15
  MinTouches = 2
  BodyPeriod = 2
  BodyMult = 150
  BlockLookback = 3
  MaxSwings = 2
  RecentBars = 6
  MinBreakBars = 5
  Bars = 9
  MinBias = 8
  SlBuffer = 50
  Hours = 10
  Shapes <- MCShapes
  FastEma = 1
  SlowEma = 3
  TrendEma = 3
  RsiPeriod = 2
  RsiBuyMax = 70
  RsiSellMin = 30
  MeanPeriod = 4
  MaxAtr = 150
  SlAtr = 150
  TpAtr = 250
  SlFixed = 12
  TpFixed = 20
  MoreHistory = 3
  Sides = {"long", "short"}
INVARIANT AttemptInv
INVARIANT CacheInv
INVARIANT Mirrored
INVARIANT BreaksAgree
INVARIANT SignalSound
PROPERTY HistoryFixed
PROPERTY LinesSettled
