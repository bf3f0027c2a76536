SPECIFICATION BacktestSpec
CONSTANTS
  NBars = 5
  Bars <- SmallBars
  MaxSignals = 2
  StopDistance = 2
  TargetDistance = 3
  Mid = 4
  BreakevenAtR = 1
  Buffer = 1
INVARIANT SimulationInv
