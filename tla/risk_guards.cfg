SPECIFICATION RiskSpec
CONSTANTS
  Actors = {loop, mesh, cli}
  Loop = loop
  DayLength = 4
  Sessions <- MCSessions
  Providers = {"calendar", "rss"}
  Events <- MCEvents
  Blackout = 1
  MaxOpen = 1
  MaxDaily = 1
  MaxDrawdown = 3
  MinEquity = 90
  RiskPerTrade = 2
  MinRisk = 1
  MaxRisk = 1
  Contract = 5
  MaxVolume = 20
  Hundredth = 2
  Symbols = {"gold", "micro", "alien"}
  Lots <- MCLots
  MinSl = 2
  MinTp = 3
  MinReward = 150
  Candidates <- MCCandidates
  Deposit = 100
  Results <- MCResults
  Floating <- MCFloating
  MaxClock = 6
  MaxTrades = 2
INVARIANT SwitchRespected
INVARIANT Quiet
INVARIANT DayLossBounded
INVARIANT SizedToRisk
PROPERTY OnlyLateDisarms
