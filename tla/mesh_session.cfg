SPECIFICATION FairSpec
CHECK_DEADLOCK FALSE
CONSTANTS
  MaxEvents = 4
  OutboxMax = 2
  MaxCommands = 1
  MaxDrops = 4
  LastExponent = 1
INVARIANT MeshInv
PROPERTY ChannelSpec
PROPERTY KeepsTelling
PROPERTY StopEnds
