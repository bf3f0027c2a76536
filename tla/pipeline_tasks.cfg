SPECIFICATION FairSpec
CONSTANTS
  Keys = {k1, k2}
  Webhook = Webhook
  MaxDaily = 1
  Faults <- AllFaults
  MaxCandle = 2
  MaxSignals = 2
  MaxRestarts = 1
INVARIANT OrderInv
PROPERTY SignalAnswered
