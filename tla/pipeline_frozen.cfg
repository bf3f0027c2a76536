SPECIFICATION Spec
CONSTANTS
  Keys = {k1}
  Webhook = Webhook
  MaxDaily = 2
  Faults <- None
  MaxCandle = 2
  MaxSignals = 1
  MaxRestarts = 0
INVARIANT JudgedFinal
