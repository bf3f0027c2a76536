SPECIFICATION Spec
CONSTANTS
  Tickets = {t1, t2, t3, t4}
  MaxOpen = 2
  Backend = "paper"
  Faults <- AllPaperFaults
  MaxFaults = 2
SYMMETRY Symmetry
INVARIANT TableInv
PROPERTY OrdersOnlyWhenReconciled
PROPERTY LedgerSpec
