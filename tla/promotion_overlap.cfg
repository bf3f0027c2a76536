SPECIFICATION Spec
CONSTANTS
  Actors = {a1, a2}
  Live = TRUE
SYMMETRY Symmetry
INVARIANT AuditInv
PROPERTY AuditTrail
PROPERTY OnlyLateSkips
PROPERTY OrderApproved
