SPECIFICATION FairSpec
CONSTANTS
  Proposals = {p1, p2}
  Actors = {a1, a2}
  NoProposal = NoProposal
  Faults <- AllFaults
INVARIANT DeploymentInv
PROPERTY HumanGate
PROPERTY DecidedOrDropped
