SPECIFICATION FairSpec
CONSTANTS
  Pools = {tank}
  Reasons = {degraded, errors}
  MaxLoads = 2
INVARIANTS
  ShownIsCurrent
  ProblemIsShown
  MissingIsRegistered
PROPERTY MissingIsTold
