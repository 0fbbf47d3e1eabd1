SPECIFICATION Spec
CONSTANTS
  Bound <- MCBound
  Enforced = {TRUE, FALSE}
INVARIANTS TypeOK CleanUpsAreSound ProjectsCanBeCleared
