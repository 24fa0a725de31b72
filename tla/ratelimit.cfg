CONSTANTS
  Routes <- MCRoutes
  Users = {}
  Hosts = {h1}
  Limit <- MCLimit
  WindowSeconds = 2
  Second = 2
  MaxClock = 6
  MaxHits = 3

SPECIFICATION Spec

\* The clock is bounded.
CHECK_DEADLOCK FALSE

INVARIANTS
  WindowBudget
  NoFalseRefusal
  RetryAfterEnough
PROPERTIES
  WindowAlwaysEnds
