CONSTANTS
  Keys = {k1}
  Revisions = {v1, v2}
  Archives = {u1}
  Requests = {c1, c2, c3}
  Cleaners = {}
  RowLocks = TRUE
  MaxRepos = 3
  MaxRetries = 5
  None = None

SPECIFICATION Spec
SYMMETRY Symmetry

\* Ids are bounded, and a deleted account takes no more requests.
CHECK_DEADLOCK FALSE

INVARIANTS
  LatestIsNewest
  PresentHasSource
  RetriesSuffice
