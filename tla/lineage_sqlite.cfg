CONSTANTS
  Keys = {k1}
  Revisions = {v1, v2}
  Archives = {}
  Requests = {c1, c2}
  Cleaners = {m1}
  RowLocks = FALSE
  MaxRepos = 3
  MaxRetries = 5
  None = None

SPECIFICATION Spec
SYMMETRY Symmetry

\* Ids are bounded, and a deleted account takes no more requests.
CHECK_DEADLOCK FALSE

INVARIANTS
  SequencesNeverReused
  RevisionOnce
