CONSTANTS
  Repos = {r1}
  Workers = {w1}
  Clients = {c1, c2}
  LeaseInstants = {1, 2}
  None = None
  MaxJobs = 2
  MaxAttempts = 1
  MaxReleases = 1

SPECIFICATION Spec
SYMMETRY Symmetry

\* Once its repositories are deleted the system has nothing left to do.
CHECK_DEADLOCK FALSE

INVARIANTS
  RecordAgrees
  ReconcileNeverRaises
