CONSTANTS
  Repos = {r1}
  Workers = {w1}
  Clients = {c1}
  LeaseInstants = {1, 2}
  None = None
  MaxJobs = 1
  MaxAttempts = 2
  MaxReleases = 2

SPECIFICATION FairSpec

\* Once its repositories are deleted the system has nothing left to do.
CHECK_DEADLOCK FALSE

INVARIANTS
  CompletedIsSealed
PROPERTIES
  EveryJobSettles
