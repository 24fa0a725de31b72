CONSTANTS
  Repos = {r1}
  Workers = {w1, w2}
  Clients = {c1}
  LeaseInstants = {1, 2, 3}
  None = None
  MaxJobs = 1
  MaxAttempts = 1
  MaxReleases = 1

SPECIFICATION FairSpec

\* Once its repositories are deleted the system has nothing left to do.
CHECK_DEADLOCK FALSE

PROPERTIES
  FailedFactsPurged
