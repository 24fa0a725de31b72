CONSTANTS
  Emails = {e1, e2}
  Providers = {p1}
  Subjects = {s1}
  Requests = {c1, c2}
  Development = FALSE
  None = None
  MaxUsers = 2
  MaxTokens = 3
  MaxFlows = 1
  MaxIdentities = 2

SPECIFICATION Spec
SYMMETRY Symmetry

\* Ids are bounded.
CHECK_DEADLOCK FALSE

INVARIANTS
  OneOpenToken
  OneAccount
  DeletedIsGone
PROPERTIES
  ClosedForGood
