CONSTANTS
  Fixed = {"cloud"}
  SelfHosted = TRUE
  AllowedUrls <- MCAllowedUrls
  Addresses <- MCAddresses
  NoUrl = NoUrl
  Requests = {c1, c2}
  Repos = {r1}
  Urls <- MCUrls
  MaxRetries = 2
  MaxQueries = 3
  MaxSaves = 2
  MaxChanges = 1

SPECIFICATION Spec
SYMMETRY Symmetry

\* Questions and saves are bounded.
CHECK_DEADLOCK FALSE

INVARIANTS
  ThreadIsPairs
  AnswerKept
  SentWherePermitted
  KeyToItsProvider
  SlotNotLeaked
