SPECIFICATION Spec
CONSTANTS
    Drives = {"C:"}
    NodeFacts <- MCNodeFacts
    ObservationFacts <- MCObservationFacts
    EdgeFacts <- MCEdgeFacts
    AssertionFacts <- MCAssertionFacts
    DiagnosticFacts <- MCDiagnosticFacts
    Edits <- MCEdits
    Producers = {"py", "resolver"}
    SetArrayKeys = {"decorators", "roles"}
    NoHash = NoHash
    NoName = NoName
    MaxEdits = 1
INVARIANTS
    SealedSound
    PathsLead
    HashOfGiven
PROPERTY SealedForGood
\* A sealed snapshot is not touched again.
CHECK_DEADLOCK FALSE
