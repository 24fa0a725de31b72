SPECIFICATION AnalysisSpec
CONSTANTS
    Drives = {"C:"}
    NodeFacts = {}
    ObservationFacts = {}
    EdgeFacts = {}
    AssertionFacts = {}
    DiagnosticFacts = {}
    Edits = {}
    MaxEdits = 0
    Producers <- MCProducers
    SetArrayKeys = {"decorators", "declarations", "resolutions"}
    NoHash = NoHash
    NoName = NoName
    NoSpan = NoSpan
    PypiFold <- MCPypiFold
    Identifiers <- MCIdentifiers
    Builtins = {"getattr", "__import__"}
    GlobalCalls = {"parseInt"}
    FileRules <- MCFileRules
    SymbolRole <- MCSymbolRole
    AuthNames = {"require_user"}
    Repositories <- MCRepositories
INVARIANT BorrowsNothing
\* An analysis ends once its snapshot is sealed or rejected.
CHECK_DEADLOCK FALSE
