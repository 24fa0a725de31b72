------------------------------ MODULE Analysis ------------------------------
(***************************************************************************)
(* The stages of one analysis (workers/analysis_worker.py, _stage_extract  *)
(* and _stage_seal) over the stored files of one repository: the files are *)
(* read in the order of their paths (analysis/source_stream.py), each goes *)
(* through extraction/pipeline.py, the facts are persisted as they come,   *)
(* dependency facts wait for the merge, then the relationships are         *)
(* resolved, roles given and the snapshot sealed.                          *)
(***************************************************************************)
EXTENDS Resolution, PythonSource, TypeScriptSource, Manifests

CONSTANT Repositories   \* the file sequences an analysis may meet

SourceFiles == UNION {Range(files) : files \in Repositories}

IsList(s) == s \in Seq(Range(s))

\* No name has a dot, and only a relative import has no module.
PythonStatement(st) ==
    /\ st.kind = "import" => st.parts \in Seq(STRING \ Extensions) /\ st.parts # <<>>
    /\ st.kind = "from" =>
          /\ st.parts \in Seq(STRING \ Extensions) /\ st.name \in STRING \ Extensions
          /\ st.level \in Nat /\ (st.level = 0 => st.parts # <<>>)
    /\ st.kind \in {"def", "class"} =>
          IsList(st.decorators) /\ \A d \in Range(st.decorators) : IsList(d.guards)
    /\ st.kind = "assign" => IsList(st.guards)
    /\ st.kind = "call" => IsList(st.args)

TsStatement(st) ==
    /\ st.kind = "import" => IsList(st.named)
    /\ st.kind = "class" => IsList(st.implements)

\* The paths of a stored tree are relative and lead nowhere but down; the
\* text and what stands in it have finitely many lines.
ASSUME RepositoriesAssumption ==
    /\ \A files \in Repositories :
          /\ files \in Seq(Range(files))
          /\ \A i, j \in DOMAIN files : files[i].path = files[j].path => i = j
    /\ \A f \in SourceFiles :
          /\ f.path \in Seq(STRING) /\ Len(f.path) > 1
          /\ ~Escapes(f.path) /\ NormalizePath(f.path) = f.path
          /\ f.lines \in Nat
          /\ IsList(f.body)
          /\ \A st \in Range(f.body) : st.line \in Nat
          /\ Last(f.path) = ".py" => \A st \in Range(f.body) : PythonStatement(st)
          /\ Last(f.path) \in {".ts", ".tsx"} => \A st \in Range(f.body) : TsStatement(st)

VARIABLES
    stage,      \* where the analysis stands, "raised" once a write was refused
    todo,       \* files still to read, in the order of the stream
    read,       \* files read so far
    deferred    \* dependency nodes and observations that wait for the merge

analysisVars == <<vars, stage, todo, read, deferred>>

-----------------------------------------------------------------------------
(* ExtractionPipeline.iter_run                                             *)

Inventory == "repository-inventory"

Extractor(f) ==
    CASE Last(f.path) = ".py" -> Python
      [] Last(f.path) \in {".ts", ".tsx"} -> TypeScript
      [] Basename(f.path) \in ManifestNames -> Manifest
      [] Basename(f.path) \in LockfileNames \cup DisclosedNames -> Lockfile
      [] Basename(f.path) \in IacNames -> Iac
      [] OTHER -> Inventory

Language(f) ==
    CASE Last(f.path) = ".py" -> "python"
      [] Last(f.path) \in {".ts", ".tsx"} -> "typescript"
      [] OTHER -> NoName

\* The evidence of the root is the first line of the first file that decodes.
RootNodes(f) ==
    IF Decodes(f) /\ ~\E g \in Range(read) : Decodes(g)
    THEN {Node("repository", RootKey, [name |-> "repository"], NoArrays,
               Span(f, 1, 1, Inventory))}
    ELSE {}

\* _file_node; the bytes of a file are its record.
FileNode(f) ==
    Node("file", FileKey(f.path),
         [basename |-> Basename(f.path), language |-> Language(f), content_sha256 |-> f],
         NoArrays, WholeFile(f, Inventory))

LimitDiagnostic(f) ==
    Diagnostic("RI-LIMIT-SKIP", "info", "too large", f.path, NoSpan, FileKey(f.path), Inventory)

Extracted(f) ==
    CASE Extractor(f) = Python -> PythonExtract(f)
      [] Extractor(f) = TypeScript -> TypeScriptExtract(f)
      [] Extractor(f) = Manifest -> ManifestExtract(f)
      [] Extractor(f) = Lockfile -> LockfileExtract(f)
      [] Extractor(f) = Iac -> IacExtract(f)

\* The inventory adds the file node unless the extractor found no node or
\* emitted one of its own.
InventoryOf(f, found) ==
    CASE f.oversize -> Result(RootNodes(f), {}, {LimitDiagnostic(f)})
      [] ~f.oversize /\ Extractor(f) # Inventory ->
            Result(RootNodes(f)
                    \cup {n \in {FileNode(f)} : found # {} /\ Decodes(f)
                            /\ \A m \in found : m.stable_key # FileKey(f.path)}, {}, {})
      [] ~f.oversize /\ Extractor(f) = Inventory /\ ~Decodes(f) ->
            Result(RootNodes(f), {}, {DecodeDiagnostic(f, Inventory)})
      [] OTHER -> Result(RootNodes(f) \cup {FileNode(f)}, {}, {})

ExtractedBy(f) ==
    IF f.oversize \/ Extractor(f) = Inventory THEN Result({}, {}, {}) ELSE Extracted(f)

\* A result with a dependency node waits; the others are persisted at once.
Waits(result) == \E n \in result.nodes : n.node_kind = "dependency"

-----------------------------------------------------------------------------
(* _persist_produced: a refused write raises and ends the analysis         *)

Raise ==
    /\ stage' = "raised"
    /\ state' = "failed"
    /\ Discard
    /\ UNCHANGED <<hash, given, edits, todo, read, deferred>>

BatchRefused(ns, os, ds) ==
    LET keys == NodeKeys \cup {NodeRow(n).stable_key : n \in ns}
    IN  \/ \E n \in ns : NodeRefused(n)
        \/ \E m, n \in ns : /\ NodeRow(m).stable_key = NodeRow(n).stable_key
                            /\ NodeRow(m) # NodeRow(n)
        \/ \E o \in os : \/ KeyRefused(o.subject_kind, o.subject)
                         \/ Subject(o) \notin keys
                         \/ EvidenceRefused(ObservationRef(ObservationRow(o).id), o.evidence)
        \/ \E d \in ds : DiagnosticRefused(d)

Persist(ns, os, ds) ==
    /\ nodes' = nodes \cup {NodeRow(n) : n \in ns}
    /\ observations' = observations \cup {ObservationRow(o) : o \in os}
    /\ diagnostics' = diagnostics \cup {DiagnosticRow(d) : d \in ds}
    /\ evidence' = evidence
            \cup (UNION {EvidenceRows(NodeRef(NodeRow(n).stable_key), n.evidence) : n \in ns})
            \cup {EvidenceRow(ObservationRef(ObservationRow(o).id), o.evidence) : o \in os}
    /\ stored' = evidence'
    /\ given' = [given EXCEPT !.nodes = @ \cup ns, !.observations = @ \cup os,
                              !.diagnostics = @ \cup ds]
    /\ UNCHANGED <<state, edges, assertions, derivations, hash, edits>>

-----------------------------------------------------------------------------
(* Actions                                                                 *)

AnalysisInit ==
    /\ Init
    /\ stage = "extract"
    /\ todo \in Repositories
    /\ read = <<>>
    /\ deferred = Result({}, {}, {})

\* What the inventory and the extractor have of the next file is persisted or
\* deferred.
HandOver(inv, ext) ==
    LET kept == IF Waits(ext) THEN Result({}, {}, {}) ELSE ext
        ns == inv.nodes \cup kept.nodes
        ds == inv.diagnostics \cup kept.diagnostics
    IN  IF BatchRefused(ns, kept.observations, ds) THEN Raise
        ELSE /\ Persist(ns, kept.observations, ds)
             /\ deferred' = IF ~Waits(ext) THEN deferred
                            ELSE Result(deferred.nodes \cup ext.nodes,
                                        deferred.observations \cup ext.observations,
                                        deferred.diagnostics \cup ext.diagnostics)
             /\ todo' = Tail(todo)
             /\ read' = Append(read, Head(todo))
             /\ UNCHANGED stage

\* The stream yields one file and the pipeline hands its results over.
ReadFile ==
    /\ stage = "extract" /\ todo # <<>>
    /\ \E ext \in {ExtractedBy(Head(todo))} :
          HandOver(InventoryOf(Head(todo), ext.nodes), ext)

\* A file that has gone since the import is passed over.
FileGone ==
    /\ stage = "extract" /\ todo # <<>>
    /\ todo' = Tail(todo)
    /\ UNCHANGED <<vars, stage, read, deferred>>

ReadOrder ==
    [path \in {f.path : f \in Range(read)} |->
        CHOOSE i \in DOMAIN read : read[i].path = path]

\* Mutation: what one of the files declares stands for all.
MergeOne(ns) ==
    {[n EXCEPT !.properties = (CHOOSE m \in ns : m.stable_key = n.stable_key).properties] :
        n \in Merge(ns, ReadOrder)}

Merged(ns) == Merge(ns, ReadOrder)

\* merge_dependency_facts at the end of the stream
PersistDeferred ==
    /\ stage = "extract" /\ todo = <<>>
    /\ LET ns == Merged(deferred.nodes)
       IN  IF BatchRefused(ns, deferred.observations, deferred.diagnostics) THEN Raise
           ELSE /\ Persist(ns, deferred.observations, deferred.diagnostics)
                /\ stage' = "resolve"
                /\ UNCHANGED <<todo, read, deferred>>

Resolve ==
    /\ stage = "resolve"
    /\ \E outcomes \in {Outcomes} :
       LET es == UNION {x.edges : x \in outcomes}
           ds == UNION {x.diagnostics : x \in outcomes}
       IN  IF \E e \in es : EdgeRefused(e) THEN Raise
           ELSE /\ edges' = edges \cup {EdgeRow(e) : e \in es}
                /\ evidence' = evidence
                        \cup UNION {EvidenceRows(EdgeRef(EdgeRow(e).id), e.evidence) : e \in es}
                /\ stored' = evidence'
                /\ derivations' = derivations
                        \cup UNION {DerivationRows(EdgeRef(EdgeRow(e).id), e.derived_from) :
                                        e \in es}
                /\ diagnostics' = diagnostics \cup {DiagnosticRow(d) : d \in ds}
                /\ given' = [given EXCEPT !.edges = @ \cup es, !.diagnostics = @ \cup ds]
                /\ stage' = "classify"
                /\ UNCHANGED <<state, nodes, observations, assertions, hash, edits, todo, read,
                               deferred>>

Classify ==
    /\ stage = "classify"
    /\ IF \E a \in Classifications : AssertionRefused(a) THEN Raise
       ELSE /\ assertions' = assertions \cup {AssertionRow(a) : a \in Classifications}
            /\ derivations' = derivations
                    \cup UNION {DerivationRows(AssertionRef(AssertionRow(a).id), a.derived_from) :
                                    a \in Classifications}
            /\ given' = [given EXCEPT !.assertions = @ \cup Classifications]
            /\ stage' = "seal"
            /\ UNCHANGED <<state, nodes, observations, edges, diagnostics, evidence, stored, hash,
                           edits, todo, read, deferred>>

SealStage ==
    /\ stage = "seal"
    /\ Seal \/ SealFails
    /\ stage' = "done"
    /\ UNCHANGED <<todo, read, deferred>>

AnalysisNext ==
    \/ ReadFile
    \/ FileGone
    \/ PersistDeferred
    \/ Resolve
    \/ Classify
    \/ SealStage

AnalysisSpec == AnalysisInit /\ [][AnalysisNext]_analysisVars

-----------------------------------------------------------------------------
(* Properties                                                              *)

\* A compose file that names one service twice; yaml.compose accepts it.
RepeatsKey(f) ==
    /\ Extractor(f) = Iac /\ Decodes(f) /\ f.parses
    /\ \E i, j \in DOMAIN f.body :
          i # j /\ IacNode(f, f.body[i]).stable_key = IacNode(f, f.body[j]).stable_key

\* _stage_extract, _stage_seal: what the extractors, the merge, the resolver
\* and the classifier give one another is consistent.  Whatever the files,
\* also files of two languages in one directory or packages declared in
\* several places, no write is refused and the snapshot seals; except that a
\* service declared twice in a compose file ends the analysis, and that
\* without any text file there is no root.
AnalysisSeals ==
    /\ stage = "raised" => todo # <<>> /\ RepeatsKey(Head(todo))
    /\ stage = "done" => (state = "completed") = (\E f \in Range(read) : Decodes(f))

\* The observations that claim a relationship
RelationshipKinds ==
    {"definition", "import", "call", "implements", "dependency", "injects", "http_call",
     "iac_resource", "route"}

\* A route is answered through the observation of its handler.
Answering(o) ==
    {o.id} \cup {h.id : h \in {x \in Inputs("route_handler") :
                        o.row.observed_kind = "route" /\ x.row.subject = o.row.subject}}

\* RelationshipResolver.resolve: every relationship somebody observed ends
\* either as an edge that cites it or as a diagnostic that names it; it is
\* never lost, and never both resolved and reported.
EveryInputAnswered ==
    stage \in {"classify", "seal", "done"} /\ state # "failed" =>
        \A o \in {x \in observations : x.row.observed_kind \in RelationshipKinds} :
            LET ids == Answering(o)
                resolved == \E d \in derivations :
                                /\ d.of.kind = "edge" /\ d.ref.kind = "observation"
                                /\ d.ref.id \in ids
                reported == \E d \in diagnostics :
                                "id" \in DOMAIN d.observation /\ d.observation.id \in ids
            IN  resolved # reported

FileAt(path) == CHOOSE f \in Range(read) : f.path = path

\* The scope that owns a name in Python: of the scope itself and the functions
\* around it the innermost that binds it or declares it global.
Owner(f, name, s) ==
    LET around[k \in Scopes(f)] == IF k = 0 THEN {} ELSE {k} \cup around[f.body[k].scope]
        visible == {k \in around[s] : k = s \/ ~IsClass(f, k)}
        owners == {k \in visible : name \in ScopeNames(f, k) \cup Globals(f, k)}
        inner == CHOOSE k \in owners : \A j \in owners : j <= k
    IN  IF owners = {} THEN 0 ELSE IF name \in Globals(f, inner) THEN 0 ELSE inner

CallsAt(f, r) ==
    {i \in DOMAIN f.body : f.body[i].kind = "call" /\ f.body[i].line = r.start_line}

\* The innermost function or class a node of a TypeScript file stands in.
Home(f, i) ==
    LET inside == SelectSeq(Around(f, i), LAMBDA k :
                    f.body[k].kind \in {"function", "arrow", "class"})
    IN  IF inside = <<>> THEN 0 ELSE Head(inside)

\* A function around i has a parameter or a declaration of that name.
Hidden(f, i, name) ==
    \E s \in Range(Around(f, i)) :
        /\ f.body[s].kind \in {"function", "arrow"}
        /\ \/ name \in f.body[s].params
           \/ \E j \in DOMAIN f.body :
                 /\ f.body[j].kind \in {"function", "class", "const", "var"}
                 /\ f.body[j].name = name /\ Home(f, j) = s

NamesModule(f, i, name) ==
    IF Last(f.path) = ".py" THEN Owner(f, name, f.body[i].scope) = 0 ELSE ~Hidden(f, i, name)

\* The symbols of a name that the file at a path declares.
Declarations(path, name) ==
    LET f == FileAt(path)
        python == Last(path) = ".py"
    IN  {IF python THEN SymbolOf(f, i) ELSE TsSymbolOf(f, i) :
            i \in {j \in IF python THEN Symbols(f) ELSE TsSymbols(f) :
                    f.body[j].name = name /\ ValidSpan(Span(f, f.body[j].line, f.body[j].end,
                                                           Extractor(f)))}}

\* What it declares at its top, the first where there are several.
TopOf(path, name) ==
    {k \in {SymbolKey(path, <<>>, name, 1)} :
        \E d \in Declarations(path, name) : d.name.scope = <<>>}

\* The names that stand for what is imported from a file under a name
Exports(path, name) == IF name = "default" THEN DefaultExports(FileAt(path)) ELSE {name}

\* What an import of the module takes from its file to bind a name.
Takes(f, i, name) ==
    LET st == f.body[i]
    IN  CASE st.kind = "from" /\ st.scope = 0 /\ st.local = name -> {st.name}
          [] st.kind = "import" /\ Last(f.path) # ".py" ->
                {b.imported : b \in {x \in Range(st.named) : x.local = name}}
                    \cup {x \in {"default"} : st.default = name}
          [] OTHER -> {}

BringsIn(f, name) == {i \in DOMAIN f.body : Takes(f, i, name) # {}}

\* The directories Python may search: the root, and those that hold a package
\* which is not part of another.
SearchPath == {<<>>} \cup ({Front(d) : d \in Packages \ {<<>>}} \ Packages)

\* A file as an import may name it from a directory: without extension, and a
\* package or an index by its directory, too.
NamedFrom(root, path) ==
    LET stem == Front(path)
        rest == SubSeq(stem, Len(root) + 1, Len(stem))
        whole == <<Last(stem), Last(path)>>
    IN  {name \in {rest} \cup {d \in {Front(rest)} : whole \in
                {<<"__init__", ".py">>, <<"index", ".ts">>, <<"index", ".tsx">>}} :
            IsPrefix(root, stem) /\ name # <<>> /\ Last(path) \in Extensions}

\* The files that have the name an import says: in Python from the search path
\* or from the package the dots lead to, in TypeScript where the path leads
\* from the directory of the file.
ModuleFiles(f, i) ==
    LET st == f.body[i]
        package == SubSeq(f.path, 1, Len(f.path) - 1 - st.level)
        names(p) == NamedFrom(<<>>, p) \cup {q \in {p} : Last(q) \in Extensions}
    IN  CASE st.kind = "import" ->
                {p \in FilePaths : st.spec.slash /\
                    \E name \in names(p) : Leads(Directory(f.path) \o st.spec.parts, name)}
          [] st.kind = "from" /\ st.level = 0 ->
                {p \in FilePaths : Last(p) = ".py" /\
                    \E root \in SearchPath : st.parts \in NamedFrom(root, p)}
          [] OTHER -> {p \in FilePaths : st.parts \in NamedFrom(package, p)}

\* The packages a relative import passes on the way to its module.
PassedFiles(f, i) ==
    LET st == f.body[i]
        package == SubSeq(f.path, 1, Len(f.path) - 1 - st.level)
    IN  IF st.kind = "import" \/ st.level = 0 THEN {}
        ELSE {p \in FilePaths : \E name \in NamedFrom(package, p) :
                name # st.parts /\ IsPrefix(name, st.parts)}

\* What a name of the module means: what the file itself defines at its top,
\* else what its imports take under that name from the top of their files.
Means(f, name) ==
    LET taken(i) == UNION {UNION {TopOf(p, y) : y \in Exports(p, x)} :
                              p \in ModuleFiles(f, i), x \in Takes(f, i, name)}
    IN  IF TopOf(f.path, name) # {} THEN TopOf(f.path, name)
        ELSE UNION {taken(i) : i \in BringsIn(f, name)}

\* What stands in for it where the files its imports say have no such name at
\* their top: that name deeper in the file, or in a package on the way.
StandsIn(f, name) ==
    LET any(p, y) == IF TopOf(p, y) # {} THEN TopOf(p, y) ELSE Declarations(p, y)
        taken(i) == UNION {UNION {any(p, y) : y \in Exports(p, x)} :
                              p \in ModuleFiles(f, i) \cup PassedFiles(f, i),
                              x \in Takes(f, i, name)}
    IN  UNION {taken(i) : i \in BringsIn(f, name)}

\* _collect_calls, _reference_candidates: a "calls" edge stands for a call on
\* the lines it cites whose name no parameter and no local declaration around
\* it hides, and it ends at the one thing that this name means in the module,
\* wherever the import that binds it leads.  Where the name means nothing in
\* the repository it may end at the one namesake that stands in for it, the
\* exception that BorrowsNothing reports.
CallsAreBound ==
    state = "completed" =>
        \A e \in {x \in edges : x.predicate = "calls"} :
        \A r \in EvidenceOf(EdgeRef(e.id)) :
            LET f == FileAt(r.path)
            IN  \E i \in CallsAt(f, r) :
                    /\ f.body[i].recv = NoName
                    /\ NamesModule(f, i, f.body[i].name)
                    /\ \/ Means(f, f.body[i].name) = {e.object}
                       \/ /\ Means(f, f.body[i].name) = {}
                          /\ StandsIn(f, f.body[i].name) = {e.object}

Latest(js) == CHOOSE j \in js \cup {0} : \A k \in js : k <= j

\* The last statement before i that binds a name where Python looks it up (a
\* loop at module level is not among those the extractor follows).
LastBinding(f, name, i) ==
    LET home == Owner(f, name, f.body[i].scope)
        before(h) ==
            {j \in 1..(i - 1) : /\ f.body[j].kind \in {"import", "from", "def", "class",
                                                       "assign", "with"}
                                /\ name \in Binds(f.body[j])
                                /\ Owner(f, name, f.body[j].scope) = h}
    IN  Latest(IF IsClass(f, home) /\ before(home) = {} THEN before(0) ELSE before(home))

\* What is bound there is a client library, or a client made by one of its
\* factories.
BindsClient(f, j) ==
    LET st == f.body[j]
        made(v) ==
            LET k == LastBinding(f, IF v.recv # NoName THEN v.recv ELSE v.name, j)
            IN  /\ k # 0 /\ f.body[k].parts[1] \in ClientModules
                /\ v.name \in ClientFactories[f.body[k].parts[1]]
                /\ v.recv = NoName => f.body[k].kind = "from"
    IN  \/ st.kind = "import" /\ Head(st.parts) \in ClientModules
        \/ st.kind \in {"assign", "with"} /\ made(st.value)

\* An import binds the name to the default export of axios.
BindsAxios(f, name) ==
    \E j \in DOMAIN f.body :
        /\ f.body[j].kind = "import" /\ f.body[j].default = name
        /\ f.body[j].spec.level = 0 /\ f.body[j].spec.parts = <<"axios">>

\* In TypeScript a client is the function fetch, called as such, or a method of
\* axios.
CallsClient(f, i) ==
    LET st == f.body[i]
        bare == st.recv = NoName
        j == LastBinding(f, st.recv, i)
    IN  IF Last(f.path) = ".py" THEN j # 0 /\ BindsClient(f, j)
        ELSE \/ bare /\ st.name = "fetch" /\ ~BindsAxios(f, st.name) /\ ~Hidden(f, i, st.name)
             \/ ~bare /\ BindsAxios(f, st.recv) /\ ~Hidden(f, i, st.recv)

\* The same scheme, host and port, the port of the scheme left out or not
SameOrigin(origin, url) ==
    /\ origin.scheme = url.scheme /\ origin.host = url.host
    /\ \/ origin.port = url.port
       \/ origin.port = NoPort /\ url.port = DefaultPort[url.scheme]

\* _collect_service_interactions: a service interaction stands for a call on a
\* name that is an HTTP client at that point of the file, never one that a
\* parameter or a later binding has taken, with the whole origin the edge ends
\* in.  In TypeScript the functions around the call are looked at, not whether
\* the program itself imports or defines another fetch.
ServiceCallsAreClients ==
    state = "completed" =>
        \A e \in {x \in edges : x.predicate = "calls_service"} :
        \A r \in EvidenceOf(EdgeRef(e.id)) :
            LET f == FileAt(r.path)
            IN  \E i \in CallsAt(f, r) :
                    CallsClient(f, i) /\ SameOrigin(e.object.name.origin, f.body[i].url)

\* What an import statement names: a module, or one of its members.
Dotted(st) == IF st.kind = "from" THEN Append(st.parts, st.name) ELSE st.parts

\* The module of the file says that the last name is a member.
BoundMember(f, dotted) ==
    \E j \in DOMAIN f.body :
        LET st == f.body[j]
        IN  /\ st.kind = "from" /\ st.level = 0 /\ st.name # "*" /\ Dotted(st) = dotted
            /\ st.scope = 0 /\ ~st.block /\ ValidSpan(At(f, st))

\* The files an import statement of f can mean.
Meant(f, i) ==
    LET st == f.body[i]
        wanted == {Dotted(st)} \cup {p \in {Front(Dotted(st))} : BoundMember(f, Dotted(st))}
        package == SubSeq(f.path, 1, Len(f.path) - 1 - st.level)
    IN  IF st.kind = "import" \/ st.level = 0
        THEN {p \in FilePaths : Last(p) = ".py" /\
                \E root \in SearchPath : NamedFrom(root, p) \cap wanted # {}}
        ELSE {p \in FilePaths : \E name \in NamedFrom(package, p) : IsPrefix(name, Dotted(st))}

\* _import_candidates, _resolve_candidates: an import of a Python file becomes
\* an edge to a file only where that file is the only one the statement can
\* mean from where it stands; the resolver never guesses.
NeverGuesses ==
    state = "completed" =>
        \A e \in {x \in edges : x.predicate = "imports" /\ x.object_kind = "file"} :
        \A r \in {x \in EvidenceOf(EdgeRef(e.id)) : Last(x.path) = ".py"} :
            LET f == FileAt(r.path)
            IN  \E i \in DOMAIN f.body : /\ f.body[i].kind \in {"import", "from"}
                                         /\ f.body[i].line = r.start_line
                                         /\ Meant(f, i) = {e.object.path}

\* A manifest or a lockfile whose entries are read.
Declares(f, p) ==
    /\ Extractor(f) = p /\ Decodes(f) /\ ~f.oversize /\ f.parses
    /\ p = Lockfile => f.supported /\ Basename(f.path) \notin DisclosedNames

\* merge_dependency_facts: the node of a package lists exactly what the files
\* that were read declare and pin under any spelling of its name, each with
\* its line as evidence.
DeclarationsKept ==
    state = "completed" =>
        \A n \in {m \in nodes : m.node_kind = "dependency"} :
        \A p \in {Manifest, Lockfile} :
            LET listed == IF p = Manifest THEN n.properties.declarations
                          ELSE n.properties.resolutions
                files == {f \in Range(read) : Declares(f, p)}
                said == UNION {{EntryRecord(f, x, p) : x \in
                            {y \in Range(f.body) : /\ y.line \in 1..f.lines /\ Claimed(y, p)
                                /\ DependencyKey(Ecosystem(f.path), y.name) = n.stable_key}} :
                                  f \in files}
            IN  /\ listed = said
                /\ \A x \in said : \E r \in EvidenceOf(NodeRef(n.stable_key)) :
                        r.path = x.path /\ r.start_line = x.line /\ r.extractor = p

\* The docstring of _reference_candidates: "returns no candidate ... rather
\* than borrowing an unrelated same-named symbol".  A name imported from a
\* file stands for something the file defines at its top.
BorrowsNothing ==
    state = "completed" =>
        \A e \in {x \in edges : x.predicate = "calls"} :
            \A r \in EvidenceOf(EdgeRef(e.id)) :
                r.path # e.object.path => e.object.name.scope = <<>>

=============================================================================
