----------------------------- MODULE Resolution -----------------------------
(***************************************************************************)
(* intelligence/resolution.py and intelligence/classification.py: the      *)
(* edges, the diagnostics and the roles that follow from the nodes and     *)
(* observations stored so far.  Nothing here reads a source file.          *)
(***************************************************************************)
EXTENDS SnapshotFacts, Extraction

CONSTANTS
    FileRules,      \* the path rules in their order: the role and its words
    SymbolRole,     \* names with a suffix that gives them a role
    AuthNames       \* names that look like an authentication guard

Resolver == "relationship-resolver"

Classifier == "role-classifier"

-----------------------------------------------------------------------------
(* Stored facts                                                            *)

InputEvidence(o) == CHOOSE e \in EvidenceOf(ObservationRef(o.id)) : TRUE

Inputs(kind) == {o \in observations : o.row.observed_kind = kind}

NodeAt(key) == CHOOSE n \in nodes : n.stable_key = key

KindOf(key) == IF key \in NodeKeys THEN NodeAt(key).node_kind ELSE "absent"

\* _source_file
SourceFile(o) ==
    IF KindOf(o.row.subject) = "file" THEN o.row.subject ELSE FileKey(InputEvidence(o).path)

BindingsOf(file) ==
    {o.row.referent_text : o \in {x \in Inputs("import_binding") : SourceFile(x) = file}}

\* _reference_input_key
ReferenceInputKey(o) ==
    <<o.row.subject, o.row.referent_text, InputEvidence(o).path, InputEvidence(o).start_line,
      InputEvidence(o).end_line, o.row.ordinal>>

ShadowedCalls == {ReferenceInputKey(o) : o \in Inputs("call_shadowed")}

-----------------------------------------------------------------------------
(* Candidates                                                              *)

Extensions == {".ts", ".tsx", ".py"}

\* _relative_file_candidates: every prefix of the dotted names is tried; a
\* specifier with a slash that leads to the root or out of it gives "." or
\* "..", which begin no key of a file.
RelativeFiles(spec, path) ==
    LET up[k \in Nat] ==
            IF k = 0 THEN Directory(path)
            ELSE IF up[k - 1] = <<>> THEN <<>> ELSE Front(up[k - 1])
        joined == Directory(path) \o spec.parts
        roots == IF spec.slash
                 THEN {r \in {NormalizePath(joined)} : r # <<>> /\ ~Resolved(joined).left}
                 ELSE {up[spec.level - 1] \o SubSeq(spec.parts, 1, k) : k \in DOMAIN spec.parts}
        files(root) ==
            IF Last(root) \in Extensions THEN {root}
            ELSE {Append(root, x) : x \in Extensions}
                    \cup {root \o <<"index", x>> : x \in {".ts", ".tsx"}}
                    \cup {root \o <<"__init__", ".py">>}
    IN  UNION {files(root) : root \in roots}

FilePaths == {n.stable_key.path : n \in {m \in nodes : m.node_kind = "file"}}

\* The directories with an __init__.py of their own
Packages ==
    {Directory(p) : p \in {q \in FilePaths : q[Len(q) - 1] = "__init__" /\ Last(q) = ".py"}}

\* Mutation: the parent of every package is a root.
PythonRootsNested == {<<>>} \cup {Front(d) : d \in Packages \ {<<>>}}

\* _python_source_roots: the directories that hold a top-level package.
PythonRoots ==
    {<<>>} \cup {Front(d) : d \in {p \in Packages \ {<<>>} : Front(p) \notin Packages}}

\* _python_absolute_file_candidates
AbsoluteFiles(parts) ==
    UNION {{Append(root \o parts, ".py"), root \o parts \o <<"__init__", ".py">>} :
              root \in PythonRoots}

\* _import_candidates: files first, else the packages of that name.
ImportCandidates(spec, path, bindings) ==
    LET paths ==
            CASE spec.level # 0 -> RelativeFiles(spec, path)
              [] spec.level = 0 /\ Last(path) = ".py" ->
                    AbsoluteFiles(spec.parts)
                        \cup UNION {AbsoluteFiles(b.spec.parts) :
                                b \in {x \in bindings : x.spec.level = 0
                                        /\ Append(x.spec.parts, x.imported) = spec.parts}}
              [] OTHER -> {}
        files == {FileKey(p) : p \in paths} \cap {n.stable_key : n \in
                    {m \in nodes : m.node_kind = "file"}}
        package == PackageRoot(spec)
    IN  IF files # {} THEN files
        ELSE IF package = NoName THEN {}
        ELSE NodeKeys \cap {DependencyKey("npm", package), DependencyKey("pypi", package)}

SymbolsOf(path) == {n \in nodes : n.node_kind = "symbol" /\ n.stable_key.path = path}

\* _reference_candidates: a full key, a definition of the same file, then
\* what the bindings of the file lead to.
ReferenceCandidates(referent, path, bindings) ==
    LET here == SymbolKey(path, <<>>, referent.name, 1)
        exported(file, b) ==
            LET direct == SymbolKey(file.path, <<>>, b.imported, 1)
            IN  CASE b.imported = "default" ->
                        {n.stable_key : n \in {m \in SymbolsOf(file.path) :
                            "default_export" \in DOMAIN m.attrs /\ m.attrs.default_export}}
                  [] b.imported # "default" /\ KindOf(direct) = "symbol" -> {direct}
                  [] OTHER -> {n.stable_key : n \in {m \in SymbolsOf(file.path) :
                                                        m.attrs.name = b.imported}}
        targets(b) == {k \in ImportCandidates(b.spec, path, {}) : KindOf(k) = "file"}
    IN  CASE "handler" \in DOMAIN referent -> NodeKeys \cap {referent.handler}
          [] "handler" \notin DOMAIN referent /\ KindOf(here) = "symbol" -> {here}
          [] "handler" \notin DOMAIN referent /\ KindOf(here) # "symbol"
                /\ FileKey(path) \in NodeKeys ->
                UNION {UNION {exported(file, b) : file \in targets(b)} :
                          b \in {x \in bindings : x.local = referent.name}}
          [] OTHER -> {}

\* _containing_symbol: the narrowest symbol around the lines, if there is one.
ContainingSymbols(o) ==
    LET at == InputEvidence(o)
        around == {r \in evidence :
                     /\ r.of.kind = "node" /\ KindOf(r.of.id) = "symbol"
                     /\ r.record.path = at.path
                     /\ r.record.start_line <= at.start_line
                     /\ r.record.end_line >= at.end_line}
        width(r) == r.record.end_line - r.record.start_line
        narrowest == {r \in around : \A q \in around : width(r) <= width(q)}
    IN  IF Cardinality(narrowest) = 1 THEN {r.of.id : r \in narrowest} ELSE {}

\* _reference_subject
ReferenceSubjects(o) ==
    CASE KindOf(o.row.subject) = "symbol" -> {o.row.subject}
      [] KindOf(o.row.subject) # "symbol" /\ ContainingSymbols(o) # {} -> ContainingSymbols(o)
      [] OTHER -> {o.row.subject} \cap {k \in NodeKeys : KindOf(k) \in {"file", "module"}}

-----------------------------------------------------------------------------
(* Outcomes: edges, or a diagnostic that names the observation             *)

ResolverEvidence(o) == [InputEvidence(o) EXCEPT !.extractor = Resolver]

EdgeFrom(o, subject, predicate, object) ==
    [subject_kind |-> KindOf(subject), subject |-> subject, predicate |-> predicate,
     object_kind |-> KindOf(object), object |-> object, producer |-> Resolver,
     evidence |-> {ResolverEvidence(o)}, derived_from |-> {ObservationRef(o.id)}]

Outcome(es, ds) == [edges |-> es, diagnostics |-> ds]

ResolverDiagnostic(o, code, message, candidates) ==
    [Diagnostic(code, "warning", message, InputEvidence(o).path,
                <<InputEvidence(o).start_line, InputEvidence(o).end_line>>, o.row.subject,
                Resolver)
        EXCEPT !.observation = [id |-> o.id], !.candidates = candidates]

Unresolved(o, message) ==
    Outcome({}, {ResolverDiagnostic(o, "RI-RES-UNRESOLVED", message, {})})

\* Mutation: an ambiguous name is passed over.
AmbiguousIgnored(o, message, candidates) == Outcome({}, {})

Ambiguous(o, message, candidates) ==
    Outcome({}, {ResolverDiagnostic(o, "RI-RES-AMBIGUOUS", message, candidates)})

\* _resolve_candidates
ResolveCandidates(o, subject, predicate, candidates) ==
    CASE candidates = {} -> Unresolved(o, predicate)
      [] Cardinality(candidates) > 1 -> Ambiguous(o, predicate, candidates)
      [] OTHER -> Outcome({EdgeFrom(o, subject, predicate, k) : k \in candidates}, {})

\* The parent of a qualified name is the symbol so qualified, without number.
ParentKey(key) ==
    IF key.name.scope = <<>> THEN FileKey(key.path)
    ELSE SymbolKey(key.path, Front(key.name.scope), Last(key.name.scope), 1)

ResolveDefinition(o) ==
    LET parent == ParentKey(o.row.subject)
    IN  IF parent \in NodeKeys
        THEN Outcome({EdgeFrom(o, parent, p, o.row.subject) : p \in {"contains", "defines"}}, {})
        ELSE Unresolved(o, "definition parent")

ResolveImport(o) ==
    IF SourceFile(o) \notin NodeKeys THEN Unresolved(o, "import source")
    ELSE ResolveCandidates(o, SourceFile(o), "imports",
            ImportCandidates(o.row.referent_text.spec, InputEvidence(o).path,
                             BindingsOf(SourceFile(o))))

ResolveReference(o, predicate) ==
    IF ReferenceSubjects(o) = {} THEN Unresolved(o, "reference source")
    ELSE ResolveCandidates(o, CHOOSE k \in ReferenceSubjects(o) : TRUE, predicate,
            ReferenceCandidates(o.row.referent_text, InputEvidence(o).path,
                                BindingsOf(FileKey(InputEvidence(o).path))))

ResolveCall(o) ==
    IF ReferenceInputKey(o) \in ShadowedCalls THEN Unresolved(o, "shadowed")
    ELSE ResolveReference(o, "calls")

\* _resolve_dependency, _resolve_iac_resource
ResolveDeclared(o, kind, predicate) ==
    IF KindOf(o.row.subject) = kind /\ RootKey \in NodeKeys
    THEN Outcome({EdgeFrom(o, RootKey, predicate, o.row.subject)}, {})
    ELSE Unresolved(o, predicate)

ResolveHttpCall(o) ==
    LET service == ServiceKey(o.row.referent_text.origin)
    IN  IF ~Parsable(o.row.referent_text) \/ ReferenceSubjects(o) = {}
              \/ KindOf(service) # "service"
        THEN Unresolved(o, "calls_service")
        ELSE Outcome({EdgeFrom(o, CHOOSE k \in ReferenceSubjects(o) : TRUE, "calls_service",
                               service)}, {})

ResolveRoute(o) ==
    LET handlers == {h \in Inputs("route_handler") : h.row.subject = o.row.subject}
        handler == CHOOSE h \in handlers : TRUE
    IN  CASE handlers = {} -> Unresolved(o, "route handler")
          [] Cardinality(handlers) > 1 -> Ambiguous(o, "route handler", {})
          [] OTHER -> ResolveCandidates(handler, o.row.subject, "routes_to",
                        ReferenceCandidates(handler.row.referent_text,
                            InputEvidence(handler).path,
                            BindingsOf(FileKey(InputEvidence(handler).path))))

\* RelationshipResolver.resolve
Outcomes ==
    {ResolveDefinition(o) : o \in Inputs("definition")}
        \cup {ResolveImport(o) : o \in Inputs("import")}
        \cup {ResolveCall(o) : o \in Inputs("call")}
        \cup {ResolveReference(o, "implements") : o \in Inputs("implements")}
        \cup {ResolveDeclared(o, "dependency", "depends_on") : o \in Inputs("dependency")}
        \cup {ResolveReference(o, "injects") : o \in Inputs("injects")}
        \cup {ResolveHttpCall(o) : o \in Inputs("http_call")}
        \cup {ResolveDeclared(o, "iac_resource", "declares") : o \in Inputs("iac_resource")}
        \cup {ResolveRoute(o) : o \in Inputs("route")}

-----------------------------------------------------------------------------
(* RoleClassifier                                                          *)

\* _file_role: the first rule that matches
FileRole(path) ==
    LET matching == {i \in DOMAIN FileRules : Range(path) \cap FileRules[i].words # {}}
    IN  IF matching = {} THEN NoName
        ELSE FileRules[CHOOSE i \in matching : \A j \in matching : i <= j].role

\* _symbol_role
RoleOfSymbol(name) == IF name \in DOMAIN SymbolRole THEN SymbolRole[name] ELSE NoName

Roles(n) ==
    CASE n.node_kind = "file" -> {FileRole(n.stable_key.path)} \ {NoName}
      [] n.node_kind = "symbol" ->
            ({RoleOfSymbol(n.attrs.name)} \ {NoName})
                \cup {r \in {"auth_dependency"} :
                        /\ n.attrs.name \in AuthNames
                        /\ \E e \in edges : e.predicate = "injects" /\ e.object = n.stable_key}
      [] OTHER -> {}

Classification(n, role) ==
    [subject_kind |-> n.node_kind, subject |-> n.stable_key, predicate |-> "classified_as",
     value |-> NoArrays, attrs |-> [classification |-> role, confidence |-> "heuristic"],
     producer |-> Classifier, derived_from |-> {NodeRef(n.stable_key)}]

Classifications == UNION {{Classification(n, r) : r \in Roles(n)} : n \in nodes}

=============================================================================
