-------------------------- MODULE TypeScriptSource --------------------------
(***************************************************************************)
(* extraction/typescript.py: the facts of one TypeScript file.             *)
(*                                                                         *)
(* The syntax tree is the sequence f.body of the nodes that matter, in     *)
(* the order of a walk; scope is the index of the declaration, function    *)
(* or class a node stands in (0 in the program):                           *)
(*   import, reexport  with their specifier;  default  what is exported as *)
(*   default;  function, arrow, class, interface;  const, var  one         *)
(*   declarator;  call  name(...) or recv.name(...);  route  an entry of a *)
(*   router table or a <Route>;  namespace, decorator, importcall.         *)
(***************************************************************************)
EXTENDS Extraction

CONSTANT GlobalCalls    \* _GLOBAL_CALL_NAMES

TypeScript == "typescript-ast"

TsAt(f, st) == Span(f, st.line, st.end, TypeScript)

TsOfKind(f, kinds) == SelectSeq(f.body, LAMBDA st : st.kind \in kinds)

\* The nodes around i, innermost first.
Around(f, i) ==
    LET up[k \in 0..Len(f.body)] ==
            IF k = 0 THEN <<>> ELSE <<k>> \o up[f.body[k].scope]
    IN  up[f.body[i].scope]

-----------------------------------------------------------------------------
(* _collect_symbols                                                        *)

NamedDeclarations == {"function", "class", "interface"}

\* visit does not enter a const or let, and takes only those of the program.
TsSymbols(f) ==
    {i \in DOMAIN f.body :
        /\ \A k \in Range(Around(f, i)) : f.body[k].kind # "const"
        /\ \/ f.body[i].kind \in NamedDeclarations
           \/ f.body[i].kind = "const" /\ f.body[i].scope = 0}

\* A declaration outside the file's lines gives its children no scope.
TsQualifier(f, i) ==
    LET named == SelectSeq(Around(f, i), LAMBDA k :
                    f.body[k].kind \in NamedDeclarations /\ ValidSpan(TsAt(f, f.body[k])))
    IN  [k \in DOMAIN named |-> f.body[named[Len(named) + 1 - k]].name]

TsDiscriminator(f, i) ==
    Cardinality({j \in TsSymbols(f) :
        /\ j <= i
        /\ TsQualifier(f, j) = TsQualifier(f, i) /\ f.body[j].name = f.body[i].name})

TsSymbolOf(f, i) ==
    SymbolKey(f.path, TsQualifier(f, i), f.body[i].name, TsDiscriminator(f, i))

\* _default_export_names: by name, wherever the symbol of that name stands
DefaultExports(f) == {st.name : st \in Range(TsOfKind(f, {"default"}))}

TsSymbolNode(f, i) ==
    Node("symbol", TsSymbolOf(f, i),
         [name |-> f.body[i].name, language |-> "typescript",
          exported |-> f.body[i].exported \/ f.body[i].name \in DefaultExports(f),
          default_export |-> f.body[i].name \in DefaultExports(f)],
         NoArrays, TsAt(f, f.body[i]))

TsDefinition(f, i) ==
    Observation("definition", "symbol", TsSymbolOf(f, i), NoReferent, TsAt(f, f.body[i]))

TsDuplicates(f) ==
    {Diagnostic("RI-KEY-DUP-SYMBOL", "info", "duplicate symbol", f.path, NoSpan,
                TsSymbolOf(f, i), TypeScript) :
        i \in {j \in TsSymbols(f) : TsDiscriminator(f, j) > 1 /\ ValidSpan(TsAt(f, f.body[j]))}}

-----------------------------------------------------------------------------
(* _collect_imports, _collect_import_bindings, _collect_implements         *)

FromFile(f, kind, referent, e) == Observation(kind, "file", FileKey(f.path), referent, e)

TsImports(f, st) ==
    LET binding(imported, local, line) ==
            FromFile(f, "import_binding",
                     [spec |-> st.spec, imported |-> imported, local |-> local],
                     Span(f, line, line, TypeScript))
    IN  <<FromFile(f, "import", [spec |-> st.spec], TsAt(f, st))>>
            \o (IF st.kind = "import" /\ st.default # NoName
                THEN <<binding("default", st.default, st.line)>> ELSE <<>>)
            \o (IF st.kind = "import"
                THEN [k \in DOMAIN st.named |->
                        binding(st.named[k].imported, st.named[k].local, st.named[k].line)]
                ELSE <<>>)

\* The class is found again among the symbols by its name and its lines.
TsImplements(f, i) ==
    LET st == f.body[i]
        found == {j \in TsSymbols(f) :
                    /\ f.body[j].name = st.name /\ ValidSpan(TsAt(f, f.body[j]))
                    /\ f.body[j].line = st.line /\ f.body[j].end = st.end}
    IN  IF st.kind # "class" \/ Cardinality(found) # 1 THEN <<>>
        ELSE [k \in DOMAIN st.implements |->
                Observation("implements", "symbol", TsSymbolOf(f, CHOOSE j \in found : TRUE),
                            [name |-> st.implements[k].name],
                            Span(f, st.implements[k].line, st.implements[k].line, TypeScript))]

-----------------------------------------------------------------------------
(* _collect_routes                                                         *)

\* The entries with a literal path, in the order of the walk
TsRoutes(f) ==
    LET route(st) == IF st.kind = "route" /\ st.route # NoName /\ ValidSpan(TsAt(f, st))
                     THEN <<st>> ELSE <<>>
    IN  FlattenSeq([i \in DOMAIN f.body |-> route(f.body[i])])

TsRouteKey(f, k) == SymbolKey(f.path, <<>>, "(anonymous:route)", k)

TsRouteNode(f, k) ==
    Node("symbol", TsRouteKey(f, k),
         [name |-> "route", language |-> "typescript", route_path |-> TsRoutes(f)[k].route],
         NoArrays, TsAt(f, TsRoutes(f)[k]))

\* _jsx_handler and the Component field name a component, or nothing.
TsRouteObservations(f, k) ==
    LET st == TsRoutes(f)[k]
    IN  <<Observation("route", "symbol", TsRouteKey(f, k), [route |-> st.route], TsAt(f, st))>>
            \o (IF st.handler = NoName THEN <<>>
                ELSE <<Observation("route_handler", "symbol", TsRouteKey(f, k),
                                   [name |-> st.handler],
                                   Span(f, st.handlerLine, st.handlerLine, TypeScript))>>)

DynamicRoutes(f) ==
    {Unsupported(f, "dynamic route", <<st.line, st.end>>, TypeScript) :
        st \in {x \in Range(TsOfKind(f, {"route"})) : x.route = NoName}}

-----------------------------------------------------------------------------
(* _scope_bindings and _collect_calls                                      *)

FunctionScopes(f) == {i \in DOMAIN f.body : f.body[i].kind \in {"function", "arrow"}}

\* The parameters of a function and what is declared in its body, neither in
\* a function nor in a class of it.
ScopeBindings(f, s) ==
    f.body[s].params
        \cup {f.body[i].name : i \in {j \in DOMAIN f.body :
                /\ f.body[j].kind \in {"function", "class", "const", "var"}
                /\ \E n \in DOMAIN Around(f, j) :
                      /\ Around(f, j)[n] = s
                      /\ \A m \in 1..(n - 1) :
                            f.body[Around(f, j)[m]].kind \in {"const", "var"}}}

TsShadowed(f, i, name) ==
    \E s \in FunctionScopes(f) \cap Range(Around(f, i)) : name \in ScopeBindings(f, s)

\* A call of the service pass, of require and of a global is no relationship.
TsCalls(f, i, httpSites) ==
    LET st == f.body[i]
        observed(kind) == FromFile(f, kind, [name |-> st.name], TsAt(f, st))
    IN  IF \/ st.kind # "call" \/ st.recv # NoName \/ i \in httpSites
           \/ st.name = "require"
           \/ st.name \in GlobalCalls /\ ~TsShadowed(f, i, st.name)
        THEN <<>>
        ELSE <<observed("call")>>
                \o (IF TsShadowed(f, i, st.name) THEN <<observed("call_shadowed")>> ELSE <<>>)

-----------------------------------------------------------------------------
(* _collect_service_interactions                                           *)

\* _axios_default_import_names
AxiosNames(f) ==
    {st.default : st \in {x \in Range(TsOfKind(f, {"import"})) : x.spec.parts = <<"axios">>}}
        \ {NoName}

\* The name a call gives to a client: fetch, or an axios default import
ClientName(f, st) ==
    CASE st.recv = NoName /\ st.name \in AxiosNames(f) \cup {"fetch"} -> st.name
      [] st.recv # NoName /\ st.recv \in AxiosNames(f) -> st.recv
      [] OTHER -> NoName

\* fetch_method: without an init object it is a GET; an init with a spread or
\* a computed method proves nothing.
TsMethod(st) ==
    CASE st.recv # NoName -> st.name
      [] st.recv = NoName /\ (st.argc < 2 \/ st.init = "no method") -> "get"
      [] OTHER -> st.init

\* Why a call of a client is no fact, in the order of the checks
TsRefusal(f, i) ==
    LET st == f.body[i]
        bare == st.recv = NoName
        shadowed == TsShadowed(f, i, ClientName(f, st))
        form == IF bare THEN st.name \notin AxiosNames(f) ELSE st.name \in MethodAttributes
    IN  CASE shadowed -> "client name shadowed"
          [] ~shadowed /\ ~form -> "call form"
          [] ~shadowed /\ form /\ bare /\ TsMethod(st) = "computed" -> "computed fetch init"
          [] OTHER -> IF st.argc = 0 THEN "dynamic destination"
                      ELSE IF Proves(TsMethod(st), st.url) THEN NoName
                      ELSE IF st.url.form = "literal" THEN "no absolute url"
                      ELSE "dynamic destination"

ClientCalls(f) ==
    {i \in DOMAIN f.body : f.body[i].kind = "call" /\ ClientName(f, f.body[i]) # NoName}

HttpSites(f) ==
    {i \in ClientCalls(f) : TsRefusal(f, i) = NoName /\ ValidSpan(TsAt(f, f.body[i]))}

TsServiceDiagnostics(f) ==
    {Unsupported(f, TsRefusal(f, i), <<f.body[i].line, f.body[i].end>>, TypeScript) :
        i \in {j \in ClientCalls(f) : TsRefusal(f, j) # NoName}}

TsHttpCall(f, i) ==
    IF i \notin HttpSites(f) THEN <<>>
    ELSE <<FromFile(f, "http_call", DestinationReferent(TsMethod(f.body[i]), f.body[i].url),
                    TsAt(f, f.body[i]))>>

-----------------------------------------------------------------------------
(* _collect_blind_spots and extract                                        *)

TsBlindSpots(f) ==
    LET message(st) ==
            CASE st.kind \in {"namespace", "decorator", "importcall"} -> {st.kind}
              [] st.kind = "call" /\ st.recv = NoName /\ st.name = "require" -> {"require"}
              [] OTHER -> {}
    IN  UNION {{Unsupported(f, m, <<st.line, st.end>>, TypeScript) : m \in message(st)} :
                  st \in Range(f.body)}

\* The language extractor emits the file itself, and the directory.
TsFile(f) ==
    {Node("file", FileKey(f.path),
          [basename |-> SubSeq(f.path, Len(f.path) - 1, Len(f.path)), language |-> "typescript",
           content_sha256 |-> f], NoArrays, WholeFile(f, TypeScript)),
     Node("module", ModuleKey(f.path), [name |-> ModuleName(f.path)], NoArrays,
          WholeFile(f, TypeScript))}

\* Only a symbol outside the file's lines is reported; other facts are dropped.
TsFacts(f) ==
    LET each(Of(_)) == FlattenSeq([i \in DOMAIN f.body |-> Of(i)])
        imports(i) == IF f.body[i].kind \notin {"import", "reexport"}
                            \/ ~ValidSpan(TsAt(f, f.body[i])) THEN <<>>
                      ELSE TsImports(f, f.body[i])
        defined(i) == IF i \in TsSymbols(f) THEN <<TsDefinition(f, i)>> ELSE <<>>
        all == each(defined) \o each(LAMBDA i : TsImplements(f, i)) \o each(imports)
                \o FlattenSeq([k \in DOMAIN TsRoutes(f) |-> TsRouteObservations(f, k)])
                \o each(LAMBDA i : TsHttpCall(f, i))
                \o each(LAMBDA i : TsCalls(f, i, HttpSites(f)))
        symbols == Built({TsSymbolNode(f, i) : i \in TsSymbols(f)}, <<>>, {})
    IN  Result(TsFile(f) \cup symbols.nodes
                    \cup {TsRouteNode(f, k) : k \in DOMAIN TsRoutes(f)}
                    \cup {ServiceNode(TsAt(f, f.body[i]), f.body[i].url) : i \in HttpSites(f)},
               AssignOrdinals(InFile(all)),
               symbols.diagnostics \cup TsDuplicates(f) \cup DynamicRoutes(f)
                    \cup TsServiceDiagnostics(f) \cup TsBlindSpots(f))

TypeScriptExtract(f) ==
    CASE ~Decodes(f) -> Result({}, {}, {DecodeDiagnostic(f, TypeScript)})
      [] Decodes(f) /\ ~f.parses -> Result({}, {}, {Malformed(f, TypeScript)})
      [] OTHER -> TsFacts(f)

=============================================================================
