---------------------------- MODULE PythonSource ----------------------------
(***************************************************************************)
(* extraction/python.py: the facts of one Python file.                     *)
(*                                                                         *)
(* The syntax tree is the sequence f.body of the statements, and the calls *)
(* in them, in the order the visitors meet them.  Each carries its lines,  *)
(* the index of the def, lambda or class it stands in (0 in the module)    *)
(* and whether a block (if, for, try, with) lies between the two:          *)
(*   import  import parts [as local];  from  from parts import name as     *)
(*   local (name "*" for a star);  def, lambda, class;  assign, with, loop *)
(*   binding targets to a value;  call  name(...) or recv.name(...).       *)
(***************************************************************************)
EXTENDS Extraction

CONSTANTS
    Identifiers,    \* the names that occur in the repository
    Builtins        \* dir(builtins)

Python == "python-ast"

Scopes(f) == 0..Len(f.body)

-----------------------------------------------------------------------------
(* Scopes: _ScopeDeclarations, _BindingScope, _function_scope              *)

Binds(st) ==
    CASE st.kind = "import" -> {st.local}
      [] st.kind = "from" -> IF st.name = "*" THEN {} ELSE {st.local}
      [] st.kind \in {"def", "class"} -> {st.name}
      [] st.kind \in {"assign", "with", "loop"} -> st.targets
      [] OTHER -> {}

Declared(f, s) == UNION {Binds(f.body[i]) : i \in {j \in DOMAIN f.body : f.body[j].scope = s}}

IsFunction(f, s) == s # 0 /\ f.body[s].kind \in {"def", "lambda"}

IsClass(f, s) == s # 0 /\ f.body[s].kind = "class"

Globals(f, s) == IF IsFunction(f, s) THEN f.body[s].globals ELSE {}

Nonlocals(f, s) == IF IsFunction(f, s) THEN f.body[s].nonlocals ELSE {}

ScopeNames(f, s) ==
    IF IsFunction(f, s)
    THEN (Declared(f, s) \cup f.body[s].params) \ (Globals(f, s) \cup Nonlocals(f, s))
    ELSE Declared(f, s)

\* _function_parent: a method does not see the names of its class.
FunctionParent(f, s) ==
    LET up[k \in Scopes(f)] == IF IsClass(f, k) THEN up[f.body[k].scope] ELSE k
    IN  up[s]

Parent(f, s) ==
    IF IsClass(f, s) THEN f.body[s].scope ELSE FunctionParent(f, f.body[s].scope)

NonlocalParent(f, s) == FunctionParent(f, Parent(f, s))

\* The scope in which the static resolve and is_lexically_local end.
Lookup(f, name, s) ==
    LET find[k \in Scopes(f)] ==
            CASE name \in Globals(f, k) -> 0
              [] name \in Nonlocals(f, k) -> find[NonlocalParent(f, k)]
              [] k = 0 \/ name \in ScopeNames(f, k) -> k
              [] OTHER -> find[Parent(f, k)]
    IN  find[s]

Unbound == [kind |-> "unbound", lib |-> NoName]

Local == [kind |-> "local", lib |-> NoName]

\* _BindingScope.resolve while the file is scanned
Bound(f, env, name, s) ==
    LET find[k \in Scopes(f)] ==
            CASE name \in Globals(f, k) -> env[0][name]
              [] name \in Nonlocals(f, k) -> find[NonlocalParent(f, k)]
              [] k = 0 \/ env[k][name] # Unbound -> env[k][name]
              [] OTHER -> find[Parent(f, k)]
    IN  find[s]

\* _BindingScope.bind
Bind(f, env, names, s, binding) ==
    LET home(name) ==
            LET find[k \in Scopes(f)] ==
                    CASE name \in Globals(f, k) -> 0
                      [] name \in Nonlocals(f, k) -> find[NonlocalParent(f, k)]
                      [] OTHER -> k
            IN  find[s]
    IN  [k \in Scopes(f) |->
            [x \in Identifiers |-> IF x \in names /\ home(x) = k THEN binding ELSE env[k][x]]]

\* Mutation: the names of a function are bound as they come, too.
InitialEnvEmpty(f) == [s \in Scopes(f) |-> [x \in Identifiers |-> Unbound]]

\* The names of a function are local before its body is scanned; those of a
\* module or a class body are bound as they come.
InitialEnv(f) ==
    [s \in Scopes(f) |->
        [x \in Identifiers |->
            IF IsFunction(f, s) /\ x \in ScopeNames(f, s) THEN Local ELSE Unbound]]

-----------------------------------------------------------------------------
(* _collect_imports                                                        *)

At(f, st) == Span(f, st.line, st.end, Python)

Specifier(level, parts) == [level |-> level, parts |-> parts, slash |-> FALSE]

ImportsOf(f, i) ==
    LET st == f.body[i]
        import(spec) == Observation("import", "module", ModuleKey(f.path), [spec |-> spec],
                                    At(f, st))
        binding == Observation("import_binding", "module", ModuleKey(f.path),
                               [spec |-> Specifier(st.level, st.parts), imported |-> st.name,
                                local |-> st.local], At(f, st))
    IN  CASE st.kind = "import" -> <<import(Specifier(0, st.parts))>>
          [] st.kind = "from" /\ st.name # "*" ->
                <<import(Specifier(st.level, Append(st.parts, st.name)))>>
                    \o (IF st.scope = 0 /\ ~st.block THEN <<binding>> ELSE <<>>)
          [] OTHER -> <<>>

-----------------------------------------------------------------------------
(* _collect_symbols                                                        *)

\* visit enters the bodies of definitions, never a block.
Visited(f, i) ==
    LET enters(k) == f.body[k].kind \in {"def", "class"} /\ ~f.body[k].block
        seen[k \in Scopes(f)] == k = 0 \/ (enters(k) /\ seen[f.body[k].scope])
    IN  i # 0 /\ enters(i) /\ seen[f.body[i].scope]

Symbols(f) == {i \in DOMAIN f.body : Visited(f, i)}

Qualifier(f, i) ==
    LET names[k \in Scopes(f)] ==
            IF k = 0 THEN <<>> ELSE Append(names[f.body[k].scope], f.body[k].name)
    IN  names[f.body[i].scope]

\* DiscriminatorAssigner.key
Discriminator(f, i) ==
    Cardinality({j \in Symbols(f) :
        /\ j <= i
        /\ Qualifier(f, j) = Qualifier(f, i) /\ f.body[j].name = f.body[i].name})

SymbolOf(f, i) == SymbolKey(f.path, Qualifier(f, i), f.body[i].name, Discriminator(f, i))

\* _router_dependencies: the last assignment to a name counts.
RouterGuards(f, router) ==
    LET made == {i \in DOMAIN f.body :
                    /\ f.body[i].kind = "assign" /\ f.body[i].scope = 0 /\ ~f.body[i].block
                    /\ f.body[i].targets = {router}
                    /\ f.body[i].value.name \in {"APIRouter", "FastAPI"}
                    /\ f.body[i].guards # <<>>}
    IN  IF made = {} THEN <<>> ELSE f.body[CHOOSE i \in made : \A j \in made : j <= i].guards

DecoratorAt(f, d) == Span(f, d.line, d.line, Python)

\* _route_paths
IsRoute(d) == d.method \in MethodAttributes /\ d.route # NoName

\* The routes of the file in source order, as pairs of a symbol and a decorator.
Routes(f) ==
    LET route(i, d) == IF IsRoute(d) /\ ValidSpan(DecoratorAt(f, d)) THEN <<<<i, d>>>> ELSE <<>>
        of(i) == FlattenSeq([k \in DOMAIN f.body[i].decorators |->
                                route(i, f.body[i].decorators[k])])
    IN  FlattenSeq([i \in DOMAIN f.body |->
                        IF Visited(f, i) /\ ValidSpan(At(f, f.body[i])) THEN of(i) ELSE <<>>])

RouteKey(f, k) == SymbolKey(f.path, <<>>, "(anonymous:route)", k)

RouteFacts(f) ==
    LET node(k) == Node("symbol", RouteKey(f, k),
                        [name |-> "route", language |-> "python",
                         route_path |-> Routes(f)[k][2].route],
                        NoArrays, DecoratorAt(f, Routes(f)[k][2]))
        obs(k) == LET d == Routes(f)[k][2]
                  IN  <<Observation("route", "symbol", RouteKey(f, k), [route |-> d.route],
                                    DecoratorAt(f, d)),
                        Observation("route_handler", "symbol", RouteKey(f, k),
                                    [handler |-> SymbolOf(f, Routes(f)[k][1])],
                                    DecoratorAt(f, d))>>
    IN  [nodes |-> {node(k) : k \in DOMAIN Routes(f)},
         observations |-> FlattenSeq([k \in DOMAIN Routes(f) |-> obs(k)])]

\* emit_route_dependencies: each guard once per handler and line.
Guards(f, i) ==
    UNION {{<<g.name, g.line>> : g \in Range(d.guards) \cup Range(RouterGuards(f, d.recv))} :
              d \in {x \in Range(f.body[i].decorators) : IsRoute(x)}}

GuardObservations(f, i) ==
    SetToSeq({Observation("injects", "symbol", SymbolOf(f, i), [name |-> g[1]],
                          Span(f, g[2], g[2], Python)) : g \in Guards(f, i)})

SymbolNode(f, i) ==
    Node("symbol", SymbolOf(f, i), [name |-> f.body[i].name, language |-> "python"],
         [decorators |-> [k \in DOMAIN f.body[i].decorators |-> f.body[i].decorators[k].name]],
         At(f, f.body[i]))

\* A symbol outside the file's lines takes its decorators and routes with it.
SymbolObservations(f, i) ==
    LET st == f.body[i]
        definition == Observation("definition", "symbol", SymbolOf(f, i), NoReferent, At(f, st))
        decorator(d) == Observation("decorator", "symbol", SymbolOf(f, i), [name |-> d.name],
                                    DecoratorAt(f, d))
    IN  IF ~Visited(f, i) THEN <<>>
        ELSE <<definition>>
                \o (IF ValidSpan(At(f, st))
                    THEN [k \in DOMAIN st.decorators |-> decorator(st.decorators[k])]
                            \o GuardObservations(f, i)
                    ELSE <<>>)

DuplicateDiagnostics(f) ==
    {Diagnostic("RI-KEY-DUP-SYMBOL", "info", "duplicate symbol", f.path, NoSpan, SymbolOf(f, i),
                Python) : i \in {j \in Symbols(f) : Discriminator(f, j) > 1}}

-----------------------------------------------------------------------------
(* _collect_calls                                                          *)

NotResolverInput == {"dir", "getattr", "hasattr", "setattr", "vars"}

\* Mutation: only the innermost scope hides a name.
ShadowedHere(f, i) == f.body[i].name \in ScopeNames(f, f.body[i].scope) /\ f.body[i].scope # 0

\* is_lexically_local
Shadowed(f, i) == Lookup(f, f.body[i].name, f.body[i].scope) # 0

IsBound(f, name, s) == name \in ScopeNames(f, Lookup(f, name, s))

Emitted(f, i) ==
    /\ f.body[i].kind = "call" /\ f.body[i].recv = NoName
    /\ f.body[i].name \notin NotResolverInput
    /\ f.body[i].name \in Builtins => IsBound(f, f.body[i].name, f.body[i].scope)

CallsOf(f, i) ==
    LET st == f.body[i]
        observed(kind, name) == Observation(kind, "module", ModuleKey(f.path),
                                            [name |-> name], At(f, st))
    IN  IF ~Emitted(f, i) THEN <<>>
        ELSE <<observed("call", st.name)>>
                \o (IF Shadowed(f, i) THEN <<observed("call_shadowed", st.name)>> ELSE <<>>)
                \o (IF st.name = "Depends"
                    THEN [k \in DOMAIN st.args |-> observed("injects", st.args[k])]
                    ELSE <<>>)

-----------------------------------------------------------------------------
(* _collect_service_interactions                                           *)

ClientModules == {"httpx", "requests"}

ClientFactories == [httpx |-> {"AsyncClient", "Client"}, requests |-> {"Session"}]

HttpModule(lib) == [kind |-> "http-module", lib |-> lib]

HttpFactory(lib) == [kind |-> "http-factory", lib |-> lib]

HttpClient == [kind |-> "http-client", lib |-> NoName]

HttpFunction == [kind |-> "http-function", lib |-> NoName]

\* bind_imports: what the name stands for afterwards
ImportedClient(st) ==
    CASE st.kind = "import" /\ Head(st.parts) \in ClientModules
                /\ (Len(st.parts) = 1 \/ ~st.aliased) -> HttpModule(Head(st.parts))
      [] st.kind = "from" /\ st.level = 0 /\ Len(st.parts) = 1 /\ st.parts[1] \in ClientModules ->
            CASE st.name \in ClientFactories[st.parts[1]] -> HttpFactory(st.parts[1])
              [] st.name \in MethodAttributes \cup {"request"} -> HttpFunction
              [] OTHER -> Local
      [] OTHER -> Local

\* constructs_client
ConstructsClient(f, env, v, s) ==
    IF v.recv # NoName
    THEN LET b == Bound(f, env, v.recv, s)
         IN  b.kind = "http-module" /\ v.name \in ClientFactories[b.lib]
    ELSE v.name # NoName /\ Bound(f, env, v.name, s).kind = "http-factory"

\* visit_client_call and resolve_destination: the method of the request, if it
\* is one and the method is a literal.
RequestMethod(st) == IF st.name = "request" THEN st.method ELSE st.name

IsRequest(st) == st.name \in MethodAttributes \cup {"request"}

ClientCall(f, st) ==
    CASE ~IsRequest(st) -> Nothing
      [] IsRequest(st) /\ RequestMethod(st) = NoName ->
            Result({}, <<>>, {Unsupported(f, "computed method", <<st.line, st.end>>, Python)})
      [] IsRequest(st) /\ RequestMethod(st) # NoName /\ Proves(RequestMethod(st), st.url) ->
            Result({ServiceNode(At(f, st), st.url)},
                   <<Observation("http_call", "module", ModuleKey(f.path),
                                 DestinationReferent(RequestMethod(st), st.url), At(f, st))>>,
                   {})
      [] OTHER ->
            Result({}, <<>>,
                   {Unsupported(f, IF st.url.form = "literal" THEN "no absolute url"
                                   ELSE "dynamic destination", <<st.line, st.end>>, Python)})

\* visit_call
ServiceCall(f, scan, st) ==
    LET at(name) == Bound(f, scan.env, name, st.scope)
        flagged(message) ==
            Result({}, <<>>, {Unsupported(f, message, <<st.line, st.end>>, Python)})
    IN  CASE st.recv = NoName /\ at(st.name) = HttpFunction -> flagged("bare client function")
          [] st.recv = NoName /\ at(st.name) = Local /\ st.name \in scan.clients ->
                flagged("client name shadowed")
          [] st.recv # NoName /\ at(st.recv).kind \in {"http-module", "http-client"} ->
                ClientCall(f, st)
          [] st.recv # NoName /\ at(st.recv).kind \notin {"http-module", "http-client"}
                /\ st.recv \in scan.clients /\ IsRequest(st) -> flagged("client name shadowed")
          [] OTHER -> Nothing

\* What a statement binds; names are bound in the order of the source.
ServiceStep(f, scan, st) ==
    LET bound(names, b, clients) ==
            [scan EXCEPT !.env = Bind(f, @, names, st.scope, b), !.clients = @ \cup clients]
    IN  CASE st.kind \in {"import", "from"} ->
                LET b == ImportedClient(st)
                IN  bound(Binds(st), b,
                          IF b.kind \in {"http-module", "http-function"} THEN Binds(st) ELSE {})
          [] st.kind \in {"def", "class"} -> bound({st.name}, Local, {})
          [] st.kind \in {"assign", "with"} ->
                IF ConstructsClient(f, scan.env, st.value, st.scope)
                THEN bound(st.targets, HttpClient, st.targets)
                ELSE bound(st.targets, Local, {})
          [] OTHER -> scan

\* scan, as it is before statement i + 1.
ServiceScan(f) ==
    LET scan[i \in 0..Len(f.body)] ==
            IF i = 0 THEN [env |-> InitialEnv(f), clients |-> {}]
            ELSE ServiceStep(f, scan[i - 1], f.body[i])
    IN  scan

ServiceInteractions(f) ==
    LET scan == ServiceScan(f)
        found == [i \in DOMAIN f.body |->
                    IF f.body[i].kind = "call" /\ ~f.body[i].signature
                    THEN ServiceCall(f, scan[i - 1], f.body[i]) ELSE Nothing]
    IN  Result(UNION {r.nodes : r \in Range(found)},
               FlattenSeq([i \in DOMAIN found |-> found[i].observations]),
               UNION {r.diagnostics : r \in Range(found)})

-----------------------------------------------------------------------------
(* _collect_blind_spots                                                    *)

Imported == [kind |-> "imported", lib |-> NoName]

ImportlibModule == [kind |-> "importlib-module", lib |-> NoName]

ImportlibFunction == [kind |-> "importlib-import-module", lib |-> NoName]

\* bind_import
ImportedName(st) ==
    CASE st.kind = "import" /\ Head(st.parts) = "importlib"
                /\ (Len(st.parts) = 1 \/ ~st.aliased) -> ImportlibModule
      [] st.kind = "from" /\ st.parts = <<"importlib">> /\ st.name = "import_module" ->
            ImportlibFunction
      [] OTHER -> Imported

\* is_dynamic_import_call
DynamicImport(f, env, st) ==
    IF st.recv = NoName
    THEN \/ st.name = "__import__" /\ Bound(f, env, st.name, st.scope) = Unbound
         \/ st.name # "__import__" /\ Bound(f, env, st.name, st.scope) = ImportlibFunction
    ELSE st.name = "import_module" /\ Bound(f, env, st.recv, st.scope) = ImportlibModule

BlindSpot(f, env, st) ==
    CASE st.kind = "from" /\ st.name = "*" -> {"star import"}
      [] st.kind = "class" /\ st.metaclass -> {"metaclass"}
      [] st.kind \in {"assign", "with", "loop"} /\ st.patches # NoName
            /\ Bound(f, env, st.patches, st.scope)
                  \in {Imported, ImportlibModule, ImportlibFunction} -> {"monkey-patching"}
      [] st.kind = "call" /\ st.recv = NoName /\ st.name \in {"getattr", "setattr", "delattr"} ->
            {"reflection"}
      [] st.kind = "call" /\ DynamicImport(f, env, st) -> {"dynamic import"}
      [] OTHER -> {}

BlindStep(f, env, st) ==
    Bind(f, env, Binds(st), st.scope,
         IF st.kind \in {"import", "from"} THEN ImportedName(st) ELSE Local)

BlindScan(f) ==
    LET env[i \in 0..Len(f.body)] ==
            IF i = 0 THEN InitialEnv(f) ELSE BlindStep(f, env[i - 1], f.body[i])
    IN  env

BlindSpots(f) ==
    LET env == BlindScan(f)
    IN  UNION {{Unsupported(f, m, <<f.body[i].line, f.body[i].end>>, Python) :
                    m \in BlindSpot(f, env[i - 1], f.body[i])} : i \in DOMAIN f.body}

-----------------------------------------------------------------------------
(* PythonExtractor.extract                                                 *)

\* Mutation: a directory is named after the file that shows it.
ModuleNodeOfFile(f) ==
    Node("module", ModuleKey(f.path), [name |-> f.path[Len(f.path) - 1]], NoArrays,
         WholeFile(f, Python))

PythonModule(f) ==
    Node("module", ModuleKey(f.path), [name |-> ModuleName(f.path)], NoArrays,
         WholeFile(f, Python))

PythonFacts(f) ==
    LET each(Of(_, _)) == FlattenSeq([i \in DOMAIN f.body |-> Of(f, i)])
        services == ServiceInteractions(f)
        built == Built({PythonModule(f)} \cup {SymbolNode(f, i) : i \in Symbols(f)}
                            \cup RouteFacts(f).nodes \cup services.nodes,
                       each(ImportsOf) \o each(SymbolObservations) \o RouteFacts(f).observations
                            \o each(CallsOf) \o services.observations,
                       DuplicateDiagnostics(f) \cup services.diagnostics \cup BlindSpots(f))
    IN  [built EXCEPT !.observations = AssignOrdinals(@)]

PythonExtract(f) ==
    CASE ~Decodes(f) -> Result({}, {}, {DecodeDiagnostic(f, Python)})
      [] Decodes(f) /\ ~f.parses -> Result({}, {}, {Malformed(f, Python)})
      [] OTHER -> PythonFacts(f)

=============================================================================
