----------------------------- MODULE MCAnalysis -----------------------------
(* Analysis for TLC: repositories of one to three files, made of the       *)
(* constructs whose combinations the extractors and the resolver treat     *)
(* differently.                                                            *)
EXTENDS Analysis

\* A statement stands on the line of its place in the file, or the next one.
Numbered(body) ==
    [i \in DOMAIN body |-> [line |-> i, end |-> i + body[i].more] @@ body[i]]

Text(path, body) ==
    [path |-> path, content |-> "text", oversize |-> FALSE, parses |-> TRUE, supported |-> TRUE,
     lines |-> Len(body) + 1, body |-> Numbered(body)]

St(kind, scope) == [kind |-> kind, scope |-> scope, more |-> 0]

In(kind, scope, name) == St(kind, scope) @@ [name |-> name]

-----------------------------------------------------------------------------
(* Python                                                                  *)

Import(scope, parts, local, aliased) ==
    St("import", scope) @@ [parts |-> parts, local |-> local, aliased |-> aliased]

From(scope, level, parts, name, local) ==
    In("from", scope, name) @@ [level |-> level, parts |-> parts, local |-> local,
                                block |-> FALSE]

Def(scope, name, params) ==
    [In("def", scope, name) EXCEPT !.more = 1]
        @@ [params |-> params, globals |-> {}, nonlocals |-> {}, decorators |-> <<>>,
            block |-> FALSE]

Class(scope, name) ==
    [In("class", scope, name) EXCEPT !.more = 1]
        @@ [decorators |-> <<>>, metaclass |-> FALSE, block |-> FALSE]

Lambda(scope, params) ==
    In("lambda", scope, "lambda") @@ [params |-> params, globals |-> {}, nonlocals |-> {}]

Assign(kind, scope, target, recv, name) ==
    St(kind, scope) @@ [targets |-> {target}, value |-> [recv |-> recv, name |-> name],
                        guards |-> <<>>, patches |-> NoName, block |-> FALSE]

Url(form, path) == [form |-> form, scheme |-> "http", host |-> "h", port |-> 80, path |-> path]

\* The call with another origin
To(call, scheme, host, port) ==
    [call EXCEPT !.url.scheme = scheme, !.url.host = host, !.url.port = port]

Call(scope, recv, name) ==
    In("call", scope, name) @@ [recv |-> recv, args |-> <<>>, signature |-> FALSE,
                                method |-> NoName, url |-> Url("literal", "/")]

A == <<"app", "a", ".py">>

B == <<"app", "b", ".py">>

\* What makes g mean something in the module
Meanings ==
    {<<>>,
     <<Def(0, "g", {})>>,
     <<From(0, 1, <<"b">>, "g", "g")>>,
     <<From(0, 0, <<"app", "b">>, "g", "g")>>,
     <<From(0, 1, <<"b">>, "k", "g")>>,
     <<Assign("assign", 0, "g", NoName, "k")>>,
     <<Class(0, "g"), Def(1, "g", {})>>}

\* Where the call stands: n statements come before.
Shapes(n) ==
    {<<Call(0, NoName, "g")>>,
     <<Def(0, "f", {"g"}), Call(n + 1, NoName, "g")>>,
     <<Def(0, "f", {}), Call(n + 1, NoName, "g"), Assign("assign", n + 1, "g", NoName, "k")>>,
     <<[Def(0, "f", {}) EXCEPT !.globals = {"g"}], Call(n + 1, NoName, "g"),
       Assign("assign", n + 1, "g", NoName, "k")>>,
     <<Def(0, "f", {"g"}), Def(n + 1, "k", {}), Call(n + 2, NoName, "g")>>,
     <<Def(0, "f", {"g"}), [Def(n + 1, "k", {}) EXCEPT !.nonlocals = {"g"}],
       Assign("assign", n + 2, "g", NoName, "k"), Call(n + 2, NoName, "g")>>,
     <<Def(0, "f", {"g"}), [Def(n + 1, "k", {}) EXCEPT !.globals = {"g"}],
       Call(n + 2, NoName, "g")>>,
     <<Class(0, "C"), Def(n + 1, "g", {}), Call(n + 2, NoName, "g")>>,
     <<Class(0, "C"), Assign("assign", n + 1, "g", NoName, "k"), Call(n + 1, NoName, "g")>>,
     <<Lambda(0, {"g"}), Call(n + 1, NoName, "g")>>,
     <<Def(0, "f", {}), Lambda(n + 1, {"g"}), Call(n + 1, NoName, "g")>>,
     <<Def(0, "f", {}), Def(0, "f", {}), Call(n + 2, NoName, "g"), Call(0, NoName, "f")>>,
     <<Def(0, "f", {}), [Call(n + 1, NoName, "Depends") EXCEPT !.args = <<"g">>]>>}

Others ==
    {Text(B, <<Def(0, "g", {}), Def(0, "k", {})>>),
     Text(B, <<Class(0, "C"), Def(1, "g", {})>>),
     Text(B, <<From(0, 1, <<"a">>, "*", NoName)>>),
     [Text(B, <<Def(0, "g", {})>>) EXCEPT !.lines = 1],
     [Text(B, <<>>) EXCEPT !.parses = FALSE],
     [Text(B, <<>>) EXCEPT !.content = "undecodable"]}

CallRepositories ==
    {<<Text(A, m \o s), b>> : <<m, s, b>> \in
        UNION {{<<m, s, b>> : s \in Shapes(Len(m)), b \in Others} : m \in Meanings}}

-----------------------------------------------------------------------------
(* Services: from Python and from TypeScript                               *)

Clients ==
    {<<Import(0, <<"httpx">>, "httpx", FALSE)>>,
     <<Import(0, <<"httpx">>, "c", TRUE)>>,
     <<From(0, 0, <<"httpx">>, "Client", "Client")>>,
     <<From(0, 0, <<"httpx">>, "get", "get")>>,
     <<From(0, 1, <<"b">>, "httpx", "httpx")>>}

Uses(n) ==
    {<<Call(0, "httpx", "get")>>,
     <<Call(0, NoName, "get")>>,
     <<Assign("assign", 0, "c", "httpx", "Client"), Call(0, "c", "get")>>,
     <<Assign("with", 0, "c", NoName, "Client"), Call(0, "c", "get")>>,
     <<Assign("assign", 0, "httpx", NoName, "k"), Call(0, "httpx", "get")>>,
     <<Def(0, "f", {"httpx"}), Call(n + 1, "httpx", "get")>>,
     <<Def(0, "f", {}), Call(n + 1, "httpx", "get"),
       Assign("assign", n + 1, "httpx", NoName, "k")>>,
     <<Def(0, "f", {}), Import(n + 1, <<"httpx">>, "httpx", FALSE), Call(n + 1, "httpx", "get")>>,
     <<Class(0, "C"), Assign("assign", n + 1, "httpx", NoName, "k"), Def(n + 1, "f", {}),
       Call(n + 3, "httpx", "get")>>,
     <<[Def(0, "f", {}) EXCEPT !.globals = {"httpx"}],
       Assign("assign", n + 1, "httpx", NoName, "k"), Call(0, "httpx", "get")>>,
     <<[Call(0, "httpx", "request") EXCEPT !.method = "POST"]>>,
     <<Call(0, "httpx", "request")>>,
     <<Call(0, "httpx", "get"), To(Call(0, "httpx", "get"), "http", "api", 0),
       To(Call(0, "httpx", "get"), "https", "h", 80),
       To(Call(0, "httpx", "get"), "https", "h", 443)>>,
     <<[Call(0, "httpx", "get") EXCEPT !.url = Url("prefix", "/a")],
       [Call(0, "httpx", "get") EXCEPT !.url = Url("prefix", "")],
       [Call(0, "httpx", "get") EXCEPT !.url = Url("literal", "/a|b")]>>}

TsCall(scope, recv, name, argc, init) ==
    In("call", scope, name) @@ [recv |-> recv, argc |-> argc, init |-> init,
                                url |-> Url("literal", "/")]

TsFn(kind, scope, name, params) ==
    [In(kind, scope, name) EXCEPT !.more = 1] @@ [params |-> params, exported |-> TRUE]

TsImport(kind, parts, default, named) ==
    LET level == CASE parts[1] = "." -> 1 [] parts[1] = ".." -> 2 [] OTHER -> 0
        slash == level # 0 /\ Len(parts) > 1
    IN  St(kind, 0) @@ [spec |-> [level |-> level, slash |-> slash,
                                  parts |-> IF level = 0 \/ slash THEN parts ELSE <<>>],
                        default |-> default,
                        named |-> [i \in DOMAIN named |-> named[i] @@ [line |-> 1]]]

TsDecl(kind, scope, name) == In(kind, scope, name) @@ [exported |-> FALSE]

Ts == <<"app", "t", ".ts">>

Index == <<"app", "ui", "index", ".ts">>

TsBodies ==
    {<<TsCall(0, NoName, "fetch", 1, "no method")>>,
     <<TsCall(0, NoName, "fetch", 2, "post"), TsCall(0, NoName, "fetch", 2, "computed"),
       TsCall(0, NoName, "fetch", 0, "no method")>>,
     <<TsFn("function", 0, "f", {"fetch"}), TsCall(1, NoName, "fetch", 1, "no method")>>,
     <<To(TsCall(0, NoName, "fetch", 1, "no method"), "http", "h", 8080),
       To(TsCall(0, NoName, "fetch", 1, "no method"), "ftp", "h", 80)>>,
     <<TsImport("import", <<"axios">>, "fetch", <<>>), TsCall(0, NoName, "fetch", 1, "no method"),
       TsCall(0, "fetch", "get", 1, "no method")>>,
     <<TsImport("import", <<".", "ui">>, NoName, <<[imported |-> "k", local |-> "fetch"]>>),
       TsCall(0, NoName, "fetch", 1, "no method")>>,
     <<TsImport("import", <<"axios">>, "http", <<>>), TsCall(0, "http", "get", 1, "no method"),
       TsCall(0, "http", "create", 0, "no method"), TsCall(0, NoName, "http", 1, "no method"),
       TsFn("arrow", 0, NoName, {}), TsDecl("const", 5, "http"),
       TsCall(5, "http", "get", 1, "no method")>>}

ServiceRepositories ==
    {<<Text(A, c \o u)>> : <<c, u>> \in
        UNION {{<<c, u>> : u \in Uses(Len(c))} : c \in Clients}}
    \cup {<<Text(A, <<Import(0, <<"httpx">>, "httpx", FALSE), Call(0, "httpx", "get")>>),
            Text(Ts, t)>> : t \in TsBodies}

-----------------------------------------------------------------------------
(* TypeScript: exports, imports, routes                                    *)

TsUses ==
    {<<TsImport("import", <<".", "ui">>, "g", <<>>), TsCall(0, NoName, "g", 0, "no method")>>,
     <<TsImport("import", <<".", "ui">>, NoName, <<[imported |-> "k", local |-> "g"]>>),
       TsCall(0, NoName, "g", 0, "no method")>>,
     <<TsImport("import", <<".", "ui">>, NoName, <<[imported |-> "k", local |-> "g"]>>),
       TsFn("function", 0, "f", {"g"}), TsCall(2, NoName, "g", 0, "no method")>>,
     <<TsImport("import", <<".", "ui">>, NoName, <<[imported |-> "k", local |-> "g"]>>),
       TsFn("function", 0, "f", {}), TsDecl("var", 2, "v"), TsFn("arrow", 3, NoName, {}),
       TsFn("function", 4, "g", {}), TsCall(4, NoName, "g", 0, "no method"),
       TsCall(2, NoName, "g", 0, "no method")>>,
     <<TsImport("import", <<"react">>, "g", <<>>), TsImport("reexport", <<"..">>, NoName, <<>>),
       [St("route", 0) EXCEPT !.more = 0] @@ [route |-> "/", handler |-> "g", handlerLine |-> 2],
       St("route", 0) @@ [route |-> NoName, handler |-> NoName, handlerLine |-> 3],
       St("route", 0) @@ [route |-> "/k", handler |-> NoName, handlerLine |-> 3],
       TsFn("function", 0, "g", {}), TsCall(0, NoName, "parseInt", 0, "no method"),
       TsCall(0, NoName, "require", 0, "no method"), St("decorator", 0)>>}

TsExports ==
    {<<TsFn("function", 0, "k", {}), In("default", 0, "k")>>,
     <<TsDecl("const", 0, "k"), TsFn("function", 1, "k", {})>>,
     <<TsDecl("interface", 0, "I"), TsDecl("class", 0, "k") @@ [implements |->
            <<[name |-> "I", line |-> 2], [name |-> "Absent", line |-> 2]>>],
       TsFn("function", 2, "f", {}), TsDecl("class", 0, "k") @@ [implements |-> <<>>]>>}

\* Specifiers that lead to the root, to a file by its extension, past the root
\* and to nothing
TsSpecifiers ==
    {<<"..", "">>, <<"..">>, <<"..", "..", "app", "ui">>, <<".", "..", "app", "ui", "">>,
     <<".", "ui", "index", ".ts">>}

TsRepositories ==
    {<<Text(Ts, u), Text(Index, e)>> : u \in TsUses, e \in TsExports}
        \cup {<<Text(Ts, <<TsImport("import", s, "g", <<>>),
                           TsCall(0, NoName, "g", 0, "no method")>>),
                Text(Index, e), Text(<<"index", ".ts">>, e)>> :
                    s \in TsSpecifiers, e \in TsExports}

-----------------------------------------------------------------------------
(* Routes and guards in Python                                             *)

Decorator(route, guards) ==
    [name |-> "router.get", line |-> 2, method |-> "get", route |-> route, recv |-> "router",
     guards |-> guards]

Guard == [name |-> "require_user", line |-> 2]

RouteRepositories ==
    {<<Text(A, <<[Assign("assign", 0, "router", NoName, "APIRouter") EXCEPT !.guards = r],
                 [Def(0, "f", {}) EXCEPT !.decorators = <<Decorator(p, d), Decorator(q, <<>>)>>],
                 Def(0, "require_user", {})>>)>> :
        r \in {<<>>, <<Guard>>}, d \in {<<>>, <<Guard>>, <<Guard, Guard>>},
        p \in {NoName, "/"}, q \in {NoName, "/"}}

-----------------------------------------------------------------------------
(* Packages and resources                                                  *)

Entry(name, version, group) ==
    [more |-> 0, name |-> name, version |-> version, group |-> group, link |-> FALSE,
     templated |-> FALSE]

Pyprojects ==
    {Text(<<"pyproject", ".toml">>, <<Entry("Httpx", v, "main"), Entry("k", NoName, "dev")>>) :
        v \in {NoName, "1"}}

Requirements ==
    {Text(<<"w", "requirements", ".txt">>, <<Entry("httpx", "2", "main"),
                                              Entry("httpx", "1", "main")>>),
     [Text(<<"w", "requirements", ".txt">>, <<>>) EXCEPT !.parses = FALSE]}

Locks ==
    {Text(<<"poetry", ".lock">>, <<Entry("httpx", "2", "main"), Entry("k", NoName, "main")>>),
     [Text(<<"poetry", ".lock">>, <<Entry("httpx", "2", "main")>>) EXCEPT !.supported = FALSE],
     Text(<<"package-lock", ".json">>, <<[Entry("httpx", "2", "main") EXCEPT !.link = TRUE],
                                         Entry("httpx", "3", "main")>>)}

Importer == Text(<<"src", "m", ".py">>, <<Import(0, <<"httpx">>, "httpx", FALSE)>>)

PackageRepositories ==
    {<<l, p, r, Importer>> : l \in Locks, p \in Pyprojects, r \in Requirements}

Compose(body) == Text(<<"compose", ".yaml">>, body)

ComposeRepositories ==
    {<<Compose(<<Entry("web", "i", "service"), [Entry("db", "j", "service")
                    EXCEPT !.templated = TRUE]>>)>>,
     <<Compose(<<Entry("web", "i", "service"), Entry("web", "j", "service")>>)>>}

Plain(path, content) == [Text(path, <<>>) EXCEPT !.content = content]

\* Files without an extractor, without text, or too large; packages.
OtherRepositories ==
    {<<Plain(<<"README", ".md">>, c), Plain(<<"app", "services", "x", ".bin">>, d)>> :
        c \in {"text", "binary"}, d \in {"binary", "undecodable", "text"}}
    \cup {<<[Text(A, <<Def(0, "UserService", {})>>) EXCEPT !.oversize = o],
            Text(<<"lib", "app", "__init__", ".py">>, <<>>),
            Text(<<"lib", "app", "k", ".py">>, <<Def(0, "g", {}), Def(0, "UserService", {})>>),
            Text(<<"z", ".py">>, <<From(0, 0, <<"app", "k">>, "g", "g"), Call(0, NoName, "g"),
                                   Import(0, <<"importlib">>, "importlib", FALSE),
                                   Call(0, "importlib", "import_module"),
                                   Call(0, NoName, "getattr")>>)>> : o \in BOOLEAN}

\* A relative import whose name only a package on the way defines
PassingRepositories ==
    {<<Text(<<"app", "__init__", ".py">>, <<Def(0, "g", {})>>),
       Text(<<"app", "k", ".py">>, <<Def(0, n, {})>>),
       Text(<<"z", ".py">>, <<From(0, 1, <<"app", "k">>, "g", "g"), Call(0, NoName, "g")>>)>> :
        n \in {"f", "g"}}

Importing(st) == Text(<<"z", ".py">>, <<st>>)

Imports ==
    {Import(0, <<"app", "k">>, "app", FALSE), Import(0, <<"sub">>, "sub", FALSE),
     Import(0, <<"k">>, "k", FALSE), From(0, 0, <<"app">>, "k", "k"),
     From(0, 0, <<"app", "k">>, "sub", "sub"), From(0, 1, <<"app">>, "k", "k"),
     From(0, 2, <<"app">>, "k", "k"), [From(0, 0, <<"app">>, "k", "k") EXCEPT !.block = TRUE]}

\* Some of these files, and a file that imports one of them
Tree ==
    {<<"app", "__init__", ".py">>, <<"app", "k", ".py">>, <<"lib", "app", "__init__", ".py">>,
     <<"lib", "app", "k", ".py">>, <<"lib", "app", "sub", "__init__", ".py">>}

ImportRepositories ==
    {SetToSeq({Text(p, <<>>) : p \in t}) \o <<Importing(i)>> :
        t \in {s \in SUBSET Tree : Cardinality(s) \in 1..4}, i \in Imports}

MCRepositories ==
    ImportRepositories \cup PassingRepositories \cup
    CallRepositories \cup ServiceRepositories \cup TsRepositories \cup RouteRepositories
        \cup PackageRepositories \cup ComposeRepositories \cup OtherRepositories

MCIdentifiers ==
    {"APIRouter", "C", "Client", "Depends", "UserService", "c", "f", "g", "get", "getattr", "httpx",
     "app", "importlib", "k", "require_user", "router", "sub"}

MCFileRules == <<[role |-> "service", words |-> {"services"}]>>

MCSymbolRole == [x \in {"UserService"} |-> "service"]

MCPypiFold == [x \in {"Httpx"} |-> "httpx"]

MCProducers ==
    {Python, TypeScript, Manifest, Lockfile, Iac, Inventory, Resolver, Classifier}
=============================================================================
