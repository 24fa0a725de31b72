----------------------------- MODULE Extraction -----------------------------
(***************************************************************************)
(* What the extractors share: extraction/base.py, extraction/naming.py and *)
(* extraction/http.py.                                                     *)
(*                                                                         *)
(* A path is the sequence of its segments with the extension last, as in   *)
(* <<"app", "main", ".py">>.  A name in a key, and the referent of an      *)
(* observation, is a record whose fields say what it names.                *)
(***************************************************************************)
EXTENDS Canonical

CONSTANTS
    NoSpan,     \* a diagnostic about no particular lines
    PypiFold    \* PEP 503: the spellings of PyPI names that fold to another

-----------------------------------------------------------------------------
(* Keys                                                                    *)

Directory(path) == SubSeq(path, 1, Len(path) - 2)

Key(form, path, name) == [form |-> form, path |-> path, name |-> name]

RootKey == Key("repo", <<>>, NoName)

FileKey(path) == Key("file", path, NoName)

ModuleKey(path) == Key("mod", Directory(path), NoName)

\* module_name: the directory's own name, so that all its files agree.
ModuleName(path) == IF Directory(path) = <<>> THEN NoName ELSE Last(Directory(path))

SymbolKey(path, scope, id, n) == Key("::", path, [scope |-> scope, id |-> id, n |-> n])

ServiceKey(origin) == Key("svc", <<>>, [origin |-> origin])

FoldName(name) == IF name \in DOMAIN PypiFold THEN PypiFold[name] ELSE name

\* dependency_stable_key
DependencyKey(ecosystem, name) ==
    Key("dep", <<>>, [ecosystem |-> ecosystem,
                      package |-> IF ecosystem = "pypi" THEN FoldName(name) ELSE name])

IacKey(path, type, name) == Key("iac", path, [type |-> type, resource |-> name])

\* package_root: the empty text for a relative specifier.
PackageRoot(spec) == IF spec.level # 0 \/ spec.parts = <<>> THEN NoName ELSE spec.parts[1]

-----------------------------------------------------------------------------
(* Facts                                                                   *)

\* logical_line_count counts line feeds; a parser may count more lines.
Evidence(f, start, end, granularity, producer) ==
    [path |-> f.path, start_line |-> start, end_line |-> end, lines |-> f.lines,
     granularity |-> granularity, extractor |-> producer]

Span(f, start, end, producer) == Evidence(f, start, end, "span", producer)

WholeFile(f, producer) == Evidence(f, 1, f.lines, "file", producer)

Node(kind, key, attrs, properties, e) ==
    [node_kind |-> kind, stable_key |-> key, attrs |-> attrs, properties |-> properties,
     evidence |-> {e}]

Observation(kind, subjectKind, subject, referent, e) ==
    [observed_kind |-> kind, subject_kind |-> subjectKind, subject |-> subject,
     referent_text |-> referent, ordinal |-> 0, evidence |-> e]

NoArrays == [decorators |-> <<>>]

NoReferent == [none |-> TRUE]

Diagnostic(code, severity, message, path, span, subject, producer) ==
    [code |-> code, severity |-> severity, message |-> message, path |-> path,
     span |-> span, subject |-> subject, producer |-> producer,
     observation |-> NoReferent, candidates |-> {}]

Result(ns, os, ds) == [nodes |-> ns, observations |-> os, diagnostics |-> ds]

Nothing == Result({}, <<>>, {})

\* decode_source
Decodes(f) == f.content = "text"

DecodeDiagnostic(f, producer) ==
    IF f.content = "binary"
    THEN Diagnostic("RI-SRC-BINARY", "info", "binary", f.path, NoSpan, FileKey(f.path), producer)
    ELSE Diagnostic("RI-SRC-MALFORMED", "error", "not utf-8", f.path, NoSpan,
                    FileKey(f.path), producer)

Malformed(f, producer) ==
    Diagnostic("RI-SRC-MALFORMED", "error", "not parsed", f.path, NoSpan, FileKey(f.path),
               producer)

Unsupported(f, message, span, producer) ==
    Diagnostic("RI-EXT-UNSUPPORTED", "info", message, f.path, span, FileKey(f.path), producer)

\* build_evidence gives a diagnostic instead of evidence outside the file.
SpanDiagnostic(e) ==
    Diagnostic("RI-SPAN-INVALID", "error", "span", e.path, <<e.start_line, e.end_line>>,
               NoName, e.extractor)

\* The observations of a file by their place in it, those whose evidence lies
\* outside the file left out.
InFile(os) == Restrict(os, {i \in DOMAIN os : ValidSpan(os[i].evidence)})

\* Of the facts of a result those whose evidence lies in the file, and a
\* diagnostic for each of the others.
Built(ns, os, ds) ==
    [nodes |-> {n \in ns : \A e \in n.evidence : ValidSpan(e)},
     observations |-> InFile(os),
     diagnostics |->
        ds \cup {SpanDiagnostic(e) : e \in
            {x \in (UNION {n.evidence : n \in ns}) \cup {o.evidence : o \in Range(os)} :
                ~ValidSpan(x)}}]

\* assign_ordinals: by source order among observations equal in everything else.
AssignOrdinals(os) ==
    {[os[i] EXCEPT !.ordinal = Cardinality({j \in DOMAIN os : j <= i /\ os[j] = os[i]})] :
        i \in DOMAIN os}

-----------------------------------------------------------------------------
(* HTTP destinations                                                       *)

MethodAttributes == {"delete", "get", "head", "options", "patch", "post", "put"}

\* normalize_method
MethodToken ==
    [delete |-> "DELETE", get |-> "GET", head |-> "HEAD", options |-> "OPTIONS",
     patch |-> "PATCH", post |-> "POST", put |-> "PUT", GET |-> "GET"]

DefaultPort == [http |-> 80, https |-> 443]

NoPort == 0

\* _split_origin: an absolute http(s) URL with a host and a legal port.
HasOrigin(url) ==
    /\ url.scheme \in DOMAIN DefaultPort
    /\ url.host # ""
    /\ url.port \in 0..65535

Origin(url) ==
    [scheme |-> url.scheme, host |-> url.host,
     port |-> IF url.port = DefaultPort[url.scheme] THEN NoPort ELSE url.port]

\* describe_destination, describe_destination_from_literal_prefix: a prefix
\* proves the origin once it has closed the authority off.
Proves(method, url) ==
    /\ method \in DOMAIN MethodToken
    /\ \/ url.form = "literal"
       \/ url.form = "prefix" /\ url.path # ""
    /\ HasOrigin(url)

DestinationReferent(method, url) ==
    [method |-> MethodToken[method], origin |-> Origin(url),
     path |-> IF url.path = "" THEN "/" ELSE url.path]

\* parse_referent splits at every bar, and the path may hold one.
Parsable(referent) == referent.path # "/a|b"

ServiceNode(e, url) ==
    Node("service", ServiceKey(Origin(url)), [origin |-> Origin(url)], NoArrays, e)

=============================================================================
