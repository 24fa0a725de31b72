-------------------------- MODULE MCSnapshotFacts --------------------------
(* SnapshotFacts for TLC: a root, one file in two spellings, and relations *)
(* between them that conflict, repeat one another or go round in a circle. *)
EXTENDS SnapshotFacts

Ev(path, last, granularity) ==
    [path |-> path, start_line |-> 1, end_line |-> last, lines |-> 2,
     granularity |-> granularity, extractor |-> "py"]

Span == Ev(<<"a">>, 1, "span")

Root == [form |-> "repo", path |-> <<>>, name |-> NoName]

File(path) == [form |-> "file", path |-> path, name |-> NoName]

Node(kind, key, name, es) ==
    [node_kind |-> kind, stable_key |-> key, attrs |-> [name |-> name],
     properties |-> [decorators |-> <<>>], evidence |-> es]

\* One file under two spellings and with other evidence, another name for it,
\* and a path that leaves the root and comes back.
MCNodeFacts ==
    {Node("repository", Root, "r", {Span}),
     Node("file", File(<<"a">>), "a", {Ev(<<"a", "b", "..">>, 1, "span")}),
     Node("file", File(<<".", "a">>), "a", {Ev(<<"a">>, 2, "file")}),
     Node("file", File(<<"a">>), "b", {Span}),
     Node("file", File(<<"b">>), "b", {Ev(<<"..", "b">>, 1, "span")})}

Observation(e) ==
    [observed_kind |-> "import", subject_kind |-> "file", subject |-> File(<<"a">>),
     referent_text |-> [name |-> "x"], ordinal |-> 1, evidence |-> e]

\* The same observation, once for a span and once for the file.
MCObservationFacts == {Observation(Span), Observation([Span EXCEPT !.granularity = "file"])}

Seen == ObservationRef(ObservationRow(Observation(Span)).id)

EdgeRefOf(subject, object) == EdgeRef(EdgeId(subject, "imports", object))

Edge(sk, subject, ok, object, producer, refs) ==
    [subject_kind |-> sk, subject |-> subject, predicate |-> "imports",
     object_kind |-> ok, object |-> object, producer |-> producer,
     evidence |-> {Span}, derived_from |-> refs]

There == Edge("file", File(<<"a">>), "repository", Root, "resolver", {Seen})

Back == Edge("repository", Root, "file", File(<<"a">>), "resolver",
             {Seen, EdgeRefOf(File(<<"a">>), Root)})

MCEdgeFacts ==
    {There,
     [There EXCEPT !.producer = "py"],
     [There EXCEPT !.derived_from = {EdgeRefOf(Root, File(<<"a">>))}],
     Back}

Role ==
    [subject_kind |-> "file", subject |-> File(<<"a">>), predicate |-> "role",
     value |-> [roles |-> <<"api", "api">>], attrs |-> [confidence |-> "heuristic"],
     producer |-> "resolver",
     derived_from |-> {EdgeRefOf(File(<<"a">>), Root)}]

MCAssertionFacts == {Role, [Role EXCEPT !.derived_from = {}]}

Diagnostic(severity, producer) ==
    [code |-> "RI", severity |-> severity, producer |-> producer, path |-> <<"a">>]

MCDiagnosticFacts == {Diagnostic("warning", "py"), Diagnostic("fatal", "py")}

\* A span past the end of the file, a path in another spelling, and an
\* extractor nobody declared.
MCEdits ==
    {[Span EXCEPT !.end_line = 9], [Span EXCEPT !.path = <<".", "a">>],
     [Span EXCEPT !.extractor = "unknown"], [Span EXCEPT !.end_line = 2]}
=============================================================================
