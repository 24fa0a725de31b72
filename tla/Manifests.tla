----------------------------- MODULE Manifests -----------------------------
(***************************************************************************)
(* extraction/manifests.py, lockfiles.py, iac.py and dependencies.py: what *)
(* is declared, pinned and deployed, and how the declarations of one       *)
(* package in several files become one node.                               *)
(*                                                                         *)
(* f.body is the sequence of the entries the decoder found, each with the  *)
(* line extraction/structured.py gives it; f.parses says that the decoder  *)
(* accepted the text and every entry has its type and its line.            *)
(***************************************************************************)
EXTENDS Extraction

Manifest == "dependency-manifest"

Lockfile == "dependency-lockfile"

Iac == "iac-manifest"

Basename(path) == SubSeq(path, Len(path) - 1, Len(path))

ManifestNames == {<<"package", ".json">>, <<"pyproject", ".toml">>, <<"requirements", ".txt">>}

LockfileNames == {<<"package-lock", ".json">>, <<"poetry", ".lock">>}

DisclosedNames == {<<"yarn", ".lock">>}

IacNames == {<<"compose", ".yaml">>, <<"docker-compose", ".yml">>}

Ecosystem(path) ==
    IF Basename(path) \in {<<"package", ".json">>, <<"package-lock", ".json">>}
    THEN "npm" ELSE "pypi"

-----------------------------------------------------------------------------
(* Declarations and resolutions                                            *)

\* The record of one entry in the merged node (_merged_node)
EntryRecord(f, entry, producer) ==
    [name |-> entry.name, version |-> entry.version, group |-> entry.group,
     line |-> entry.line, path |-> f.path, extractor |-> producer]

\* Before the merge a node describes one entry of one file.
DependencyNode(f, entry, producer) ==
    LET record(p) == IF p = producer THEN <<EntryRecord(f, entry, p)>> ELSE <<>>
    IN  Node("dependency", DependencyKey(Ecosystem(f.path), entry.name),
             [name |-> entry.name, ecosystem |-> Ecosystem(f.path)],
             [declarations |-> record(Manifest), resolutions |-> record(Lockfile)],
             Span(f, entry.line, entry.line, producer))

DependencyObservation(f, entry, producer) ==
    Observation(IF producer = Manifest THEN "dependency" ELSE "resolution", "dependency",
                DependencyKey(Ecosystem(f.path), entry.name),
                IF producer = Manifest THEN [name |-> entry.name]
                ELSE [version |-> entry.version],
                Span(f, entry.line, entry.line, producer))

\* A workspace link and an entry without a version prove nothing installed.
Claimed(entry, producer) == producer = Manifest \/ (~entry.link /\ entry.version # NoName)

EntryFacts(f, producer) ==
    LET entries == {i \in DOMAIN f.body : Claimed(f.body[i], producer)}
        built == Built({DependencyNode(f, f.body[i], producer) : i \in entries},
                       [i \in entries |-> DependencyObservation(f, f.body[i], producer)],
                       {})
    IN  [built EXCEPT !.observations = AssignOrdinals(@)]

ManifestExtract(f) ==
    CASE ~Decodes(f) -> Result({}, {}, {DecodeDiagnostic(f, Manifest)})
      [] Decodes(f) /\ ~f.parses ->
            Result({}, {}, {[Malformed(f, Manifest) EXCEPT !.subject = NoName]})
      [] OTHER -> EntryFacts(f, Manifest)

\* A lockfile of another tool, or in a revision that is not read, is disclosed.
LockfileExtract(f) ==
    CASE ~Decodes(f) -> Result({}, {}, {DecodeDiagnostic(f, Lockfile)})
      [] Decodes(f) /\ (Basename(f.path) \in DisclosedNames \/ (f.parses /\ ~f.supported)) ->
            Result({}, {}, {Unsupported(f, "lockfile", NoSpan, Lockfile)})
      [] Decodes(f) /\ Basename(f.path) \notin DisclosedNames /\ ~f.parses ->
            Result({}, {}, {Malformed(f, Lockfile)})
      [] OTHER -> EntryFacts(f, Lockfile)

-----------------------------------------------------------------------------
(* merge_dependency_facts                                                  *)

Rank(n) == IF \E e \in n.evidence : e.extractor = Manifest THEN 0 ELSE 1

\* _member_order: manifests before lockfiles, then by file and line.  order
\* gives the place of a path in the order of the stream.
Before(m, n, order) ==
    LET d == CHOOSE e \in m.evidence : TRUE
        e == CHOOSE x \in n.evidence : TRUE
    IN  \/ Rank(m) < Rank(n)
        \/ Rank(m) = Rank(n) /\ order[d.path] < order[e.path]
        \/ Rank(m) = Rank(n) /\ d.path = e.path /\ d.start_line <= e.start_line

\* One node per key, with what every file declares and pins and all their
\* evidence; the first of them in the order lends its spelling.
Merge(ns, order) ==
    {LET members == {m \in ns : m.stable_key = key}
         first == CHOOSE m \in members : \A n \in members : Before(m, n, order)
         all(field) == UNION {Range(m.properties[field]) : m \in members}
     IN  [first EXCEPT
            !.properties = [declarations |-> SetToSeq(all("declarations")),
                            resolutions |-> SetToSeq(all("resolutions"))],
            !.evidence = UNION {m.evidence : m \in members}]
        : key \in {n.stable_key : n \in ns}}

-----------------------------------------------------------------------------
(* Compose files                                                           *)

\* An image that is a template is left out of the node.
IacNode(f, entry) ==
    Node("iac_resource", IacKey(f.path, entry.group, entry.name),
         [resource_name |-> entry.name, image |-> IF entry.templated THEN NoName ELSE entry.version],
         NoArrays, Span(f, entry.line, entry.line, Iac))

IacObservation(f, entry) ==
    Observation("iac_resource", "iac_resource", IacKey(f.path, entry.group, entry.name),
                [resource |-> entry.name, type |-> entry.group],
                Span(f, entry.line, entry.line, Iac))

TemplateDiagnostics(f) ==
    {[Unsupported(f, "templated value", <<e.line, e.line>>, Iac)
        EXCEPT !.subject = IacKey(f.path, e.group, e.name)] :
        e \in {x \in Range(f.body) : x.templated /\ x.line <= f.lines}}

IacFacts(f) ==
    LET built == Built({IacNode(f, e) : e \in Range(f.body)},
                       [i \in DOMAIN f.body |-> IacObservation(f, f.body[i])],
                       TemplateDiagnostics(f))
    IN  [built EXCEPT !.observations = AssignOrdinals(@)]

IacExtract(f) ==
    CASE ~Decodes(f) -> Result({}, {}, {DecodeDiagnostic(f, Iac)})
      [] Decodes(f) /\ ~f.parses -> Result({}, {}, {Malformed(f, Iac)})
      [] OTHER -> IacFacts(f)

=============================================================================
