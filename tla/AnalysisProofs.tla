--------------------------- MODULE AnalysisProofs ---------------------------
(***************************************************************************)
(* Proofs about Analysis, for every repository: no relationship that an    *)
(* extractor observed is lost between the observations and the sealed      *)
(* graph, and none is both resolved and reported; a package lists what the *)
(* files say of it; an import ends in a file only if it can mean no other. *)
(***************************************************************************)
EXTENDS Analysis, SnapshotFactsProofs

-----------------------------------------------------------------------------
(* Extractors report and do not resolve                                    *)

\* A diagnostic that names no observation.
Plain(d) ==
    \E code, severity, message, path, span, subject, producer :
        d = Diagnostic(code, severity, message, path, span, subject, producer)

AllPlain(ds) == \A d \in ds : Plain(d)

LEMMA DiagnosticPlain ==
    ASSUME NEW code, NEW severity, NEW message, NEW path, NEW span, NEW subject, NEW producer
    PROVE  Plain(Diagnostic(code, severity, message, path, span, subject, producer))
BY Zenon DEF Plain

LEMMA UnsupportedPlain ==
    ASSUME NEW f, NEW message, NEW span, NEW producer
    PROVE  Plain(Unsupported(f, message, span, producer))
BY DiagnosticPlain, Zenon DEF Unsupported

\* The diagnostics about a file as a whole.
LEMMA FilePlain ==
    ASSUME NEW f, NEW producer
    PROVE  Plain(Malformed(f, producer)) /\ Plain(DecodeDiagnostic(f, producer))
BY DiagnosticPlain, Zenon DEF Malformed, DecodeDiagnostic

LEMMA SubjectPlain ==
    ASSUME NEW d, Plain(d), NEW subject
    PROVE  Plain([d EXCEPT !.subject = subject])
<1>1. PICK code, severity, message, path, span, old, producer :
        d = Diagnostic(code, severity, message, path, span, old, producer)
  BY Zenon DEF Plain
<1>2. [d EXCEPT !.subject = subject]
        = Diagnostic(code, severity, message, path, span, subject, producer)
  BY <1>1 DEF Diagnostic
<1> QED BY <1>2, DiagnosticPlain, Zenon

LEMMA BuiltPlain ==
    ASSUME NEW ns, NEW os, NEW ds, AllPlain(ds)
    PROVE  AllPlain(Built(ns, os, ds).diagnostics)
<1>1. \A e : Plain(SpanDiagnostic(e))
  BY DiagnosticPlain, Zenon DEF SpanDiagnostic
<1> QED BY <1>1 DEF Built, AllPlain

LEMMA ClientCallPlain ==
    ASSUME NEW f, NEW st
    PROVE  AllPlain(ClientCall(f, st).diagnostics)
BY UnsupportedPlain DEF ClientCall, AllPlain, Nothing, Result

LEMMA ServiceCallPlain ==
    ASSUME NEW f, NEW scan, NEW st
    PROVE  AllPlain(ServiceCall(f, scan, st).diagnostics)
<1>1. AllPlain(Nothing.diagnostics)
  BY DEF Nothing, Result, AllPlain
<1>2. \A message, span : AllPlain(Result({}, <<>>, {Unsupported(f, message, span, Python)}).diagnostics)
  BY UnsupportedPlain DEF Result, AllPlain
<1> DEFINE flagged(message) ==
             Result({}, <<>>, {Unsupported(f, message, <<st.line, st.end>>, Python)})
<1>3. ServiceCall(f, scan, st) \in {Nothing, ClientCall(f, st), flagged("bare client function"),
                                    flagged("client name shadowed")}
  BY DEF ServiceCall
<1> QED BY <1>1, <1>2, <1>3, ClientCallPlain

LEMMA PythonPlain ==
    ASSUME NEW f
    PROVE  AllPlain(PythonExtract(f).diagnostics)
<1>1. AllPlain(ServiceInteractions(f).diagnostics)
  <2> DEFINE scan == ServiceScan(f)
             found == [i \in DOMAIN f.body |->
                         IF f.body[i].kind = "call" /\ ~f.body[i].signature
                         THEN ServiceCall(f, scan[i - 1], f.body[i]) ELSE Nothing]
  <2>1. ServiceInteractions(f).diagnostics = UNION {r.diagnostics : r \in Range(found)}
    BY DEF ServiceInteractions, Result
  <2>2. AllPlain(Nothing.diagnostics)
    BY DEF Nothing, Result, AllPlain
  <2>3. \A i \in DOMAIN f.body : AllPlain(found[i].diagnostics)
    BY <2>2, ServiceCallPlain
  <2>4. \A r \in Range(found) : AllPlain(r.diagnostics)
    BY <2>3 DEF Range
  <2> HIDE DEF found
  <2> QED BY <2>1, <2>4 DEF AllPlain
<1>2. AllPlain(BlindSpots(f))
  <2> DEFINE spots(i) == {Unsupported(f, m, <<f.body[i].line, f.body[i].end>>, Python) :
                            m \in BlindSpot(f, BlindScan(f)[i - 1], f.body[i])}
  <2>1. \A i : AllPlain(spots(i))
    BY UnsupportedPlain DEF AllPlain
  <2>2. BlindSpots(f) = UNION {spots(i) : i \in DOMAIN f.body}
    BY DEF BlindSpots
  <2> HIDE DEF spots
  <2> QED BY <2>1, <2>2 DEF AllPlain
<1>3. AllPlain(DuplicateDiagnostics(f))
  BY DiagnosticPlain DEF DuplicateDiagnostics, AllPlain
<1>4. AllPlain(PythonFacts(f).diagnostics)
  <2>1. AllPlain(DuplicateDiagnostics(f) \cup ServiceInteractions(f).diagnostics \cup BlindSpots(f))
    BY <1>1, <1>2, <1>3 DEF AllPlain
  <2> QED BY <2>1, BuiltPlain DEF PythonFacts
<1> QED BY <1>4, FilePlain DEF PythonExtract, AllPlain, Result

LEMMA TypeScriptPlain ==
    ASSUME NEW f
    PROVE  AllPlain(TypeScriptExtract(f).diagnostics)
<1>1. AllPlain(TsDuplicates(f))
  BY DiagnosticPlain DEF TsDuplicates, AllPlain
<1>2. AllPlain(DynamicRoutes(f)) /\ AllPlain(TsServiceDiagnostics(f))
  BY UnsupportedPlain DEF DynamicRoutes, TsServiceDiagnostics, AllPlain
<1>3. AllPlain(TsBlindSpots(f))
  <2> DEFINE message(st) ==
               CASE st.kind \in {"namespace", "decorator", "importcall"} -> {st.kind}
                 [] st.kind = "call" /\ st.recv = NoName /\ st.name = "require" -> {"require"}
                 [] OTHER -> {}
             spots(st) == {Unsupported(f, m, <<st.line, st.end>>, TypeScript) : m \in message(st)}
  <2>1. \A st : AllPlain(spots(st))
    <3> HIDE DEF message
    <3> QED BY UnsupportedPlain DEF AllPlain
  <2>2. TsBlindSpots(f) = UNION {spots(st) : st \in Range(f.body)}
    BY DEF TsBlindSpots
  <2> HIDE DEF spots
  <2> QED BY <2>1, <2>2 DEF AllPlain
<1>4. AllPlain(TsFacts(f).diagnostics)
  <2> DEFINE symbols == Built({TsSymbolNode(f, i) : i \in TsSymbols(f)}, <<>>, {})
  <2>1. AllPlain(symbols.diagnostics)
    BY BuiltPlain DEF AllPlain
  <2>2. TsFacts(f).diagnostics =
          symbols.diagnostics \cup TsDuplicates(f) \cup DynamicRoutes(f)
            \cup TsServiceDiagnostics(f) \cup TsBlindSpots(f)
    BY DEF TsFacts, Result
  <2> HIDE DEF symbols
  <2> QED BY <1>1, <1>2, <1>3, <2>1, <2>2 DEF AllPlain
<1> QED BY <1>4, FilePlain DEF TypeScriptExtract, AllPlain, Result

LEMMA EntryPlain ==
    ASSUME NEW f, NEW producer
    PROVE  AllPlain(EntryFacts(f, producer).diagnostics)
<1> DEFINE entries == {i \in DOMAIN f.body : Claimed(f.body[i], producer)}
           ns == {DependencyNode(f, f.body[i], producer) : i \in entries}
           os == [i \in entries |-> DependencyObservation(f, f.body[i], producer)]
           built == Built(ns, os, {})
<1>1. AllPlain(built.diagnostics)
  <2> HIDE DEF ns, os
  <2> QED BY BuiltPlain DEF AllPlain
<1>2. EntryFacts(f, producer).diagnostics = built.diagnostics
  <2>1. EntryFacts(f, producer) = [built EXCEPT !.observations = AssignOrdinals(@)]
    BY DEF EntryFacts
  <2> HIDE DEF ns, os
  <2> QED BY <2>1 DEF Built
<1> QED BY <1>1, <1>2

LEMMA IacPlain ==
    ASSUME NEW f
    PROVE  AllPlain(IacFacts(f).diagnostics)
<1> DEFINE ns == {IacNode(f, e) : e \in Range(f.body)}
           os == [i \in DOMAIN f.body |-> IacObservation(f, f.body[i])]
           built == Built(ns, os, TemplateDiagnostics(f))
<1>1. AllPlain(TemplateDiagnostics(f))
  BY UnsupportedPlain, SubjectPlain DEF TemplateDiagnostics, AllPlain
<1>2. AllPlain(built.diagnostics)
  <2> HIDE DEF ns, os
  <2> QED BY <1>1, BuiltPlain
<1>3. IacFacts(f).diagnostics = built.diagnostics
  <2>1. IacFacts(f) = [built EXCEPT !.observations = AssignOrdinals(@)]
    BY DEF IacFacts
  <2> HIDE DEF ns, os
  <2> QED BY <2>1 DEF Built
<1> QED BY <1>2, <1>3

LEMMA ManifestsPlain ==
    ASSUME NEW f
    PROVE  /\ AllPlain(ManifestExtract(f).diagnostics)
           /\ AllPlain(LockfileExtract(f).diagnostics)
           /\ AllPlain(IacExtract(f).diagnostics)
<1>1. AllPlain(ManifestExtract(f).diagnostics)
  BY EntryPlain, FilePlain, SubjectPlain DEF ManifestExtract, AllPlain, Result
<1>2. AllPlain(LockfileExtract(f).diagnostics)
  BY EntryPlain, FilePlain, UnsupportedPlain DEF LockfileExtract, AllPlain, Result
<1>3. AllPlain(IacExtract(f).diagnostics)
  BY IacPlain, FilePlain DEF IacExtract, AllPlain, Result
<1> QED BY <1>1, <1>2, <1>3

\* Whatever the file, the inventory and the extractor resolve nothing.
LEMMA FilesPlain ==
    ASSUME NEW f, NEW found
    PROVE  AllPlain(ExtractedBy(f).diagnostics) /\ AllPlain(InventoryOf(f, found).diagnostics)
<1>1. AllPlain(Result({}, {}, {}).diagnostics)
  BY DEF AllPlain, Result
<1>2. AllPlain(ExtractedBy(f).diagnostics)
  <2>1. Extractor(f) \in {Python, TypeScript, Manifest, Lockfile, Iac, Inventory}
    BY DEF Extractor
  <2>2. Extractor(f) # Inventory => AllPlain(Extracted(f).diagnostics)
    BY <2>1, PythonPlain, TypeScriptPlain, ManifestsPlain DEF Extracted
  <2> QED BY <1>1, <2>2 DEF ExtractedBy
<1>3. Plain(LimitDiagnostic(f))
  BY DiagnosticPlain, Zenon DEF LimitDiagnostic
<1>4. AllPlain(InventoryOf(f, found).diagnostics)
  BY <1>3, FilePlain DEF InventoryOf, AllPlain, Result
<1> QED BY <1>2, <1>4

-----------------------------------------------------------------------------
(* Outcomes                                                                *)

\* An outcome is edges derived from observation c, or a diagnostic about it,
\* never both and never neither.
Answers(r, c) ==
    \/ /\ r.edges # {} /\ r.diagnostics = {}
       /\ \A e \in r.edges : e.derived_from = {ObservationRef(c.id)}
    \/ /\ r.edges = {} /\ r.diagnostics # {}
       /\ \A d \in r.diagnostics : DiagnosticRow(d).observation = [id |-> c.id]

LEMMA PlainRow ==
    ASSUME NEW d, Plain(d)
    PROVE  Plain(DiagnosticRow(d))
<1>1. PICK code, severity, message, path, span, subject, producer :
        d = Diagnostic(code, severity, message, path, span, subject, producer)
  BY Zenon DEF Plain
<1>2. DiagnosticRow(d)
        = Diagnostic(code, severity, message, NormalizePath(path), span, subject, producer)
  BY <1>1 DEF DiagnosticRow, Diagnostic
<1> QED BY <1>2, DiagnosticPlain, Zenon

LEMMA PlainNamesNothing ==
    ASSUME NEW d, Plain(d)
    PROVE  "id" \notin DOMAIN d.observation
BY DEF Plain, Diagnostic, NoReferent

LEMMA ReportAnswers ==
    ASSUME NEW o, NEW code, NEW message, NEW candidates
    PROVE  Answers(Outcome({}, {ResolverDiagnostic(o, code, message, candidates)}), o)
<1> DEFINE d == ResolverDiagnostic(o, code, message, candidates)
<1>1. DiagnosticRow(d).observation = [id |-> o.id]
  BY DEF DiagnosticRow, ResolverDiagnostic, Diagnostic
<1> HIDE DEF d
<1>2. \A r : r.edges = {} /\ r.diagnostics = {d} => Answers(r, o)
  BY <1>1 DEF Answers
<1>3. Outcome({}, {d}).edges = {} /\ Outcome({}, {d}).diagnostics = {d}
  BY DEF Outcome
<1>4. Answers(Outcome({}, {d}), o)
  BY <1>2, <1>3, Zenon
<1> QED BY <1>4 DEF d

LEMMA RefusalsAnswer ==
    ASSUME NEW o, NEW message, NEW candidates
    PROVE  Answers(Unresolved(o, message), o) /\ Answers(Ambiguous(o, message, candidates), o)
BY ReportAnswers DEF Unresolved, Ambiguous

LEMMA EdgesAnswer ==
    ASSUME NEW o, NEW es, es # {},
           \A e \in es : \E subject, predicate, object :
              e = EdgeFrom(o, subject, predicate, object)
    PROVE  Answers(Outcome(es, {}), o)
BY DEF Answers, Outcome, EdgeFrom

LEMMA CandidatesAnswer ==
    ASSUME NEW o, NEW subject, NEW predicate, NEW candidates
    PROVE  Answers(ResolveCandidates(o, subject, predicate, candidates), o)
<1> DEFINE es == {EdgeFrom(o, subject, predicate, k) : k \in candidates}
<1>1. CASE candidates = {}
  <2>1. Cardinality(candidates) = 0
    BY <1>1, FS_EmptySet
  <2> QED BY <1>1, <2>1, RefusalsAnswer DEF ResolveCandidates
<1>2. CASE candidates # {} /\ Cardinality(candidates) > 1
  BY <1>2, RefusalsAnswer DEF ResolveCandidates
<1>3. CASE candidates # {} /\ ~(Cardinality(candidates) > 1)
  <2>1. ResolveCandidates(o, subject, predicate, candidates) = Outcome(es, {})
    BY <1>3 DEF ResolveCandidates
  <2>2. es # {}
    BY <1>3
  <2>3. \A e \in es : \E s, p, k : e = EdgeFrom(o, s, p, k)
    BY Zenon
  <2> HIDE DEF es
  <2> QED BY <2>1, <2>2, <2>3, EdgesAnswer
<1> QED BY <1>1, <1>2, <1>3

LEMMA ReferenceAnswers ==
    ASSUME NEW o, NEW predicate
    PROVE  Answers(ResolveReference(o, predicate), o)
BY RefusalsAnswer, CandidatesAnswer DEF ResolveReference

\* The handlers observed for a route, and the observation its outcome cites.
Handlers(o) == {h \in Inputs("route_handler") : h.row.subject = o.row.subject}

Cited(o) ==
    IF /\ o.row.observed_kind = "route"
       /\ Handlers(o) # {} /\ ~(Cardinality(Handlers(o)) > 1)
    THEN CHOOSE h \in Handlers(o) : TRUE ELSE o

OutcomeFor(o) ==
    CASE o.row.observed_kind = "definition" -> ResolveDefinition(o)
      [] o.row.observed_kind = "import" -> ResolveImport(o)
      [] o.row.observed_kind = "call" -> ResolveCall(o)
      [] o.row.observed_kind = "implements" -> ResolveReference(o, "implements")
      [] o.row.observed_kind = "dependency" -> ResolveDeclared(o, "dependency", "depends_on")
      [] o.row.observed_kind = "injects" -> ResolveReference(o, "injects")
      [] o.row.observed_kind = "http_call" -> ResolveHttpCall(o)
      [] o.row.observed_kind = "iac_resource" -> ResolveDeclared(o, "iac_resource", "declares")
      [] o.row.observed_kind = "route" -> ResolveRoute(o)

Claimants == {o \in observations : o.row.observed_kind \in RelationshipKinds}

LEMMA OutcomesAreForClaimants == Outcomes = {OutcomeFor(o) : o \in Claimants}
<1>1. \A o \in Claimants : OutcomeFor(o) \in Outcomes
  BY DEF Claimants, RelationshipKinds, OutcomeFor, Outcomes, Inputs
<1>2. \A x \in Outcomes : \E o \in Claimants : x = OutcomeFor(o)
  <2> SUFFICES ASSUME NEW x \in Outcomes PROVE \E o \in Claimants : x = OutcomeFor(o)
    OBVIOUS
  <2>1. \E o \in observations :
          \/ o.row.observed_kind = "definition" /\ x = ResolveDefinition(o)
          \/ o.row.observed_kind = "import" /\ x = ResolveImport(o)
          \/ o.row.observed_kind = "call" /\ x = ResolveCall(o)
          \/ o.row.observed_kind = "implements" /\ x = ResolveReference(o, "implements")
          \/ o.row.observed_kind = "dependency" /\ x = ResolveDeclared(o, "dependency", "depends_on")
          \/ o.row.observed_kind = "injects" /\ x = ResolveReference(o, "injects")
          \/ o.row.observed_kind = "http_call" /\ x = ResolveHttpCall(o)
          \/ /\ o.row.observed_kind = "iac_resource"
             /\ x = ResolveDeclared(o, "iac_resource", "declares")
          \/ o.row.observed_kind = "route" /\ x = ResolveRoute(o)
    BY DEF Outcomes, Inputs
  <2> QED BY <2>1 DEF Claimants, RelationshipKinds, OutcomeFor
<1> QED BY <1>1, <1>2

LEMMA RouteAnswers ==
    ASSUME NEW o \in Inputs("route")
    PROVE  Answers(ResolveRoute(o), Cited(o))
<1> DEFINE handler == CHOOSE h \in Handlers(o) : TRUE
<1>0. o.row.observed_kind = "route"
  BY DEF Inputs
<1>1. CASE Handlers(o) = {}
  <2>1. ResolveRoute(o) = Unresolved(o, "route handler") /\ Cited(o) = o
    <3>1. Cardinality(Handlers(o)) = 0
      BY <1>1, FS_EmptySet
    <3> QED BY <1>1, <3>1 DEF ResolveRoute, Handlers, Cited
  <2> QED BY <2>1, RefusalsAnswer
<1>2. CASE Handlers(o) # {} /\ Cardinality(Handlers(o)) > 1
  <2>1. ResolveRoute(o) = Ambiguous(o, "route handler", {}) /\ Cited(o) = o
    BY <1>2 DEF ResolveRoute, Handlers, Cited
  <2> QED BY <2>1, RefusalsAnswer
<1>3. CASE Handlers(o) # {} /\ ~(Cardinality(Handlers(o)) > 1)
  <2>1. /\ Cited(o) = handler
        /\ ResolveRoute(o) = ResolveCandidates(handler, o.row.subject, "routes_to",
              ReferenceCandidates(handler.row.referent_text, InputEvidence(handler).path,
                                  BindingsOf(FileKey(InputEvidence(handler).path))))
    BY <1>0, <1>3 DEF ResolveRoute, Handlers, Cited
  <2> QED BY <2>1, CandidatesAnswer
<1> QED BY <1>1, <1>2, <1>3

\* Every claim has an outcome that is about it, or about its handler.
LEMMA ClaimsAreAnswered ==
    ASSUME NEW o \in Claimants
    PROVE  Answers(OutcomeFor(o), Cited(o))
<1> DEFINE kind == o.row.observed_kind
<1>1. CASE kind = "definition"
  <2> DEFINE parent == ParentKey(o.row.subject)
             es == {EdgeFrom(o, parent, p, o.row.subject) : p \in {"contains", "defines"}}
  <2>1. Answers(Outcome(es, {}), o)
    <3>1. es # {} /\ \A e \in es : \E s, p, k : e = EdgeFrom(o, s, p, k)
      BY Zenon
    <3> HIDE DEF es
    <3> QED BY <3>1, EdgesAnswer
  <2>2. Answers(ResolveDefinition(o), o)
    BY <2>1, RefusalsAnswer DEF ResolveDefinition
  <2> QED BY <1>1, <2>2 DEF OutcomeFor, Cited
<1>2. CASE kind = "import"
  <2>1. Answers(ResolveImport(o), o)
    BY RefusalsAnswer, CandidatesAnswer DEF ResolveImport
  <2> QED BY <1>2, <2>1 DEF OutcomeFor, Cited
<1>3. CASE kind = "call"
  <2>1. Answers(ResolveCall(o), o)
    BY RefusalsAnswer, ReferenceAnswers DEF ResolveCall
  <2> QED BY <1>3, <2>1 DEF OutcomeFor, Cited
<1>4. CASE kind \in {"implements", "injects"}
  BY <1>4, ReferenceAnswers DEF OutcomeFor, Cited
<1>5. CASE kind \in {"dependency", "iac_resource"}
  <2>1. ASSUME NEW k, NEW predicate PROVE Answers(ResolveDeclared(o, k, predicate), o)
    <3>1. Answers(Outcome({EdgeFrom(o, RootKey, predicate, o.row.subject)}, {}), o)
      BY EdgesAnswer
    <3> QED BY <3>1, RefusalsAnswer DEF ResolveDeclared
  <2> QED BY <1>5, <2>1 DEF OutcomeFor, Cited
<1>6. CASE kind = "http_call"
  <2>1. Answers(ResolveHttpCall(o), o)
    <3>1. \A s, k : Answers(Outcome({EdgeFrom(o, s, "calls_service", k)}, {}), o)
      BY EdgesAnswer
    <3> QED BY <3>1, RefusalsAnswer DEF ResolveHttpCall
  <2> QED BY <1>6, <2>1 DEF OutcomeFor, Cited
<1>7. CASE kind = "route"
  <2>1. o \in Inputs("route") /\ OutcomeFor(o) = ResolveRoute(o)
    BY <1>7 DEF Claimants, Inputs, OutcomeFor
  <2> QED BY <2>1, RouteAnswers
<1> QED BY <1>1, <1>2, <1>3, <1>4, <1>5, <1>6, <1>7 DEF Claimants, RelationshipKinds

-----------------------------------------------------------------------------
(* Whose outcome it is                                                     *)

\* The id of an observation determines it.
Whole(o) ==
    o = [id |-> o.id,
         row |-> [observed_kind |-> o.id.observed_kind, subject_kind |-> o.id.subject_kind,
                  subject |-> o.id.subject, referent_text |-> o.id.referent_text,
                  ordinal |-> o.id.ordinal]]

LEMMA RowWhole ==
    ASSUME NEW o
    PROVE  Whole(ObservationRow(o))
BY DEF Whole, ObservationRow, ObservationId

LEMMA SameObservation ==
    ASSUME NEW o, NEW p, Whole(o), Whole(p), o.id = p.id
    PROVE  o = p
BY DEF Whole

LEMMA CitedKind ==
    ASSUME NEW o \in Claimants
    PROVE  /\ Cited(o) \in observations
           /\ Cited(o).id \in Answering(o)
           /\ \/ Cited(o) = o
              \/ /\ o.row.observed_kind = "route"
                 /\ Handlers(o) # {} /\ ~(Cardinality(Handlers(o)) > 1)
                 /\ Cited(o) \in Handlers(o)
<1>1. CASE /\ o.row.observed_kind = "route"
           /\ Handlers(o) # {} /\ ~(Cardinality(Handlers(o)) > 1)
  <2>1. Cited(o) \in Handlers(o)
    BY <1>1 DEF Cited
  <2>2. Cited(o) \in observations /\ Cited(o) \in {x \in Inputs("route_handler") :
            o.row.observed_kind = "route" /\ x.row.subject = o.row.subject}
    BY <1>1, <2>1 DEF Handlers, Inputs
  <2> QED BY <1>1, <2>1, <2>2 DEF Answering
<1>2. CASE ~(/\ o.row.observed_kind = "route"
             /\ Handlers(o) # {} /\ ~(Cardinality(Handlers(o)) > 1))
  <2>1. Cited(o) = o
    BY <1>2 DEF Cited
  <2> QED BY <2>1 DEF Answering, Claimants
<1> QED BY <1>1, <1>2

\* An outcome that cites what answers o is the outcome of o, or of another
\* route at the same symbol, which is the same.
LEMMA AnswersAreOwn ==
    ASSUME \A o \in observations : Whole(o),
           NEW o \in Claimants, NEW p \in Claimants, Cited(p).id \in Answering(o)
    PROVE  OutcomeFor(p) = OutcomeFor(o)
<1> DEFINE c == Cited(p)
<1>0. /\ o \in observations /\ p \in observations /\ c \in observations
      /\ o.row.observed_kind # "route_handler" /\ p.row.observed_kind # "route_handler"
  BY CitedKind DEF Claimants, RelationshipKinds
<1>1. CASE c.id = o.id
  <2>1. c = o
    BY <1>0, <1>1, SameObservation
  <2>2. c \notin Handlers(p)
    BY <1>0, <2>1 DEF Handlers, Inputs
  <2> QED BY <2>1, <2>2, CitedKind
<1>2. CASE c.id # o.id
  <2>1. PICK h \in Inputs("route_handler") :
          c.id = h.id /\ o.row.observed_kind = "route" /\ h.row.subject = o.row.subject
    BY <1>2 DEF Answering
  <2>2. c = h /\ h.row.observed_kind = "route_handler"
    BY <1>0, <2>1, SameObservation DEF Inputs
  <2>3. /\ p.row.observed_kind = "route" /\ c \in Handlers(p)
        /\ Handlers(p) # {} /\ ~(Cardinality(Handlers(p)) > 1)
    BY <1>0, <2>2, CitedKind
  <2>4. p.row.subject = o.row.subject
    BY <2>1, <2>2, <2>3 DEF Handlers
  <2>5. Handlers(p) = Handlers(o)
    BY <2>4 DEF Handlers
  <2>6. \A x \in {o, p} : ResolveRoute(x) =
          ResolveCandidates(c, o.row.subject, "routes_to",
              ReferenceCandidates(c.row.referent_text, InputEvidence(c).path,
                                  BindingsOf(FileKey(InputEvidence(c).path))))
    <3>1. c = CHOOSE h1 \in Handlers(p) : TRUE
      BY <2>3 DEF Cited
    <3> HIDE DEF c
    <3> QED BY <2>3, <2>4, <2>5, <3>1 DEF ResolveRoute, Handlers
  <2> QED BY <2>1, <2>3, <2>6 DEF OutcomeFor
<1> QED BY <1>1, <1>2

-----------------------------------------------------------------------------
(* The invariant                                                           *)

\* Until the resolver ran nothing is derived and no diagnostic names an
\* observation; of each observation there is one row.
AnswerInv ==
    /\ \A o \in observations : Whole(o)
    /\ stage \in {"extract", "resolve"} =>
         derivations = {} /\ AllPlain(diagnostics) /\ AllPlain(deferred.diagnostics)
    /\ EveryInputAnswered

\* What EveryInputAnswered says of one observation
ResolvedIn(ids) ==
    \E d \in derivations : /\ d.of.kind = "edge" /\ d.ref.kind = "observation"
                           /\ d.ref.id \in ids

ReportedIn(ids) ==
    \E d \in diagnostics : "id" \in DOMAIN d.observation /\ d.observation.id \in ids

LEMMA AnsweredMeans ==
    EveryInputAnswered <=>
        (stage \in {"classify", "seal", "done"} /\ state # "failed" =>
            \A o \in Claimants : ResolvedIn(Answering(o)) # ReportedIn(Answering(o)))
BY DEF EveryInputAnswered, Claimants, ResolvedIn, ReportedIn

LEMMA AnsweredNext ==
    EveryInputAnswered' <=>
        (stage' \in {"classify", "seal", "done"} /\ state' # "failed" =>
            \A o \in Claimants' : ResolvedIn(Answering(o))' # ReportedIn(Answering(o))')
BY DEF EveryInputAnswered, Claimants, ResolvedIn, ReportedIn

LEMMA ResolveStep ==
    ASSUME AnswerInv, Resolve
    PROVE  AnswerInv'
<1>1. CASE Raise
  BY <1>1 DEF Raise, Discard, AnswerInv, EveryInputAnswered
<1> DEFINE es == UNION {x.edges : x \in Outcomes}
           ds == UNION {x.diagnostics : x \in Outcomes}
<1>2. CASE ~(\E e \in es : EdgeRefused(e))
  <2>1. /\ derivations' = derivations \cup
             UNION {DerivationRows(EdgeRef(EdgeRow(e).id), e.derived_from) : e \in es}
        /\ diagnostics' = diagnostics \cup {DiagnosticRow(d) : d \in ds}
        /\ observations' = observations /\ stage' = "classify"
    BY <1>2 DEF Resolve
  <2>2. derivations = {} /\ AllPlain(diagnostics) /\ \A o \in observations : Whole(o)
    BY DEF Resolve, AnswerInv
  <2>3. ASSUME NEW o \in Claimants
        PROVE  /\ ResolvedIn(Answering(o))' <=> OutcomeFor(o).edges # {}
               /\ ReportedIn(Answering(o))' <=> OutcomeFor(o).diagnostics # {}
    <3>0. PICK ids, r : ids = Answering(o) /\ r = OutcomeFor(o)
      OBVIOUS
    <3>1. r \in Outcomes /\ Answers(r, Cited(o)) /\ Cited(o).id \in ids
      BY <3>0, OutcomesAreForClaimants, ClaimsAreAnswered, CitedKind
    <3>2. \A p \in Claimants : Cited(p).id \in ids => OutcomeFor(p) = r
      BY <2>2, <3>0, AnswersAreOwn
    <3>3. Answering(o)' = ids
      BY <2>1, <3>0 DEF Answering, Inputs
    <3>4. ResolvedIn(ids)' => r.edges # {}
      <4> SUFFICES ASSUME ResolvedIn(ids)' PROVE r.edges # {}
        OBVIOUS
      <4>1. PICK e \in es :
              \E d \in DerivationRows(EdgeRef(EdgeRow(e).id), e.derived_from) :
                  d.ref.kind = "observation" /\ d.ref.id \in ids
        BY <2>1, <2>2 DEF ResolvedIn
      <4>2. \E ref \in e.derived_from : ref.id \in ids
        BY <4>1 DEF DerivationRows
      <4>3. PICK p \in Claimants : e \in OutcomeFor(p).edges
        BY OutcomesAreForClaimants
      <4>4. e.derived_from = {ObservationRef(Cited(p).id)}
        BY <4>3, ClaimsAreAnswered DEF Answers
      <4>5. Cited(p).id \in ids
        BY <4>2, <4>4 DEF ObservationRef, Reference
      <4> QED BY <3>2, <4>3, <4>5
    <3>5. r.edges # {} => ResolvedIn(ids)'
      <4> SUFFICES ASSUME NEW e \in r.edges PROVE ResolvedIn(ids)'
        OBVIOUS
      <4>1. e \in es
        BY <3>1
      <4>2. e.derived_from = {ObservationRef(Cited(o).id)}
        BY <3>1 DEF Answers
      <4> DEFINE d == [of |-> EdgeRef(EdgeRow(e).id), ref |-> ObservationRef(Cited(o).id)]
      <4>3. d \in DerivationRows(EdgeRef(EdgeRow(e).id), e.derived_from)
        BY <4>2 DEF DerivationRows
      <4>4. d \in derivations'
        BY <2>1, <4>1, <4>3
      <4>5. d.of.kind = "edge" /\ d.ref.kind = "observation" /\ d.ref.id = Cited(o).id
        BY DEF EdgeRef, ObservationRef, Reference
      <4> HIDE DEF d
      <4> QED BY <3>1, <4>4, <4>5 DEF ResolvedIn
    <3>6. ReportedIn(ids)' => r.diagnostics # {}
      <4> SUFFICES ASSUME ReportedIn(ids)' PROVE r.diagnostics # {}
        OBVIOUS
      <4>1. PICK x \in diagnostics' : "id" \in DOMAIN x.observation /\ x.observation.id \in ids
        BY DEF ReportedIn
      <4>2. x \notin diagnostics
        BY <2>2, <4>1, PlainNamesNothing DEF AllPlain
      <4>3. PICK d \in ds : x = DiagnosticRow(d)
        BY <2>1, <4>2
      <4>4. PICK p \in Claimants : d \in OutcomeFor(p).diagnostics
        BY OutcomesAreForClaimants
      <4>5. x.observation = [id |-> Cited(p).id]
        BY <4>3, <4>4, ClaimsAreAnswered DEF Answers
      <4> QED BY <3>2, <4>1, <4>4, <4>5
    <3>7. r.diagnostics # {} => ReportedIn(ids)'
      <4> SUFFICES ASSUME NEW d \in r.diagnostics PROVE ReportedIn(ids)'
        OBVIOUS
      <4>1. DiagnosticRow(d) \in diagnostics'
        BY <2>1, <3>1
      <4>2. DiagnosticRow(d).observation = [id |-> Cited(o).id]
        BY <3>1 DEF Answers
      <4>3. /\ "id" \in DOMAIN DiagnosticRow(d).observation
            /\ DiagnosticRow(d).observation.id = Cited(o).id
        BY <4>2
      <4> QED BY <3>1, <4>1, <4>3 DEF ReportedIn
    <3>8. ResolvedIn(Answering(o))' = ResolvedIn(ids)' /\ ReportedIn(Answering(o))' = ReportedIn(ids)'
      BY <3>3 DEF ResolvedIn, ReportedIn
    <3> QED BY <3>0, <3>4, <3>5, <3>6, <3>7, <3>8
  <2>4. \A o \in Claimants : (OutcomeFor(o).edges # {}) # (OutcomeFor(o).diagnostics # {})
    BY ClaimsAreAnswered DEF Answers
  <2>5. Claimants' = Claimants
    BY <2>1 DEF Claimants
  <2>6. EveryInputAnswered'
    BY <2>3, <2>4, <2>5, AnsweredNext
  <2> QED BY <2>1, <2>2, <2>6 DEF AnswerInv
<1> QED BY <1>1, <1>2 DEF Resolve

\* A batch of the extractors is persisted, or refused.
LEMMA PersistStep ==
    ASSUME AnswerInv, stage \in {"extract", "resolve"}, NEW ns, NEW os, NEW ds, AllPlain(ds),
           Persist(ns, os, ds), AllPlain(deferred'.diagnostics), stage' \in {"extract", "resolve"}
    PROVE  AnswerInv'
<1>1. \A o \in observations' : Whole(o)
  BY RowWhole DEF Persist, AnswerInv
<1>2. derivations' = {} /\ AllPlain(diagnostics')
  BY PlainRow DEF Persist, AnswerInv, AllPlain
<1>3. EveryInputAnswered'
  BY DEF EveryInputAnswered
<1> QED BY <1>1, <1>2, <1>3 DEF AnswerInv, AllPlain

LEMMA RaiseStep ==
    ASSUME Raise
    PROVE  AnswerInv'
BY DEF Raise, Discard, AnswerInv, EveryInputAnswered

LEMMA ReadFileStep ==
    ASSUME AnswerInv, ReadFile
    PROVE  AnswerInv'
<1> DEFINE ext == ExtractedBy(Head(todo))
           inv == InventoryOf(Head(todo), ext.nodes)
           kept == IF Waits(ext) THEN Result({}, {}, {}) ELSE ext
           ds == inv.diagnostics \cup kept.diagnostics
<1>1. AllPlain(ext.diagnostics) /\ AllPlain(inv.diagnostics)
  BY FilesPlain
<1>2. AllPlain(kept.diagnostics)
  BY <1>1 DEF AllPlain, Result
<1>3. AllPlain(ds)
  BY <1>1, <1>2 DEF AllPlain
<1>4. HandOver(inv, ext) /\ stage = "extract"
  BY DEF ReadFile
<1>5. \/ Raise
      \/ /\ Persist(inv.nodes \cup kept.nodes, kept.observations, ds)
         /\ deferred' = IF ~Waits(ext) THEN deferred
                        ELSE Result(deferred.nodes \cup ext.nodes,
                                    deferred.observations \cup ext.observations,
                                    deferred.diagnostics \cup ext.diagnostics)
         /\ stage' = stage
  <2> HIDE DEF ext, inv
  <2> QED BY <1>4 DEF HandOver
<1>6. ~Raise => AllPlain(deferred'.diagnostics)
  <2>1. AllPlain(deferred.diagnostics)
    BY <1>4 DEF AnswerInv
  <2> HIDE DEF ext, inv
  <2> QED BY <1>1, <1>5, <2>1 DEF AllPlain, Result
<1> HIDE DEF ext, inv, kept, ds
<1> QED BY <1>3, <1>4, <1>5, <1>6, RaiseStep, PersistStep

LEMMA PersistDeferredStep ==
    ASSUME AnswerInv, PersistDeferred
    PROVE  AnswerInv'
<1>1. stage = "extract" /\ AllPlain(deferred.diagnostics)
  BY DEF PersistDeferred, AnswerInv
<1>2. CASE ~Raise
  <2>1. /\ Persist(Merged(deferred.nodes), deferred.observations, deferred.diagnostics)
        /\ stage' = "resolve" /\ deferred' = deferred
    BY <1>2 DEF PersistDeferred
  <2> QED BY <1>1, <2>1, PersistStep
<1> QED BY <1>2, RaiseStep

\* A derivation that is added for an assertion answers nothing.
LEMMA ClassifyStep ==
    ASSUME AnswerInv, Classify
    PROVE  AnswerInv'
<1>1. CASE ~Raise
  <2>1. /\ derivations' = derivations \cup
              UNION {DerivationRows(AssertionRef(AssertionRow(a).id), a.derived_from) :
                        a \in Classifications}
        /\ UNCHANGED <<state, observations, diagnostics, deferred>>
        /\ stage = "classify" /\ stage' = "seal"
    BY <1>1 DEF Classify
  <2>2. \A d \in derivations' : d.of.kind = "edge" => d \in derivations
    BY <2>1 DEF DerivationRows, AssertionRef, Reference
  <2>3. \A ids : ResolvedIn(ids)' = ResolvedIn(ids) /\ ReportedIn(ids)' = ReportedIn(ids)
    BY <2>1, <2>2 DEF ResolvedIn, ReportedIn
  <2>4. Claimants' = Claimants /\ \A o \in Claimants : Answering(o)' = Answering(o)
    BY <2>1 DEF Claimants, Answering, Inputs
  <2>5. EveryInputAnswered'
    BY <2>1, <2>3, <2>4, AnsweredMeans, AnsweredNext DEF AnswerInv
  <2> QED BY <2>1, <2>5 DEF AnswerInv
<1> QED BY <1>1, RaiseStep

LEMMA SealStep ==
    ASSUME AnswerInv, SealStage
    PROVE  AnswerInv'
<1>1. /\ UNCHANGED <<observations, diagnostics, derivations, deferred>>
      /\ stage = "seal" /\ stage' = "done" /\ state = "building"
  BY DEF SealStage, Seal, SealFails
<1>2. EveryInputAnswered'
  BY <1>1 DEF AnswerInv, EveryInputAnswered, Answering, Inputs
<1> QED BY <1>1, <1>2 DEF AnswerInv

LEMMA AnswerInit == AnalysisInit => AnswerInv
BY DEF AnalysisInit, Init, AnswerInv, EveryInputAnswered, AllPlain, Result

LEMMA AnswerNext == AnswerInv /\ [AnalysisNext]_analysisVars => AnswerInv'
<1> SUFFICES ASSUME AnswerInv, [AnalysisNext]_analysisVars PROVE AnswerInv'
  OBVIOUS
<1>1. CASE ReadFile
  BY <1>1, ReadFileStep
<1>2. CASE FileGone
  BY <1>2 DEF FileGone, vars, factVars, AnswerInv, EveryInputAnswered, Answering, Inputs, AllPlain
<1>3. CASE PersistDeferred
  BY <1>3, PersistDeferredStep
<1>4. CASE Resolve
  BY <1>4, ResolveStep
<1>5. CASE Classify
  BY <1>5, ClassifyStep
<1>6. CASE SealStage
  BY <1>6, SealStep
<1>7. CASE UNCHANGED analysisVars
  BY <1>7 DEF analysisVars, vars, factVars, AnswerInv, EveryInputAnswered, Answering, Inputs,
              AllPlain
<1> QED BY <1>1, <1>2, <1>3, <1>4, <1>5, <1>6, <1>7 DEF AnalysisNext

\* RelationshipResolver.resolve, for every repository: a relationship that an
\* extractor observed ends as an edge that cites it or as a diagnostic that
\* names it; it is never lost and never both.
THEOREM InputsAreAnswered == AnalysisSpec => []EveryInputAnswered
<1>1. AnswerInv => EveryInputAnswered
  BY DEF AnswerInv
<1> QED BY <1>1, AnswerInit, AnswerNext, PTL DEF AnalysisSpec

-----------------------------------------------------------------------------
(* What the extractors offer                                               *)

LEMMA NodeFields ==
    ASSUME NEW kind, NEW key, NEW attrs, NEW properties, NEW e
    PROVE  /\ Node(kind, key, attrs, properties, e).node_kind = kind
           /\ Node(kind, key, attrs, properties, e).stable_key = key
BY DEF Node

\* The kinds of node an extractor emits besides dependencies, and the one file
\* it may emit.
Offers(f, ns) ==
    \A n \in ns :
        \/ n.node_kind \in {"module", "symbol", "service", "iac_resource"}
        \/ n.node_kind = "file" /\ n.stable_key = FileKey(f.path)

LEMMA BuiltNodes ==
    ASSUME NEW ns, NEW os, NEW ds
    PROVE  Built(ns, os, ds).nodes = {n \in ns : \A e \in n.evidence : ValidSpan(e)}
BY DEF Built

LEMMA PythonOffers ==
    ASSUME NEW f
    PROVE  Offers(f, PythonExtract(f).nodes)
<1>0. \A origin, e : Offers(f, {ServiceNode(e, origin)})
  BY NodeFields DEF ServiceNode, Offers
<1>1. Offers(f, ServiceInteractions(f).nodes)
  <2> DEFINE scan == ServiceScan(f)
             found == [i \in DOMAIN f.body |->
                         IF f.body[i].kind = "call" /\ ~f.body[i].signature
                         THEN ServiceCall(f, scan[i - 1], f.body[i]) ELSE Nothing]
  <2>1. ServiceInteractions(f).nodes = UNION {r.nodes : r \in Range(found)}
    BY DEF ServiceInteractions, Result
  <2>2. Offers(f, Nothing.nodes) /\ \A os, ds : Offers(f, Result({}, os, ds).nodes)
    BY DEF Nothing, Result, Offers
  <2>3. ASSUME NEW st PROVE Offers(f, ClientCall(f, st).nodes)
    <3>1. \A os : Offers(f, Result({ServiceNode(At(f, st), st.url)}, os, {}).nodes)
      BY <1>0 DEF Result
    <3> QED BY <2>2, <3>1 DEF ClientCall
  <2>4. ASSUME NEW s, NEW st PROVE Offers(f, ServiceCall(f, s, st).nodes)
    <3> DEFINE flagged(message) ==
                 Result({}, <<>>, {Unsupported(f, message, <<st.line, st.end>>, Python)})
    <3>1. ServiceCall(f, s, st) \in {Nothing, ClientCall(f, st), flagged("bare client function"),
                                     flagged("client name shadowed")}
      BY DEF ServiceCall
    <3> QED BY <2>2, <2>3, <3>1
  <2>5. \A i \in DOMAIN f.body : Offers(f, found[i].nodes)
    BY <2>2, <2>4
  <2>6. \A r \in Range(found) : Offers(f, r.nodes)
    BY <2>5 DEF Range
  <2> HIDE DEF found
  <2> QED BY <2>1, <2>6 DEF Offers
<1>2. Offers(f, {PythonModule(f)})
  BY NodeFields DEF PythonModule, Offers
<1>3. Offers(f, {SymbolNode(f, i) : i \in Symbols(f)})
  <2>1. \A i : SymbolNode(f, i).node_kind = "symbol"
    BY DEF SymbolNode, Node
  <2> QED BY <2>1 DEF Offers
<1>4. Offers(f, RouteFacts(f).nodes)
  <2>1. \A n \in RouteFacts(f).nodes : \E key, attrs, properties, e :
          n = Node("symbol", key, attrs, properties, e)
    BY Zenon DEF RouteFacts
  <2> QED BY <2>1, NodeFields DEF Offers
<1>5. Offers(f, PythonFacts(f).nodes)
  <2> DEFINE ns == {PythonModule(f)} \cup {SymbolNode(f, i) : i \in Symbols(f)}
                     \cup RouteFacts(f).nodes \cup ServiceInteractions(f).nodes
  <2>1. PythonFacts(f).nodes \subseteq ns
    BY BuiltNodes DEF PythonFacts
  <2>2. Offers(f, ns)
    BY <1>1, <1>2, <1>3, <1>4 DEF Offers
  <2> HIDE DEF ns
  <2> QED BY <2>1, <2>2 DEF Offers
<1> QED BY <1>5 DEF PythonExtract, Offers, Result

LEMMA TypeScriptOffers ==
    ASSUME NEW f
    PROVE  Offers(f, TypeScriptExtract(f).nodes)
<1>1. Offers(f, TsFile(f))
  BY NodeFields DEF TsFile, Offers
<1>2. Offers(f, {TsSymbolNode(f, i) : i \in TsSymbols(f)})
  <2>1. \A i : TsSymbolNode(f, i).node_kind = "symbol"
    BY DEF TsSymbolNode, Node
  <2> QED BY <2>1 DEF Offers
<1>3. Offers(f, {TsRouteNode(f, k) : k \in DOMAIN TsRoutes(f)})
  <2>1. \A k : TsRouteNode(f, k).node_kind = "symbol"
    BY DEF TsRouteNode, Node
  <2> QED BY <2>1 DEF Offers
<1>4. Offers(f, {ServiceNode(TsAt(f, f.body[i]), f.body[i].url) : i \in HttpSites(f)})
  <2>1. \A e, url : ServiceNode(e, url).node_kind = "service"
    BY DEF ServiceNode, Node
  <2> QED BY <2>1 DEF Offers
<1>5. Offers(f, TsFacts(f).nodes)
  <2> DEFINE symbols == Built({TsSymbolNode(f, i) : i \in TsSymbols(f)}, <<>>, {})
  <2>1. Offers(f, symbols.nodes)
    BY <1>2, BuiltNodes DEF Offers
  <2>2. TsFacts(f).nodes =
          TsFile(f) \cup symbols.nodes \cup {TsRouteNode(f, k) : k \in DOMAIN TsRoutes(f)}
            \cup {ServiceNode(TsAt(f, f.body[i]), f.body[i].url) : i \in HttpSites(f)}
    BY DEF TsFacts, Result
  <2> HIDE DEF symbols
  <2> QED BY <1>1, <1>3, <1>4, <2>1, <2>2 DEF Offers
<1> QED BY <1>5 DEF TypeScriptExtract, Offers, Result

LEMMA IacOffers ==
    ASSUME NEW f
    PROVE  Offers(f, IacExtract(f).nodes)
<1>1. Offers(f, {IacNode(f, e) : e \in Range(f.body)})
  <2>1. \A e : IacNode(f, e).node_kind = "iac_resource"
    BY DEF IacNode, Node
  <2> QED BY <2>1 DEF Offers
<1>2. Offers(f, IacFacts(f).nodes)
  <2> DEFINE ns == {IacNode(f, e) : e \in Range(f.body)}
             os == [i \in DOMAIN f.body |-> IacObservation(f, f.body[i])]
             built == Built(ns, os, TemplateDiagnostics(f))
  <2>1. IacFacts(f).nodes = built.nodes
    <3>1. IacFacts(f) = [built EXCEPT !.observations = AssignOrdinals(@)]
      BY DEF IacFacts
    <3> HIDE DEF ns, os
    <3> QED BY <3>1 DEF Built
  <2> HIDE DEF os
  <2>2. built.nodes \subseteq ns
    BY BuiltNodes
  <2> QED BY <1>1, <2>1, <2>2 DEF Offers
<1> QED BY <1>2 DEF IacExtract, Offers, Result

\* The entries of a manifest or a lockfile that become nodes.
Entries(f, p) == {x \in Range(f.body) : x.line \in 1..f.lines /\ Claimed(x, p)}

LEMMA EntriesOffered ==
    ASSUME NEW f \in SourceFiles, NEW p
    PROVE  EntryFacts(f, p).nodes = {DependencyNode(f, x, p) : x \in Entries(f, p)}
<1> DEFINE entries == {i \in DOMAIN f.body : Claimed(f.body[i], p)}
           ns == {DependencyNode(f, f.body[i], p) : i \in entries}
           os == [i \in entries |-> DependencyObservation(f, f.body[i], p)]
           built == Built(ns, os, {})
<1>1. EntryFacts(f, p).nodes = built.nodes
  <2>1. EntryFacts(f, p) = [built EXCEPT !.observations = AssignOrdinals(@)]
    BY DEF EntryFacts
  <2> HIDE DEF ns, os
  <2> QED BY <2>1 DEF Built
<1>2. built.nodes = {n \in ns : \A e \in n.evidence : ValidSpan(e)}
  <2> HIDE DEF ns, os
  <2> QED BY BuiltNodes
<1>3. \A x \in Range(f.body) :
        (\A e \in DependencyNode(f, x, p).evidence : ValidSpan(e)) <=> x.line \in 1..f.lines
  <2>1. f.lines \in Nat /\ \A x \in Range(f.body) : x.line \in Nat
    BY RepositoriesAssumption
  <2> SUFFICES ASSUME NEW x \in Range(f.body)
               PROVE  ValidSpan(Span(f, x.line, x.line, p)) <=> x.line \in 1..f.lines
    BY DEF DependencyNode, Node
  <2> QED BY <2>1 DEF ValidSpan, Span, Evidence
<1>4. ns = {DependencyNode(f, x, p) : x \in {y \in Range(f.body) : Claimed(y, p)}}
  BY DEF Range
<1>5. {n \in ns : \A e \in n.evidence : ValidSpan(e)}
        = {DependencyNode(f, x, p) : x \in Entries(f, p)}
  <2> HIDE DEF ns
  <2> QED BY <1>3, <1>4 DEF Entries
<1> QED BY <1>1, <1>2, <1>5

\* The nodes of one file that wait for the merge.
Declaring(f) ==
    UNION {{DependencyNode(f, x, p) : x \in Entries(f, p)} :
              p \in {q \in {Manifest, Lockfile} : Declares(f, q)}}

LEMMA DependencyFields ==
    ASSUME NEW f, NEW x, NEW p
    PROVE  /\ DependencyNode(f, x, p).node_kind = "dependency"
           /\ DependencyNode(f, x, p).stable_key = DependencyKey(Ecosystem(f.path), x.name)
           /\ DependencyNode(f, x, p).evidence = {Span(f, x.line, x.line, p)}
BY DEF DependencyNode, Node

\* What a manifest or a lockfile offers are its entries, if they are read.
LEMMA ListingsOffer ==
    ASSUME NEW f \in SourceFiles, ~f.oversize, NEW p, p = Extractor(f), p \in {Manifest, Lockfile}
    PROVE  ExtractedBy(f).nodes =
             IF Declares(f, p) THEN {DependencyNode(f, x, p) : x \in Entries(f, p)} ELSE {}
<1>0. Manifest # Lockfile /\ \A q \in {Manifest, Lockfile} : q \notin {Python, TypeScript, Iac, Inventory}
  BY DEF Manifest, Lockfile, Python, TypeScript, Iac, Inventory
<1>3. EntryFacts(f, p).nodes = {DependencyNode(f, x, p) : x \in Entries(f, p)}
  BY EntriesOffered
<1>4. \A ds : Result({}, {}, ds).nodes = {}
  BY DEF Result
<1>1. CASE p = Manifest
  <2>1. ExtractedBy(f) = ManifestExtract(f)
    BY <1>0, <1>1 DEF ExtractedBy, Extracted
  <2>2. Declares(f, p) <=> Decodes(f) /\ f.parses
    BY <1>0, <1>1 DEF Declares
  <2>3. ManifestExtract(f) =
          IF Decodes(f) /\ f.parses THEN EntryFacts(f, p)
          ELSE Result({}, {}, ManifestExtract(f).diagnostics)
    BY <1>1 DEF ManifestExtract, Result
  <2> QED BY <2>1, <2>2, <2>3, <1>3, <1>4
<1>2. CASE p = Lockfile
  <2>1. ExtractedBy(f) = LockfileExtract(f)
    BY <1>0, <1>2 DEF ExtractedBy, Extracted
  <2>2. Declares(f, p) <=> Decodes(f) /\ f.parses /\ f.supported /\ Basename(f.path) \notin DisclosedNames
    BY <1>2 DEF Declares
  <2>3. LockfileExtract(f) =
          IF Decodes(f) /\ f.parses /\ f.supported /\ Basename(f.path) \notin DisclosedNames
          THEN EntryFacts(f, p) ELSE Result({}, {}, LockfileExtract(f).diagnostics)
    BY <1>2 DEF LockfileExtract, Result
  <2> QED BY <2>1, <2>2, <2>3, <1>3, <1>4
<1> QED BY <1>1, <1>2

\* A file either declares, and all its nodes wait, or it declares nothing.
LEMMA FileOffers ==
    ASSUME NEW f \in SourceFiles
    PROVE  /\ Waits(ExtractedBy(f)) => ExtractedBy(f).nodes = Declaring(f)
           /\ ~Waits(ExtractedBy(f)) => Declaring(f) = {} /\ Offers(f, ExtractedBy(f).nodes)
<1>0. \A n : n.node_kind = "dependency" => ~Offers(f, {n})
  BY DEF Offers
<1>1. CASE f.oversize
  <2>1. ExtractedBy(f).nodes = {} /\ Declaring(f) = {}
    BY <1>1 DEF ExtractedBy, Result, Declaring, Declares
  <2> QED BY <2>1 DEF Waits, Offers
<1>2. CASE ~f.oversize /\ Extractor(f) \in {Manifest, Lockfile}
  <2>1. PICK p : p = Extractor(f)
    OBVIOUS
  <2>2. Declaring(f) = IF Declares(f, p) THEN {DependencyNode(f, x, p) : x \in Entries(f, p)} ELSE {}
    BY <1>2, <2>1 DEF Declaring, Declares
  <2>3. p \in {Manifest, Lockfile} /\ ~f.oversize
    BY <1>2, <2>1
  <2>4. ExtractedBy(f).nodes =
          IF Declares(f, p) THEN {DependencyNode(f, x, p) : x \in Entries(f, p)} ELSE {}
    BY <2>1, <2>3, ListingsOffer, Zenon
  <2>5. ExtractedBy(f).nodes = Declaring(f)
    BY <2>2, <2>4
  <2>6. \A n \in Declaring(f) : n.node_kind = "dependency"
    BY <2>2, DependencyFields
  <2> QED BY <2>5, <2>6 DEF Waits, Offers
<1>3. CASE ~f.oversize /\ Extractor(f) \notin {Manifest, Lockfile}
  <2>1. Declaring(f) = {}
    BY <1>3 DEF Declaring, Declares
  <2>2. Offers(f, ExtractedBy(f).nodes)
    <3>1. Extractor(f) \in {Python, TypeScript, Iac, Inventory}
      BY <1>3 DEF Extractor
    <3>2. Extractor(f) # Inventory => Offers(f, Extracted(f).nodes)
      BY <3>1, PythonOffers, TypeScriptOffers, IacOffers
         DEF Extracted, Python, TypeScript, Iac, Manifest, Lockfile, Inventory
    <3>3. Offers(f, Result({}, {}, {}).nodes)
      BY DEF Offers, Result
    <3> QED BY <3>2, <3>3 DEF ExtractedBy
  <2>3. ~Waits(ExtractedBy(f))
    BY <2>2 DEF Waits, Offers
  <2> QED BY <2>1, <2>2, <2>3
<1> QED BY <1>1, <1>2, <1>3

\* The inventory offers the file and the root of the repository.
LEMMA InventoryOffers ==
    ASSUME NEW f, NEW found, NEW n \in InventoryOf(f, found).nodes
    PROVE  n = FileNode(f) \/ n.node_kind = "repository"
<1>1. \A m \in RootNodes(f) : m.node_kind = "repository"
  BY DEF RootNodes, Node
<1>2. InventoryOf(f, found).nodes \subseteq RootNodes(f) \cup {FileNode(f)}
  <2>1. InventoryOf(f, found) \in
          {Result(RootNodes(f), {}, {LimitDiagnostic(f)}),
           Result(RootNodes(f)
                    \cup {m \in {FileNode(f)} : found # {} /\ Decodes(f)
                            /\ \A k \in found : k.stable_key # FileKey(f.path)}, {}, {}),
           Result(RootNodes(f), {}, {DecodeDiagnostic(f, Inventory)}),
           Result(RootNodes(f) \cup {FileNode(f)}, {}, {})}
    BY DEF InventoryOf
  <2> QED BY <2>1 DEF Result
<1> QED BY <1>1, <1>2

-----------------------------------------------------------------------------
(* merge_dependency_facts                                                  *)

\* A finite set listed in some order is the range of the list.
LEMMA ListedSet ==
    ASSUME NEW S, IsFiniteSet(S)
    PROVE  /\ Range(SetToSeq(S)) = S
           /\ Cardinality(S) \in Nat /\ SetToSeq(S) \in [1..Cardinality(S) -> S]
<1> DEFINE n == Cardinality(S)
           g == SetToSeq(S)
<1>1. n \in Nat /\ ExistsBijection(1..n, S)
  BY FS_CardinalityType
<1>2. \E h \in [1..n -> S] : IsInjective(h)
  BY <1>1 DEF ExistsBijection, Bijection, Injection, Surjection, IsInjective
<1>3. g \in [1..n -> S] /\ IsInjective(g)
  BY <1>2 DEF SetToSeq
<1>4. IsFiniteSet(1..n) /\ Cardinality(1..n) = n
  BY <1>1, FS_Interval
<1> HIDE DEF g
<1>5. g \in Injection(1..n, S)
  BY <1>3 DEF Injection
<1>6. g \in Surjection(1..n, S)
  BY <1>4, <1>5, FS_Injection
<1> QED BY <1>1, <1>3, <1>6 DEF Surjection, Range, g

\* Nodes as the extractors give them before the merge.
Entry(m) ==
    \E f \in Range(read), p \in {Manifest, Lockfile} : \E x \in Entries(f, p) :
        m = DependencyNode(f, x, p)

LEMMA OrderOfReading ==
    ASSUME read \in Seq(SourceFiles), NEW f \in Range(read)
    PROVE  ReadOrder[f.path] \in DOMAIN read /\ read[ReadOrder[f.path]].path = f.path
<1>1. \E i \in DOMAIN read : read[i].path = f.path
  BY DEF Range
<1> QED BY <1>1 DEF ReadOrder

\* _member_order has a first among any such nodes.
LEMMA FirstOfMembers ==
    ASSUME read \in Seq(SourceFiles), NEW ns, ns # {}, \A m \in ns : Entry(m)
    PROVE  \E m \in ns : \A n \in ns : Before(m, n, ReadOrder)
<1> DEFINE place(m) == CHOOSE e \in m.evidence : TRUE
           at(m) == ReadOrder[place(m).path]
           line(m) == place(m).start_line
<1>1. \A m \in ns : /\ Rank(m) \in Nat /\ at(m) \in Nat /\ line(m) \in Nat
                    /\ read[at(m)].path = place(m).path
  <2> SUFFICES ASSUME NEW m \in ns
               PROVE  /\ Rank(m) \in Nat /\ at(m) \in Nat /\ line(m) \in Nat
                      /\ read[at(m)].path = place(m).path
    OBVIOUS
  <2>1. PICK f \in Range(read), p \in {Manifest, Lockfile} : \E x \in Entries(f, p) :
              m = DependencyNode(f, x, p)
    BY DEF Entry
  <2>2. PICK x \in Entries(f, p) : m = DependencyNode(f, x, p)
    BY <2>1
  <2>3. place(m) = Span(f, x.line, x.line, p)
    BY <2>2, DependencyFields
  <2> HIDE DEF place
  <2>4. place(m).path = f.path /\ line(m) = x.line
    BY <2>3 DEF Span, Evidence
  <2>5. f \in SourceFiles /\ x.line \in Nat
    <3>1. f \in SourceFiles
      BY DEF Range
    <3> QED BY <3>1, RepositoriesAssumption DEF Entries
  <2>6. at(m) \in DOMAIN read /\ read[at(m)].path = f.path
    BY <2>4, OrderOfReading
  <2> QED BY <2>4, <2>5, <2>6 DEF Rank
<1> HIDE DEF place, at, line
<1>2. PICK r \in {Rank(m) : m \in ns} : \A s \in {Rank(m) : m \in ns} : r <= s
  <2>1. {Rank(m) : m \in ns} \subseteq Nat /\ {Rank(m) : m \in ns} # {}
    BY <1>1
  <2> QED BY <2>1, Least
<1> DEFINE ranked == {m \in ns : Rank(m) = r}
<1>3. PICK a \in {at(m) : m \in ranked} : \A b \in {at(m) : m \in ranked} : a <= b
  <2>1. {at(m) : m \in ranked} \subseteq Nat /\ {at(m) : m \in ranked} # {}
    BY <1>1, <1>2
  <2> QED BY <2>1, Least
<1> DEFINE placed == {m \in ranked : at(m) = a}
<1>4. PICK l \in {line(m) : m \in placed} : \A k \in {line(m) : m \in placed} : l <= k
  <2>1. {line(m) : m \in placed} \subseteq Nat /\ {line(m) : m \in placed} # {}
    BY <1>1, <1>3
  <2> QED BY <2>1, Least
<1>5. PICK m \in placed : line(m) = l
  BY <1>4
<1>6. ASSUME NEW n \in ns PROVE Before(m, n, ReadOrder)
  <2>1. m \in ns /\ Rank(m) = r /\ at(m) = a /\ line(m) = l
    BY <1>5
  <2>0. Rank(n) \in Nat /\ Rank(m) \in Nat /\ at(n) \in Nat /\ at(m) \in Nat
    BY <1>1, <2>1
  <2>2. Rank(n) = Rank(m) \/ Rank(m) < Rank(n)
    <3>1. r <= Rank(n)
      BY <1>2
    <3> QED BY <2>0, <2>1, <3>1
  <2>3. Rank(n) = Rank(m) => at(n) = at(m) \/ at(m) < at(n)
    <3>1. Rank(n) = r => a <= at(n)
      BY <1>3
    <3> QED BY <2>0, <2>1, <3>1
  <2>4. Rank(n) = Rank(m) /\ at(n) = at(m) => line(m) <= line(n)
    BY <1>4, <2>1
  <2>5. at(n) = at(m) => place(n).path = place(m).path
    BY <1>1, <2>1
  <2> QED BY <2>2, <2>3, <2>4, <2>5 DEF Before, at, line, place
<1> QED BY <1>5, <1>6

LEMMA RangeFinite ==
    ASSUME NEW T, NEW s \in Seq(T)
    PROVE  IsFiniteSet(Range(s))
<1>1. IsFiniteSet(1..Len(s))
  BY FS_Interval
<1>2. s \in [1..Len(s) -> Range(s)] /\ \A t \in Range(s) : \E i \in 1..Len(s) : t = s[i]
  BY DEF Range
<1> QED BY <1>1, <1>2, ImageFinite

LEMMA DeclaringFinite ==
    ASSUME NEW f \in SourceFiles
    PROVE  IsFiniteSet(Declaring(f))
<1> DEFINE of(p) == {DependencyNode(f, x, p) : x \in Entries(f, p)}
<1>1. IsFiniteSet(Range(f.body))
  BY RangeFinite, RepositoriesAssumption DEF IsList
<1>2. ASSUME NEW p PROVE IsFiniteSet(of(p))
  <2>1. IsFiniteSet(Entries(f, p))
    BY <1>1, FS_Subset DEF Entries
  <2> DEFINE g == [x \in Entries(f, p) |-> DependencyNode(f, x, p)]
  <2>2. g \in [Entries(f, p) -> of(p)] /\ \A t \in of(p) : \E x \in Entries(f, p) : t = g[x]
    OBVIOUS
  <2> HIDE DEF g, of
  <2> QED BY <2>1, <2>2, ImageFinite
<1>3. Declaring(f) \subseteq of(Manifest) \cup of(Lockfile)
  BY DEF Declaring
<1> HIDE DEF of
<1>4. IsFiniteSet(of(Manifest) \cup of(Lockfile))
  BY <1>2, FS_Union
<1> QED BY <1>3, <1>4, FS_Subset

\* All nodes that wait, after the files in read.
LEMMA WaitingFinite ==
    ASSUME read \in Seq(SourceFiles)
    PROVE  IsFiniteSet(UNION {Declaring(f) : f \in Range(read)})
<1> DEFINE T == {Declaring(f) : f \in Range(read)}
           g == [f \in Range(read) |-> Declaring(f)]
<1>1. IsFiniteSet(Range(read)) /\ Range(read) \subseteq SourceFiles
  BY RangeFinite DEF Range
<1>2. g \in [Range(read) -> T] /\ \A t \in T : \E f \in Range(read) : t = g[f]
  OBVIOUS
<1>3. \A t \in T : IsFiniteSet(t)
  BY <1>1, DeclaringFinite
<1> HIDE DEF g, T
<1>4. IsFiniteSet(T)
  BY <1>1, <1>2, ImageFinite
<1> QED BY <1>3, <1>4, FS_UNION DEF T

Field(p) == IF p = Manifest THEN "declarations" ELSE "resolutions"

LEMMA RecordsOf ==
    ASSUME NEW f, NEW x, NEW p \in {Manifest, Lockfile}, NEW q \in {Manifest, Lockfile}
    PROVE  Range(DependencyNode(f, x, q).properties[Field(p)]) =
             IF p = q THEN {EntryRecord(f, x, q)} ELSE {}
<1>1. Manifest # Lockfile
  BY DEF Manifest, Lockfile
<1> DEFINE e == EntryRecord(f, x, q)
<1>2. DependencyNode(f, x, q).properties[Field(p)] = IF p = q THEN <<e>> ELSE <<>>
  <2> HIDE DEF e
  <2>1. DependencyNode(f, x, q).properties
          = [declarations |-> IF Manifest = q THEN <<e>> ELSE <<>>,
             resolutions |-> IF Lockfile = q THEN <<e>> ELSE <<>>]
    BY DEF DependencyNode, Node, e
  <2> QED BY <1>1, <2>1 DEF Field
<1> HIDE DEF e
<1>3. Range(<<e>>) = {e} /\ Range(<<>>) = {}
  BY DEF Range
<1> QED BY <1>2, <1>3 DEF e

\* A merged node has what all its members have.
Merges(n, members) ==
    /\ n.node_kind = "dependency"
    /\ DOMAIN n.properties = {"declarations", "resolutions"}
    /\ \A field \in {"declarations", "resolutions"} :
          Range(n.properties[field]) = UNION {Range(m.properties[field]) : m \in members}
    /\ n.evidence = UNION {m.evidence : m \in members}

LEMMA MergedMeans ==
    ASSUME read \in Seq(SourceFiles), NEW ns, IsFiniteSet(ns), \A m \in ns : Entry(m),
           NEW n \in Merged(ns), NEW members, members = {m \in ns : m.stable_key = n.stable_key}
    PROVE  Merges(n, members)
<1>1. PICK key \in {m.stable_key : m \in ns} :
        n = LET ms == {m \in ns : m.stable_key = key}
                first == CHOOSE m \in ms : \A k \in ms : Before(m, k, ReadOrder)
                all(field) == UNION {Range(m.properties[field]) : m \in ms}
            IN  [first EXCEPT
                   !.properties = [declarations |-> SetToSeq(all("declarations")),
                                   resolutions |-> SetToSeq(all("resolutions"))],
                   !.evidence = UNION {m.evidence : m \in ms}]
  BY DEF Merged, Merge
<1> DEFINE ms == {m \in ns : m.stable_key = key}
           first == CHOOSE m \in ms : \A k \in ms : Before(m, k, ReadOrder)
           all(field) == UNION {Range(m.properties[field]) : m \in ms}
<1>2. first \in ms
  <2>1. ms # {} /\ \A m \in ms : Entry(m)
    OBVIOUS
  <2> HIDE DEF ms
  <2>2. \E m \in ms : \A k \in ms : Before(m, k, ReadOrder)
    BY <2>1, FirstOfMembers
  <2> QED BY <2>2
<1> HIDE DEF first
<1>3. PICK f, x, p : first = DependencyNode(f, x, p)
  BY <1>2 DEF Entry
<1>4. first.node_kind = "dependency" /\ first.stable_key = key
  BY <1>2, <1>3, DependencyFields
<1>5. DOMAIN first = {"node_kind", "stable_key", "attrs", "properties", "evidence"}
  BY <1>3 DEF DependencyNode, Node
<1>6. ASSUME NEW field \in {"declarations", "resolutions"}
      PROVE  Range(SetToSeq(all(field))) = all(field)
  <2>1. IsFiniteSet(ms)
    BY FS_Subset
  <2> DEFINE T == {Range(m.properties[field]) : m \in ms}
             g == [m \in ms |-> Range(m.properties[field])]
  <2>2. g \in [ms -> T] /\ \A t \in T : \E m \in ms : t = g[m]
    OBVIOUS
  <2>3. \A m \in ms : IsFiniteSet(Range(m.properties[field]))
    <3> SUFFICES ASSUME NEW m \in ms PROVE IsFiniteSet(Range(m.properties[field]))
      OBVIOUS
    <3>1. PICK p1 \in {Manifest, Lockfile} : field = Field(p1)
      BY DEF Field, Manifest, Lockfile
    <3>0. PICK p2 \in {Manifest, Lockfile} : \E f1, x1 : m = DependencyNode(f1, x1, p2)
      BY DEF Entry
    <3>2. PICK f1, x1 : m = DependencyNode(f1, x1, p2)
      BY <3>0
    <3>3. Range(m.properties[field]) = {EntryRecord(f1, x1, p2)} \/ Range(m.properties[field]) = {}
      BY <3>1, <3>2, RecordsOf
    <3>4. IsFiniteSet({EntryRecord(f1, x1, p2)}) /\ IsFiniteSet({})
      BY FS_Singleton, FS_EmptySet, Zenon
    <3> QED BY <3>3, <3>4, Zenon
  <2>4. \A t \in T : IsFiniteSet(t)
    BY <2>3
  <2> HIDE DEF T, g, ms
  <2>5. IsFiniteSet(UNION T)
    BY <2>1, <2>2, <2>4, ImageFinite, FS_UNION
  <2> QED BY <2>5, ListedSet DEF T
<1> DEFINE properties == [declarations |-> SetToSeq(all("declarations")),
                          resolutions |-> SetToSeq(all("resolutions"))]
           es == UNION {m.evidence : m \in ms}
<1>7. n = [first EXCEPT !.properties = properties, !.evidence = es]
  BY <1>1 DEF first
<1>8. /\ n.node_kind = "dependency" /\ n.stable_key = key
      /\ n.properties = properties /\ n.evidence = es
  <2> HIDE DEF properties, es
  <2> QED BY <1>4, <1>5, <1>7
<1>9. members = ms
  BY <1>8
<1>10. /\ DOMAIN properties = {"declarations", "resolutions"}
       /\ \A field \in {"declarations", "resolutions"} : properties[field] = SetToSeq(all(field))
  <2> HIDE DEF all
  <2> QED OBVIOUS
<1> HIDE DEF properties
<1> QED BY <1>6, <1>8, <1>9, <1>10 DEF Merges

-----------------------------------------------------------------------------
(* What is stored of the files that were read                              *)

Direct(fs) == {f \in fs : ~Waits(ExtractedBy(f))}

Waiting(fs) == {f \in fs : Waits(ExtractedBy(f))}

Observed(fs) == UNION {ExtractedBy(f).observations : f \in fs}

AllDeclaring(fs) == UNION {Declaring(f) : f \in fs}

\* The observations os, with their evidence among es, are those of the files fs.
Recorded(os, es, fs) ==
    /\ os = {ObservationRow(o) : o \in Observed(fs)}
    /\ {r \in es : r.of.kind = "observation"} =
         {EvidenceRow(ObservationRef(ObservationRow(o).id), o.evidence) : o \in Observed(fs)}

\* A row is the root, or what one of the files fs offers.
Offered(n, fs) ==
    \/ n.node_kind = "repository"
    \/ \E f \in fs : \E m \in ExtractedBy(f).nodes \cup {FileNode(f)} : n = NodeRow(m)

\* What the files fs say of the package with this key
Said(fs, p, key) ==
    UNION {{EntryRecord(f, x, p) : x \in {y \in Entries(f, p) :
                DependencyKey(Ecosystem(f.path), y.name) = key}} : f \in {g \in fs : Declares(g, p)}}

\* DeclarationsKept of the nodes ns with the evidence es
ListsAll(ns, es, fs) ==
    \A n \in {m \in ns : m.node_kind = "dependency"} : \A p \in {Manifest, Lockfile} :
        /\ n.properties[Field(p)] = Said(fs, p, n.stable_key)
        /\ \A x \in Said(fs, p, n.stable_key) : \E r \in es :
              /\ r.of = NodeRef(n.stable_key)
              /\ r.record.path = x.path /\ r.record.start_line = x.line /\ r.record.extractor = p

StoreInv ==
    /\ todo \in Seq(SourceFiles) /\ read \in Seq(SourceFiles)
    /\ \E files \in Repositories : Range(read) \cup Range(todo) \subseteq Range(files)
    /\ \A n \in nodes : n.node_kind = "dependency" \/ Offered(n, Range(read))
    /\ stage \in {"extract", "resolve"} => edges = {} /\ \A r \in evidence : r.of.kind # "edge"
    /\ state = "completed" => stage = "done"
    /\ stage = "extract" =>
         /\ \A n \in nodes : n.node_kind # "dependency"
         /\ deferred.nodes = AllDeclaring(Range(read))
         /\ deferred.observations = Observed(Waiting(Range(read)))
         /\ Recorded(observations, evidence, Direct(Range(read)))
    /\ stage \in {"resolve", "classify", "seal", "done"} /\ state # "failed" =>
         /\ Recorded(observations, evidence, Range(read))
         /\ ListsAll(nodes, evidence, Range(read))

LEMMA ListsAllMeans ==
    DeclarationsKept <=> (state = "completed" => ListsAll(nodes, evidence, Range(read)))
<1>1. \A p \in {Manifest, Lockfile} : \A key :
        Said(Range(read), p, key) =
          UNION {{EntryRecord(f, x, p) : x \in
              {y \in Range(f.body) : /\ y.line \in 1..f.lines /\ Claimed(y, p)
                                     /\ DependencyKey(Ecosystem(f.path), y.name) = key}} :
                  f \in {g \in Range(read) : Declares(g, p)}}
  BY DEF Said, Entries
<1>2. Manifest # Lockfile
  BY DEF Manifest, Lockfile
<1>3. \A n : /\ n.properties[Field(Manifest)] = n.properties.declarations
             /\ n.properties[Field(Lockfile)] = n.properties.resolutions
  BY <1>2 DEF Field
<1>4. \A key, p, path, line :
        (\E r \in EvidenceOf(NodeRef(key)) :
            r.path = path /\ r.start_line = line /\ r.extractor = p)
        <=> (\E r \in evidence : /\ r.of = NodeRef(key)
                /\ r.record.path = path /\ r.record.start_line = line /\ r.record.extractor = p)
  BY DEF EvidenceOf
<1> DEFINE listed(n, p) == IF p = Manifest THEN n.properties.declarations
                           ELSE n.properties.resolutions
           said(n, p) ==
             UNION {{EntryRecord(f, x, p) : x \in
              {y \in Range(f.body) : /\ y.line \in 1..f.lines /\ Claimed(y, p)
                                     /\ DependencyKey(Ecosystem(f.path), y.name) = n.stable_key}} :
                  f \in {g \in Range(read) : Declares(g, p)}}
           shown(n, p, x) == \E r \in EvidenceOf(NodeRef(n.stable_key)) :
                        r.path = x.path /\ r.start_line = x.line /\ r.extractor = p
           held(n, p, x) == \E r \in evidence :
              /\ r.of = NodeRef(n.stable_key)
              /\ r.record.path = x.path /\ r.record.start_line = x.line /\ r.record.extractor = p
<1>5. DeclarationsKept <=> (state = "completed" =>
        \A n \in {m \in nodes : m.node_kind = "dependency"} : \A p \in {Manifest, Lockfile} :
            listed(n, p) = said(n, p) /\ \A x \in said(n, p) : shown(n, p, x))
  BY DEF DeclarationsKept
<1>6. ListsAll(nodes, evidence, Range(read)) <=>
        \A n \in {m \in nodes : m.node_kind = "dependency"} : \A p \in {Manifest, Lockfile} :
            /\ n.properties[Field(p)] = Said(Range(read), p, n.stable_key)
            /\ \A x \in Said(Range(read), p, n.stable_key) : held(n, p, x)
  BY DEF ListsAll
<1>7. ASSUME NEW n, NEW p \in {Manifest, Lockfile}
      PROVE  /\ listed(n, p) = n.properties[Field(p)]
             /\ said(n, p) = Said(Range(read), p, n.stable_key)
             /\ \A x : shown(n, p, x) <=> held(n, p, x)
  <2>1. listed(n, p) = n.properties[Field(p)]
    BY <1>2, <1>3
  <2>2. said(n, p) = Said(Range(read), p, n.stable_key)
    BY <1>1
  <2>3. \A x : shown(n, p, x) <=> held(n, p, x)
    BY <1>4
  <2> HIDE DEF listed, said, shown, held
  <2> QED BY <2>1, <2>2, <2>3
<1> HIDE DEF listed, said, shown, held
<1> QED BY <1>5, <1>6, <1>7

\* Node evidence and observation evidence are told apart by their parents.
LEMMA PersistRecords ==
    ASSUME NEW fs, NEW gs, NEW ns, NEW ds, Persist(ns, Observed(gs), ds),
           Recorded(observations, evidence, fs)
    PROVE  Recorded(observations', evidence', fs \cup gs)
<1> DEFINE row(o) == EvidenceRow(ObservationRef(ObservationRow(o).id), o.evidence)
           added == UNION {EvidenceRows(NodeRef(NodeRow(n).stable_key), n.evidence) : n \in ns}
<1>1. Observed(fs \cup gs) = Observed(fs) \cup Observed(gs)
  BY DEF Observed
<1>2. observations' = {ObservationRow(o) : o \in Observed(fs \cup gs)}
  BY <1>1 DEF Persist, Recorded
<1>3. \A r \in added : r.of.kind = "node"
  BY DEF EvidenceRows, EvidenceRow, NodeRef, Reference
<1>4. \A o : row(o).of.kind = "observation"
  BY DEF EvidenceRow, ObservationRef, Reference
<1>5. evidence' = evidence \cup added \cup {row(o) : o \in Observed(gs)}
  <2>1. evidence' = evidence
            \cup (UNION {EvidenceRows(NodeRef(NodeRow(n).stable_key), n.evidence) : n \in ns})
            \cup {EvidenceRow(ObservationRef(ObservationRow(o).id), o.evidence) : o \in Observed(gs)}
    BY Zenon DEF Persist
  <2> HIDE DEF row, added
  <2>2. {row(o) : o \in Observed(gs)} =
          {EvidenceRow(ObservationRef(ObservationRow(o).id), o.evidence) : o \in Observed(gs)}
    BY DEF row
  <2>3. added = UNION {EvidenceRows(NodeRef(NodeRow(n).stable_key), n.evidence) : n \in ns}
    BY DEF added
  <2> QED BY <2>1, <2>2, <2>3
<1>6. {r \in evidence : r.of.kind = "observation"} = {row(o) : o \in Observed(fs)}
  BY DEF Recorded
<1> HIDE DEF row, added
<1>7. {r \in evidence' : r.of.kind = "observation"} = {row(o) : o \in Observed(fs \cup gs)}
  BY <1>1, <1>3, <1>4, <1>5, <1>6
<1> QED BY <1>2, <1>7 DEF Recorded, row

\* A batch of nodes adds rows of its own, and no evidence of edges.
LEMMA PersistNodes ==
    ASSUME NEW ns, NEW os, NEW ds, Persist(ns, os, ds)
    PROVE  /\ nodes' = nodes \cup {NodeRow(n) : n \in ns}
           /\ \A r \in evidence' : r \in evidence \/ r.of.kind \in {"node", "observation"}
           /\ evidence \subseteq evidence'
           /\ \A n \in ns : \A e \in n.evidence :
                EvidenceRow(NodeRef(NodeRow(n).stable_key), e) \in evidence'
           /\ UNCHANGED <<state, edges, assertions, derivations, hash, edits>>
<1> DEFINE row(o) == EvidenceRow(ObservationRef(ObservationRow(o).id), o.evidence)
           rows(n) == EvidenceRows(NodeRef(NodeRow(n).stable_key), n.evidence)
<1>1. /\ nodes' = nodes \cup {NodeRow(n) : n \in ns}
      /\ evidence' = evidence \cup (UNION {rows(n) : n \in ns}) \cup {row(o) : o \in os}
      /\ UNCHANGED <<state, edges, assertions, derivations, hash, edits>>
  BY Zenon DEF Persist
<1>2. \A o : row(o).of.kind = "observation"
  BY DEF EvidenceRow, ObservationRef, Reference
<1>3. \A n : \A r \in rows(n) : r.of.kind = "node"
  BY DEF EvidenceRows, EvidenceRow, NodeRef, Reference
<1>4. \A n : \A e \in n.evidence : EvidenceRow(NodeRef(NodeRow(n).stable_key), e) \in rows(n)
  BY DEF EvidenceRows
<1> HIDE DEF row, rows
<1>5. ASSUME NEW r \in evidence', r \notin evidence
      PROVE  r.of.kind \in {"node", "observation"}
  <2>1. (\E n \in ns : r \in rows(n)) \/ (\E o \in os : r = row(o))
    BY <1>1, <1>5
  <2> QED BY <1>2, <1>3, <2>1
<1>6. /\ evidence \subseteq evidence'
      /\ \A n \in ns : \A e \in n.evidence :
            EvidenceRow(NodeRef(NodeRow(n).stable_key), e) \in evidence'
  BY <1>1, <1>4
<1> QED BY <1>1, <1>5, <1>6

LEMMA RowKind ==
    ASSUME NEW n
    PROVE  /\ NodeRow(n).node_kind = n.node_kind
           /\ NodeRow(n).stable_key = NormalizeKey(n.node_kind, n.stable_key)
           /\ NodeRow(n).properties = NormalizeArrays(n.properties, SetArrayKeys)
           /\ NodeRow(n).attrs = n.attrs
BY DEF NodeRow

LEMMA FilesMove ==
    ASSUME NEW T, NEW s \in Seq(T), NEW r \in Seq(T), s # <<>>
    PROVE  /\ Head(s) \in T /\ Tail(s) \in Seq(T) /\ Append(r, Head(s)) \in Seq(T)
           /\ Range(s) = Range(Tail(s)) \cup {Head(s)}
           /\ Range(Append(r, Head(s))) = Range(r) \cup {Head(s)}
<1>1. Len(s) \in Nat /\ Len(s) >= 1 /\ Head(s) = s[1] /\ DOMAIN s = 1..Len(s)
  OBVIOUS
<1>2. Tail(s) \in Seq(T) /\ Len(Tail(s)) = Len(s) - 1
      /\ \A i \in 1..(Len(s) - 1) : Tail(s)[i] = s[i + 1]
  OBVIOUS
<1>3. DOMAIN Tail(s) = 1..(Len(s) - 1)
  BY <1>2
<1>4. Range(s) = Range(Tail(s)) \cup {Head(s)}
  <2>1. ASSUME NEW x \in Range(s) PROVE x \in Range(Tail(s)) \cup {Head(s)}
    <3>1. PICK i \in 1..Len(s) : x = s[i]
      BY <1>1 DEF Range
    <3>2. CASE i = 1
      BY <1>1, <3>1, <3>2
    <3>3. CASE i # 1
      <4>1. i - 1 \in 1..(Len(s) - 1) /\ Tail(s)[i - 1] = s[i]
        BY <1>1, <1>2, <3>3
      <4> QED BY <1>3, <3>1, <4>1 DEF Range
    <3> QED BY <3>2, <3>3
  <2>2. ASSUME NEW x \in Range(Tail(s)) PROVE x \in Range(s)
    <3>1. PICK i \in 1..(Len(s) - 1) : x = s[i + 1]
      BY <1>2, <1>3 DEF Range
    <3>2. i + 1 \in DOMAIN s
      BY <1>1
    <3> QED BY <3>1, <3>2 DEF Range
  <2>3. Head(s) \in Range(s)
    BY <1>1 DEF Range
  <2> QED BY <2>1, <2>2, <2>3
<1>5. ASSUME NEW h PROVE Range(Append(r, h)) = Range(r) \cup {h}
  <2>1. DOMAIN Append(r, h) = 1..(Len(r) + 1) /\ DOMAIN r = 1..Len(r) /\ Len(r) \in Nat
    OBVIOUS
  <2>2. Append(r, h)[Len(r) + 1] = h /\ \A i \in 1..Len(r) : Append(r, h)[i] = r[i]
    OBVIOUS
  <2>3. 1..(Len(r) + 1) = (1..Len(r)) \cup {Len(r) + 1}
    BY <2>1
  <2> QED BY <2>1, <2>2, <2>3 DEF Range
<1> QED BY <1>1, <1>2, <1>4, <1>5

\* What the extractors found in one file is persisted or deferred.
LEMMA StoreRead ==
    ASSUME StoreInv, ReadFile
    PROVE  StoreInv'
<1>1. CASE Raise
  BY <1>1 DEF Raise, Discard, StoreInv
<1>2. CASE ~Raise
  <2> DEFINE fs == Range(read)
  <2>0. PICK f, ext : f = Head(todo) /\ ext = ExtractedBy(f)
    OBVIOUS
  <2> DEFINE inv == InventoryOf(f, ext.nodes)
             kept == IF Waits(ext) THEN Result({}, {}, {}) ELSE ext
             ns == inv.nodes \cup kept.nodes
  <2>1. /\ stage = "extract" /\ stage' = "extract" /\ todo # <<>>
        /\ Persist(ns, kept.observations, inv.diagnostics \cup kept.diagnostics)
        /\ deferred' = IF ~Waits(ext) THEN deferred
                       ELSE Result(deferred.nodes \cup ext.nodes,
                                   deferred.observations \cup ext.observations,
                                   deferred.diagnostics \cup ext.diagnostics)
        /\ todo' = Tail(todo) /\ read' = Append(read, f)
    <3>1. HandOver(inv, ext) /\ stage = "extract" /\ todo # <<>>
      BY <2>0 DEF ReadFile
    <3> HIDE DEF inv
    <3> QED BY <1>2, <2>0, <3>1 DEF HandOver
  <2>2. /\ f \in SourceFiles /\ todo' \in Seq(SourceFiles) /\ read' \in Seq(SourceFiles)
        /\ Range(todo) = Range(todo') \cup {f} /\ Range(read') = fs \cup {f}
    BY <2>0, <2>1, FilesMove DEF StoreInv
  <2>3. /\ Waits(ext) => ext.nodes = Declaring(f)
        /\ ~Waits(ext) => Declaring(f) = {} /\ Offers(f, ext.nodes)
    BY <2>0, <2>2, FileOffers
  <2>4. ASSUME NEW n \in ns
        PROVE  NodeRow(n).node_kind # "dependency" /\ Offered(NodeRow(n), fs \cup {f})
    <3>1. CASE n \in inv.nodes
      <4>1. n = FileNode(f) \/ n.node_kind = "repository"
        BY <3>1, InventoryOffers
      <4>2. FileNode(f).node_kind = "file"
        BY DEF FileNode, Node
      <4> QED BY <4>1, <4>2, RowKind DEF Offered
    <3>2. CASE n \in kept.nodes
      <4>1. ~Waits(ext) /\ n \in ext.nodes
        BY <3>2 DEF Result
      <4>2. n.node_kind # "dependency"
        BY <4>1 DEF Waits
      <4> QED BY <2>0, <4>1, <4>2, RowKind DEF Offered
    <3> QED BY <3>1, <3>2
  <2>5. /\ nodes' = nodes \cup {NodeRow(n) : n \in ns} /\ evidence \subseteq evidence'
        /\ \A r \in evidence' : r \in evidence \/ r.of.kind \in {"node", "observation"}
        /\ UNCHANGED <<state, edges>>
    <3> HIDE DEF ns, kept, inv
    <3> QED BY <2>1, PersistNodes
  <2>6. \A n \in nodes' : n.node_kind # "dependency" /\ Offered(n, Range(read'))
    <3>1. \A n \in nodes : n.node_kind # "dependency" /\ Offered(n, fs)
      BY <2>1 DEF StoreInv
    <3>2. \A n \in nodes : Offered(n, fs \cup {f})
      BY <3>1 DEF Offered
    <3> HIDE DEF ns
    <3> QED BY <2>2, <2>4, <2>5, <3>1, <3>2
  <2>7. kept.observations = Observed(IF Waits(ext) THEN {} ELSE {f})
    BY <2>0 DEF Observed, Result
  <2>8. Recorded(observations', evidence', Direct(Range(read')))
    <3>1. Direct(Range(read')) = Direct(fs) \cup (IF Waits(ext) THEN {} ELSE {f})
      BY <2>0, <2>2 DEF Direct
    <3>2. Recorded(observations, evidence, Direct(fs))
      BY <2>1 DEF StoreInv
    <3> HIDE DEF ns, kept, inv, fs
    <3> QED BY <2>1, <2>7, <3>1, <3>2, PersistRecords
  <2>9. deferred'.nodes = AllDeclaring(Range(read'))
    <3>1. AllDeclaring(Range(read')) = AllDeclaring(fs) \cup Declaring(f)
      BY <2>2 DEF AllDeclaring
    <3>2. deferred.nodes = AllDeclaring(fs)
      BY <2>1 DEF StoreInv
    <3> HIDE DEF inv, fs
    <3> QED BY <2>1, <2>3, <3>1, <3>2 DEF Result
  <2>10. deferred'.observations = Observed(Waiting(Range(read')))
    <3>1. Waiting(Range(read')) = Waiting(fs) \cup (IF Waits(ext) THEN {f} ELSE {})
      BY <2>0, <2>2 DEF Waiting
    <3>2. Observed(Waiting(Range(read'))) =
            Observed(Waiting(fs)) \cup (IF Waits(ext) THEN ext.observations ELSE {})
      <4> HIDE DEF fs
      <4> QED BY <2>0, <3>1 DEF Observed
    <3>3. deferred.observations = Observed(Waiting(fs))
      BY <2>1 DEF StoreInv
    <3> HIDE DEF inv, fs
    <3> QED BY <2>1, <3>2, <3>3 DEF Result
  <2>11. edges' = {} /\ (\A r \in evidence' : r.of.kind # "edge") /\ state' # "completed"
    BY <2>1, <2>5 DEF StoreInv
  <2>12. \E files \in Repositories : Range(read') \cup Range(todo') \subseteq Range(files)
    BY <2>2 DEF StoreInv
  <2> QED BY <2>1, <2>2, <2>6, <2>8, <2>9, <2>10, <2>11, <2>12 DEF StoreInv
<1> QED BY <1>1, <1>2

\* What the nodes of one package list is what the files say of it.
LEMMA MembersSay ==
    ASSUME NEW fs, NEW key, NEW p \in {Manifest, Lockfile}, NEW members,
           members = {m \in AllDeclaring(fs) : m.stable_key = key}
    PROVE  UNION {Range(m.properties[Field(p)]) : m \in members} = Said(fs, p, key)
<1>1. ASSUME NEW m \in members, NEW x \in Range(m.properties[Field(p)])
      PROVE  x \in Said(fs, p, key)
  <2>1. PICK f \in fs, q \in {Manifest, Lockfile} :
          Declares(f, q) /\ \E y \in Entries(f, q) : m = DependencyNode(f, y, q)
    BY DEF AllDeclaring, Declaring
  <2>2. PICK y \in Entries(f, q) : m = DependencyNode(f, y, q)
    BY <2>1
  <2>3. x \in (IF p = q THEN {EntryRecord(f, y, q)} ELSE {})
    BY <2>2, RecordsOf
  <2>4. p = q /\ x = EntryRecord(f, y, p)
    BY <2>3
  <2>5. DependencyKey(Ecosystem(f.path), y.name) = key
    BY <2>2, DependencyFields
  <2> QED BY <2>1, <2>4, <2>5 DEF Said
<1>2. ASSUME NEW x \in Said(fs, p, key)
      PROVE  \E m \in members : x \in Range(m.properties[Field(p)])
  <2>1. PICK f \in fs : Declares(f, p) /\ \E y \in Entries(f, p) :
          DependencyKey(Ecosystem(f.path), y.name) = key /\ x = EntryRecord(f, y, p)
    BY DEF Said
  <2>2. PICK y \in Entries(f, p) :
          DependencyKey(Ecosystem(f.path), y.name) = key /\ x = EntryRecord(f, y, p)
    BY <2>1
  <2>3. PICK m : m = DependencyNode(f, y, p)
    OBVIOUS
  <2>4. m \in AllDeclaring(fs)
    BY <2>1, <2>3 DEF AllDeclaring, Declaring
  <2>5. m \in members
    BY <2>2, <2>3, <2>4, DependencyFields
  <2>6. Range(m.properties[Field(p)]) = {x}
    BY <2>2, <2>3, RecordsOf
  <2> QED BY <2>5, <2>6
<1> QED BY <1>1, <1>2

LEMMA StoreDeferred ==
    ASSUME StoreInv, PersistDeferred
    PROVE  StoreInv'
<1>1. CASE Raise
  BY <1>1 DEF Raise, Discard, StoreInv
<1>2. CASE ~Raise
  <2> DEFINE fs == Range(read)
  <2>0. PICK ns : ns = Merged(deferred.nodes)
    OBVIOUS
  <2>1. /\ stage = "extract" /\ stage' = "resolve" /\ UNCHANGED <<todo, read, deferred>>
        /\ Persist(ns, deferred.observations, deferred.diagnostics)
    BY <1>2, <2>0 DEF PersistDeferred
  <2>2. /\ deferred.nodes = AllDeclaring(fs) /\ deferred.observations = Observed(Waiting(fs))
        /\ Recorded(observations, evidence, Direct(fs)) /\ fs \subseteq SourceFiles
        /\ read \in Seq(SourceFiles) /\ edges = {} /\ (\A r \in evidence : r.of.kind # "edge")
        /\ state # "completed" /\ \A n \in nodes : n.node_kind # "dependency"
    BY <2>1 DEF StoreInv, Range
  <2>3. Recorded(observations', evidence', fs)
    <3>1. Direct(fs) \cup Waiting(fs) = fs
      BY DEF Direct, Waiting
    <3> HIDE DEF fs
    <3> QED BY <2>1, <2>2, <3>1, PersistRecords
  <2>4. /\ nodes' = nodes \cup {NodeRow(n) : n \in ns}
        /\ \A r \in evidence' : r \in evidence \/ r.of.kind \in {"node", "observation"}
        /\ \A n \in ns : \A e \in n.evidence :
              EvidenceRow(NodeRef(NodeRow(n).stable_key), e) \in evidence'
        /\ UNCHANGED <<state, edges>>
    BY <2>1, PersistNodes
  <2>5. IsFiniteSet(deferred.nodes) /\ \A m \in deferred.nodes : Entry(m)
    <3>1. IsFiniteSet(deferred.nodes)
      BY <2>2, WaitingFinite DEF AllDeclaring
    <3>2. \A m \in deferred.nodes : Entry(m)
      BY <2>2 DEF AllDeclaring, Declaring, Entry
    <3> QED BY <3>1, <3>2
  <2>6. ASSUME NEW n \in ns
        PROVE  /\ NodeRow(n).node_kind = "dependency"
               /\ \A p \in {Manifest, Lockfile} :
                    /\ NodeRow(n).properties[Field(p)] = Said(fs, p, NodeRow(n).stable_key)
                    /\ \A x \in Said(fs, p, NodeRow(n).stable_key) : \E r \in evidence' :
                          /\ r.of = NodeRef(NodeRow(n).stable_key)
                          /\ r.record.path = x.path /\ r.record.start_line = x.line
                          /\ r.record.extractor = p
    <3>0. PICK members, key :
            key = n.stable_key /\ members = {m \in deferred.nodes : m.stable_key = key}
      OBVIOUS
    <3>1. /\ n.node_kind = "dependency"
          /\ DOMAIN n.properties = {"declarations", "resolutions"}
          /\ \A field \in {"declarations", "resolutions"} :
               Range(n.properties[field]) = UNION {Range(m.properties[field]) : m \in members}
          /\ n.evidence = UNION {m.evidence : m \in members}
      <4>1. read \in Seq(SourceFiles) /\ n \in Merged(deferred.nodes)
        BY <2>0, <2>2
      <4>2. members = {m \in deferred.nodes : m.stable_key = n.stable_key}
        BY <3>0
      <4> HIDE DEF fs
      <4>3. Merges(n, members)
        BY <2>5, <4>1, <4>2, MergedMeans
      <4> QED BY <4>3 DEF Merges
    <3>2. NodeRow(n).node_kind = "dependency" /\ NodeRow(n).stable_key = key
      BY <3>0, <3>1, RowKind DEF NormalizeKey, PathBearing
    <3>3. ASSUME NEW p \in {Manifest, Lockfile}
          PROVE  NodeRow(n).properties[Field(p)] = Said(fs, p, key)
      <4>1. Field(p) \in {"declarations", "resolutions"}
        BY DEF Field
      <4>2. NodeRow(n).properties[Field(p)] = Range(n.properties[Field(p)])
        <5>1. PICK values : values = n.properties
          OBVIOUS
        <5>2. Field(p) \in DOMAIN values
          BY <3>1, <4>1, <5>1
        <5>3. NodeRow(n).properties = [k \in DOMAIN values |-> Range(values[k])]
          BY <5>1, RowKind DEF NormalizeArrays
        <5> QED BY <5>1, <5>2, <5>3
      <4>3. members = {m \in AllDeclaring(fs) : m.stable_key = key}
        BY <2>2, <3>0
      <4>4. UNION {Range(m.properties[Field(p)]) : m \in members} = Said(fs, p, key)
        BY <4>3, MembersSay
      <4> HIDE DEF fs
      <4> QED BY <3>1, <4>1, <4>2, <4>4
    <3>4. ASSUME NEW p \in {Manifest, Lockfile}, NEW x \in Said(fs, p, key)
          PROVE  \E r \in evidence' :
                    /\ r.of = NodeRef(key)
                    /\ r.record.path = x.path /\ r.record.start_line = x.line
                    /\ r.record.extractor = p
      <4>1. PICK f \in fs : Declares(f, p) /\ \E y \in Entries(f, p) :
              DependencyKey(Ecosystem(f.path), y.name) = key /\ x = EntryRecord(f, y, p)
        BY DEF Said
      <4>2. PICK y \in Entries(f, p) :
              DependencyKey(Ecosystem(f.path), y.name) = key /\ x = EntryRecord(f, y, p)
        BY <4>1
      <4>3. PICK m, e : m = DependencyNode(f, y, p) /\ e = Span(f, y.line, y.line, p)
        OBVIOUS
      <4>4. m \in members /\ e \in m.evidence
        <5>1. m \in AllDeclaring(fs)
          BY <4>1, <4>3 DEF AllDeclaring, Declaring
        <5>2. m.stable_key = key /\ m.evidence = {e}
          BY <4>2, <4>3, DependencyFields
        <5> QED BY <2>2, <3>0, <5>1, <5>2
      <4>5. EvidenceRow(NodeRef(key), e) \in evidence'
        <5>1. e \in n.evidence
          BY <3>1, <4>4
        <5> QED BY <2>4, <3>2, <5>1
      <4>6. NormalizePath(f.path) = f.path
        BY <2>2, RepositoriesAssumption
      <4>7. e.path = f.path /\ e.start_line = y.line /\ e.extractor = p
        BY <4>3 DEF Span, Evidence
      <4>8. /\ EvidenceRow(NodeRef(key), e).of = NodeRef(key)
            /\ EvidenceRow(NodeRef(key), e).record = [e EXCEPT !.path = NormalizePath(@)]
        BY DEF EvidenceRow
      <4>9. DOMAIN e = {"path", "start_line", "end_line", "lines", "granularity", "extractor"}
        BY <4>3 DEF Span, Evidence
      <4>10. PICK r : r = EvidenceRow(NodeRef(key), e)
        OBVIOUS
      <4>11. r.record.path = f.path /\ r.record.start_line = y.line /\ r.record.extractor = p
        BY <4>6, <4>7, <4>8, <4>9, <4>10
      <4>12. x.path = f.path /\ x.line = y.line
        BY <4>2 DEF EntryRecord
      <4> QED BY <4>5, <4>8, <4>10, <4>11, <4>12
    <3> QED BY <3>2, <3>3, <3>4
  <2>7. ListsAll(nodes', evidence', fs)
    <3>1. ASSUME NEW m \in nodes', m.node_kind = "dependency"
          PROVE  \E n \in ns : m = NodeRow(n)
      BY <2>2, <2>4, <3>1
    <3> HIDE DEF fs
    <3> QED BY <2>6, <3>1 DEF ListsAll
  <2>8. \A n \in nodes' : n.node_kind = "dependency" \/ Offered(n, fs)
    <3>1. \A n \in nodes : n.node_kind = "dependency" \/ Offered(n, fs)
      BY DEF StoreInv
    <3>2. \A n \in ns : NodeRow(n).node_kind = "dependency"
      BY <2>6
    <3> QED BY <2>4, <3>1, <3>2
  <2>9. edges' = {} /\ (\A r \in evidence' : r.of.kind # "edge") /\ state' # "completed"
    BY <2>2, <2>4
  <2>10. /\ todo' \in Seq(SourceFiles) /\ read' \in Seq(SourceFiles)
         /\ \E files \in Repositories : Range(read') \cup Range(todo') \subseteq Range(files)
    BY <2>1 DEF StoreInv
  <2> QED BY <2>1, <2>3, <2>7, <2>8, <2>9, <2>10 DEF StoreInv
<1> QED BY <1>1, <1>2

\* Edges, and the evidence of edges, change nothing that was listed or recorded.
LEMMA StoreResolve ==
    ASSUME StoreInv, Resolve
    PROVE  StoreInv'
<1>1. CASE Raise
  BY <1>1 DEF Raise, Discard, StoreInv
<1>2. CASE ~Raise
  <2> DEFINE es == UNION {x.edges : x \in Outcomes}
             rows == UNION {EvidenceRows(EdgeRef(EdgeRow(e).id), e.evidence) : e \in es}
  <2>1. /\ stage = "resolve" /\ stage' = "classify" /\ evidence' = evidence \cup rows
        /\ UNCHANGED <<state, nodes, observations, todo, read>>
    BY <1>2 DEF Resolve
  <2>2. \A r \in rows : r.of.kind = "edge"
    BY DEF EvidenceRows, EvidenceRow, EdgeRef, Reference
  <2> HIDE DEF rows, es
  <2>3. state # "failed" => /\ Recorded(observations, evidence, Range(read))
                            /\ ListsAll(nodes, evidence, Range(read))
    BY <2>1 DEF StoreInv
  <2>4. state # "failed" => Recorded(observations', evidence', Range(read'))
    <3>1. {r \in evidence' : r.of.kind = "observation"} = {r \in evidence : r.of.kind = "observation"}
      BY <2>1, <2>2
    <3> QED BY <2>1, <2>3, <3>1 DEF Recorded
  <2>5. state # "failed" => ListsAll(nodes', evidence', Range(read'))
    BY <2>1, <2>3 DEF ListsAll
  <2> QED BY <2>1, <2>4, <2>5 DEF StoreInv
<1> QED BY <1>1, <1>2

LEMMA StoreInit == AnalysisInit => StoreInv
<1> SUFFICES ASSUME AnalysisInit PROVE StoreInv
  OBVIOUS
<1>1. /\ todo \in Repositories /\ read = <<>> /\ nodes = {} /\ observations = {} /\ edges = {}
      /\ evidence = {} /\ stage = "extract" /\ state = "building"
      /\ deferred.nodes = {} /\ deferred.observations = {}
  BY DEF AnalysisInit, Init, Result
<1>2. Range(read) = {}
  BY <1>1 DEF Range
<1>3. todo \in Seq(SourceFiles) /\ read \in Seq(SourceFiles)
  <2>1. Range(todo) \subseteq SourceFiles /\ todo \in Seq(Range(todo))
    BY <1>1, RepositoriesAssumption DEF SourceFiles
  <2> QED BY <1>1, <2>1
<1>4. AllDeclaring({}) = {} /\ Observed({}) = {} /\ Direct({}) = {} /\ Waiting({}) = {}
  BY DEF AllDeclaring, Observed, Direct, Waiting
<1> QED BY <1>1, <1>2, <1>3, <1>4 DEF StoreInv, Recorded

LEMMA StoreNext == StoreInv /\ [AnalysisNext]_analysisVars => StoreInv'
<1> SUFFICES ASSUME StoreInv, [AnalysisNext]_analysisVars PROVE StoreInv'
  OBVIOUS
<1>1. CASE ReadFile
  BY <1>1, StoreRead
<1>2. CASE FileGone
  <2>1. todo' \in Seq(SourceFiles) /\ Range(todo') \subseteq Range(todo)
    BY <1>2, FilesMove DEF FileGone, StoreInv
  <2>2. UNCHANGED <<stage, state, nodes, observations, edges, evidence, read, deferred>>
    BY <1>2 DEF FileGone, vars, factVars
  <2>3. \E files \in Repositories : Range(read') \cup Range(todo') \subseteq Range(files)
    BY <2>1, <2>2 DEF StoreInv
  <2> QED BY <2>1, <2>2, <2>3 DEF StoreInv
<1>3. CASE PersistDeferred
  BY <1>3, StoreDeferred
<1>4. CASE Resolve
  BY <1>4, StoreResolve
<1>5. CASE Classify
  <2>1. CASE Raise
    BY <2>1 DEF Raise, Discard, StoreInv
  <2>2. CASE ~Raise
    BY <1>5, <2>2 DEF Classify, StoreInv
  <2> QED BY <2>1, <2>2
<1>6. CASE SealStage
  <2>1. /\ UNCHANGED <<nodes, observations, edges, todo, read, deferred>>
        /\ stage = "seal" /\ stage' = "done"
        /\ state = "building" /\ (state' = "failed" \/ evidence' = evidence)
    BY <1>6 DEF SealStage, Seal, SealFails
  <2> QED BY <2>1 DEF StoreInv
<1>7. CASE UNCHANGED analysisVars
  BY <1>7 DEF analysisVars, vars, factVars, StoreInv
<1> QED BY <1>1, <1>2, <1>3, <1>4, <1>5, <1>6, <1>7 DEF AnalysisNext

\* merge_dependency_facts, for every repository: whatever spellings, files and
\* orders, the node of a package in a sealed snapshot lists exactly what the
\* files that were read declare and pin of it, each with its line as evidence.
THEOREM DeclarationsAreKept == AnalysisSpec => []DeclarationsKept
<1>1. StoreInv => DeclarationsKept
  BY ListsAllMeans DEF StoreInv
<1> QED BY <1>1, StoreInit, StoreNext, PTL DEF AnalysisSpec

-----------------------------------------------------------------------------
(* Lists                                                                   *)

LEMMA FunctionIsList ==
    ASSUME NEW n \in Nat, NEW s, s = [i \in 1..n |-> s[i]]
    PROVE  IsList(s) /\ Len(s) = n /\ DOMAIN s = 1..n
<1>1. s \in [1..n -> Range(s)]
  BY DEF Range
<1>2. s \in Seq(Range(s))
  BY <1>1, FunctionIsSeq
<1> QED BY <1>1, <1>2 DEF IsList

LEMMA ListLength ==
    ASSUME NEW s, IsList(s)
    PROVE  Len(s) \in Nat /\ DOMAIN s = 1..Len(s) /\ s = [i \in 1..Len(s) |-> s[i]]
BY DEF IsList

LEMMA JoinLists ==
    ASSUME NEW a, NEW b, IsList(a), IsList(b)
    PROVE  IsList(a \o b) /\ Range(a \o b) = Range(a) \cup Range(b)
<1> DEFINE T == Range(a) \cup Range(b)
<1>1. a \in Seq(T) /\ b \in Seq(T)
  <2>1. a \in [1..Len(a) -> Range(a)] /\ b \in [1..Len(b) -> Range(b)]
        /\ Len(a) \in Nat /\ Len(b) \in Nat
    BY ListLength DEF Range
  <2>2. a \in [1..Len(a) -> T] /\ b \in [1..Len(b) -> T]
    BY <2>1
  <2> HIDE DEF T
  <2> QED BY <2>1, <2>2, FunctionIsSeq
<1>2. /\ DOMAIN a = 1..Len(a) /\ DOMAIN b = 1..Len(b) /\ Len(a) \in Nat /\ Len(b) \in Nat
      /\ DOMAIN (a \o b) = 1..(Len(a) + Len(b))
  BY ListLength, <1>1
<1>3. /\ \A i \in 1..Len(a) : (a \o b)[i] = a[i]
      /\ \A i \in 1..Len(b) : (a \o b)[Len(a) + i] = b[i]
  <2> HIDE DEF T
  <2> QED BY <1>1, <1>2
<1>4. Range(a \o b) = T
  <2>1. ASSUME NEW i \in 1..(Len(a) + Len(b)) PROVE (a \o b)[i] \in T
    <3>1. CASE i <= Len(a)
      BY <1>2, <1>3, <3>1 DEF Range
    <3>2. CASE i > Len(a)
      <4>1. i - Len(a) \in 1..Len(b) /\ Len(a) + (i - Len(a)) = i
        BY <1>2, <3>2
      <4> QED BY <1>2, <1>3, <4>1 DEF Range
    <3> QED BY <1>2, <3>1, <3>2
  <2>2. ASSUME NEW i \in 1..Len(a) PROVE a[i] \in Range(a \o b)
    <3>1. i \in 1..(Len(a) + Len(b))
      BY <1>2
    <3> QED BY <1>2, <1>3, <3>1 DEF Range
  <2>3. ASSUME NEW i \in 1..Len(b) PROVE b[i] \in Range(a \o b)
    <3>1. Len(a) + i \in 1..(Len(a) + Len(b))
      BY <1>2
    <3> QED BY <1>2, <1>3, <3>1 DEF Range
  <2> QED BY <1>2, <2>1, <2>2, <2>3 DEF Range
<1>5. a \o b = [i \in 1..(Len(a) + Len(b)) |-> (a \o b)[i]]
  <2>1. a \o b \in Seq(T)
    BY <1>1
  <2>2. PICK c : c = a \o b
    OBVIOUS
  <2> HIDE DEF T
  <2>3. c \in Seq(T) /\ DOMAIN c = 1..(Len(a) + Len(b))
    BY <1>2, <2>1, <2>2
  <2>4. c = [i \in 1..(Len(a) + Len(b)) |-> c[i]]
    BY <2>3
  <2> QED BY <2>2, <2>4, Zenon
<1>6. IsList(a \o b)
  BY <1>2, <1>5, FunctionIsList
<1> QED BY <1>4, <1>6

\* The lists of ss one after the other, up to each of its places.
IsFlattening(g, ss, n) ==
    g = [i \in 1..n |-> IF i = 1 THEN ss[i] ELSE g[i - 1] \o ss[i]]

LEMMA FlatteningSteps ==
    ASSUME NEW g, NEW ss, NEW n \in Nat, IsFlattening(g, ss, n), NEW i \in 1..n
    PROVE  g[i] = IF i = 1 THEN ss[i] ELSE g[i - 1] \o ss[i]
<1> DEFINE F(j) == IF j = 1 THEN ss[j] ELSE g[j - 1] \o ss[j]
<1>1. g = [j \in 1..n |-> F(j)]
  BY Zenon DEF IsFlattening
<1> HIDE DEF F
<1>2. g[i] = F(i)
  BY <1>1
<1> QED BY <1>2 DEF F

LEMMA FlatteningExists ==
    ASSUME NEW ss, NEW n \in Nat
    PROVE  \E g : IsFlattening(g, ss, n)
<1> DEFINE G == {m \in 0..n : \E g : IsFlattening(g, ss, m)}
<1>1. 0 \in G
  <2>1. IsFlattening([i \in 1..0 |-> 0], ss, 0)
    BY DEF IsFlattening
  <2> QED BY <2>1
<1>2. ASSUME NEW m \in 0..n, m \in G, m < n PROVE m + 1 \in G
  <2>1. PICK g : IsFlattening(g, ss, m)
    BY <1>2
  <2> DEFINE h == [i \in 1..(m + 1) |->
                     IF i = m + 1 THEN IF i = 1 THEN ss[i] ELSE g[i - 1] \o ss[i] ELSE g[i]]
  <2>2. \A i \in 1..m : h[i] = g[i] /\ g[i] = IF i = 1 THEN ss[i] ELSE g[i - 1] \o ss[i]
    <3>1. \A i \in 1..m : g[i] = IF i = 1 THEN ss[i] ELSE g[i - 1] \o ss[i]
      BY <2>1, FlatteningSteps
    <3>2. \A i \in 1..m : h[i] = g[i]
      OBVIOUS
    <3> QED BY <3>1, <3>2
  <2>3. h[m + 1] = IF m + 1 = 1 THEN ss[m + 1] ELSE g[m + 1 - 1] \o ss[m + 1]
    OBVIOUS
  <2>4. ASSUME NEW i \in 1..(m + 1) PROVE h[i] = IF i = 1 THEN ss[i] ELSE h[i - 1] \o ss[i]
    <3>1. i # 1 => i - 1 \in 1..m
      OBVIOUS
    <3>2. i # m + 1 => i \in 1..m
      OBVIOUS
    <3> HIDE DEF h
    <3> QED BY <2>2, <2>3, <3>1, <3>2
  <2>5. h = [i \in 1..(m + 1) |-> h[i]]
    OBVIOUS
  <2> HIDE DEF h
  <2>6. h = [i \in 1..(m + 1) |-> IF i = 1 THEN ss[i] ELSE h[i - 1] \o ss[i]]
    BY <2>4, <2>5
  <2>7. IsFlattening(h, ss, m + 1)
    BY <2>6 DEF IsFlattening
  <2>8. m + 1 \in 0..n
    BY <1>2
  <2> QED BY <2>7, <2>8
<1> HIDE DEF G
<1>3. n \in G
  BY <1>1, <1>2, UpTo
<1> QED BY <1>3 DEF G

LEMMA FlattenLists ==
    ASSUME NEW n \in Nat, NEW ss, ss = [i \in 1..n |-> ss[i]], \A i \in 1..n : IsList(ss[i])
    PROVE  /\ IsList(FlattenSeq(ss))
           /\ Range(FlattenSeq(ss)) = UNION {Range(ss[i]) : i \in 1..n}
<1>1. Len(ss) = n /\ IsList(ss)
  BY FunctionIsList
<1>2. CASE n = 0
  <2>1. FlattenSeq(ss) = ss
    BY <1>1, <1>2 DEF FlattenSeq
  <2>2. DOMAIN ss = {}
    BY <1>1, <1>2, ListLength
  <2> QED BY <1>1, <1>2, <2>1, <2>2 DEF Range
<1>3. CASE n # 0
  <2> DEFINE g == CHOOSE h : IsFlattening(h, ss, n)
  <2>1. IsFlattening(g, ss, n)
    BY FlatteningExists
  <2>2. FlattenSeq(ss) = g[n]
    BY <1>1, <1>3 DEF FlattenSeq, IsFlattening
  <2> HIDE DEF g
  <2> DEFINE H == {m \in 0..n : m = 0 \/ /\ IsList(g[m])
                                         /\ Range(g[m]) = UNION {Range(ss[i]) : i \in 1..m}}
  <2>3. 0 \in H
    OBVIOUS
  <2>4. ASSUME NEW m \in 0..n, m \in H, m < n PROVE m + 1 \in H
    <3>1. m + 1 \in 1..n
      BY <2>4
    <3>2. g[m + 1] = IF m + 1 = 1 THEN ss[m + 1] ELSE g[m] \o ss[m + 1]
      <4>1. m + 1 - 1 = m
        OBVIOUS
      <4>2. g[m + 1] = IF m + 1 = 1 THEN ss[m + 1] ELSE g[m + 1 - 1] \o ss[m + 1]
        BY <2>1, <3>1, FlatteningSteps
      <4> QED BY <4>1, <4>2
    <3>3. 1..(m + 1) = (1..m) \cup {m + 1}
      OBVIOUS
    <3>4. UNION {Range(ss[i]) : i \in 1..(m + 1)} =
            (UNION {Range(ss[i]) : i \in 1..m}) \cup Range(ss[m + 1])
      BY <3>3
    <3>5. CASE m = 0
      <4>1. UNION {Range(ss[i]) : i \in 1..m} = {}
        BY <3>5
      <4> QED BY <3>1, <3>2, <3>4, <3>5, <4>1
    <3>6. CASE m # 0
      <4>1. IsList(g[m]) /\ Range(g[m]) = UNION {Range(ss[i]) : i \in 1..m}
        BY <2>4, <3>6
      <4>2. g[m + 1] = g[m] \o ss[m + 1] /\ IsList(ss[m + 1])
        <5>1. m + 1 # 1
          BY <3>6
        <5> QED BY <3>1, <3>2, <5>1, Zenon
      <4>3. IsList(g[m + 1]) /\ Range(g[m + 1]) = Range(g[m]) \cup Range(ss[m + 1])
        BY <4>1, <4>2, JoinLists
      <4> QED BY <3>1, <3>4, <4>1, <4>3
    <3> QED BY <3>5, <3>6
  <2> HIDE DEF H
  <2>5. n \in H
    BY <2>3, <2>4, UpTo
  <2> QED BY <1>3, <2>2, <2>5 DEF H
<1> QED BY <1>2, <1>3

LEMMA ShortLists ==
    /\ IsList(<<>>) /\ Range(<<>>) = {}
    /\ \A a : IsList(<<a>>) /\ Range(<<a>>) = {a}
    /\ \A a, b : IsList(<<a, b>>) /\ Range(<<a, b>>) = {a, b}
BY DEF IsList, Range

LEMMA SetAsList ==
    ASSUME NEW S, IsFiniteSet(S)
    PROVE  IsList(SetToSeq(S)) /\ Range(SetToSeq(S)) = S
<1>1. PICK n, s : n = Cardinality(S) /\ s = SetToSeq(S)
  OBVIOUS
<1>2. n \in Nat /\ s \in [1..n -> S] /\ Range(s) = S
  BY <1>1, ListedSet
<1>3. s = [i \in 1..n |-> s[i]]
  BY <1>2
<1>4. IsList(s)
  BY <1>2, <1>3, FunctionIsList
<1> QED BY <1>1, <1>2, <1>4

\* What is taken of each element of a list is a list.
LEMMA MappedList ==
    ASSUME NEW s, IsList(s), NEW t, t = [i \in DOMAIN s |-> t[i]]
    PROVE  IsList(t)
<1>1. Len(s) \in Nat /\ DOMAIN s = 1..Len(s)
  BY ListLength
<1> QED BY <1>1, FunctionIsList

\* The lists of the places of a list one after the other.
LEMMA WalkList ==
    ASSUME NEW s, IsList(s), NEW ss, ss = [i \in DOMAIN s |-> ss[i]],
           \A i \in DOMAIN s : IsList(ss[i])
    PROVE  /\ IsList(FlattenSeq(ss))
           /\ Range(FlattenSeq(ss)) = UNION {Range(ss[i]) : i \in DOMAIN s}
<1>1. Len(s) \in Nat /\ DOMAIN s = 1..Len(s)
  BY ListLength
<1>2. PICK n \in Nat : DOMAIN s = 1..n
  BY <1>1
<1>3. ss = [i \in 1..n |-> ss[i]] /\ \A i \in 1..n : IsList(ss[i])
  BY <1>2
<1>4. /\ IsList(FlattenSeq(ss))
      /\ Range(FlattenSeq(ss)) = UNION {Range(ss[i]) : i \in 1..n}
  BY <1>3, FlattenLists
<1> QED BY <1>2, <1>4

\* A fact as an extractor gives it, before its ordinal is known.
IsObservation(o) ==
    o = Observation(o.observed_kind, o.subject_kind, o.subject, o.referent_text, o.evidence)

\* What the extractor hands over is what it found inside the file.
LEMMA OrdinalsTell ==
    ASSUME NEW os
    PROVE  /\ \A x \in AssignOrdinals(InFile(os)) : \E o \in Range(os) : \E n :
                ValidSpan(o.evidence) /\ x = [o EXCEPT !.ordinal = n]
           /\ \A o \in Range(os) : ValidSpan(o.evidence) =>
                \E x \in AssignOrdinals(InFile(os)) : \E n : x = [o EXCEPT !.ordinal = n]
<1> DEFINE D == {i \in DOMAIN os : ValidSpan(os[i].evidence)}
           number(i) == Cardinality({j \in DOMAIN InFile(os) : j <= i /\ InFile(os)[j] = InFile(os)[i]})
<1>1. DOMAIN InFile(os) = D /\ \A i \in D : InFile(os)[i] = os[i]
  BY DEF InFile, Restrict
<1>2. AssignOrdinals(InFile(os)) =
        {[InFile(os)[i] EXCEPT !.ordinal = number(i)] : i \in DOMAIN InFile(os)}
  BY DEF AssignOrdinals
<1> HIDE DEF number
<1>3. AssignOrdinals(InFile(os)) = {[os[i] EXCEPT !.ordinal = number(i)] : i \in D}
  BY <1>1, <1>2
<1>4. ASSUME NEW x \in AssignOrdinals(InFile(os))
      PROVE  \E o \in Range(os) : \E n : ValidSpan(o.evidence) /\ x = [o EXCEPT !.ordinal = n]
  <2>1. PICK i \in D : x = [os[i] EXCEPT !.ordinal = number(i)]
    BY <1>3
  <2> QED BY <2>1 DEF Range
<1>5. ASSUME NEW o \in Range(os), ValidSpan(o.evidence)
      PROVE  \E x \in AssignOrdinals(InFile(os)) : \E n : x = [o EXCEPT !.ordinal = n]
  <2>1. PICK i \in D : o = os[i]
    BY <1>5 DEF Range
  <2>2. [o EXCEPT !.ordinal = number(i)] \in AssignOrdinals(InFile(os))
    BY <1>3, <2>1
  <2> QED BY <2>2
<1> QED BY <1>4, <1>5

-----------------------------------------------------------------------------
(* What a file imports, and what else its extractor observes               *)

ImportKinds == {"import", "import_binding"}

\* A place in f
Within(f, e) == e = Evidence(f, e.start_line, e.end_line, e.granularity, e.extractor)

\* An observation of f that is no import of a Python file.
Aside(f, o) ==
    /\ IsObservation(o) /\ Within(f, o.evidence)
    /\ o.observed_kind \in ImportKinds =>
          Last(f.path) # ".py" /\ o.subject_kind = "file" /\ o.subject = FileKey(f.path)

Asides(f, os) == IsList(os) /\ \A o \in Range(os) : Aside(f, o)

LEMMA AsideFact ==
    ASSUME NEW f, NEW kind, kind \notin ImportKinds, NEW subjectKind, NEW subject, NEW referent,
           NEW start, NEW end, NEW producer
    PROVE  Aside(f, Observation(kind, subjectKind, subject, referent, Span(f, start, end, producer)))
<1> DEFINE e == Span(f, start, end, producer)
<1>1. Within(f, e)
  BY DEF Within, Span, Evidence
<1> HIDE DEF e
<1>2. PICK o : o = Observation(kind, subjectKind, subject, referent, e)
  OBVIOUS
<1>3. IsObservation(o) /\ o.evidence = e /\ o.observed_kind = kind
  BY <1>2 DEF IsObservation, Observation
<1> QED BY <1>1, <1>2, <1>3 DEF Aside, e

LEMMA JoinAsides ==
    ASSUME NEW f, NEW a, NEW b, Asides(f, a), Asides(f, b)
    PROVE  Asides(f, a \o b)
BY JoinLists DEF Asides

LEMMA ShortAsides ==
    ASSUME NEW f
    PROVE  /\ Asides(f, <<>>)
           /\ \A a : Aside(f, a) => Asides(f, <<a>>)
           /\ \A a, b : Aside(f, a) /\ Aside(f, b) => Asides(f, <<a, b>>)
BY ShortLists DEF Asides

LEMMA MappedAsides ==
    ASSUME NEW f, NEW s, IsList(s), NEW t, t = [i \in DOMAIN s |-> t[i]],
           \A i \in DOMAIN s : Aside(f, t[i])
    PROVE  Asides(f, t)
<1>1. IsList(t)
  BY MappedList
<1>2. Range(t) = {t[i] : i \in DOMAIN s}
  BY DEF Range
<1> QED BY <1>1, <1>2 DEF Asides

LEMMA WalkAsides ==
    ASSUME NEW f, NEW s, IsList(s), NEW ss, ss = [i \in DOMAIN s |-> ss[i]],
           \A i \in DOMAIN s : Asides(f, ss[i])
    PROVE  Asides(f, FlattenSeq(ss))
BY WalkList DEF Asides

\* A nonempty set of places in a list has a last one.
LEMMA LastPlace ==
    ASSUME NEW n \in Nat, NEW S, S \subseteq 1..n, S # {}
    PROVE  \E i \in S : \A j \in S : j <= i
<1> DEFINE T == {n - i : i \in S}
<1>0. \A i \in 1..n : n - i \in Nat
  OBVIOUS
<1>1. T \subseteq Nat /\ T # {}
  BY <1>0
<1>2. PICK x \in T : \A y \in T : x <= y
  <2> HIDE DEF T
  <2> QED BY <1>1, Least
<1>3. PICK i \in S : x = n - i
  OBVIOUS
<1>4. \A j \in S : n - i <= n - j
  BY <1>2, <1>3
<1> QED BY <1>4

PythonFile(f) == f \in SourceFiles /\ Last(f.path) = ".py"

LEMMA PythonBody ==
    ASSUME NEW f, PythonFile(f)
    PROVE  /\ IsList(f.body) /\ f.lines \in Nat
           /\ \A i \in DOMAIN f.body : PythonStatement(f.body[i]) /\ f.body[i].line \in Nat
BY RepositoriesAssumption DEF PythonFile, Range

\* The guards of a router are those its last assignment lists.
LEMMA RouterGuardsList ==
    ASSUME NEW f, PythonFile(f), NEW router
    PROVE  IsList(RouterGuards(f, router))
<1> DEFINE made == {i \in DOMAIN f.body :
                     /\ f.body[i].kind = "assign" /\ f.body[i].scope = 0 /\ ~f.body[i].block
                     /\ f.body[i].targets = {router}
                     /\ f.body[i].value.name \in {"APIRouter", "FastAPI"}
                     /\ f.body[i].guards # <<>>}
           last == CHOOSE i \in made : \A j \in made : j <= i
<1>1. RouterGuards(f, router) = IF made = {} THEN <<>> ELSE f.body[last].guards
  BY DEF RouterGuards
<1>2. \A i \in made : IsList(f.body[i].guards)
  BY PythonBody DEF PythonStatement
<1>3. made # {} => last \in made
  <2>1. Len(f.body) \in Nat /\ made \subseteq 1..Len(f.body)
    BY PythonBody, ListLength
  <2> HIDE DEF made
  <2>2. made # {} => \E i \in made : \A j \in made : j <= i
    BY <2>1, LastPlace
  <2> QED BY <2>2
<1> HIDE DEF made, last
<1> QED BY <1>1, <1>2, <1>3, ShortLists

LEMMA VisitedKind ==
    ASSUME NEW f, NEW i, Visited(f, i)
    PROVE  f.body[i].kind \in {"def", "class"}
BY DEF Visited

LEMMA GuardsFinite ==
    ASSUME NEW f, PythonFile(f), NEW i \in DOMAIN f.body, Visited(f, i)
    PROVE  IsFiniteSet(Guards(f, i))
<1> DEFINE D == {x \in Range(f.body[i].decorators) : IsRoute(x)}
           gs(d) == Range(d.guards) \cup Range(RouterGuards(f, d.recv))
           of(d) == {<<g.name, g.line>> : g \in gs(d)}
           all == {of(d) : d \in D}
<1>1. IsList(f.body[i].decorators) /\ \A d \in D : IsList(d.guards)
  BY VisitedKind, PythonBody DEF PythonStatement
<1>2. IsFiniteSet(D)
  <2>1. IsFiniteSet(Range(f.body[i].decorators))
    BY <1>1, RangeFinite DEF IsList
  <2> QED BY <2>1, FS_Subset
<1>3. ASSUME NEW d \in D PROVE IsFiniteSet(of(d))
  <2>1. IsFiniteSet(Range(d.guards)) /\ IsFiniteSet(Range(RouterGuards(f, d.recv)))
    BY <1>1, RouterGuardsList, RangeFinite DEF IsList
  <2>2. IsFiniteSet(gs(d))
    BY <2>1, FS_Union
  <2> DEFINE h == [g \in gs(d) |-> <<g.name, g.line>>]
  <2>3. h \in [gs(d) -> of(d)] /\ \A t \in of(d) : \E g \in gs(d) : t = h[g]
    OBVIOUS
  <2> HIDE DEF h, of, gs, D
  <2> QED BY <2>2, <2>3, ImageFinite
<1> DEFINE h == [d \in D |-> of(d)]
<1>4. h \in [D -> all] /\ \A t \in all : \E d \in D : t = h[d]
  OBVIOUS
<1>5. \A t \in all : IsFiniteSet(t)
  BY <1>3
<1>6. Guards(f, i) = UNION all
  BY Zenon DEF Guards
<1> HIDE DEF h, all, of, D
<1>7. IsFiniteSet(all)
  BY <1>2, <1>4, ImageFinite
<1> QED BY <1>5, <1>6, <1>7, FS_UNION

LEMMA SymbolAsides ==
    ASSUME NEW f, PythonFile(f), NEW i \in DOMAIN f.body
    PROVE  Asides(f, SymbolObservations(f, i))
<1> DEFINE st == f.body[i]
           definition == Observation("definition", "symbol", SymbolOf(f, i), NoReferent, At(f, st))
           decorator(d) == Observation("decorator", "symbol", SymbolOf(f, i), [name |-> d.name],
                                       DecoratorAt(f, d))
           decorated == [k \in DOMAIN st.decorators |-> decorator(st.decorators[k])]
           more == IF ValidSpan(At(f, st)) THEN decorated \o GuardObservations(f, i) ELSE <<>>
<1>1. SymbolObservations(f, i) = IF ~Visited(f, i) THEN <<>> ELSE <<definition>> \o more
  BY Zenon DEF SymbolObservations
<1>2. "definition" \notin ImportKinds /\ "decorator" \notin ImportKinds /\ "injects" \notin ImportKinds
  BY DEF ImportKinds
<1>3. Aside(f, definition) /\ \A d : Aside(f, decorator(d))
  BY <1>2, AsideFact DEF At, DecoratorAt
<1>4. ASSUME Visited(f, i) PROVE Asides(f, decorated)
  <2>1. IsList(st.decorators)
    BY <1>4, VisitedKind, PythonBody DEF PythonStatement
  <2>2. decorated = [k \in DOMAIN st.decorators |-> decorated[k]]
        /\ \A k \in DOMAIN st.decorators : Aside(f, decorated[k])
    <3> HIDE DEF decorator
    <3> QED BY <1>3
  <2> HIDE DEF decorated
  <2> QED BY <2>1, <2>2, MappedAsides
<1>5. ASSUME Visited(f, i) PROVE Asides(f, GuardObservations(f, i))
  <2> DEFINE guard(g) == Observation("injects", "symbol", SymbolOf(f, i), [name |-> g[1]],
                                     Span(f, g[2], g[2], Python))
             S == {guard(g) : g \in Guards(f, i)}
             h == [g \in Guards(f, i) |-> guard(g)]
  <2>1. h \in [Guards(f, i) -> S] /\ \A t \in S : \E g \in Guards(f, i) : t = h[g]
    OBVIOUS
  <2>2. \A g : Aside(f, guard(g))
    BY <1>2, AsideFact
  <2>3. GuardObservations(f, i) = SetToSeq(S)
    BY Zenon DEF GuardObservations
  <2> HIDE DEF guard, h
  <2>4. \A o \in S : Aside(f, o)
    BY <2>2
  <2> HIDE DEF S
  <2>5. IsFiniteSet(S)
    BY <1>5, <2>1, GuardsFinite, ImageFinite
  <2> QED BY <2>3, <2>4, <2>5, SetAsList DEF Asides
<1> HIDE DEF definition, decorated
<1>6. Visited(f, i) => Asides(f, more)
  BY <1>4, <1>5, JoinAsides, ShortAsides
<1> HIDE DEF more
<1>7. Visited(f, i) => Asides(f, <<definition>> \o more)
  BY <1>3, <1>6, JoinAsides, ShortAsides
<1> QED BY <1>1, <1>7, ShortAsides

LEMMA CallAsides ==
    ASSUME NEW f, PythonFile(f), NEW i \in DOMAIN f.body
    PROVE  Asides(f, CallsOf(f, i))
<1> DEFINE st == f.body[i]
           observed(kind, name) == Observation(kind, "module", ModuleKey(f.path),
                                               [name |-> name], At(f, st))
           shadowed == IF Shadowed(f, i) THEN <<observed("call_shadowed", st.name)>> ELSE <<>>
           all == [k \in DOMAIN st.args |-> observed("injects", st.args[k])]
           injected == IF st.name = "Depends" THEN all ELSE <<>>
<1>1. CallsOf(f, i) = IF ~Emitted(f, i) THEN <<>>
                      ELSE <<observed("call", st.name)>> \o shadowed \o injected
  BY Zenon DEF CallsOf
<1>2. \A kind \in {"call", "call_shadowed", "injects"} : \A name : Aside(f, observed(kind, name))
  BY AsideFact DEF At, ImportKinds
<1> HIDE DEF observed
<1>3. ASSUME Emitted(f, i) PROVE Asides(f, all)
  <2>1. IsList(st.args)
    BY <1>3, PythonBody DEF Emitted, PythonStatement
  <2>2. all = [k \in DOMAIN st.args |-> all[k]] /\ \A k \in DOMAIN st.args : Aside(f, all[k])
    BY <1>2
  <2> HIDE DEF all
  <2> QED BY <2>1, <2>2, MappedAsides
<1> HIDE DEF all
<1>4. Asides(f, <<observed("call", st.name)>>) /\ Asides(f, shadowed)
  BY <1>2, ShortAsides
<1>5. Emitted(f, i) => Asides(f, injected)
  BY <1>3, ShortAsides
<1> HIDE DEF shadowed, injected
<1>6. Emitted(f, i) => Asides(f, <<observed("call", st.name)>> \o shadowed \o injected)
  BY <1>4, <1>5, JoinAsides
<1> QED BY <1>1, <1>6, ShortAsides

LEMMA ServiceAsides ==
    ASSUME NEW f, PythonFile(f)
    PROVE  Asides(f, ServiceInteractions(f).observations)
<1> DEFINE scan == ServiceScan(f)
           found == [i \in DOMAIN f.body |->
                       IF f.body[i].kind = "call" /\ ~f.body[i].signature
                       THEN ServiceCall(f, scan[i - 1], f.body[i]) ELSE Nothing]
           os == [i \in DOMAIN f.body |-> found[i].observations]
<1>1. ServiceInteractions(f).observations = FlattenSeq(os)
  BY DEF ServiceInteractions, Result
<1>2. Asides(f, Nothing.observations) /\ \A ns, ds : Asides(f, Result(ns, <<>>, ds).observations)
  BY ShortAsides DEF Nothing, Result
<1>3. ASSUME NEW st PROVE Asides(f, ClientCall(f, st).observations)
  <2> DEFINE o == Observation("http_call", "module", ModuleKey(f.path),
                              DestinationReferent(RequestMethod(st), st.url), At(f, st))
  <2>1. Aside(f, o)
    BY AsideFact DEF At, ImportKinds
  <2> DEFINE span == <<st.line, st.end>>
             reason == IF st.url.form = "literal" THEN "no absolute url" ELSE "dynamic destination"
             computed == Result({}, <<>>, {Unsupported(f, "computed method", span, Python)})
             unproved == Result({}, <<>>, {Unsupported(f, reason, span, Python)})
             called == Result({ServiceNode(At(f, st), st.url)}, <<o>>, {})
  <2>2. ClientCall(f, st) \in {Nothing, computed, called, unproved}
    BY DEF ClientCall
  <2>3. Asides(f, computed.observations) /\ Asides(f, unproved.observations)
    BY <1>2, Zenon
  <2>4. Asides(f, called.observations)
    <3> HIDE DEF o
    <3> QED BY <2>1, ShortAsides DEF Result
  <2> HIDE DEF computed, unproved, called
  <2> QED BY <1>2, <2>2, <2>3, <2>4
<1>4. ASSUME NEW s, NEW st PROVE Asides(f, ServiceCall(f, s, st).observations)
  <2> DEFINE flagged(message) ==
               Result({}, <<>>, {Unsupported(f, message, <<st.line, st.end>>, Python)})
  <2>1. ServiceCall(f, s, st) \in {Nothing, ClientCall(f, st), flagged("bare client function"),
                                   flagged("client name shadowed")}
    BY DEF ServiceCall
  <2>2. \A message : Asides(f, flagged(message).observations)
    BY <1>2, Zenon
  <2>3. \A r \in {Nothing, ClientCall(f, st), flagged("bare client function"),
                  flagged("client name shadowed")} : Asides(f, r.observations)
    BY <1>2, <1>3, <2>2, Zenon
  <2> QED BY <2>1, <2>3, Zenon
<1>5. \A i \in DOMAIN f.body : Asides(f, os[i])
  BY <1>2, <1>4
<1>6. os = [i \in DOMAIN f.body |-> os[i]]
  OBVIOUS
<1> HIDE DEF os
<1> QED BY <1>1, <1>5, <1>6, PythonBody, WalkAsides

LEMMA RoutesList ==
    ASSUME NEW f, PythonFile(f)
    PROVE  IsList(Routes(f))
<1> DEFINE route(i, d) == IF IsRoute(d) /\ ValidSpan(DecoratorAt(f, d)) THEN <<<<i, d>>>> ELSE <<>>
           marks(i) == [k \in DOMAIN f.body[i].decorators |-> route(i, f.body[i].decorators[k])]
           of(i) == FlattenSeq(marks(i))
           ss == [i \in DOMAIN f.body |->
                    IF Visited(f, i) /\ ValidSpan(At(f, f.body[i])) THEN of(i) ELSE <<>>]
<1>1. Routes(f) = FlattenSeq(ss)
  BY Zenon DEF Routes
<1>2. \A i, d : IsList(route(i, d))
  BY ShortLists, Zenon
<1>3. ASSUME NEW i \in DOMAIN f.body, Visited(f, i) PROVE IsList(of(i))
  <2>1. IsList(f.body[i].decorators)
    BY <1>3, VisitedKind, PythonBody DEF PythonStatement
  <2> HIDE DEF route
  <2>2. /\ marks(i) = [k \in DOMAIN f.body[i].decorators |-> marks(i)[k]]
        /\ \A k \in DOMAIN f.body[i].decorators : IsList(marks(i)[k])
    BY <1>2
  <2> HIDE DEF marks
  <2> QED BY <2>1, <2>2, WalkList
<1> HIDE DEF of
<1>4. ss = [i \in DOMAIN f.body |-> ss[i]] /\ \A i \in DOMAIN f.body : IsList(ss[i])
  BY <1>3, ShortLists
<1> HIDE DEF ss
<1> QED BY <1>1, <1>4, PythonBody, WalkList

LEMMA RouteAsides ==
    ASSUME NEW f, PythonFile(f)
    PROVE  Asides(f, RouteFacts(f).observations)
<1> DEFINE at(k) == DecoratorAt(f, Routes(f)[k][2])
           told(k) == Observation("route", "symbol", RouteKey(f, k),
                                  [route |-> Routes(f)[k][2].route], at(k))
           handled(k) == Observation("route_handler", "symbol", RouteKey(f, k),
                                     [handler |-> SymbolOf(f, Routes(f)[k][1])], at(k))
           ss == [k \in DOMAIN Routes(f) |-> <<told(k), handled(k)>>]
<1>1. RouteFacts(f).observations = FlattenSeq(ss)
  BY DEF RouteFacts
<1>2. \A k : Aside(f, told(k)) /\ Aside(f, handled(k))
  BY AsideFact DEF DecoratorAt, ImportKinds
<1> HIDE DEF told, handled
<1>3. ss = [k \in DOMAIN Routes(f) |-> ss[k]] /\ \A k \in DOMAIN Routes(f) : Asides(f, ss[k])
  BY <1>2, ShortAsides
<1> HIDE DEF ss
<1> QED BY <1>1, <1>3, RoutesList, WalkAsides

\* A statement that imports, and one whose import binds a name of the module.
Importing(st) == st.kind = "import" \/ (st.kind = "from" /\ st.name # "*")

Binding(st) == st.kind = "from" /\ st.name # "*" /\ st.scope = 0 /\ ~st.block

Level(st) == IF st.kind = "import" THEN 0 ELSE st.level

ImportAt(f, st) ==
    Observation("import", "module", ModuleKey(f.path), [spec |-> Specifier(Level(st), Dotted(st))],
                At(f, st))

BindingAt(f, st) ==
    Observation("import_binding", "module", ModuleKey(f.path),
                [spec |-> Specifier(st.level, st.parts), imported |-> st.name, local |-> st.local],
                At(f, st))

LEMMA ImportsListed ==
    ASSUME NEW f, NEW i, NEW st, st = f.body[i]
    PROVE  /\ IsList(ImportsOf(f, i))
           /\ Range(ImportsOf(f, i)) = (IF Importing(st) THEN {ImportAt(f, st)} ELSE {})
                                         \cup (IF Binding(st) THEN {BindingAt(f, st)} ELSE {})
<1> DEFINE bound == IF st.scope = 0 /\ ~st.block THEN <<BindingAt(f, st)>> ELSE <<>>
<1>1. CASE st.kind = "import"
  <2>1. ImportsOf(f, i) = <<ImportAt(f, st)>>
    BY <1>1 DEF ImportsOf, ImportAt, Level, Dotted
  <2> QED BY <1>1, <2>1, ShortLists DEF Importing, Binding
<1>2. CASE st.kind = "from" /\ st.name # "*"
  <2>1. ImportsOf(f, i) = <<ImportAt(f, st)>> \o bound
    BY <1>2 DEF ImportsOf, ImportAt, BindingAt, Level, Dotted
  <2>2. IsList(<<ImportAt(f, st)>>) /\ Range(<<ImportAt(f, st)>>) = {ImportAt(f, st)}
    BY ShortLists
  <2>3. IsList(bound) /\ Range(bound) = IF Binding(st) THEN {BindingAt(f, st)} ELSE {}
    BY <1>2, ShortLists DEF Binding
  <2> HIDE DEF bound
  <2> QED BY <1>2, <2>1, <2>2, <2>3, JoinLists DEF Importing
<1>3. CASE st.kind # "import" /\ ~(st.kind = "from" /\ st.name # "*")
  <2>1. ImportsOf(f, i) = <<>>
    BY <1>3 DEF ImportsOf
  <2> QED BY <1>3, <2>1, ShortLists DEF Importing, Binding
<1> QED BY <1>1, <1>2, <1>3

\* What the extractor finds in a Python file: imports, bindings and the rest.
Finds(f, o) ==
    \/ Aside(f, o)
    \/ \E i \in DOMAIN f.body : LET st == f.body[i] IN
         \/ Importing(st) /\ o = ImportAt(f, st)
         \/ Binding(st) /\ o = BindingAt(f, st)

PythonObservations(f) ==
    FlattenSeq([i \in DOMAIN f.body |-> ImportsOf(f, i)])
        \o FlattenSeq([i \in DOMAIN f.body |-> SymbolObservations(f, i)])
        \o RouteFacts(f).observations
        \o FlattenSeq([i \in DOMAIN f.body |-> CallsOf(f, i)])
        \o ServiceInteractions(f).observations

LEMMA PythonFinds ==
    ASSUME NEW f, PythonFile(f)
    PROVE  /\ \A o \in Range(PythonObservations(f)) : Finds(f, o)
           /\ \A i \in DOMAIN f.body : Binding(f.body[i]) =>
                BindingAt(f, f.body[i]) \in Range(PythonObservations(f))
<1> DEFINE imports == [i \in DOMAIN f.body |-> ImportsOf(f, i)]
           symbols == [i \in DOMAIN f.body |-> SymbolObservations(f, i)]
           calls == [i \in DOMAIN f.body |-> CallsOf(f, i)]
<1>0. IsList(f.body)
  BY PythonBody
<1>1. /\ IsList(FlattenSeq(imports))
      /\ Range(FlattenSeq(imports)) = UNION {Range(ImportsOf(f, i)) : i \in DOMAIN f.body}
  <2>1. imports = [i \in DOMAIN f.body |-> imports[i]]
        /\ \A i \in DOMAIN f.body : IsList(imports[i]) /\ imports[i] = ImportsOf(f, i)
    BY ImportsListed
  <2>2. UNION {Range(ImportsOf(f, i)) : i \in DOMAIN f.body} = UNION {Range(imports[i]) : i \in DOMAIN f.body}
    BY <2>1
  <2> HIDE DEF imports
  <2> QED BY <1>0, <2>1, <2>2, WalkList
<1>2. Asides(f, FlattenSeq(symbols))
  <2>1. symbols = [i \in DOMAIN f.body |-> symbols[i]] /\ \A i \in DOMAIN f.body : Asides(f, symbols[i])
    BY SymbolAsides
  <2> HIDE DEF symbols
  <2> QED BY <1>0, <2>1, WalkAsides
<1>3. Asides(f, FlattenSeq(calls))
  <2>1. calls = [i \in DOMAIN f.body |-> calls[i]] /\ \A i \in DOMAIN f.body : Asides(f, calls[i])
    BY CallAsides
  <2> HIDE DEF calls
  <2> QED BY <1>0, <2>1, WalkAsides
<1>4. PICK a, b, c, d, e : /\ a = FlattenSeq(imports) /\ b = FlattenSeq(symbols)
                           /\ c = RouteFacts(f).observations /\ d = FlattenSeq(calls)
                           /\ e = ServiceInteractions(f).observations
  OBVIOUS
<1>5. PythonObservations(f) = a \o b \o c \o d \o e
  BY <1>4, Zenon DEF PythonObservations
<1>6. Asides(f, b) /\ Asides(f, c) /\ Asides(f, d) /\ Asides(f, e)
  BY <1>2, <1>3, <1>4, RouteAsides, ServiceAsides
<1>7. IsList(a) /\ Range(a) = UNION {Range(ImportsOf(f, i)) : i \in DOMAIN f.body}
  BY <1>1, <1>4
<1> HIDE DEF imports, symbols, calls
<1>8. Range(PythonObservations(f)) = Range(a) \cup Range(b) \cup Range(c) \cup Range(d) \cup Range(e)
  <2>1. IsList(b) /\ IsList(c) /\ IsList(d) /\ IsList(e)
    BY <1>6 DEF Asides
  <2>2. IsList(a \o b) /\ Range(a \o b) = Range(a) \cup Range(b)
    BY <1>7, <2>1, JoinLists
  <2>3. IsList(a \o b \o c) /\ Range(a \o b \o c) = Range(a \o b) \cup Range(c)
    BY <2>1, <2>2, JoinLists
  <2>4. IsList(a \o b \o c \o d) /\ Range(a \o b \o c \o d) = Range(a \o b \o c) \cup Range(d)
    BY <2>1, <2>3, JoinLists
  <2>5. Range(a \o b \o c \o d \o e) = Range(a \o b \o c \o d) \cup Range(e)
    BY <2>1, <2>4, JoinLists
  <2> QED BY <1>5, <2>2, <2>3, <2>4, <2>5
<1>9. ASSUME NEW o \in Range(a) PROVE Finds(f, o)
  <2>1. PICK i \in DOMAIN f.body : o \in Range(ImportsOf(f, i))
    BY <1>7
  <2> QED BY <2>1, ImportsListed DEF Finds
<1>10. \A i \in DOMAIN f.body : Binding(f.body[i]) => BindingAt(f, f.body[i]) \in Range(a)
  BY <1>7, ImportsListed
<1>11. ASSUME NEW o \in Range(PythonObservations(f)) PROVE Finds(f, o)
  BY <1>6, <1>8, <1>9 DEF Asides, Finds
<1> QED BY <1>8, <1>10, <1>11

LEMMA PythonObserves ==
    ASSUME NEW f, PythonFile(f), NEW x \in PythonExtract(f).observations
    PROVE  /\ \E o, n : Finds(f, o) /\ ValidSpan(o.evidence) /\ x = [o EXCEPT !.ordinal = n]
           /\ \A i \in DOMAIN f.body : Binding(f.body[i]) /\ ValidSpan(At(f, f.body[i])) =>
                \E n : [BindingAt(f, f.body[i]) EXCEPT !.ordinal = n] \in PythonExtract(f).observations
<1> DEFINE os == PythonObservations(f)
<1>1. PythonFacts(f).observations = AssignOrdinals(InFile(os))
  BY Zenon DEF PythonFacts, Built, PythonObservations
<1>2. PythonExtract(f).observations = AssignOrdinals(InFile(os))
  BY <1>1 DEF PythonExtract, Result
<1> HIDE DEF os
<1>3. PICK o, n : o \in Range(os) /\ ValidSpan(o.evidence) /\ x = [o EXCEPT !.ordinal = n]
  BY <1>2, OrdinalsTell
<1>4. Finds(f, o)
  BY <1>3, PythonFinds DEF os
<1>5. ASSUME NEW i \in DOMAIN f.body, Binding(f.body[i]), ValidSpan(At(f, f.body[i]))
      PROVE  \E m : [BindingAt(f, f.body[i]) EXCEPT !.ordinal = m] \in PythonExtract(f).observations
  <2>1. PICK b : b = BindingAt(f, f.body[i])
    OBVIOUS
  <2>2. b \in Range(os) /\ b.evidence = At(f, f.body[i])
    BY <1>5, <2>1, PythonFinds DEF os, BindingAt, Observation
  <2>3. PICK y, m : y \in AssignOrdinals(InFile(os)) /\ y = [b EXCEPT !.ordinal = m]
    BY <1>5, <2>2, OrdinalsTell
  <2> QED BY <1>2, <2>1, <2>3
<1> QED BY <1>3, <1>4, <1>5

LEMMA FromFileAside ==
    ASSUME NEW f, Last(f.path) # ".py", NEW kind, NEW referent, NEW start, NEW end, NEW producer
    PROVE  Aside(f, FromFile(f, kind, referent, Span(f, start, end, producer)))
<1> DEFINE e == Span(f, start, end, producer)
<1>1. Within(f, e)
  BY DEF Within, Span, Evidence
<1> HIDE DEF e
<1>2. PICK o : o = Observation(kind, "file", FileKey(f.path), referent, e)
  OBVIOUS
<1>3. /\ IsObservation(o) /\ o.evidence = e /\ o.observed_kind = kind
      /\ o.subject_kind = "file" /\ o.subject = FileKey(f.path)
  BY <1>2 DEF IsObservation, Observation
<1> QED BY <1>1, <1>2, <1>3 DEF Aside, FromFile, e

TypeScriptFile(f) == f \in SourceFiles /\ Last(f.path) \in {".ts", ".tsx"}

LEMMA TypeScriptBody ==
    ASSUME NEW f, TypeScriptFile(f)
    PROVE  /\ Last(f.path) # ".py" /\ IsList(f.body)
           /\ \A i \in DOMAIN f.body : TsStatement(f.body[i])
BY RepositoriesAssumption DEF TypeScriptFile, Range

LEMMA TsImportAsides ==
    ASSUME NEW f, TypeScriptFile(f), NEW i \in DOMAIN f.body
    PROVE  Asides(f, TsImports(f, f.body[i]))
<1> DEFINE st == f.body[i]
           binding(imported, local, line) ==
             FromFile(f, "import_binding",
                      [spec |-> st.spec, imported |-> imported, local |-> local],
                      Span(f, line, line, TypeScript))
           whole == FromFile(f, "import", [spec |-> st.spec], TsAt(f, st))
           default == IF st.kind = "import" /\ st.default # NoName
                      THEN <<binding("default", st.default, st.line)>> ELSE <<>>
           all == [k \in DOMAIN st.named |->
                     binding(st.named[k].imported, st.named[k].local, st.named[k].line)]
           named == IF st.kind = "import" THEN all ELSE <<>>
<1>1. TsImports(f, st) = <<whole>> \o default \o named
  BY Zenon DEF TsImports
<1>2. Aside(f, whole) /\ \A imported, local, line : Aside(f, binding(imported, local, line))
  BY TypeScriptBody, FromFileAside DEF TsAt
<1> HIDE DEF whole, binding
<1>3. ASSUME st.kind = "import" PROVE Asides(f, all)
  <2>1. IsList(st.named)
    BY <1>3, TypeScriptBody DEF TsStatement
  <2>2. all = [k \in DOMAIN st.named |-> all[k]] /\ \A k \in DOMAIN st.named : Aside(f, all[k])
    BY <1>2
  <2> HIDE DEF all
  <2> QED BY <2>1, <2>2, MappedAsides
<1> HIDE DEF all
<1>4. Asides(f, <<whole>>) /\ Asides(f, default) /\ Asides(f, named)
  BY <1>2, <1>3, ShortAsides
<1> HIDE DEF default, named
<1> QED BY <1>1, <1>4, JoinAsides

LEMMA TsImplementsAsides ==
    ASSUME NEW f, TypeScriptFile(f), NEW i \in DOMAIN f.body
    PROVE  Asides(f, TsImplements(f, i))
<1> DEFINE st == f.body[i]
           found == {j \in TsSymbols(f) :
                       /\ f.body[j].name = st.name /\ ValidSpan(TsAt(f, f.body[j]))
                       /\ f.body[j].line = st.line /\ f.body[j].end = st.end}
           key == TsSymbolOf(f, CHOOSE j \in found : TRUE)
           all == [k \in DOMAIN st.implements |->
                     Observation("implements", "symbol", key, [name |-> st.implements[k].name],
                         Span(f, st.implements[k].line, st.implements[k].line, TypeScript))]
<1>1. TsImplements(f, i) = IF st.kind # "class" \/ Cardinality(found) # 1 THEN <<>> ELSE all
  BY Zenon DEF TsImplements
<1>2. ASSUME st.kind = "class" PROVE Asides(f, all)
  <2>1. IsList(st.implements)
    BY <1>2, TypeScriptBody DEF TsStatement
  <2> HIDE DEF key
  <2>2. all = [k \in DOMAIN st.implements |-> all[k]]
        /\ \A k \in DOMAIN st.implements : Aside(f, all[k])
    BY AsideFact DEF ImportKinds
  <2> HIDE DEF all
  <2> QED BY <2>1, <2>2, MappedAsides
<1> HIDE DEF all, found
<1> QED BY <1>1, <1>2, ShortAsides

LEMMA TsRouteAsides ==
    ASSUME NEW f, TypeScriptFile(f)
    PROVE  Asides(f, FlattenSeq([k \in DOMAIN TsRoutes(f) |-> TsRouteObservations(f, k)]))
<1> DEFINE route(st) == IF st.kind = "route" /\ st.route # NoName /\ ValidSpan(TsAt(f, st))
                        THEN <<st>> ELSE <<>>
           ss == [i \in DOMAIN f.body |-> route(f.body[i])]
           all == [k \in DOMAIN TsRoutes(f) |-> TsRouteObservations(f, k)]
<1>1. IsList(TsRoutes(f))
  <2>1. TsRoutes(f) = FlattenSeq(ss)
    BY Zenon DEF TsRoutes
  <2>2. ss = [i \in DOMAIN f.body |-> ss[i]] /\ \A i \in DOMAIN f.body : IsList(ss[i])
    BY ShortLists
  <2> HIDE DEF ss
  <2> QED BY <2>1, <2>2, TypeScriptBody, WalkList
<1>2. ASSUME NEW k PROVE Asides(f, TsRouteObservations(f, k))
  <2> DEFINE st == TsRoutes(f)[k]
             told == Observation("route", "symbol", TsRouteKey(f, k), [route |-> st.route],
                                 TsAt(f, st))
             handled == Observation("route_handler", "symbol", TsRouteKey(f, k),
                                    [name |-> st.handler],
                                    Span(f, st.handlerLine, st.handlerLine, TypeScript))
             named == IF st.handler = NoName THEN <<>> ELSE <<handled>>
  <2>1. TsRouteObservations(f, k) = <<told>> \o named
    BY Zenon DEF TsRouteObservations
  <2>2. Aside(f, told) /\ Aside(f, handled)
    BY AsideFact DEF TsAt, ImportKinds
  <2> HIDE DEF told, handled
  <2>3. Asides(f, <<told>>) /\ Asides(f, named)
    BY <2>2, ShortAsides
  <2> HIDE DEF named
  <2> QED BY <2>1, <2>3, JoinAsides
<1>3. all = [k \in DOMAIN TsRoutes(f) |-> all[k]] /\ \A k \in DOMAIN TsRoutes(f) : Asides(f, all[k])
  BY <1>2
<1> HIDE DEF all
<1>4. Asides(f, FlattenSeq(all))
  BY <1>1, <1>3, WalkAsides
<1> QED BY <1>4 DEF all

LEMMA TsCallAsides ==
    ASSUME NEW f, TypeScriptFile(f), NEW i \in DOMAIN f.body
    PROVE  /\ Asides(f, TsHttpCall(f, i))
           /\ \A sites : Asides(f, TsCalls(f, i, sites))
<1> DEFINE st == f.body[i]
           observed(kind) == FromFile(f, kind, [name |-> st.name], TsAt(f, st))
           shadowed == IF TsShadowed(f, i, st.name) THEN <<observed("call_shadowed")>> ELSE <<>>
<1>1. \A sites : TsCalls(f, i, sites) \in {<<>>, <<observed("call")>> \o shadowed}
  BY DEF TsCalls
<1>2. \A kind : Aside(f, observed(kind))
  BY TypeScriptBody, FromFileAside DEF TsAt
<1> HIDE DEF observed
<1>3. Asides(f, <<>>) /\ Asides(f, <<observed("call")>>) /\ Asides(f, shadowed)
  BY <1>2, ShortAsides
<1> HIDE DEF shadowed
<1>4. Asides(f, <<observed("call")>> \o shadowed)
  BY <1>3, JoinAsides
<1>5. \A sites : Asides(f, TsCalls(f, i, sites))
  BY <1>1, <1>3, <1>4
<1>6. Asides(f, TsHttpCall(f, i))
  <2> DEFINE o == FromFile(f, "http_call", DestinationReferent(TsMethod(st), st.url), TsAt(f, st))
  <2>1. TsHttpCall(f, i) \in {<<>>, <<o>>}
    BY DEF TsHttpCall
  <2>2. Aside(f, o)
    BY TypeScriptBody, FromFileAside DEF TsAt
  <2> HIDE DEF o
  <2>3. Asides(f, <<o>>)
    BY <2>2, ShortAsides
  <2> QED BY <1>3, <2>1, <2>3
<1> QED BY <1>5, <1>6

TypeScriptObservations(f) ==
    FlattenSeq([i \in DOMAIN f.body |-> IF i \in TsSymbols(f) THEN <<TsDefinition(f, i)>> ELSE <<>>])
        \o FlattenSeq([i \in DOMAIN f.body |-> TsImplements(f, i)])
        \o FlattenSeq([i \in DOMAIN f.body |->
                IF f.body[i].kind \notin {"import", "reexport"} \/ ~ValidSpan(TsAt(f, f.body[i]))
                THEN <<>> ELSE TsImports(f, f.body[i])])
        \o FlattenSeq([k \in DOMAIN TsRoutes(f) |-> TsRouteObservations(f, k)])
        \o FlattenSeq([i \in DOMAIN f.body |-> TsHttpCall(f, i)])
        \o FlattenSeq([i \in DOMAIN f.body |-> TsCalls(f, i, HttpSites(f))])

LEMMA TypeScriptFinds ==
    ASSUME NEW f, TypeScriptFile(f)
    PROVE  Asides(f, TypeScriptObservations(f))
<1> DEFINE defined == [i \in DOMAIN f.body |->
                         IF i \in TsSymbols(f) THEN <<TsDefinition(f, i)>> ELSE <<>>]
           implements == [i \in DOMAIN f.body |-> TsImplements(f, i)]
           imports == [i \in DOMAIN f.body |->
                         IF f.body[i].kind \notin {"import", "reexport"}
                            \/ ~ValidSpan(TsAt(f, f.body[i]))
                         THEN <<>> ELSE TsImports(f, f.body[i])]
           requests == [i \in DOMAIN f.body |-> TsHttpCall(f, i)]
           calls == [i \in DOMAIN f.body |-> TsCalls(f, i, HttpSites(f))]
<1>0. IsList(f.body)
  BY TypeScriptBody
<1>1. Asides(f, FlattenSeq(defined))
  <2>1. \A i : Aside(f, TsDefinition(f, i))
    BY AsideFact DEF TsDefinition, TsAt, ImportKinds
  <2>2. defined = [i \in DOMAIN f.body |-> defined[i]] /\ \A i \in DOMAIN f.body : Asides(f, defined[i])
    BY <2>1, ShortAsides
  <2> HIDE DEF defined
  <2> QED BY <1>0, <2>2, WalkAsides
<1>2. Asides(f, FlattenSeq(implements))
  <2>1. /\ implements = [i \in DOMAIN f.body |-> implements[i]]
        /\ \A i \in DOMAIN f.body : Asides(f, implements[i])
    BY TsImplementsAsides
  <2> HIDE DEF implements
  <2> QED BY <1>0, <2>1, WalkAsides
<1>3. Asides(f, FlattenSeq(imports))
  <2>1. imports = [i \in DOMAIN f.body |-> imports[i]] /\ \A i \in DOMAIN f.body : Asides(f, imports[i])
    BY TsImportAsides, ShortAsides
  <2> HIDE DEF imports
  <2> QED BY <1>0, <2>1, WalkAsides
<1>4. Asides(f, FlattenSeq(requests))
  <2>1. /\ requests = [i \in DOMAIN f.body |-> requests[i]]
        /\ \A i \in DOMAIN f.body : Asides(f, requests[i])
    BY TsCallAsides
  <2> HIDE DEF requests
  <2> QED BY <1>0, <2>1, WalkAsides
<1>5. Asides(f, FlattenSeq(calls))
  <2>1. calls = [i \in DOMAIN f.body |-> calls[i]] /\ \A i \in DOMAIN f.body : Asides(f, calls[i])
    BY TsCallAsides
  <2> HIDE DEF calls
  <2> QED BY <1>0, <2>1, WalkAsides
<1>6. PICK a, b, c, d, e, g :
        /\ a = FlattenSeq(defined) /\ b = FlattenSeq(implements) /\ c = FlattenSeq(imports)
        /\ d = FlattenSeq([k \in DOMAIN TsRoutes(f) |-> TsRouteObservations(f, k)])
        /\ e = FlattenSeq(requests) /\ g = FlattenSeq(calls)
  OBVIOUS
<1>7. TypeScriptObservations(f) = a \o b \o c \o d \o e \o g
  BY <1>6, Zenon DEF TypeScriptObservations
<1> HIDE DEF defined, implements, imports, requests, calls
<1>8. Asides(f, a) /\ Asides(f, b) /\ Asides(f, c) /\ Asides(f, d) /\ Asides(f, e) /\ Asides(f, g)
  BY <1>1, <1>2, <1>3, <1>4, <1>5, <1>6, TsRouteAsides
<1> QED BY <1>7, <1>8, JoinAsides

LEMMA TypeScriptObserves ==
    ASSUME NEW f, TypeScriptFile(f), NEW x \in TypeScriptExtract(f).observations
    PROVE  \E o, n : Aside(f, o) /\ ValidSpan(o.evidence) /\ x = [o EXCEPT !.ordinal = n]
<1> DEFINE os == TypeScriptObservations(f)
<1>1. TsFacts(f).observations = AssignOrdinals(InFile(os))
  BY Zenon DEF TsFacts, Result, TypeScriptObservations
<1>2. TypeScriptExtract(f).observations \subseteq AssignOrdinals(InFile(os))
  BY <1>1 DEF TypeScriptExtract, Result
<1> HIDE DEF os
<1>3. PICK o, n : o \in Range(os) /\ ValidSpan(o.evidence) /\ x = [o EXCEPT !.ordinal = n]
  BY <1>2, OrdinalsTell
<1>4. Aside(f, o)
  BY <1>3, TypeScriptFinds DEF os, Asides
<1> QED BY <1>3, <1>4

\* Manifests, lockfiles and compose files import nothing.
LEMMA ListingsObserve ==
    ASSUME NEW f, NEW x \in ManifestExtract(f).observations \cup LockfileExtract(f).observations
                              \cup IacExtract(f).observations
    PROVE  \E o, n : Aside(f, o) /\ ValidSpan(o.evidence) /\ x = [o EXCEPT !.ordinal = n]
<1>1. ASSUME NEW os, x \in AssignOrdinals(InFile(os)), \A o \in Range(os) : Aside(f, o)
      PROVE  \E o, n : Aside(f, o) /\ ValidSpan(o.evidence) /\ x = [o EXCEPT !.ordinal = n]
  <2>1. PICK o, n : o \in Range(os) /\ ValidSpan(o.evidence) /\ x = [o EXCEPT !.ordinal = n]
    BY <1>1, OrdinalsTell
  <2> QED BY <1>1, <2>1
<1>2. ASSUME NEW p, x \in EntryFacts(f, p).observations
      PROVE  \E o, n : Aside(f, o) /\ ValidSpan(o.evidence) /\ x = [o EXCEPT !.ordinal = n]
  <2> DEFINE entries == {i \in DOMAIN f.body : Claimed(f.body[i], p)}
             os == [i \in entries |-> DependencyObservation(f, f.body[i], p)]
  <2>1. EntryFacts(f, p).observations = AssignOrdinals(InFile(os))
    BY Zenon DEF EntryFacts, Built
  <2>2. \A y : Aside(f, DependencyObservation(f, y, p))
    BY AsideFact DEF DependencyObservation, ImportKinds
  <2>3. \A o \in Range(os) : Aside(f, o)
    BY <2>2 DEF Range
  <2> HIDE DEF os
  <2> QED BY <1>1, <1>2, <2>1, <2>3
<1>3. ASSUME x \in IacFacts(f).observations
      PROVE  \E o, n : Aside(f, o) /\ ValidSpan(o.evidence) /\ x = [o EXCEPT !.ordinal = n]
  <2> DEFINE os == [i \in DOMAIN f.body |-> IacObservation(f, f.body[i])]
  <2>1. IacFacts(f).observations = AssignOrdinals(InFile(os))
    BY Zenon DEF IacFacts, Built
  <2>2. \A y : Aside(f, IacObservation(f, y))
    BY AsideFact DEF IacObservation, ImportKinds
  <2>3. \A o \in Range(os) : Aside(f, o)
    BY <2>2 DEF Range
  <2> HIDE DEF os
  <2> QED BY <1>1, <1>3, <2>1, <2>3
<1>4. \A ns, ds : Result(ns, {}, ds).observations = {}
  BY DEF Result
<1>5. \/ x \in EntryFacts(f, Manifest).observations
      \/ x \in EntryFacts(f, Lockfile).observations
      \/ x \in IacFacts(f).observations
  BY <1>4 DEF ManifestExtract, LockfileExtract, IacExtract
<1> QED BY <1>2, <1>3, <1>5

\* No file with a name of its own is a program.
LEMMA ListedNames ==
    ASSUME NEW p \in Seq(STRING), Len(p) > 1,
           Basename(p) \in ManifestNames \cup LockfileNames \cup DisclosedNames \cup IacNames
    PROVE  Last(p) \notin {".py", ".ts", ".tsx"}
<1>1. Basename(p)[2] = Last(p)
  <2>1. Len(p) \in Nat /\ Len(p) - 1 \in Int /\ \A i \in (Len(p) - 1)..Len(p) : p[i] \in STRING
    BY LenProperties
  <2>2. Len(p) - (Len(p) - 1) + 1 = 2 /\ Len(p) - 1 + 2 - 1 = Len(p)
    BY <2>1
  <2>3. \A i \in 1..(Len(p) - (Len(p) - 1) + 1) :
          SubSeq(p, Len(p) - 1, Len(p))[i] = p[Len(p) - 1 + i - 1]
    BY <2>1, SubSeqProperties
  <2> QED BY <2>1, <2>2, <2>3 DEF Basename, Last
<1>2. PICK b : b = Basename(p)
  OBVIOUS
<1>3. b[2] \in {".json", ".toml", ".txt", ".lock", ".yaml", ".yml"}
  BY <1>2 DEF ManifestNames, LockfileNames, DisclosedNames, IacNames
<1> QED BY <1>1, <1>2, <1>3

LEMMA FileObserves ==
    ASSUME NEW f \in SourceFiles, NEW x \in ExtractedBy(f).observations
    PROVE  /\ \E o, n : Finds(f, o) /\ ValidSpan(o.evidence) /\ x = [o EXCEPT !.ordinal = n]
           /\ Last(f.path) = ".py" =>
                \A i \in DOMAIN f.body : Binding(f.body[i]) /\ ValidSpan(At(f, f.body[i])) =>
                  \E n : [BindingAt(f, f.body[i]) EXCEPT !.ordinal = n] \in ExtractedBy(f).observations
<1>1. ExtractedBy(f) = Extracted(f) /\ Extractor(f) # Inventory
  <2>1. Result({}, {}, {}).observations = {}
    BY DEF Result
  <2> QED BY <2>1 DEF ExtractedBy
<1>0. \/ Last(f.path) \notin {".py", ".ts", ".tsx"}
      \/ Basename(f.path) \notin ManifestNames \cup LockfileNames \cup DisclosedNames \cup IacNames
  BY ListedNames, RepositoriesAssumption
<1>2. CASE Last(f.path) = ".py"
  <2>1. Extractor(f) = Python
    BY <1>0, <1>2 DEF Extractor
  <2>2. ExtractedBy(f) = PythonExtract(f)
    BY <1>1, <2>1 DEF Extracted, Python, TypeScript, Manifest, Lockfile, Iac
  <2>3. PythonFile(f) /\ x \in PythonExtract(f).observations
    BY <1>2, <2>2 DEF PythonFile
  <2>4. \E o, n : Finds(f, o) /\ ValidSpan(o.evidence) /\ x = [o EXCEPT !.ordinal = n]
    BY <2>3, PythonObserves
  <2>5. \A i \in DOMAIN f.body : Binding(f.body[i]) /\ ValidSpan(At(f, f.body[i])) =>
          \E n : [BindingAt(f, f.body[i]) EXCEPT !.ordinal = n] \in PythonExtract(f).observations
    BY <2>3, PythonObserves
  <2> QED BY <2>2, <2>4, <2>5, Zenon
<1>3. CASE Last(f.path) \in {".ts", ".tsx"}
  <2>1. Extractor(f) = TypeScript /\ Last(f.path) # ".py"
    BY <1>0, <1>3 DEF Extractor
  <2>2. ExtractedBy(f) = TypeScriptExtract(f)
    BY <1>1, <2>1 DEF Extracted, Python, TypeScript, Manifest, Lockfile, Iac
  <2>3. TypeScriptFile(f) /\ x \in TypeScriptExtract(f).observations
    BY <1>3, <2>2 DEF TypeScriptFile
  <2> QED BY <2>1, <2>3, TypeScriptObserves DEF Finds
<1>4. CASE Last(f.path) \notin {".py", ".ts", ".tsx"}
  <2>1. Extractor(f) \in {Manifest, Lockfile, Iac}
    BY <1>1, <1>4 DEF Extractor
  <2>2. ExtractedBy(f) \in {ManifestExtract(f), LockfileExtract(f), IacExtract(f)}
    BY <1>1, <2>1 DEF Extracted, Python, TypeScript, Manifest, Lockfile, Iac
  <2> QED BY <1>4, <2>2, ListingsObserve DEF Finds
<1> QED BY <1>2, <1>3, <1>4

-----------------------------------------------------------------------------
(* Names of files                                                          *)

LEMMA PrefixMeans ==
    ASSUME NEW S, NEW s \in Seq(S), NEW t \in Seq(S)
    PROVE  /\ IsPrefix(s, t) => t = s \o SubSeq(t, Len(s) + 1, Len(t))
                                /\ SubSeq(t, Len(s) + 1, Len(t)) \in Seq(S)
           /\ \A u \in Seq(S) : t = s \o u =>
                IsPrefix(s, t) /\ SubSeq(t, Len(s) + 1, Len(t)) = u
<1>0. Len(s) \in Nat /\ Len(t) \in Nat
  BY LenProperties
<1>1. SubSeq(s, 1, Len(s)) = s /\ SubSeq(t, 1, Len(t)) = t
  BY SubSeqFull
<1>2. ASSUME IsPrefix(s, t)
      PROVE  t = s \o SubSeq(t, Len(s) + 1, Len(t)) /\ SubSeq(t, Len(s) + 1, Len(t)) \in Seq(S)
  <2>1. Len(s) <= Len(t) /\ SubSeq(t, 1, Len(s)) = s
    BY <1>1, <1>2 DEF IsPrefix
  <2>2. SubSeq(t, 1, Len(s)) \o SubSeq(t, Len(s) + 1, Len(t)) = SubSeq(t, 1, Len(t))
    <3>1. 1 \in 1..(Len(t) + 1) /\ Len(s) \in (1 - 1)..Len(t) /\ Len(t) \in Len(s)..Len(t)
      BY <1>0, <2>1
    <3> QED BY <3>1, ConcatAdjacentSubSeq
  <2>3. SubSeq(t, Len(s) + 1, Len(t)) \in Seq(S)
    <3>1. \A i \in (Len(s) + 1)..Len(t) : t[i] \in S
      BY <1>0, LenProperties
    <3> QED BY <1>0, <3>1, SubSeqProperties
  <2> QED BY <1>1, <2>1, <2>2, <2>3, Zenon
<1>3. ASSUME NEW u \in Seq(S), t = s \o u
      PROVE  IsPrefix(s, t) /\ SubSeq(t, Len(s) + 1, Len(t)) = u
  <2>1. Len(u) \in Nat /\ Len(t) = Len(s) + Len(u)
    BY <1>3, LenProperties, ConcatProperties
  <2>2. \A i \in 1..Len(t) : t[i] = IF i <= Len(s) THEN s[i] ELSE u[i - Len(s)]
    BY <1>3, <2>1, ConcatProperties
  <2>3. SubSeq(t, 1, Len(s)) = s
    <3> DEFINE a == SubSeq(t, 1, Len(s))
    <3>1. \A i \in 1..Len(s) : t[i] \in S
      BY <1>0, <2>1, LenProperties
    <3>2. a \in Seq(S) /\ Len(a) = Len(s) /\ \A i \in 1..Len(s) : a[i] = t[i]
      BY <1>0, <3>1, SubSeqProperties
    <3>3. \A i \in 1..Len(a) : a[i] = s[i]
      BY <1>0, <2>1, <2>2, <3>2
    <3> HIDE DEF a
    <3> QED BY <3>2, <3>3, SeqEqual
  <2>4. SubSeq(t, Len(s) + 1, Len(t)) = u
    <3> DEFINE a == SubSeq(t, Len(s) + 1, Len(t))
    <3>1. \A i \in (Len(s) + 1)..Len(t) : t[i] \in S
      BY <1>0, LenProperties
    <3>2. a \in Seq(S) /\ Len(a) = Len(u) /\ \A i \in 1..Len(u) : a[i] = t[Len(s) + i]
      BY <1>0, <2>1, <3>1, SubSeqProperties
    <3> HIDE DEF a
    <3>3. ASSUME NEW i \in 1..Len(u) PROVE a[i] = u[i]
      <4>1. Len(s) + i \in 1..Len(t) /\ ~(Len(s) + i <= Len(s)) /\ Len(s) + i - Len(s) = i
        BY <1>0, <2>1
      <4>2. t[Len(s) + i] = u[Len(s) + i - Len(s)]
        BY <2>2, <4>1
      <4> QED BY <3>2, <4>1, <4>2
    <3>4. a = u
      BY <3>2, <3>3, SeqEqual
    <3> QED BY <3>4 DEF a
  <2> QED BY <1>0, <1>1, <2>1, <2>3, <2>4 DEF IsPrefix
<1> QED BY <1>2, <1>3

LEMMA Ends ==
    ASSUME NEW S
    PROVE  /\ \A s \in Seq(S), x \in S :
                /\ Append(s, x) \in Seq(S) /\ Append(s, x) # <<>>
                /\ Front(Append(s, x)) = s /\ Last(Append(s, x)) = x
           /\ \A s \in Seq(S) : s # <<>> =>
                Front(s) \in Seq(S) /\ Last(s) \in S /\ s = Append(Front(s), Last(s))
<1>1. ASSUME NEW s \in Seq(S), NEW x \in S
      PROVE  /\ Append(s, x) \in Seq(S) /\ Append(s, x) # <<>>
             /\ Front(Append(s, x)) = s /\ Last(Append(s, x)) = x
  <2>1. /\ Len(s) \in Nat /\ Append(s, x) \in Seq(S) /\ Append(s, x) # <<>>
        /\ Len(Append(s, x)) = Len(s) + 1
        /\ \A i \in 1..Len(s) : Append(s, x)[i] = s[i]
        /\ Append(s, x)[Len(s) + 1] = x
    BY AppendProperties, LenProperties
  <2> DEFINE a == Front(Append(s, x))
  <2>2. \A i \in 1..Len(s) : Append(s, x)[i] \in S
    BY <2>1, LenProperties
  <2>3. Len(Append(s, x)) - 1 = Len(s)
    BY <2>1
  <2>4. a = SubSeq(Append(s, x), 1, Len(s))
    BY <2>3 DEF Front
  <2>5. a \in Seq(S) /\ Len(a) = Len(s) /\ \A i \in 1..Len(s) : a[i] = Append(s, x)[i]
    BY <2>1, <2>2, <2>4, SubSeqProperties
  <2> HIDE DEF a
  <2>6. a = s
    BY <2>1, <2>5, SeqEqual
  <2> QED BY <2>1, <2>6 DEF Last, a
<1>2. ASSUME NEW s \in Seq(S), s # <<>>
      PROVE  Front(s) \in Seq(S) /\ Last(s) \in S /\ s = Append(Front(s), Last(s))
  <2>1. PICK t \in Seq(S), x \in S : s = Append(t, x)
    BY <1>2, SequenceEmptyOrAppend
  <2> QED BY <1>1, <2>1
<1> QED BY <1>1, <1>2

LEMMA JoinedEnds ==
    ASSUME NEW S, NEW s \in Seq(S), NEW t \in Seq(S), NEW x \in S
    PROVE  s \o t \in Seq(S) /\ s \o Append(t, x) = Append(s \o t, x)
<1>1. s \o t \in Seq(S) /\ Append(t, x) = t \o <<x>>
  BY ConcatProperties, AppendIsConcat
<1>2. Append(s \o t, x) = (s \o t) \o <<x>>
  BY <1>1, AppendIsConcat
<1>3. <<x>> \in Seq(S)
  OBVIOUS
<1>4. (s \o t) \o <<x>> = s \o (t \o <<x>>)
  BY <1>3, ConcatAssociative
<1> QED BY <1>1, <1>2, <1>4

LEMMA TwoMore ==
    ASSUME NEW S, NEW s \in Seq(S), NEW x \in S, NEW y \in S
    PROVE  s \o <<x, y>> = Append(Append(s, x), y)
<1>1. PICK p : p = <<x, y>>
  OBVIOUS
<1>2. p \in Seq(S) /\ Len(p) = 2 /\ p[1] = x /\ p[2] = y
  BY <1>1
<1>3. PICK a, b, c, n : a = s \o p /\ b = Append(s, x) /\ c = Append(b, y) /\ n = Len(s)
  OBVIOUS
<1>4. /\ a \in Seq(S) /\ Len(a) = Len(s) + Len(p)
      /\ \A i \in 1..Len(s) + Len(p) : a[i] = IF i <= Len(s) THEN s[i] ELSE p[i - Len(s)]
  BY <1>2, <1>3, ConcatProperties
<1>5. /\ n \in Nat /\ Len(a) = n + 2
      /\ \A i \in 1..(n + 2) : a[i] = IF i <= n THEN s[i] ELSE p[i - n]
  BY <1>2, <1>3, <1>4, LenProperties
<1>6. b \in Seq(S) /\ Len(b) = n + 1 /\ b[n + 1] = x /\ \A i \in 1..n : b[i] = s[i]
  BY <1>3, AppendProperties
<1>7. c \in Seq(S) /\ Len(c) = n + 1 + 1 /\ c[n + 1 + 1] = y /\ \A i \in 1..(n + 1) : c[i] = b[i]
  BY <1>3, <1>6, AppendProperties
<1>8. ASSUME NEW i \in 1..(n + 2) PROVE a[i] = c[i]
  <2>1. i \in 1..n \/ i = n + 1 \/ i = n + 2
    BY <1>5
  <2>2. CASE i \in 1..n
    <3>1. i <= n /\ i \in 1..(n + 1)
      BY <1>5, <2>2
    <3> QED BY <1>5, <1>6, <1>7, <2>2, <3>1
  <2>3. CASE i = n + 1
    <3>1. ~(n + 1 <= n) /\ n + 1 - n = 1 /\ n + 1 \in 1..(n + 1) /\ n + 1 \in 1..(n + 2)
      BY <1>5
    <3> QED BY <1>2, <1>5, <1>6, <1>7, <2>3, <3>1
  <2>4. CASE i = n + 2
    <3>1. ~(n + 2 <= n) /\ n + 2 - n = 2 /\ n + 1 + 1 = n + 2 /\ n + 2 \in 1..(n + 2)
      BY <1>5
    <3> QED BY <1>2, <1>5, <1>7, <2>4, <3>1
  <2> QED BY <2>1, <2>2, <2>3, <2>4
<1>9. Len(a) = Len(c)
  BY <1>5, <1>7
<1>10. a = c
  BY <1>4, <1>5, <1>7, <1>8, <1>9, SeqEqual
<1> QED BY <1>1, <1>3, <1>10

\* What the paths are made of.
Words == STRING \cup Extensions \cup {"__init__", "index"}

LEMMA WordsMeans ==
    /\ STRING \subseteq Words /\ Extensions \subseteq Words
    /\ "__init__" \in Words /\ "index" \in Words
    /\ ".py" \in Words /\ ".ts" \in Words /\ ".tsx" \in Words
BY DEF Words, Extensions

\* The files that stand for a package or a directory as a whole.
Wholes == {<<"__init__", ".py">>, <<"index", ".ts">>, <<"index", ".tsx">>}

\* The files a name means where the search for it starts in root.
FilesNamed(root, name) ==
    {Append(root \o name, x) : x \in Extensions}
        \cup {Append(Append(root \o name, w[1]), w[2]) : w \in Wholes}

LEMMA WholesMeans ==
    ASSUME NEW w \in Wholes
    PROVE  w[1] \in Words /\ w[2] \in Words /\ w[2] \in Extensions /\ w = <<w[1], w[2]>>
<1>1. \/ w = <<"__init__", ".py">> \/ w = <<"index", ".ts">> \/ w = <<"index", ".tsx">>
  BY DEF Wholes
<1>2. /\ w[1] = "__init__" \/ w[1] = "index"
      /\ w[2] = ".py" \/ w[2] = ".ts" \/ w[2] = ".tsx"
      /\ w = <<w[1], w[2]>>
  BY <1>1
<1> QED BY <1>2, WordsMeans DEF Extensions

LEMMA NamesMeanFiles ==
    ASSUME NEW p \in Seq(Words), Len(p) > 1, NEW root \in Seq(Words)
    PROVE  /\ \A name \in NamedFrom(root, p) :
                name \in Seq(Words) /\ name # <<>> /\ p \in FilesNamed(root, name)
           /\ \A name \in Seq(Words) : name # <<>> /\ p \in FilesNamed(root, name) =>
                name \in NamedFrom(root, p)
<1> DEFINE stem == Front(p)
           rest == SubSeq(stem, Len(root) + 1, Len(stem))
           whole == <<Last(stem), Last(p)>>
<1>1. \A name : name \in NamedFrom(root, p) <=>
        /\ name \in {rest} \cup {d \in {Front(rest)} : whole \in Wholes}
        /\ IsPrefix(root, stem) /\ name # <<>> /\ Last(p) \in Extensions
  BY DEF NamedFrom, Wholes
<1>2. /\ stem \in Seq(Words) /\ Last(p) \in Words /\ p = Append(stem, Last(p)) /\ stem # <<>>
      /\ Last(stem) \in Words
  <2>1. p # <<>>
    OBVIOUS
  <2>2. stem \in Seq(Words) /\ Last(p) \in Words /\ p = Append(stem, Last(p))
    BY <2>1, Ends
  <2>3. Len(stem) = Len(p) - 1
    <3> HIDE DEF stem
    <3>1. Len(stem) \in Nat /\ Len(Append(stem, Last(p))) = Len(stem) + 1
      BY <2>2, AppendProperties, LenProperties
    <3> QED BY <2>2, <3>1
  <2>4. stem # <<>>
    <3> HIDE DEF stem
    <3> QED BY <2>3
  <2> QED BY <2>2, <2>4, Ends
<1>3. /\ IsPrefix(root, stem) => stem = root \o rest /\ rest \in Seq(Words)
      /\ \A u \in Seq(Words) : stem = root \o u => IsPrefix(root, stem) /\ rest = u
  BY <1>2, PrefixMeans
<1>4. Front(<<>>) = <<>>
  BY DEF Front
<1> HIDE DEF stem, rest
<1>5. ASSUME NEW name \in NamedFrom(root, p)
      PROVE  name \in Seq(Words) /\ name # <<>> /\ p \in FilesNamed(root, name)
  <2>1. name # <<>> /\ Last(p) \in Extensions /\ stem = root \o rest /\ rest \in Seq(Words)
    BY <1>1, <1>3, <1>5
  <2>2. CASE name = rest
    <3>1. p = Append(root \o name, Last(p))
      BY <1>2, <2>1, <2>2
    <3> QED BY <2>1, <2>2, <3>1 DEF FilesNamed
  <2>3. CASE name = Front(rest) /\ whole \in Wholes
    <3>1. rest # <<>>
      BY <1>4, <2>1, <2>3
    <3>2. name \in Seq(Words) /\ Last(rest) \in Words /\ rest = Append(name, Last(rest))
      BY <2>1, <2>3, <3>1, Ends
    <3>3. root \o Append(name, Last(rest)) = Append(root \o name, Last(rest))
          /\ root \o name \in Seq(Words)
      BY <3>2, JoinedEnds
    <3>4. stem = Append(root \o name, Last(rest))
      BY <2>1, <3>2, <3>3
    <3>5. Last(stem) = Last(rest)
      BY <3>2, <3>3, <3>4, Ends
    <3>6. p = Append(Append(root \o name, whole[1]), whole[2])
      BY <1>2, <3>4, <3>5
    <3> HIDE DEF whole
    <3> QED BY <2>1, <2>3, <3>2, <3>6 DEF FilesNamed
  <2> QED BY <1>1, <1>5, <2>2, <2>3
<1>6. ASSUME NEW name \in Seq(Words), name # <<>>, p \in FilesNamed(root, name)
      PROVE  name \in NamedFrom(root, p)
  <2>0. root \o name \in Seq(Words)
    BY ConcatProperties
  <2>1. CASE \E x \in Extensions : p = Append(root \o name, x)
    <3>1. PICK x \in Extensions : p = Append(root \o name, x)
      BY <2>1
    <3>2. x \in Words
      BY WordsMeans
    <3>3. stem = root \o name /\ Last(p) = x
      BY <2>0, <3>1, <3>2, Ends DEF stem
    <3>4. IsPrefix(root, stem) /\ rest = name
      BY <1>3, <3>3
    <3> QED BY <1>1, <1>6, <3>3, <3>4
  <2>2. CASE \E w \in Wholes : p = Append(Append(root \o name, w[1]), w[2])
    <3>1. PICK w \in Wholes : p = Append(Append(root \o name, w[1]), w[2])
      BY <2>2
    <3>2. w[1] \in Words /\ w[2] \in Words /\ w[2] \in Extensions /\ w = <<w[1], w[2]>>
      BY WholesMeans
    <3>3. Append(root \o name, w[1]) \in Seq(Words) /\ Append(name, w[1]) \in Seq(Words)
      BY <2>0, <3>2, Ends
    <3>4. stem = Append(root \o name, w[1]) /\ Last(p) = w[2]
      BY <3>1, <3>2, <3>3, Ends DEF stem
    <3>5. stem = root \o Append(name, w[1])
      <4>1. PICK x \in Words : x = w[1]
        BY <3>2
      <4>2. root \o Append(name, x) = Append(root \o name, x)
        BY JoinedEnds
      <4> QED BY <3>4, <4>1, <4>2
    <3>6. IsPrefix(root, stem) /\ rest = Append(name, w[1])
      BY <1>3, <3>3, <3>5
    <3>7. Front(rest) = name /\ Last(stem) = w[1]
      BY <2>0, <3>2, <3>4, <3>6, Ends
    <3>8. whole \in Wholes
      BY <3>2, <3>4, <3>7
    <3> QED BY <1>1, <1>6, <3>2, <3>4, <3>6, <3>7, <3>8
  <2> QED BY <1>6, <2>1, <2>2 DEF FilesNamed
<1> QED BY <1>5, <1>6

LEMMA DirectoryText ==
    ASSUME NEW p \in Seq(Words), NEW n \in Int, n <= Len(p)
    PROVE  /\ SubSeq(p, 1, n) \in Seq(Words)
           /\ n > 0 => /\ SubSeq(p, 1, n) # <<>>
                       /\ Front(SubSeq(p, 1, n)) = SubSeq(p, 1, n - 1)
           /\ n <= 0 => SubSeq(p, 1, n) = <<>>
<1>0. Len(p) \in Nat
  BY LenProperties
<1>1. \A i \in 1..n : p[i] \in Words
  BY <1>0, LenProperties
<1>2. SubSeq(p, 1, n) \in Seq(Words)
      /\ Len(SubSeq(p, 1, n)) = IF 1 <= n THEN n - 1 + 1 ELSE 0
  BY <1>1, SubSeqProperties
<1>3. ASSUME n > 0
      PROVE  SubSeq(p, 1, n) # <<>> /\ Front(SubSeq(p, 1, n)) = SubSeq(p, 1, n - 1)
  <2>1. n \in 1..Len(p) /\ 1 \in 1..Len(p)
    BY <1>0, <1>3
  <2>2. SubSeq(p, 1, n) = SubSeq(p, 1, n - 1) \o <<p[n]>>
    BY <2>1, SubSeqRecursiveSecond
  <2>3. \A i \in 1..(n - 1) : p[i] \in Words
    BY <1>0, LenProperties
  <2>4. SubSeq(p, 1, n - 1) \in Seq(Words) /\ p[n] \in Words
    BY <1>1, <2>1, <2>3, SubSeqProperties
  <2>5. PICK a : a = SubSeq(p, 1, n - 1)
    OBVIOUS
  <2>6. a \in Seq(Words) /\ SubSeq(p, 1, n) = Append(a, p[n])
    BY <2>2, <2>4, <2>5, AppendIsConcat
  <2>7. Append(a, p[n]) # <<>> /\ Front(Append(a, p[n])) = a
    BY <2>4, <2>6, Ends
  <2> QED BY <2>5, <2>6, <2>7
<1>4. n <= 0 => SubSeq(p, 1, n) = <<>>
  BY SubSeqEmpty
<1> QED BY <1>2, <1>3, <1>4

\* The files an absolute import of these names leads to are those so named
\* from a directory Python may search.
LEMMA AbsoluteMeans ==
    ASSUME \A q \in FilePaths : q \in Seq(Words) /\ Len(q) > 1,
           NEW p \in FilePaths, NEW name \in Seq(Words), name # <<>>
    PROVE  p \in AbsoluteFiles(name) <=>
             Last(p) = ".py" /\ \E root \in SearchPath : name \in NamedFrom(root, p)
<1>1. PythonRoots = SearchPath
  BY DEF PythonRoots, SearchPath
<1>2. ASSUME NEW root \in SearchPath PROVE root \in Seq(Words)
  <2>1. CASE root = <<>>
    BY <2>1
  <2>2. CASE root # <<>>
    <3>1. PICK q \in FilePaths : Directory(q) # <<>> /\ root = Front(Directory(q))
      BY <1>2, <2>2 DEF SearchPath, Packages
    <3>2. Directory(q) \in Seq(Words)
      BY <3>1, DirectoryText DEF Directory
    <3> QED BY <3>1, <3>2, Ends
  <2> QED BY <2>1, <2>2
<1>3. ASSUME NEW root \in SearchPath
      PROVE  p \in {Append(root \o name, ".py"), root \o name \o <<"__init__", ".py">>} <=>
               Last(p) = ".py" /\ p \in FilesNamed(root, name)
  <2> DEFINE s == root \o name
  <2>1. s \in Seq(Words)
    BY <1>2, ConcatProperties
  <2> HIDE DEF s
  <2>2. s \o <<"__init__", ".py">> = Append(Append(s, "__init__"), ".py")
    BY <2>1, WordsMeans, TwoMore
  <2>3. \A x \in Words : Append(s, x) \in Seq(Words) /\ Last(Append(s, x)) = x
    BY <2>1, Ends
  <2>4. \A x, y \in Words : Last(Append(Append(s, x), y)) = y
    <3>1. ASSUME NEW x \in Words, NEW y \in Words PROVE Last(Append(Append(s, x), y)) = y
      <4>1. Append(s, x) \in Seq(Words)
        BY <2>3
      <4> QED BY <4>1, Ends
    <3> QED BY <3>1
  <2>5. FilesNamed(root, name) = {Append(s, x) : x \in Extensions}
                                   \cup {Append(Append(s, w[1]), w[2]) : w \in Wholes}
    BY DEF FilesNamed, s
  <2>6. ASSUME p \in {Append(s, ".py"), Append(Append(s, "__init__"), ".py")}
        PROVE  Last(p) = ".py" /\ p \in FilesNamed(root, name)
    <3>1. ".py" \in Extensions /\ <<"__init__", ".py">> \in Wholes
      BY DEF Extensions, Wholes
    <3>2. CASE p = Append(s, ".py")
      BY <2>3, <2>5, <3>1, <3>2, WordsMeans
    <3>3. CASE p = Append(Append(s, "__init__"), ".py")
      <4>1. PICK w : w = <<"__init__", ".py">>
        OBVIOUS
      <4>2. w \in Wholes /\ p = Append(Append(s, w[1]), w[2])
        BY <3>1, <3>3, <4>1
      <4> QED BY <2>4, <2>5, <3>3, <4>2, WordsMeans
    <3> QED BY <2>6, <3>2, <3>3
  <2>7. ASSUME Last(p) = ".py", p \in FilesNamed(root, name)
        PROVE  p \in {Append(s, ".py"), Append(Append(s, "__init__"), ".py")}
    <3>1. CASE \E x \in Extensions : p = Append(s, x)
      <4>1. PICK x \in Extensions : p = Append(s, x)
        BY <3>1
      <4>2. x = ".py"
        BY <2>3, <2>7, <4>1, WordsMeans
      <4> QED BY <4>1, <4>2
    <3>2. CASE \E w \in Wholes : p = Append(Append(s, w[1]), w[2])
      <4>1. PICK w \in Wholes : p = Append(Append(s, w[1]), w[2])
        BY <3>2
      <4>2. w[1] \in Words /\ w[2] \in Words
        BY WholesMeans
      <4>3. w[2] = ".py"
        BY <2>4, <2>7, <4>1, <4>2
      <4>4. w[1] = "__init__"
        BY <4>3 DEF Wholes
      <4> QED BY <4>1, <4>3, <4>4
    <3> QED BY <2>5, <2>7, <3>1, <3>2
  <2> QED BY <2>2, <2>6, <2>7 DEF s
<1>4. \A root \in SearchPath : name \in NamedFrom(root, p) <=> p \in FilesNamed(root, name)
  BY <1>2, NamesMeanFiles
<1>5. p \in AbsoluteFiles(name) <=> \E root \in SearchPath :
        p \in {Append(root \o name, ".py"), root \o name \o <<"__init__", ".py">>}
  BY <1>1 DEF AbsoluteFiles
<1> QED BY <1>3, <1>4, <1>5

\* _relative_file_candidates: one directory up for every dot but the first.
IsUp(up, path) ==
    up = [k \in Nat |-> IF k = 0 THEN Directory(path)
                        ELSE IF up[k - 1] = <<>> THEN <<>> ELSE Front(up[k - 1])]

UpFrom(path, k) == SubSeq(path, 1, Len(path) - 2 - k)

LEMMA UpSteps ==
    ASSUME NEW path \in Seq(Words), NEW k \in Nat
    PROVE  UpFrom(path, k) = IF k = 0 THEN Directory(path)
                             ELSE IF UpFrom(path, k - 1) = <<>> THEN <<>>
                             ELSE Front(UpFrom(path, k - 1))
<1>0. Len(path) \in Nat
  BY LenProperties
<1>1. CASE k = 0
  <2>1. Len(path) - 2 - k = Len(path) - 2
    BY <1>0, <1>1
  <2> QED BY <1>1, <2>1 DEF UpFrom, Directory
<1>2. CASE k # 0
  <2> DEFINE n == Len(path) - 2 - (k - 1)
  <2>1. n \in Int /\ n <= Len(path) /\ Len(path) - 2 - k = n - 1 /\ n - 1 \in Int
        /\ n - 1 <= Len(path)
    BY <1>0, <1>2
  <2>2. UpFrom(path, k) = SubSeq(path, 1, n - 1) /\ UpFrom(path, k - 1) = SubSeq(path, 1, n)
    BY <2>1 DEF UpFrom
  <2> HIDE DEF n
  <2>3. CASE n > 0
    BY <1>2, <2>1, <2>2, <2>3, DirectoryText
  <2>4. CASE n <= 0
    BY <1>2, <2>1, <2>2, <2>4, DirectoryText
  <2> QED BY <2>1, <2>3, <2>4
<1> QED BY <1>1, <1>2

LEMMA UpDirectories ==
    ASSUME NEW path \in Seq(Words)
    PROVE  /\ \E up : IsUp(up, path)
           /\ \A up : IsUp(up, path) => \A k \in Nat : up[k] = UpFrom(path, k)
<1> DEFINE F(up, k) == IF k = 0 THEN Directory(path)
                       ELSE IF up[k - 1] = <<>> THEN <<>> ELSE Front(up[k - 1])
<1>1. \A up : IsUp(up, path) <=> up = [k \in Nat |-> F(up, k)]
  BY Zenon DEF IsUp
<1>2. \E up : IsUp(up, path)
  <2> DEFINE up == [k \in Nat |-> UpFrom(path, k)]
  <2>1. \A k \in Nat : k # 0 => k - 1 \in Nat
    OBVIOUS
  <2>2. \A k \in Nat : up[k] = UpFrom(path, k) /\ (k # 0 => up[k - 1] = UpFrom(path, k - 1))
    BY <2>1
  <2>3. up = [k \in Nat |-> up[k]]
    OBVIOUS
  <2> HIDE DEF up
  <2>4. \A k \in Nat : up[k] = F(up, k)
    BY <2>2, UpSteps
  <2> HIDE DEF F
  <2>5. up = [k \in Nat |-> F(up, k)]
    BY <2>3, <2>4
  <2> QED BY <1>1, <2>5
<1>3. ASSUME NEW up, IsUp(up, path), NEW n \in Nat PROVE up[n] = UpFrom(path, n)
  <2>1. \A k \in Nat : up[k] = F(up, k)
    <3> HIDE DEF F
    <3>1. up = [k \in Nat |-> F(up, k)]
      BY <1>1, <1>3
    <3> QED BY <3>1
  <2> DEFINE G == {k \in 0..n : up[k] = UpFrom(path, k)}
  <2>2. 0 \in G
    BY <2>1, UpSteps
  <2>3. ASSUME NEW k \in 0..n, k \in G, k < n PROVE k + 1 \in G
    <3>1. k + 1 \in Nat /\ k + 1 # 0 /\ k + 1 - 1 = k /\ k + 1 \in 0..n
      BY <2>3
    <3>2. up[k + 1] = F(up, k + 1)
      BY <2>1, <3>1
    <3>3. F(up, k + 1) = IF up[k] = <<>> THEN <<>> ELSE Front(up[k])
      BY <3>1
    <3>4. UpFrom(path, k + 1) = IF UpFrom(path, k) = <<>> THEN <<>> ELSE Front(UpFrom(path, k))
      BY <3>1, UpSteps
    <3> HIDE DEF F
    <3>5. up[k] = UpFrom(path, k)
      BY <2>3
    <3>6. up[k + 1] = UpFrom(path, k + 1)
      BY <3>2, <3>3, <3>4, <3>5
    <3> QED BY <3>1, <3>6
  <2> HIDE DEF G
  <2>4. \A k \in 0..n : k \in G /\ k < n => k + 1 \in G
    BY <2>3
  <2>5. \A k \in 0..n : k \in G
    BY <2>2, <2>4, UpTo
  <2>6. n \in 0..n
    OBVIOUS
  <2> QED BY <2>5, <2>6 DEF G
<1> QED BY <1>2, <1>3

LEMMA PrefixesOf ==
    ASSUME NEW S, NEW name \in Seq(S), name # <<>>, NEW parts \in Seq(S)
    PROVE  IsPrefix(name, parts) <=> \E k \in DOMAIN parts : name = SubSeq(parts, 1, k)
<1>0. /\ Len(name) \in Nat \ {0} /\ Len(parts) \in Nat /\ DOMAIN parts = 1..Len(parts)
      /\ SubSeq(name, 1, Len(name)) = name
  BY LenProperties, EmptySeq, SubSeqFull
<1>1. ASSUME IsPrefix(name, parts) PROVE \E k \in DOMAIN parts : name = SubSeq(parts, 1, k)
  BY <1>0, <1>1 DEF IsPrefix
<1>2. ASSUME NEW k \in DOMAIN parts, name = SubSeq(parts, 1, k) PROVE IsPrefix(name, parts)
  <2>1. \A i \in 1..k : parts[i] \in S
    BY <1>0, LenProperties
  <2>2. Len(name) = k
    BY <1>0, <1>2, <2>1, SubSeqProperties
  <2> QED BY <1>0, <1>2, <2>2 DEF IsPrefix
<1> QED BY <1>1, <1>2

\* The files a relative import leads to are those whose name from the package
\* the dots lead to is one of the names or a beginning of them.
LEMMA RelativeMeans ==
    ASSUME NEW path \in Seq(Words), NEW parts \in Seq(Words \ Extensions), NEW level \in Nat,
           level # 0, NEW p \in Seq(Words), Len(p) > 1
    PROVE  p \in RelativeFiles(Specifier(level, parts), path) <=>
             \E name \in NamedFrom(SubSeq(path, 1, Len(path) - 1 - level), p) :
                IsPrefix(name, parts)
<1> DEFINE spec == Specifier(level, parts)
           up == CHOOSE g : IsUp(g, path)
           package == SubSeq(path, 1, Len(path) - 1 - level)
           joined == Directory(path) \o spec.parts
           roots == IF spec.slash
                    THEN {r \in {NormalizePath(joined)} : r # <<>> /\ ~Resolved(joined).left}
                    ELSE {up[spec.level - 1] \o SubSeq(spec.parts, 1, k) : k \in DOMAIN spec.parts}
           files(root) ==
             IF Last(root) \in Extensions THEN {root}
             ELSE {Append(root, x) : x \in Extensions}
                     \cup {root \o <<"index", x>> : x \in {".ts", ".tsx"}}
                     \cup {root \o <<"__init__", ".py">>}
<1>1. RelativeFiles(spec, path) = UNION {files(root) : root \in roots}
  BY Zenon DEF RelativeFiles, IsUp
<1>2. up[level - 1] = package /\ package \in Seq(Words)
  <2>0. Len(path) \in Nat
    BY LenProperties
  <2>1. level - 1 \in Nat /\ Len(path) - 2 - (level - 1) = Len(path) - 1 - level
        /\ Len(path) - 1 - level \in Int /\ Len(path) - 1 - level <= Len(path)
    BY <2>0
  <2>2. IsUp(up, path)
    BY UpDirectories
  <2> HIDE DEF up
  <2>3. up[level - 1] = UpFrom(path, level - 1)
    BY <2>1, <2>2, UpDirectories
  <2> QED BY <2>1, <2>3, DirectoryText DEF UpFrom
<1>3. roots = {package \o SubSeq(parts, 1, k) : k \in DOMAIN parts}
  <2>1. spec.slash = FALSE /\ spec.level = level /\ spec.parts = parts
    BY DEF Specifier
  <2> HIDE DEF spec, up, package
  <2> QED BY <1>2, <2>1
<1> HIDE DEF spec, up, package, roots
<1>4. ASSUME NEW k \in DOMAIN parts, NEW name, name = SubSeq(parts, 1, k)
      PROVE  /\ name \in Seq(Words) /\ name # <<>>
             /\ files(package \o name) = FilesNamed(package, name)
  <2>0. Len(parts) \in Nat /\ DOMAIN parts = 1..Len(parts) /\ parts \in Seq(Words)
        /\ \A i \in 1..Len(parts) : parts[i] \in Words \ Extensions
    <3>1. Words \ Extensions \subseteq Words
      OBVIOUS
    <3> QED BY <3>1, LenProperties, SeqMonotonic
  <2>1. name = Append(SubSeq(parts, 1, k - 1), parts[k])
    <3>1. 1 \in 1..Len(parts) /\ k \in 1..Len(parts)
      BY <1>4, <2>0
    <3>2. name = SubSeq(parts, 1, k - 1) \o <<parts[k]>>
      BY <1>4, <2>0, <3>1, SubSeqRecursiveSecond
    <3>3. SubSeq(parts, 1, k - 1) \in Seq(Words) /\ parts[k] \in Words
      BY <2>0, <3>1, DirectoryText
    <3> QED BY <3>2, <3>3, AppendIsConcat
  <2>2. SubSeq(parts, 1, k - 1) \in Seq(Words) /\ parts[k] \in Words /\ parts[k] \notin Extensions
    BY <1>4, <2>0, DirectoryText
  <2>3. name \in Seq(Words) /\ name # <<>>
    BY <2>1, <2>2, Ends
  <2> DEFINE root == package \o name
             front == package \o SubSeq(parts, 1, k - 1)
  <2>4. root = Append(front, parts[k]) /\ front \in Seq(Words)
    <3>1. PICK a : a = SubSeq(parts, 1, k - 1)
      OBVIOUS
    <3>2. PICK x \in Words : x = parts[k]
      BY <2>2
    <3>3. a \in Seq(Words)
      BY <2>2, <3>1
    <3>4. package \o Append(a, x) = Append(package \o a, x) /\ package \o a \in Seq(Words)
      BY <1>2, <3>3, JoinedEnds
    <3> QED BY <2>1, <3>1, <3>2, <3>4
  <2> HIDE DEF front
  <2>5. root \in Seq(Words) /\ root # <<>> /\ Last(root) = parts[k]
    <3>1. Append(front, parts[k]) \in Seq(Words) /\ Append(front, parts[k]) # <<>>
          /\ Last(Append(front, parts[k])) = parts[k]
      BY <2>2, <2>4, Ends
    <3> QED BY <2>4, <3>1
  <2>6. FilesNamed(package, name) = {Append(root, x) : x \in Extensions}
                                      \cup {Append(Append(root, w[1]), w[2]) : w \in Wholes}
    BY DEF FilesNamed
  <2> HIDE DEF root
  <2>7. \A x, y \in Words : root \o <<x, y>> = Append(Append(root, x), y)
    BY <2>5, TwoMore
  <2>8. {Append(Append(root, w[1]), w[2]) : w \in Wholes} =
          {root \o <<"index", x>> : x \in {".ts", ".tsx"}} \cup {root \o <<"__init__", ".py">>}
    <3>1. {Append(Append(root, w[1]), w[2]) : w \in Wholes} =
            {Append(Append(root, "__init__"), ".py"), Append(Append(root, "index"), ".ts"),
             Append(Append(root, "index"), ".tsx")}
      <4> DEFINE g(a, b) == Append(Append(root, a), b)
      <4>1. /\ <<"__init__", ".py">>[1] = "__init__" /\ <<"__init__", ".py">>[2] = ".py"
            /\ <<"index", ".ts">>[1] = "index" /\ <<"index", ".ts">>[2] = ".ts"
            /\ <<"index", ".tsx">>[1] = "index" /\ <<"index", ".tsx">>[2] = ".tsx"
        OBVIOUS
      <4> HIDE DEF g
      <4>2. {g(w[1], w[2]) : w \in Wholes} =
              {g("__init__", ".py"), g("index", ".ts"), g("index", ".tsx")}
        BY <4>1 DEF Wholes
      <4> QED BY <4>2 DEF g
    <3>2. {root \o <<"index", x>> : x \in {".ts", ".tsx"}} =
            {root \o <<"index", ".ts">>, root \o <<"index", ".tsx">>}
      OBVIOUS
    <3>3. /\ root \o <<"index", ".ts">> = Append(Append(root, "index"), ".ts")
          /\ root \o <<"index", ".tsx">> = Append(Append(root, "index"), ".tsx")
          /\ root \o <<"__init__", ".py">> = Append(Append(root, "__init__"), ".py")
      BY <2>7, WordsMeans
    <3> QED BY <3>1, <3>2, <3>3
  <2>9. files(root) = {Append(root, x) : x \in Extensions}
                        \cup {root \o <<"index", x>> : x \in {".ts", ".tsx"}}
                        \cup {root \o <<"__init__", ".py">>}
    BY <2>2, <2>5
  <2> QED BY <2>3, <2>6, <2>8, <2>9 DEF root
<1> HIDE DEF files
<1>5. ASSUME p \in RelativeFiles(spec, path)
      PROVE  \E name \in NamedFrom(package, p) : IsPrefix(name, parts)
  <2>0. PICK root \in roots : p \in files(root)
    BY <1>1, <1>5
  <2>1. PICK k \in DOMAIN parts : p \in files(package \o SubSeq(parts, 1, k))
    BY <1>3, <2>0
  <2>2. PICK name : name = SubSeq(parts, 1, k)
    OBVIOUS
  <2>3. name \in Seq(Words) /\ name # <<>> /\ p \in FilesNamed(package, name)
    BY <1>4, <2>1, <2>2
  <2>4. name \in NamedFrom(package, p)
    BY <1>2, <2>3, NamesMeanFiles
  <2>5. parts \in Seq(Words)
    BY SeqMonotonic
  <2> QED BY <2>2, <2>3, <2>4, <2>5, PrefixesOf
<1>6. ASSUME NEW name \in NamedFrom(package, p), IsPrefix(name, parts)
      PROVE  p \in RelativeFiles(spec, path)
  <2>1. name \in Seq(Words) /\ name # <<>> /\ p \in FilesNamed(package, name)
    BY <1>2, <1>6, NamesMeanFiles
  <2>2. parts \in Seq(Words)
    BY SeqMonotonic
  <2>3. PICK k \in DOMAIN parts : name = SubSeq(parts, 1, k)
    BY <1>6, <2>1, <2>2, PrefixesOf
  <2>4. p \in files(package \o name)
    BY <1>4, <2>1, <2>3
  <2> QED BY <1>1, <1>3, <2>3, <2>4
<1> QED BY <1>5, <1>6 DEF spec, package

-----------------------------------------------------------------------------
(* What the resolver reads                                                 *)

LEMMA FindsFields ==
    ASSUME NEW f, NEW y, Finds(f, y)
    PROVE  IsObservation(y) /\ Within(f, y.evidence)
<1>1. CASE Aside(f, y)
  BY <1>1 DEF Aside
<1>2. ASSUME NEW st, y = ImportAt(f, st) \/ y = BindingAt(f, st)
      PROVE  IsObservation(y) /\ Within(f, y.evidence)
  <2>1. PICK e : e = At(f, st)
    OBVIOUS
  <2>2. Within(f, e)
    BY <2>1 DEF Within, At, Span, Evidence
  <2>3. PICK k, r : y = Observation(k, "module", ModuleKey(f.path), r, e)
    BY <1>2, <2>1 DEF ImportAt, BindingAt
  <2>4. IsObservation(y) /\ y.evidence = e
    BY <2>3 DEF IsObservation, Observation
  <2> QED BY <2>2, <2>4
<1> QED BY <1>1, <1>2 DEF Finds

LEMMA SourceFilePath ==
    ASSUME NEW f \in SourceFiles
    PROVE  /\ f.path \in Seq(STRING) /\ f.path \in Seq(Words) /\ Len(f.path) > 1
           /\ NormalizePath(f.path) = f.path
           /\ NormalizeKey("file", FileKey(f.path)) = FileKey(f.path)
<1>1. f.path \in Seq(STRING) /\ Len(f.path) > 1 /\ NormalizePath(f.path) = f.path
  BY RepositoriesAssumption
<1>2. f.path \in Seq(Words)
  BY <1>1, WordsMeans, SeqMonotonic
<1>3. [FileKey(f.path) EXCEPT !.path = NormalizePath(@)] = FileKey(f.path)
  BY <1>1 DEF FileKey, Key
<1> QED BY <1>1, <1>2, <1>3 DEF NormalizeKey, PathBearing

LEMMA WithinPath ==
    ASSUME NEW f, NEW e, Within(f, e)
    PROVE  e.path = f.path
BY DEF Within, Evidence

LEMMA PathKept ==
    ASSUME NEW f \in SourceFiles, NEW e, Within(f, e)
    PROVE  [e EXCEPT !.path = NormalizePath(@)] = e
<1>1. NormalizePath(f.path) = f.path
  BY SourceFilePath
<1>2. e.path = f.path
  BY WithinPath
<1> QED BY <1>1, <1>2 DEF Within, Evidence

LEMMA ResolverWithin ==
    ASSUME NEW f, NEW e, Within(f, e), NEW v, v = [e EXCEPT !.extractor = Resolver]
    PROVE  Within(f, v) /\ v.start_line = e.start_line
BY DEF Within, Evidence

\* o is the row of y, found in f.
Stands(o, f, y) ==
    /\ o.row.observed_kind = y.observed_kind /\ o.row.referent_text = y.referent_text
    /\ o.row.subject = NormalizeKey(y.subject_kind, y.subject)
    /\ InputEvidence(o).path = f.path /\ InputEvidence(o).start_line = y.evidence.start_line
    /\ \E g \in SourceFiles : Within(g, InputEvidence(o))

LEMMA ObservedFields ==
    ASSUME NEW f \in SourceFiles, NEW x \in ExtractedBy(f).observations
    PROVE  Within(f, x.evidence) /\ x.evidence.path = f.path
<1>1. PICK y, n : Finds(f, y) /\ x = [y EXCEPT !.ordinal = n]
  BY FileObserves
<1>2. IsObservation(y) /\ Within(f, y.evidence)
  BY <1>1, FindsFields
<1>3. x.evidence = y.evidence
  BY <1>1, <1>2 DEF IsObservation, Observation
<1>4. PICK e : e = x.evidence
  OBVIOUS
<1>5. Within(f, e)
  BY <1>2, <1>3, <1>4
<1>6. e.path = f.path
  BY <1>5, WithinPath
<1> QED BY <1>4, <1>5, <1>6

LEMMA RowsStand ==
    ASSUME read \in Seq(SourceFiles), Recorded(observations, evidence, Range(read)),
           NEW f \in Range(read), NEW x \in ExtractedBy(f).observations, NEW y, NEW n, Finds(f, y),
           x = [y EXCEPT !.ordinal = n], NEW o, o = ObservationRow(x)
    PROVE  o \in observations /\ Stands(o, f, y)
<1>0. Range(read) \subseteq SourceFiles
  BY DEF Range
<1>1. x \in Observed(Range(read)) /\ o \in observations
  BY DEF Recorded, Observed
<1>2. EvidenceRow(ObservationRef(o.id), x.evidence) \in evidence
  BY <1>1 DEF Recorded
<1>3. InputEvidence(o) \in EvidenceOf(ObservationRef(o.id))
  <2>1. EvidenceRow(ObservationRef(o.id), x.evidence).of = ObservationRef(o.id)
    BY DEF EvidenceRow
  <2>2. EvidenceOf(ObservationRef(o.id)) # {}
    BY <1>2, <2>1 DEF EvidenceOf
  <2> QED BY <2>2 DEF InputEvidence
<1>4. PICK r \in evidence : r.of = ObservationRef(o.id) /\ r.record = InputEvidence(o)
  BY <1>3 DEF EvidenceOf
<1>5. PICK z \in Observed(Range(read)) :
        r = EvidenceRow(ObservationRef(ObservationRow(z).id), z.evidence)
  <2>1. r.of.kind = "observation"
    BY <1>4 DEF ObservationRef, Reference
  <2> QED BY <1>4, <2>1 DEF Recorded
<1>6. PICK g \in SourceFiles : z \in ExtractedBy(g).observations
  BY <1>0 DEF Observed
<1>7. Within(g, z.evidence) /\ z.evidence.path = g.path /\ r.record = z.evidence
  <2>1. Within(g, z.evidence)
    BY <1>6, ObservedFields
  <2>2. z.evidence.path = g.path /\ [z.evidence EXCEPT !.path = NormalizePath(@)] = z.evidence
    <3>1. PICK e : e = z.evidence
      OBVIOUS
    <3>2. Within(g, e)
      BY <2>1, <3>1
    <3>3. e.path = g.path /\ [e EXCEPT !.path = NormalizePath(@)] = e
      BY <1>6, <3>2, WithinPath, PathKept
    <3> QED BY <3>1, <3>3
  <2> QED BY <1>5, <2>1, <2>2 DEF EvidenceRow
<1>8. ObservationRow(z).id = o.id
  BY <1>4, <1>5 DEF EvidenceRow, ObservationRef, Reference
<1>9. \A w : ObservationRow(w).id.path = NormalizePath(w.evidence.path)
             /\ ObservationRow(w).id.start_line = w.evidence.start_line
  BY DEF ObservationRow, ObservationId
<1>10. Within(f, x.evidence) /\ x.evidence.path = f.path
  BY <1>0, ObservedFields
<1>11. NormalizePath(f.path) = f.path /\ NormalizePath(g.path) = g.path
  BY <1>0, <1>6, SourceFilePath
<1>12. g.path = f.path /\ z.evidence.start_line = x.evidence.start_line
  BY <1>7, <1>8, <1>9, <1>10, <1>11
<1>13. IsObservation(y) /\ Within(f, y.evidence)
  BY FindsFields
<1>14. /\ x.evidence = y.evidence /\ x.observed_kind = y.observed_kind
       /\ x.referent_text = y.referent_text /\ x.subject_kind = y.subject_kind
       /\ x.subject = y.subject
  BY <1>13 DEF IsObservation, Observation
<1>15. /\ o.row.observed_kind = y.observed_kind /\ o.row.referent_text = y.referent_text
       /\ o.row.subject = NormalizeKey(y.subject_kind, y.subject)
  BY <1>14 DEF ObservationRow, Subject
<1>16. InputEvidence(o).path = f.path /\ InputEvidence(o).start_line = y.evidence.start_line
       /\ Within(g, InputEvidence(o))
  BY <1>4, <1>7, <1>12, <1>14
<1> QED BY <1>1, <1>6, <1>15, <1>16 DEF Stands

LEMMA InputsStand ==
    ASSUME read \in Seq(SourceFiles), Recorded(observations, evidence, Range(read)),
           NEW o \in observations
    PROVE  \E f \in Range(read) : \E y :
              /\ Finds(f, y) /\ ValidSpan(y.evidence) /\ Stands(o, f, y)
              /\ ExtractedBy(f).observations # {}
<1>1. PICK x \in Observed(Range(read)) : o = ObservationRow(x)
  BY DEF Recorded
<1>2. PICK f \in Range(read) : x \in ExtractedBy(f).observations
  BY DEF Observed
<1>3. f \in SourceFiles
  BY DEF Range
<1>4. PICK y, n : Finds(f, y) /\ ValidSpan(y.evidence) /\ x = [y EXCEPT !.ordinal = n]
  BY <1>2, <1>3, FileObserves
<1>5. Stands(o, f, y)
  BY <1>1, <1>2, <1>4, RowsStand
<1> QED BY <1>2, <1>4, <1>5

\* What is recorded of the files that were read
FilesKnown ==
    /\ read \in Seq(SourceFiles)
    /\ \A f, g \in Range(read) : f.path = g.path => f = g
    /\ \A n \in nodes : n.node_kind = "dependency" \/ Offered(n, Range(read))
    /\ Recorded(observations, evidence, Range(read))

LEMMA FilesAreRead ==
    ASSUME FilesKnown, NEW n \in nodes, n.node_kind = "file"
    PROVE  \E g \in Range(read) : n.stable_key = FileKey(g.path)
<1>1. Offered(n, Range(read))
  BY DEF FilesKnown
<1>2. PICK g \in Range(read) : \E m \in ExtractedBy(g).nodes \cup {FileNode(g)} : n = NodeRow(m)
  BY <1>1 DEF Offered
<1>3. PICK m \in ExtractedBy(g).nodes \cup {FileNode(g)} : n = NodeRow(m)
  BY <1>2
<1>4. g \in SourceFiles
  BY DEF FilesKnown, Range
<1>5. m.node_kind = "file" /\ n.stable_key = NormalizeKey("file", m.stable_key)
  BY <1>3, RowKind
<1>6. m.stable_key = FileKey(g.path)
  <2>1. CASE m = FileNode(g)
    BY <2>1, NodeFields DEF FileNode
  <2>2. CASE m \in ExtractedBy(g).nodes
    <3>1. CASE Waits(ExtractedBy(g))
      <4>1. m \in Declaring(g)
        BY <1>4, <2>2, <3>1, FileOffers
      <4>2. m.node_kind = "dependency"
        BY <4>1, DependencyFields DEF Declaring
      <4> QED BY <1>5, <4>2
    <3>2. CASE ~Waits(ExtractedBy(g))
      <4>1. Offers(g, ExtractedBy(g).nodes)
        BY <1>4, <3>2, FileOffers
      <4> QED BY <1>5, <2>2, <4>1 DEF Offers
    <3> QED BY <3>1, <3>2
  <2> QED BY <2>1, <2>2
<1> QED BY <1>4, <1>5, <1>6, SourceFilePath

LEMMA KeysOfFiles ==
    ASSUME FilesKnown
    PROVE  /\ \A p \in FilePaths : \E g \in Range(read) : p = g.path
           /\ {n.stable_key : n \in {m \in nodes : m.node_kind = "file"}}
                = {FileKey(p) : p \in FilePaths}
           /\ \A k : KindOf(k) = "file" => \E p \in FilePaths : k = FileKey(p)
           /\ \A p \in FilePaths : NormalizeKey("file", FileKey(p)) = FileKey(p)
<1>0. \A p : FileKey(p).path = p
  BY DEF FileKey, Key
<1>1. \A n \in nodes : n.node_kind = "file" =>
        (\E g \in Range(read) : n.stable_key = FileKey(g.path))
        /\ n.stable_key = FileKey(n.stable_key.path)
  BY <1>0, FilesAreRead
<1>2. \A p \in FilePaths : \E g \in Range(read) : p = g.path
  BY <1>0, <1>1 DEF FilePaths
<1>3. {n.stable_key : n \in {m \in nodes : m.node_kind = "file"}} = {FileKey(p) : p \in FilePaths}
  BY <1>1 DEF FilePaths
<1>4. ASSUME NEW k, KindOf(k) = "file" PROVE \E p \in FilePaths : k = FileKey(p)
  <2>1. k \in NodeKeys /\ NodeAt(k).node_kind = "file"
    BY <1>4 DEF KindOf
  <2>2. NodeAt(k) \in nodes /\ NodeAt(k).stable_key = k
    BY <2>1 DEF NodeAt, NodeKeys
  <2> QED BY <1>3, <2>1, <2>2
<1>5. ASSUME NEW p \in FilePaths PROVE NormalizeKey("file", FileKey(p)) = FileKey(p)
  <2>1. PICK g \in SourceFiles : p = g.path
    BY <1>2 DEF FilesKnown, Range
  <2> QED BY <2>1, SourceFilePath
<1> QED BY <1>2, <1>3, <1>4, <1>5

\* _source_file: an import is an import of the file that holds it.
LEMMA SourceFileOf ==
    ASSUME FilesKnown, NEW f \in Range(read), NEW o, NEW y, Finds(f, y), Stands(o, f, y),
           y.observed_kind \in ImportKinds
    PROVE  SourceFile(o) = FileKey(f.path)
<1>1. InputEvidence(o).path = f.path /\ o.row.subject = NormalizeKey(y.subject_kind, y.subject)
  BY DEF Stands
<1>2. CASE Aside(f, y)
  <2>1. f \in SourceFiles
    BY DEF FilesKnown, Range
  <2>2. o.row.subject = FileKey(f.path)
    BY <1>1, <1>2, <2>1, SourceFilePath DEF Aside
  <2> QED BY <1>1, <2>2 DEF SourceFile
<1>3. CASE \E st : y = ImportAt(f, st) \/ y = BindingAt(f, st)
  <2>1. y.subject_kind = "module" /\ y.subject = ModuleKey(f.path)
    BY <1>3 DEF ImportAt, BindingAt, Observation
  <2>2. o.row.subject.form = "mod"
    BY <1>1, <2>1 DEF NormalizeKey, PathBearing, ModuleKey, Key
  <2>3. KindOf(o.row.subject) # "file"
    <3>1. \A p : FileKey(p).form = "file"
      BY DEF FileKey, Key
    <3> QED BY <2>2, <3>1, KeysOfFiles
  <2> QED BY <1>1, <2>3 DEF SourceFile
<1> QED BY <1>2, <1>3 DEF Finds

-----------------------------------------------------------------------------
(* What an import statement means                                          *)

\* What the modules and members are called.
PlainNames == STRING \ Extensions

LEMMA StatementNames ==
    ASSUME NEW f, PythonFile(f), NEW i \in DOMAIN f.body, NEW st, st = f.body[i], Importing(st)
    PROVE  /\ Level(st) \in Nat
           /\ Dotted(st) \in Seq(PlainNames) /\ Dotted(st) # <<>>
           /\ st.kind = "from" => st.parts \in Seq(PlainNames) /\ Front(Dotted(st)) = st.parts
           /\ st.kind = "from" /\ st.level = 0 => st.parts # <<>>
<1>1. PythonStatement(st)
  BY PythonBody
<1>2. CASE st.kind = "import"
  BY <1>1, <1>2 DEF PythonStatement, PlainNames, Level, Dotted
<1>3. CASE st.kind = "from"
  <2>1. st.parts \in Seq(PlainNames) /\ st.name \in PlainNames /\ st.level \in Nat
        /\ (st.level = 0 => st.parts # <<>>)
    BY <1>1, <1>3 DEF PythonStatement, PlainNames
  <2>2. Dotted(st) = Append(st.parts, st.name) /\ Level(st) = st.level
    BY <1>3 DEF Dotted, Level
  <2>3. /\ Append(st.parts, st.name) \in Seq(PlainNames) /\ Append(st.parts, st.name) # <<>>
        /\ Front(Append(st.parts, st.name)) = st.parts
    BY <2>1, Ends
  <2> QED BY <1>3, <2>1, <2>2, <2>3
<1> QED BY <1>2, <1>3 DEF Importing

\* The binding b has the last of the names as a member of the module before it.
Brings(b, dotted) == b.spec.level = 0 /\ Append(b.spec.parts, b.imported) = dotted

\* The bindings recorded of a file are those of its statements.
LEMMA BindingsMean ==
    ASSUME FilesKnown, NEW f \in Range(read), PythonFile(f),
           NEW b \in BindingsOf(FileKey(f.path)), NEW dotted, Brings(b, dotted)
    PROVE  BoundMember(f, dotted) /\ b.spec.parts = Front(dotted)
<1>1. PICK o \in Inputs("import_binding") : SourceFile(o) = FileKey(f.path)
                                            /\ b = o.row.referent_text
  BY DEF BindingsOf
<1>2. o \in observations /\ o.row.observed_kind = "import_binding"
  BY DEF Inputs
<1>3. PICK g, y : /\ g \in Range(read) /\ Finds(g, y)
                  /\ ValidSpan(y.evidence) /\ Stands(o, g, y)
  BY <1>2, InputsStand DEF FilesKnown
<1>4. y.observed_kind = "import_binding" /\ y.referent_text = b
  BY <1>1, <1>2, <1>3 DEF Stands
<1>5. SourceFile(o) = FileKey(g.path)
  BY <1>3, <1>4, SourceFileOf DEF ImportKinds
<1>6. g = f
  <2>1. g.path = f.path
    BY <1>1, <1>5 DEF FileKey, Key
  <2> QED BY <1>3, <2>1 DEF FilesKnown
<1>7. ~Aside(f, y)
  BY <1>4 DEF Aside, ImportKinds, PythonFile
<1>8. PICK i \in DOMAIN f.body : LET st == f.body[i] IN
         \/ Importing(st) /\ y = ImportAt(f, st)
         \/ Binding(st) /\ y = BindingAt(f, st)
  BY <1>3, <1>6, <1>7 DEF Finds
<1>9. PICK st : st = f.body[i]
  OBVIOUS
<1>10. Binding(st) /\ y = BindingAt(f, st)
  BY <1>4, <1>8, <1>9 DEF ImportAt, Observation
<1>11. /\ b = [spec |-> Specifier(st.level, st.parts), imported |-> st.name, local |-> st.local]
       /\ y.evidence = At(f, st)
  BY <1>4, <1>10 DEF BindingAt, Observation
<1>12. b.spec.level = st.level /\ b.spec.parts = st.parts /\ b.imported = st.name
  BY <1>11 DEF Specifier
<1>13. st.level = 0 /\ Dotted(st) = dotted /\ st.kind = "from"
  BY <1>10, <1>12 DEF Brings, Binding, Dotted
<1>14. BoundMember(f, dotted)
  BY <1>3, <1>8, <1>9, <1>10, <1>11, <1>13 DEF BoundMember, Binding
<1>15. Importing(st)
  BY <1>10 DEF Binding, Importing
<1>16. Front(Dotted(st)) = st.parts
  BY <1>9, <1>13, <1>15, StatementNames
<1> QED BY <1>12, <1>13, <1>14, <1>16

LEMMA MembersBound ==
    ASSUME FilesKnown, NEW f \in Range(read), PythonFile(f), ExtractedBy(f).observations # {},
           NEW dotted, BoundMember(f, dotted)
    PROVE  /\ \E b \in BindingsOf(FileKey(f.path)) : Brings(b, dotted)
           /\ Front(dotted) \in Seq(PlainNames) /\ Front(dotted) # <<>>
<1>0. f \in SourceFiles /\ read \in Seq(SourceFiles) /\ Recorded(observations, evidence, Range(read))
  BY DEF FilesKnown, Range
<1>1. PICK i \in DOMAIN f.body : LET st == f.body[i] IN
          /\ st.kind = "from" /\ st.level = 0 /\ st.name # "*" /\ Dotted(st) = dotted
          /\ st.scope = 0 /\ ~st.block /\ ValidSpan(At(f, st))
  BY DEF BoundMember
<1>2. PICK st : st = f.body[i]
  OBVIOUS
<1>3. /\ st.kind = "from" /\ st.level = 0 /\ Dotted(st) = dotted /\ ValidSpan(At(f, st))
      /\ Binding(st) /\ Importing(st)
  BY <1>1, <1>2 DEF Binding, Importing
<1>4. PICK n : [BindingAt(f, st) EXCEPT !.ordinal = n] \in ExtractedBy(f).observations
  <2>1. PICK x : x \in ExtractedBy(f).observations
    OBVIOUS
  <2> QED BY <1>0, <1>2, <1>3, <2>1, FileObserves DEF PythonFile
<1>5. PICK y : y = BindingAt(f, st)
  OBVIOUS
<1>6. PICK x : x = [y EXCEPT !.ordinal = n]
  OBVIOUS
<1>7. PICK o : o = ObservationRow(x)
  OBVIOUS
<1>8. Finds(f, y)
  BY <1>2, <1>3, <1>5 DEF Finds
<1>9. x \in ExtractedBy(f).observations
  BY <1>4, <1>5, <1>6
<1>10. o \in observations /\ Stands(o, f, y)
  BY <1>0, <1>6, <1>7, <1>8, <1>9, RowsStand
<1>11. /\ y.observed_kind = "import_binding"
       /\ y.referent_text = [spec |-> Specifier(st.level, st.parts), imported |-> st.name,
                             local |-> st.local]
  BY <1>5 DEF BindingAt, Observation
<1>12. SourceFile(o) = FileKey(f.path)
  BY <1>8, <1>10, <1>11, SourceFileOf DEF ImportKinds
<1>13. PICK b : b = o.row.referent_text
  OBVIOUS
<1>14. b \in BindingsOf(FileKey(f.path))
  BY <1>10, <1>11, <1>12, <1>13 DEF BindingsOf, Inputs, Stands
<1>15. b = [spec |-> Specifier(st.level, st.parts), imported |-> st.name, local |-> st.local]
  BY <1>10, <1>11, <1>13 DEF Stands
<1>16. b.spec.level = st.level /\ b.spec.parts = st.parts /\ b.imported = st.name
  BY <1>15 DEF Specifier
<1>17. Brings(b, dotted)
  BY <1>3, <1>16 DEF Brings, Dotted
<1>18. Front(Dotted(st)) = st.parts /\ st.parts \in Seq(PlainNames) /\ st.parts # <<>>
  BY <1>2, <1>3, StatementNames
<1> QED BY <1>3, <1>14, <1>17, <1>18

\* The paths ImportCandidates looks up.
ImportPaths(spec, path, bindings) ==
    CASE spec.level # 0 -> RelativeFiles(spec, path)
      [] spec.level = 0 /\ Last(path) = ".py" ->
            AbsoluteFiles(spec.parts)
                \cup UNION {AbsoluteFiles(b.spec.parts) : b \in {x \in bindings :
                        x.spec.level = 0 /\ Append(x.spec.parts, x.imported) = spec.parts}}
      [] OTHER -> {}

LEMMA PathsOfFiles ==
    ASSUME FilesKnown
    PROVE  \A p \in FilePaths : p \in Seq(Words) /\ Len(p) > 1
<1> SUFFICES ASSUME NEW p \in FilePaths PROVE p \in Seq(Words) /\ Len(p) > 1
  OBVIOUS
<1>1. PICK g \in SourceFiles : p = g.path
  BY KeysOfFiles DEF FilesKnown, Range
<1> QED BY <1>1, SourceFilePath

LEMMA NamesAreWords ==
    /\ Seq(PlainNames) \subseteq Seq(Words)
    /\ Seq(PlainNames) \subseteq Seq(Words \ Extensions)
<1>1. PlainNames \subseteq Words \ Extensions /\ Words \ Extensions \subseteq Words
  BY WordsMeans DEF PlainNames
<1> QED BY <1>1, SeqMonotonic

LEMMA PathsMeant ==
    ASSUME FilesKnown, NEW f \in Range(read), PythonFile(f), ExtractedBy(f).observations # {},
           NEW i \in DOMAIN f.body, Importing(f.body[i]), NEW p \in FilePaths
    PROVE  p \in ImportPaths(Specifier(Level(f.body[i]), Dotted(f.body[i])), f.path,
                             BindingsOf(FileKey(f.path)))
             <=> p \in Meant(f, i)
<1>0. PICK st : st = f.body[i]
  OBVIOUS
<1> DEFINE dotted == Dotted(st)
           bindings == BindingsOf(FileKey(f.path))
           wanted == {dotted} \cup {q \in {Front(dotted)} : BoundMember(f, dotted)}
<1>1. f \in SourceFiles
  BY DEF PythonFile
<1>2. p \in Seq(Words) /\ Len(p) > 1 /\ f.path \in Seq(Words)
  BY <1>1, PathsOfFiles, SourceFilePath
<1>3. Level(st) \in Nat /\ dotted \in Seq(PlainNames) /\ dotted # <<>>
  BY <1>0, StatementNames
<1>4. PICK spec : spec = Specifier(Level(st), dotted)
  OBVIOUS
<1>5. spec.level = Level(st) /\ spec.parts = dotted
  BY <1>4 DEF Specifier
<1>6. CASE Level(st) = 0
  <2>1. st.kind = "import" \/ st.level = 0
    BY <1>6 DEF Level
  <2>2. Meant(f, i) = {q \in FilePaths : Last(q) = ".py" /\
                        \E root \in SearchPath : NamedFrom(root, q) \cap wanted # {}}
    BY <1>0, <2>1 DEF Meant
  <2>3. ImportPaths(spec, f.path, bindings) =
          AbsoluteFiles(dotted)
             \cup UNION {AbsoluteFiles(b.spec.parts) : b \in {x \in bindings : Brings(x, dotted)}}
    BY <1>5, <1>6 DEF ImportPaths, Brings, PythonFile
  <2>4. p \in AbsoluteFiles(dotted) <=>
          Last(p) = ".py" /\ \E root \in SearchPath : dotted \in NamedFrom(root, p)
    BY <1>3, AbsoluteMeans, PathsOfFiles, NamesAreWords
  <2>5. BoundMember(f, dotted) =>
          (p \in AbsoluteFiles(Front(dotted)) <=>
             Last(p) = ".py" /\ \E root \in SearchPath : Front(dotted) \in NamedFrom(root, p))
    <3> SUFFICES ASSUME BoundMember(f, dotted)
                 PROVE  p \in AbsoluteFiles(Front(dotted)) <=>
                          Last(p) = ".py" /\ \E root \in SearchPath :
                            Front(dotted) \in NamedFrom(root, p)
      OBVIOUS
    <3>1. Front(dotted) \in Seq(PlainNames) /\ Front(dotted) # <<>>
      BY MembersBound
    <3> QED BY <3>1, AbsoluteMeans, PathsOfFiles, NamesAreWords
  <2>6. \A b \in bindings : Brings(b, dotted) =>
          BoundMember(f, dotted) /\ b.spec.parts = Front(dotted)
    BY BindingsMean
  <2>7. BoundMember(f, dotted) => \E b \in bindings : Brings(b, dotted)
    BY MembersBound
  <2> HIDE DEF dotted, bindings
  <2>8. p \in ImportPaths(spec, f.path, bindings) <=>
          \/ p \in AbsoluteFiles(dotted)
          \/ BoundMember(f, dotted) /\ p \in AbsoluteFiles(Front(dotted))
    BY <2>3, <2>6, <2>7
  <2>9. p \in Meant(f, i) <=> Last(p) = ".py" /\ \E root \in SearchPath :
          \/ dotted \in NamedFrom(root, p)
          \/ BoundMember(f, dotted) /\ Front(dotted) \in NamedFrom(root, p)
    BY <2>2
  <2>10. p \in ImportPaths(spec, f.path, bindings) <=> p \in Meant(f, i)
    BY <2>4, <2>5, <2>8, <2>9
  <2> QED BY <1>0, <1>4, <2>10 DEF dotted, bindings
<1>7. CASE Level(st) # 0
  <2>1. st.kind # "import" /\ Level(st) = st.level
    BY <1>7 DEF Level
  <2>2. Meant(f, i) = {q \in FilePaths :
            \E name \in NamedFrom(SubSeq(f.path, 1, Len(f.path) - 1 - st.level), q) :
                IsPrefix(name, dotted)}
    BY <1>0, <1>7, <2>1 DEF Meant
  <2>3. ImportPaths(spec, f.path, bindings) = RelativeFiles(spec, f.path)
    BY <1>5, <1>7 DEF ImportPaths
  <2>4. dotted \in Seq(Words \ Extensions)
    BY <1>3, NamesAreWords
  <2> HIDE DEF dotted, bindings
  <2>5. p \in RelativeFiles(spec, f.path) <=>
          \E name \in NamedFrom(SubSeq(f.path, 1, Len(f.path) - 1 - st.level), p) :
             IsPrefix(name, dotted)
    BY <1>2, <1>3, <1>4, <1>7, <2>1, <2>4, RelativeMeans
  <2>6. p \in ImportPaths(spec, f.path, bindings) <=> p \in Meant(f, i)
    BY <2>2, <2>3, <2>5
  <2> QED BY <1>0, <1>4, <2>6 DEF dotted, bindings
<1> QED BY <1>6, <1>7

-----------------------------------------------------------------------------
(* What an import becomes                                                  *)

IsPackage(k) == \E name : k = Key("dep", <<>>, name)

\* _import_candidates: files, or else at most two packages.
LEMMA Candidates ==
    ASSUME FilesKnown, NEW spec, NEW path, NEW bindings, NEW found,
           found = ImportCandidates(spec, path, bindings)
    PROVE  /\ IsFiniteSet(found)
           /\ \/ found = {FileKey(p) : p \in ImportPaths(spec, path, bindings) \cap FilePaths}
              \/ \A k \in found : IsPackage(k)
<1> DEFINE paths == ImportPaths(spec, path, bindings)
           files == {FileKey(p) : p \in paths} \cap {n.stable_key : n \in
                      {m \in nodes : m.node_kind = "file"}}
           package == PackageRoot(spec)
           pair == {DependencyKey("npm", package), DependencyKey("pypi", package)}
<1>1. found = IF files # {} THEN files ELSE IF package = NoName THEN {} ELSE NodeKeys \cap pair
  BY Zenon DEF ImportCandidates, ImportPaths
<1>2. files = {FileKey(p) : p \in paths \cap FilePaths}
  <2>1. {n.stable_key : n \in {m \in nodes : m.node_kind = "file"}} = {FileKey(p) : p \in FilePaths}
    BY KeysOfFiles
  <2>2. \A p, q : FileKey(p) = FileKey(q) => p = q
    BY DEF FileKey, Key
  <2> HIDE DEF paths
  <2> QED BY <2>1, <2>2
<1>3. IsFiniteSet(files)
  <2>1. IsFiniteSet(Range(read))
    BY RangeFinite DEF FilesKnown
  <2>2. PICK key : key = [g \in Range(read) |-> FileKey(g.path)]
    OBVIOUS
  <2>3. PICK keys : keys = {FileKey(g.path) : g \in Range(read)}
    OBVIOUS
  <2>4. key \in [Range(read) -> keys] /\ \A k \in keys : \E g \in Range(read) : k = key[g]
    BY <2>2, <2>3
  <2>5. IsFiniteSet(keys)
    BY <2>1, <2>4, ImageFinite
  <2>6. files \subseteq keys
    BY <1>2, <2>3, KeysOfFiles
  <2> HIDE DEF files
  <2> QED BY <2>5, <2>6, FS_Subset
<1>4. IsFiniteSet(pair) /\ \A k \in pair : IsPackage(k)
  <2>1. \A e, n : IsPackage(DependencyKey(e, n))
    BY Zenon DEF DependencyKey, IsPackage
  <2>2. \A x, y : IsFiniteSet({x, y})
    <3> SUFFICES ASSUME NEW x, NEW y PROVE IsFiniteSet({x, y})
      OBVIOUS
    <3>1. IsFiniteSet({x}) /\ IsFiniteSet({x} \cup {y})
      BY FS_EmptySet, FS_AddElement, FS_Singleton
    <3> QED BY <3>1
  <2> QED BY <2>1, <2>2
<1> HIDE DEF paths, files, package, pair
<1>5. IsFiniteSet(found)
  <2>1. found = files \/ found \subseteq pair
    BY <1>1
  <2> QED BY <1>3, <1>4, <2>1, FS_Subset
<1>6. found = files \/ \A k \in found : IsPackage(k)
  BY <1>1, <1>4
<1> QED BY <1>2, <1>5, <1>6 DEF paths

\* The key of a file or a package is the same whatever kind it is read as.
LEMMA KeysStay ==
    ASSUME FilesKnown, NEW kind
    PROVE  /\ \A p \in FilePaths : NormalizeKey(kind, FileKey(p)) = FileKey(p)
           /\ \A k : IsPackage(k) => NormalizeKey(kind, k).form = "dep"
<1>1. ASSUME NEW p \in FilePaths PROVE NormalizeKey(kind, FileKey(p)) = FileKey(p)
  <2>1. NormalizeKey("file", FileKey(p)) = FileKey(p)
    BY KeysOfFiles
  <2>2. [FileKey(p) EXCEPT !.path = NormalizePath(@)] = FileKey(p)
    BY <2>1 DEF NormalizeKey, PathBearing
  <2> QED BY <2>2 DEF NormalizeKey
<1>2. ASSUME NEW k, IsPackage(k) PROVE NormalizeKey(kind, k).form = "dep"
  <2>1. PICK name : k = Key("dep", <<>>, name)
    BY <1>2 DEF IsPackage
  <2> QED BY <2>1 DEF NormalizeKey, Key
<1> QED BY <1>1, <1>2

\* k is what the import o leads to, as stated in f.
ImportLeads(o, f, k) ==
    /\ \E g \in SourceFiles : Within(g, InputEvidence(o))
    /\ InputEvidence(o).path = f.path
    /\ IsPackage(k) \/ \E p \in FilePaths : k = FileKey(p)
    /\ \A p : k = FileKey(p) /\ Last(f.path) = ".py" =>
         \E i \in DOMAIN f.body : /\ f.body[i].kind \in {"import", "from"}
                                  /\ f.body[i].line = InputEvidence(o).start_line
                                  /\ Meant(f, i) = {p}

LEMMA OneCandidate ==
    ASSUME NEW S, IsFiniteSet(S), NEW k \in S, ~(Cardinality(S) > 1)
    PROVE  S = {k}
<1>1. Cardinality(S) \in Nat /\ Cardinality(S) # 0
  BY FS_CardinalityType, FS_EmptySet
<1>2. Cardinality(S) = 1
  BY <1>1
<1>3. PICK x : S = {x}
  BY <1>2, FS_Singleton
<1> QED BY <1>3

LEMMA ImportsLead ==
    ASSUME FilesKnown, NEW o \in Inputs("import"), NEW d \in ResolveImport(o).edges
    PROVE  \E f \in Range(read) : \E k :
             ImportLeads(o, f, k) /\ d = EdgeFrom(o, SourceFile(o), "imports", k)
<1> DEFINE bindings == BindingsOf(SourceFile(o))
           referred == o.row.referent_text.spec
           at == InputEvidence(o).path
           found == ImportCandidates(referred, at, bindings)
<1>0. o \in observations /\ o.row.observed_kind = "import"
  BY DEF Inputs
<1>1. PICK f, y : /\ f \in Range(read) /\ ExtractedBy(f).observations # {}
                  /\ Finds(f, y) /\ ValidSpan(y.evidence) /\ Stands(o, f, y)
  BY <1>0, InputsStand DEF FilesKnown
<1>2. y.observed_kind = "import" /\ y.referent_text = o.row.referent_text
  BY <1>0, <1>1 DEF Stands
<1>3. SourceFile(o) = FileKey(f.path) /\ at = f.path
  BY <1>1, <1>2, SourceFileOf DEF ImportKinds, Stands
<1>4. \A message : Unresolved(o, message).edges = {}
  BY DEF Unresolved, Outcome
<1>5. \A message, candidates : Ambiguous(o, message, candidates).edges = {}
  BY DEF Ambiguous, Outcome
<1>6. d \in ResolveCandidates(o, SourceFile(o), "imports", found).edges
  <2>1. PICK m : m = "import source"
    BY Zenon
  <2>2. ResolveImport(o) = IF SourceFile(o) \notin NodeKeys THEN Unresolved(o, m)
                           ELSE ResolveCandidates(o, SourceFile(o), "imports", found)
    BY <2>1, Zenon DEF ResolveImport
  <2> HIDE DEF found
  <2> QED BY <1>4, <2>2
<1> HIDE DEF found
<1>7. PICK k \in found : d = EdgeFrom(o, SourceFile(o), "imports", k) /\ ~(Cardinality(found) > 1)
  <2>1. ~(Cardinality(found) > 1) /\ found # {}
    <3>1. found = {} => Cardinality(found) = 0
      BY FS_EmptySet
    <3> QED BY <1>4, <1>5, <1>6, <3>1 DEF ResolveCandidates
  <2>2. d \in {EdgeFrom(o, SourceFile(o), "imports", k) : k \in found}
    BY <1>6, <2>1 DEF ResolveCandidates, Outcome
  <2> QED BY <2>1, <2>2
<1>8. /\ IsFiniteSet(found)
      /\ \/ found = {FileKey(p) : p \in ImportPaths(referred, at, bindings) \cap FilePaths}
         \/ \A x \in found : IsPackage(x)
  BY Candidates DEF found
<1>9. found = {k}
  BY <1>7, <1>8, OneCandidate
<1>10. IsPackage(k) \/ \E p \in FilePaths : k = FileKey(p)
  BY <1>7, <1>8
<1>11. ASSUME NEW p, k = FileKey(p), Last(f.path) = ".py"
       PROVE  \E i \in DOMAIN f.body : /\ f.body[i].kind \in {"import", "from"}
                                       /\ f.body[i].line = InputEvidence(o).start_line
                                       /\ Meant(f, i) = {p}
  <2>1. PythonFile(f) /\ ~Aside(f, y)
    BY <1>1, <1>2, <1>11 DEF PythonFile, Aside, ImportKinds, FilesKnown, Range
  <2>2. PICK i \in DOMAIN f.body : LET st == f.body[i] IN
           \/ Importing(st) /\ y = ImportAt(f, st)
           \/ Binding(st) /\ y = BindingAt(f, st)
    BY <1>1, <2>1 DEF Finds
  <2>3. PICK st : st = f.body[i]
    OBVIOUS
  <2>4. Importing(st) /\ y = ImportAt(f, st)
    BY <1>2, <2>2, <2>3 DEF BindingAt, Observation
  <2>5. /\ y.referent_text = [spec |-> Specifier(Level(st), Dotted(st))]
        /\ y.evidence = At(f, st)
    BY <2>4 DEF ImportAt, Observation
  <2>6. referred = Specifier(Level(st), Dotted(st))
    BY <1>2, <2>5
  <2>7. InputEvidence(o).start_line = st.line
    BY <1>1, <2>5 DEF Stands, At, Span, Evidence
  <2>8. \A q \in FilePaths : q \in ImportPaths(referred, at, bindings) <=> q \in Meant(f, i)
    BY <1>1, <1>3, <2>1, <2>3, <2>4, <2>6, PathsMeant
  <2>9. Meant(f, i) \subseteq FilePaths
    BY DEF Meant
  <2>10. ~IsPackage(k)
    BY <1>11 DEF IsPackage, FileKey, Key
  <2>11. found = {FileKey(q) : q \in Meant(f, i)}
    BY <1>7, <1>8, <2>8, <2>9, <2>10
  <2>12. Meant(f, i) = {p}
    <3>1. \A q : FileKey(q) = FileKey(p) => q = p
      BY DEF FileKey, Key
    <3> QED BY <1>9, <1>11, <2>11, <3>1
  <2> QED BY <2>3, <2>4, <2>7, <2>12 DEF Importing
<1>12. ImportLeads(o, f, k)
  BY <1>1, <1>3, <1>10, <1>11 DEF ImportLeads, Stands
<1> QED BY <1>1, <1>7, <1>12

\* Every edge of the outcome r has one of these predicates.
Gives(r, predicates) == \A e \in r.edges : e.predicate \in predicates

LEMMA ReportsGive ==
    ASSUME NEW o, NEW message, NEW candidates, NEW predicates
    PROVE  /\ Gives(Unresolved(o, message), predicates)
           /\ Gives(Ambiguous(o, message, candidates), predicates)
BY DEF Gives, Unresolved, Ambiguous, Outcome

LEMMA EdgesGive ==
    ASSUME NEW o, NEW subject, NEW predicates, NEW es,
           \A e \in es : \E p \in predicates : \E k : e = EdgeFrom(o, subject, p, k)
    PROVE  Gives(Outcome(es, {}), predicates)
BY DEF Gives, Outcome, EdgeFrom

LEMMA CandidatesGive ==
    ASSUME NEW o, NEW subject, NEW predicate, NEW candidates
    PROVE  Gives(ResolveCandidates(o, subject, predicate, candidates), {predicate})
<1>1. PICK es : es = {EdgeFrom(o, subject, predicate, k) : k \in candidates}
  OBVIOUS
<1>2. Gives(Outcome(es, {}), {predicate})
  BY <1>1, EdgesGive
<1>3. ResolveCandidates(o, subject, predicate, candidates)
        \in {Unresolved(o, predicate), Ambiguous(o, predicate, candidates), Outcome(es, {})}
  <2>1. Cardinality({}) = 0
    BY FS_EmptySet
  <2> QED BY <1>1, <2>1 DEF ResolveCandidates
<1> QED BY <1>2, <1>3, ReportsGive

LEMMA ReferenceGives ==
    ASSUME NEW o, NEW predicate
    PROVE  Gives(ResolveReference(o, predicate), {predicate})
<1>1. /\ \A message : Gives(Unresolved(o, message), {predicate})
      /\ \A s, c : Gives(ResolveCandidates(o, s, predicate, c), {predicate})
  BY ReportsGive, CandidatesGive
<1> QED BY <1>1, Zenon DEF ResolveReference

\* What a relationship other than an import becomes.
OtherPredicates ==
    {"contains", "defines", "calls", "implements", "injects", "depends_on", "declares",
     "calls_service", "routes_to"}

LEMMA OthersGive ==
    ASSUME NEW o, o.row.observed_kind \in RelationshipKinds \ {"import"}
    PROVE  Gives(OutcomeFor(o), OtherPredicates)
<1> DEFINE kind == o.row.observed_kind
<1>1. \A r, p : Gives(r, {p}) /\ p \in OtherPredicates => Gives(r, OtherPredicates)
  BY DEF Gives
<1>2. CASE kind = "definition"
  <2>1. PICK parent : parent = ParentKey(o.row.subject)
    OBVIOUS
  <2>2. PICK es : es = {EdgeFrom(o, parent, p, o.row.subject) : p \in {"contains", "defines"}}
    OBVIOUS
  <2>3. Gives(Outcome(es, {}), OtherPredicates)
    <3>1. \A e \in es : \E p \in OtherPredicates : \E k : e = EdgeFrom(o, parent, p, k)
      BY <2>2 DEF OtherPredicates
    <3> QED BY <3>1, EdgesGive
  <2>4. Gives(ResolveDefinition(o), OtherPredicates)
    <3>1. \A message : Gives(Unresolved(o, message), OtherPredicates)
      BY ReportsGive
    <3> QED BY <2>1, <2>2, <2>3, <3>1, Zenon DEF ResolveDefinition
  <2> QED BY <1>2, <2>4 DEF OutcomeFor
<1>3. CASE kind = "call"
  <2>1. Gives(ResolveReference(o, "calls"), OtherPredicates)
    BY <1>1, ReferenceGives DEF OtherPredicates
  <2>2. Gives(ResolveCall(o), OtherPredicates)
    BY <2>1, ReportsGive DEF ResolveCall
  <2> QED BY <1>3, <2>2 DEF OutcomeFor
<1>4. CASE kind \in {"implements", "injects"}
  <2>1. Gives(ResolveReference(o, "implements"), OtherPredicates)
        /\ Gives(ResolveReference(o, "injects"), OtherPredicates)
    BY <1>1, ReferenceGives DEF OtherPredicates
  <2> QED BY <1>4, <2>1 DEF OutcomeFor
<1>5. CASE kind \in {"dependency", "iac_resource"}
  <2>1. ASSUME NEW k, NEW p \in OtherPredicates
        PROVE  Gives(ResolveDeclared(o, k, p), OtherPredicates)
    <3>1. PICK es : es = {EdgeFrom(o, RootKey, p, o.row.subject)}
      OBVIOUS
    <3>2. Gives(Outcome(es, {}), OtherPredicates)
      BY <3>1, EdgesGive
    <3> QED BY <3>1, <3>2, ReportsGive DEF ResolveDeclared
  <2> QED BY <1>5, <2>1 DEF OutcomeFor, OtherPredicates
<1>6. CASE kind = "http_call"
  <2>1. PICK s, k : s = (CHOOSE x \in ReferenceSubjects(o) : TRUE)
                    /\ k = ServiceKey(o.row.referent_text.origin)
    OBVIOUS
  <2>2. PICK es : es = {EdgeFrom(o, s, "calls_service", k)}
    OBVIOUS
  <2>3. Gives(Outcome(es, {}), OtherPredicates)
    <3>1. \A e \in es : \E p \in OtherPredicates : \E x : e = EdgeFrom(o, s, p, x)
      BY <2>2 DEF OtherPredicates
    <3> QED BY <3>1, EdgesGive
  <2>4. Gives(ResolveHttpCall(o), OtherPredicates)
    BY <2>1, <2>2, <2>3, ReportsGive DEF ResolveHttpCall
  <2> QED BY <1>6, <2>4 DEF OutcomeFor
<1>7. CASE kind = "route"
  <2>1. \A h, s, c : Gives(ResolveCandidates(h, s, "routes_to", c), OtherPredicates)
    BY <1>1, CandidatesGive DEF OtherPredicates
  <2>2. Gives(ResolveRoute(o), OtherPredicates)
    <3>1. Cardinality({}) = 0
      BY FS_EmptySet
    <3>2. Gives(Unresolved(o, "route handler"), OtherPredicates)
          /\ Gives(Ambiguous(o, "route handler", {}), OtherPredicates)
      BY ReportsGive, Zenon
    <3> QED BY <2>1, <3>1, <3>2, Zenon DEF ResolveRoute
  <2> QED BY <1>7, <2>2 DEF OutcomeFor
<1> QED BY <1>2, <1>3, <1>4, <1>5, <1>6, <1>7 DEF RelationshipKinds

\* The edges of RelationshipResolver.resolve
ResolvedEdges == UNION {x.edges : x \in Outcomes}

LEMMA ImportEdges ==
    ASSUME FilesKnown, NEW d \in ResolvedEdges, d.predicate = "imports"
    PROVE  \E f \in Range(read) : \E o, k :
             ImportLeads(o, f, k) /\ d = EdgeFrom(o, SourceFile(o), "imports", k)
<1>1. PICK o \in Claimants : d \in OutcomeFor(o).edges
  BY OutcomesAreForClaimants DEF ResolvedEdges
<1>2. o.row.observed_kind \in RelationshipKinds /\ o \in observations
  BY <1>1 DEF Claimants
<1>3. o.row.observed_kind = "import"
  <2>1. "imports" \notin OtherPredicates
    BY DEF OtherPredicates
  <2> QED BY <1>1, <1>2, <2>1, OthersGive DEF Gives
<1>4. d \in ResolveImport(o).edges /\ o \in Inputs("import")
  BY <1>1, <1>2, <1>3 DEF OutcomeFor, Inputs
<1>5. \E f \in Range(read) : \E k :
        ImportLeads(o, f, k) /\ d = EdgeFrom(o, SourceFile(o), "imports", k)
  BY <1>4, ImportsLead
<1> QED BY <1>5, Zenon

LEMMA FileFound ==
    ASSUME FilesKnown, NEW f \in Range(read)
    PROVE  FileAt(f.path) = f
BY DEF FilesKnown, FileAt

\* r is stored as evidence of the edge e.
Cites(e, r) ==
    \E d, c \in ResolvedEdges : \E v \in c.evidence :
        e = EdgeRow(d) /\ EdgeRow(c).id = e.id /\ r = [v EXCEPT !.path = NormalizePath(@)]

\* A statement of f at r imports the file the edge e ends in, and no other.
Justifies(f, r, e) ==
    \E i \in DOMAIN f.body : /\ f.body[i].kind \in {"import", "from"}
                             /\ f.body[i].line = r.start_line
                             /\ Meant(f, i) = {e.object.path}

LEMMA EdgesMean ==
    ASSUME FilesKnown, NEW e, e.predicate = "imports", e.object_kind = "file",
           NEW r, Cites(e, r), Last(r.path) = ".py", NEW f, f = FileAt(r.path)
    PROVE  Justifies(f, r, e)
<1>0. PICK d, c, v : /\ d \in ResolvedEdges /\ c \in ResolvedEdges /\ v \in c.evidence
                     /\ e = EdgeRow(d) /\ EdgeRow(c).id = e.id
                     /\ r = [v EXCEPT !.path = NormalizePath(@)]
  BY DEF Cites
<1>1. /\ d.predicate = e.predicate /\ e.object_kind = d.object_kind
      /\ e.object = NormalizeKey(d.object_kind, d.object) /\ e.id.object = e.object
      /\ e.id.predicate = e.predicate
  BY <1>0 DEF EdgeRow, EdgeId
<1>2. c.predicate = EdgeRow(c).id.predicate
      /\ EdgeRow(c).id.object = NormalizeKey(c.object_kind, c.object)
  BY DEF EdgeRow, EdgeId
<1>3. PICK h, o, k : h \in Range(read) /\
        ImportLeads(o, h, k) /\ d = EdgeFrom(o, SourceFile(o), "imports", k)
  BY <1>0, <1>1, ImportEdges
<1>4. PICK g, q, l : g \in Range(read) /\
        ImportLeads(q, g, l) /\ c = EdgeFrom(q, SourceFile(q), "imports", l)
  BY <1>0, <1>1, <1>2, ImportEdges
<1>5. d.object_kind = KindOf(k) /\ d.object = k
  BY <1>3 DEF EdgeFrom
<1>6. c.object_kind = KindOf(l) /\ c.object = l /\ v = ResolverEvidence(q)
  BY <1>0, <1>4 DEF EdgeFrom
<1>7. PICK p \in FilePaths : k = FileKey(p)
  BY <1>1, <1>5, KeysOfFiles
<1>8. e.object = FileKey(p) /\ e.object.path = p /\ e.object.form = "file"
  <2>1. e.object = FileKey(p)
    BY <1>1, <1>5, <1>7, KeysStay
  <2> QED BY <2>1 DEF FileKey, Key
<1>9. l = FileKey(p)
  <2>1. NormalizeKey(KindOf(l), l) = e.object
    BY <1>0, <1>1, <1>2, <1>6
  <2>2. ~IsPackage(l)
    BY <1>8, <2>1, KeysStay
  <2>3. PICK m \in FilePaths : l = FileKey(m)
    BY <1>4, <2>2 DEF ImportLeads
  <2> QED BY <1>8, <2>1, <2>3, KeysStay
<1>10. PICK w : w = InputEvidence(q)
  OBVIOUS
<1>11. PICK s \in SourceFiles : Within(s, w)
  BY <1>4, <1>10 DEF ImportLeads
<1>12. w.path = s.path /\ w.path = g.path
  BY <1>4, <1>10, <1>11, WithinPath DEF ImportLeads
<1>13. r.path = g.path /\ r.start_line = w.start_line
  <2>1. v = [w EXCEPT !.extractor = Resolver]
    BY <1>6, <1>10 DEF ResolverEvidence
  <2>2. r = v /\ v.path = s.path /\ v.start_line = w.start_line
    <3>1. Within(s, v) /\ v.start_line = w.start_line
      BY <1>11, <2>1, ResolverWithin
    <3> QED BY <1>0, <3>1, WithinPath, PathKept
  <2> QED BY <1>12, <2>2
<1>14. f = g
  BY <1>4, <1>13, FileFound
<1> QED BY <1>4, <1>8, <1>9, <1>10, <1>13, <1>14 DEF ImportLeads, Justifies

\* NeverGuesses, once there are edges
NothingGuessed ==
    \A e \in {x \in edges : x.predicate = "imports" /\ x.object_kind = "file"} :
    \A r \in {x \in EvidenceOf(EdgeRef(e.id)) : Last(x.path) = ".py"} :
        Justifies(FileAt(r.path), r, e)

GuessInv ==
    StoreInv /\ (stage \in {"classify", "seal", "done"} /\ state # "failed" => NothingGuessed)

LEMMA NothingGuessedNext ==
    ASSUME UNCHANGED <<nodes, edges, evidence, read>>
    PROVE  NothingGuessed' = NothingGuessed
BY DEF NothingGuessed, Justifies, EvidenceOf, FileAt, Meant, SearchPath, Packages, FilePaths

LEMMA FilesKnownThen ==
    ASSUME StoreInv, stage = "resolve", state # "failed"
    PROVE  FilesKnown
<1>1. /\ read \in Seq(SourceFiles)
      /\ \A n \in nodes : n.node_kind = "dependency" \/ Offered(n, Range(read))
      /\ Recorded(observations, evidence, Range(read))
  BY DEF StoreInv
<1>2. PICK files \in Repositories : Range(read) \subseteq Range(files)
  BY DEF StoreInv
<1>3. \A i, j \in DOMAIN files : files[i].path = files[j].path => i = j
  BY RepositoriesAssumption
<1>4. \A f, g \in Range(read) : f.path = g.path => f = g
  BY <1>2, <1>3 DEF Range
<1> QED BY <1>1, <1>4 DEF FilesKnown

LEMMA GuessResolve ==
    ASSUME StoreInv, Resolve, state # "failed", ~Raise
    PROVE  NothingGuessed'
<1> DEFINE rows == UNION {EvidenceRows(EdgeRef(EdgeRow(d).id), d.evidence) : d \in ResolvedEdges}
<1>1. /\ stage = "resolve" /\ nodes' = nodes /\ read' = read
      /\ edges' = edges \cup {EdgeRow(d) : d \in ResolvedEdges}
      /\ evidence' = evidence \cup rows
  BY DEF Resolve, ResolvedEdges
<1>2. FilesKnown
  BY <1>1, FilesKnownThen
<1>3. edges = {} /\ \A r \in evidence : r.of.kind # "edge"
  BY <1>1 DEF StoreInv
<1> HIDE DEF rows
<1>4. ASSUME NEW e \in edges', e.predicate = "imports", e.object_kind = "file",
             NEW row \in evidence', row.of = EdgeRef(e.id), NEW r, r = row.record,
             Last(r.path) = ".py", NEW f, f = FileAt(r.path)
      PROVE  Justifies(f, r, e)
  <2>1. PICK d \in ResolvedEdges : e = EdgeRow(d)
    BY <1>1, <1>3, <1>4
  <2>2. row \in rows
    <3>1. row.of.kind = "edge"
      BY <1>4 DEF EdgeRef, Reference
    <3> QED BY <1>1, <1>3, <1>4, <3>1
  <2>3. PICK c \in ResolvedEdges : row \in EvidenceRows(EdgeRef(EdgeRow(c).id), c.evidence)
    BY <2>2 DEF rows
  <2>4. PICK v \in c.evidence : row = EvidenceRow(EdgeRef(EdgeRow(c).id), v)
    BY <2>3 DEF EvidenceRows
  <2>5. EdgeRow(c).id = e.id /\ r = [v EXCEPT !.path = NormalizePath(@)]
    BY <1>4, <2>4 DEF EvidenceRow, EdgeRef, Reference
  <2>6. Cites(e, r)
    BY <2>1, <2>5 DEF Cites
  <2> QED BY <1>2, <1>4, <2>6, EdgesMean
<1>5. /\ \A path : FileAt(path)' = FileAt(path)
      /\ \A f, i : Meant(f, i)' = Meant(f, i)
  BY <1>1 DEF FileAt, Meant, SearchPath, Packages, FilePaths
<1>6. \A e \in edges' : e.predicate = "imports" /\ e.object_kind = "file" =>
        \A row \in evidence' : row.of = EdgeRef(e.id) /\ Last(row.record.path) = ".py" =>
          Justifies(FileAt(row.record.path), row.record, e)
  BY <1>4
<1> QED BY <1>5, <1>6 DEF NothingGuessed, EvidenceOf, Justifies

LEMMA GuessInit == AnalysisInit => GuessInv
BY StoreInit DEF GuessInv, AnalysisInit

LEMMA GuessNext == GuessInv /\ [AnalysisNext]_analysisVars => GuessInv'
<1> SUFFICES ASSUME GuessInv, [AnalysisNext]_analysisVars,
                    stage' \in {"classify", "seal", "done"}, state' # "failed"
             PROVE  NothingGuessed'
  BY StoreNext DEF GuessInv
<1>0. ~Raise
  BY DEF Raise
<1>1. StoreInv /\ (stage \in {"classify", "seal", "done"} /\ state # "failed" => NothingGuessed)
  BY DEF GuessInv
<1>2. CASE ReadFile \/ FileGone \/ PersistDeferred
  <2>1. stage' \in {"extract", "resolve"}
    BY <1>0, <1>2 DEF ReadFile, HandOver, FileGone, PersistDeferred
  <2> QED BY <2>1
<1>3. CASE Resolve
  <2>1. state' = state
    BY <1>0, <1>3 DEF Resolve
  <2> QED BY <1>0, <1>1, <1>3, <2>1, GuessResolve
<1>4. CASE Classify
  <2>1. stage = "classify" /\ UNCHANGED <<state, nodes, edges, evidence, read>>
    BY <1>0, <1>4 DEF Classify
  <2> QED BY <1>1, <2>1, NothingGuessedNext
<1>5. CASE SealStage
  <2>1. stage = "seal" /\ state = "building" /\ UNCHANGED <<nodes, edges, evidence, read>>
    BY <1>5 DEF SealStage, Seal, SealFails
  <2> QED BY <1>1, <2>1, NothingGuessedNext
<1>6. CASE UNCHANGED analysisVars
  <2>1. UNCHANGED <<stage, state, nodes, edges, evidence, read>>
    BY <1>6 DEF analysisVars, vars, factVars
  <2> QED BY <1>1, <2>1, NothingGuessedNext
<1> QED BY <1>2, <1>3, <1>4, <1>5, <1>6 DEF AnalysisNext

\* _import_candidates, _resolve_candidates, for every repository: whatever its
\* directories, packages and files, an import of a Python file becomes an edge
\* to a file only where that file is the only one the statement can mean.
THEOREM NothingIsGuessed == AnalysisSpec => []NeverGuesses
<1>1. GuessInv => NeverGuesses
  BY DEF GuessInv, StoreInv, NeverGuesses, NothingGuessed, Justifies
<1> QED BY <1>1, GuessInit, GuessNext, PTL DEF AnalysisSpec

=============================================================================
