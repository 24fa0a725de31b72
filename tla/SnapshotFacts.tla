--------------------------- MODULE SnapshotFacts ---------------------------
(***************************************************************************)
(* intelligence/snapshot_store.py, the fact writers and seal: one building *)
(* snapshot receives facts in any order, and is sealed, rejected or given  *)
(* up.  Evidence and derivations are rows of their own that name the fact  *)
(* they belong to.  Rows equal in every column count once: only a          *)
(* diagnostic can be written twice, and nothing reads how often.           *)
(***************************************************************************)
EXTENDS Canonical

CONSTANTS
    NodeFacts,          \* what a producer may offer to add_node
    ObservationFacts,   \* ... to add_observation
    EdgeFacts,          \* ... to add_edge
    AssertionFacts,     \* ... to add_assertion
    DiagnosticFacts,    \* ... to add_diagnostic
    Edits,              \* values somebody may assign to a stored evidence row
    Producers,          \* producer_version_set of the snapshot
    SetArrayKeys,       \* arrays declared to be sets
    MaxEdits,           \* bound of the model: edits of stored rows
    NoHash              \* canonical_graph_hash is null

\* Evidence: a place in a file, as a producer names it.
EvidenceFacts ==
    [path : Seq(STRING), start_line : Int, end_line : Int, lines : Int,
     granularity : STRING, extractor : STRING]

\* The columns of the facts that are offered; a fact rests on finitely many.
ASSUME FactsAssumption ==
    /\ \A n \in NodeFacts : n.evidence \subseteq EvidenceFacts
    /\ \A o \in ObservationFacts : o.evidence \in EvidenceFacts
    /\ \A e \in EdgeFacts : e.evidence \subseteq EvidenceFacts /\ IsFiniteSet(e.derived_from)
    /\ \A a \in AssertionFacts : IsFiniteSet(a.derived_from)
    /\ Edits \subseteq EvidenceFacts
    /\ MaxEdits \in Nat

VARIABLES
    state,          \* ri_snapshots.state
    nodes,          \* ri_nodes
    observations,   \* ri_observations
    edges,          \* ri_edges
    assertions,     \* ri_assertions
    diagnostics,    \* ri_diagnostics
    evidence,       \* ri_evidence as the session sees it
    stored,         \* ri_evidence as last flushed
    derivations,    \* ri_derivations
    hash,           \* ri_snapshots.canonical_graph_hash
    given,          \* the facts accepted so far, as they were offered
    edits           \* how often a row was changed behind the store's back

factVars == <<nodes, observations, edges, assertions, diagnostics, evidence,
              stored, derivations>>

vars == <<state, factVars, hash, given, edits>>

NoFacts ==
    [nodes |-> {}, observations |-> {}, edges |-> {}, assertions |-> {}, diagnostics |-> {}]

Init ==
    /\ state = "building"
    /\ nodes = {} /\ observations = {} /\ edges = {} /\ assertions = {}
    /\ diagnostics = {} /\ evidence = {} /\ stored = {} /\ derivations = {}
    /\ hash = NoHash
    /\ given = NoFacts
    /\ edits = 0

-----------------------------------------------------------------------------
(* Rows                                                                    *)

NodeRef(key) == Reference("node", key)

ObservationRef(id) == Reference("observation", id)

EdgeRef(id) == Reference("edge", id)

AssertionRef(id) == Reference("assertion", id)

NodeRow(n) ==
    [node_kind |-> n.node_kind, stable_key |-> NormalizeKey(n.node_kind, n.stable_key),
     attrs |-> n.attrs, properties |-> NormalizeArrays(n.properties, SetArrayKeys)]

Subject(f) == NormalizeKey(f.subject_kind, f.subject)

ObservationRow(o) ==
    LET row == [observed_kind |-> o.observed_kind, subject_kind |-> o.subject_kind,
                subject |-> Subject(o), referent_text |-> o.referent_text,
                ordinal |-> o.ordinal]
    IN  [id |-> ObservationId(row, o.evidence), row |-> row]

EdgeRow(e) ==
    LET object == NormalizeKey(e.object_kind, e.object)
    IN  [id |-> EdgeId(Subject(e), e.predicate, object),
         subject_kind |-> e.subject_kind, subject |-> Subject(e),
         predicate |-> e.predicate, object_kind |-> e.object_kind, object |-> object,
         producer |-> e.producer]

AssertionRow(a) ==
    LET row == [subject_kind |-> a.subject_kind, subject |-> Subject(a),
                predicate |-> a.predicate,
                value |-> NormalizeArrays(a.value, SetArrayKeys), attrs |-> a.attrs,
                producer |-> a.producer]
    IN  [id |-> AssertionId(row, a.derived_from), row |-> row]

DiagnosticRow(d) == [d EXCEPT !.path = NormalizePath(@)]

EvidenceRow(parent, e) == [of |-> parent, record |-> [e EXCEPT !.path = NormalizePath(@)]]

EvidenceRows(parent, es) == {EvidenceRow(parent, e) : e \in es}

DerivationRows(parent, refs) == {[of |-> parent, ref |-> r] : r \in refs}

-----------------------------------------------------------------------------
(* What the writers refuse                                                 *)

NodeKeys == {n.stable_key : n \in nodes}

\* _add_evidence raises; the same evidence must report the same file length.
EvidenceRefused(parent, e) ==
    \/ Escapes(e.path)
    \/ NormalizePath(e.path) = <<>>
    \/ e.granularity \notin {"span", "file"}
    \/ ~ValidSpan(e)
    \/ \E r \in evidence :
          /\ r.of = parent
          /\ EvidenceRecord(r.record) = EvidenceRecord([e EXCEPT !.path = NormalizePath(@)])
          /\ r.record.lines # e.lines

\* Two records of one call disagree: the second meets the first.
EvidenceConflicts(es) ==
    \E d, e \in es :
        /\ NormalizePath(d.path) = NormalizePath(e.path)
        /\ EvidenceRecord([d EXCEPT !.path = <<>>]) = EvidenceRecord([e EXCEPT !.path = <<>>])
        /\ d.lines # e.lines

AnyEvidenceRefused(parent, es) ==
    EvidenceConflicts(es) \/ \E e \in es : EvidenceRefused(parent, e)

\* Another row has the key (the identity) and differs in a column.
NodeConflicts(n) ==
    \E m \in nodes : m.stable_key = NodeRow(n).stable_key /\ m # NodeRow(n)

\* Mutation: the first record of an edge wins.
EdgeNeverConflicts(e) == FALSE

EdgeConflicts(e) == \E f \in edges : f.id = EdgeRow(e).id /\ f # EdgeRow(e)

NodeRefused(n) ==
    \/ KeyRefused(n.node_kind, n.stable_key)
    \/ ArraysRefused(n.properties, SetArrayKeys)
    \/ NodeConflicts(n)
    \/ AnyEvidenceRefused(NodeRef(NodeRow(n).stable_key), n.evidence)

\* The foreign keys of the row are checked when it is flushed.
ObservationRefused(o) ==
    \/ KeyRefused(o.subject_kind, o.subject)
    \/ Escapes(o.evidence.path)
    \/ Subject(o) \notin NodeKeys
    \/ EvidenceRefused(ObservationRef(ObservationRow(o).id), o.evidence)

EdgeRefused(e) ==
    \/ KeyRefused(e.subject_kind, e.subject) \/ KeyRefused(e.object_kind, e.object)
    \/ EdgeConflicts(e)
    \/ ~({EdgeRow(e).subject, EdgeRow(e).object} \subseteq NodeKeys)
    \/ AnyEvidenceRefused(EdgeRef(EdgeRow(e).id), e.evidence)

AssertionRefused(a) ==
    \/ KeyRefused(a.subject_kind, a.subject)
    \/ ArraysRefused(a.value, SetArrayKeys)
    \/ Subject(a) \notin NodeKeys

DiagnosticRefused(d) == Escapes(d.path)

\* The check constraints of ri_evidence, met when a pending edit is flushed.
Flushable(r) ==
    /\ ValidSpan(r.record)
    /\ r.record.granularity \in {"span", "file"}
    /\ ~Absolute(r.record.path)

Flushes == \A r \in evidence : Flushable(r)

-----------------------------------------------------------------------------
(* The writers.  A call that raises ends the attempt, as a cancellation, a *)
(* lost lease or another build that sealed first does: the worker marks    *)
(* the snapshot failed, and mark_failed discards the facts.                *)

Discard ==
    /\ nodes' = {} /\ observations' = {} /\ edges' = {} /\ assertions' = {}
    /\ diagnostics' = {} /\ evidence' = {} /\ stored' = {} /\ derivations' = {}

MarkFailed ==
    /\ state = "building"
    /\ state' = "failed"
    /\ Discard
    /\ UNCHANGED <<hash, given, edits>>

AddNode(n) ==
    /\ state = "building" /\ Flushes /\ ~NodeRefused(n)
    /\ nodes' = nodes \cup {NodeRow(n)}
    /\ evidence' = evidence \cup EvidenceRows(NodeRef(NodeRow(n).stable_key), n.evidence)
    /\ stored' = evidence'
    /\ given' = [given EXCEPT !.nodes = @ \cup {n}]
    /\ UNCHANGED <<state, observations, edges, assertions, diagnostics, derivations,
                   hash, edits>>

AddObservation(o) ==
    /\ state = "building" /\ Flushes /\ ~ObservationRefused(o)
    /\ observations' = observations \cup {ObservationRow(o)}
    /\ evidence' = evidence \cup {EvidenceRow(ObservationRef(ObservationRow(o).id), o.evidence)}
    /\ stored' = evidence'
    /\ given' = [given EXCEPT !.observations = @ \cup {o}]
    /\ UNCHANGED <<state, nodes, edges, assertions, diagnostics, derivations,
                   hash, edits>>

AddEdge(e) ==
    /\ state = "building" /\ Flushes /\ ~EdgeRefused(e)
    /\ edges' = edges \cup (IF \E f \in edges : f.id = EdgeRow(e).id THEN {} ELSE {EdgeRow(e)})
    /\ evidence' = evidence \cup EvidenceRows(EdgeRef(EdgeRow(e).id), e.evidence)
    /\ derivations' = derivations \cup DerivationRows(EdgeRef(EdgeRow(e).id), e.derived_from)
    /\ stored' = evidence'
    /\ given' = [given EXCEPT !.edges = @ \cup {e}]
    /\ UNCHANGED <<state, nodes, observations, assertions, diagnostics, hash, edits>>

AddAssertion(a) ==
    /\ state = "building" /\ Flushes /\ ~AssertionRefused(a)
    /\ assertions' = assertions \cup {AssertionRow(a)}
    /\ derivations' = derivations
                        \cup DerivationRows(AssertionRef(AssertionRow(a).id), a.derived_from)
    /\ stored' = evidence
    /\ given' = [given EXCEPT !.assertions = @ \cup {a}]
    /\ UNCHANGED <<state, nodes, observations, edges, diagnostics, evidence, hash, edits>>

AddDiagnostic(d) ==
    /\ state = "building" /\ Flushes /\ ~DiagnosticRefused(d)
    /\ diagnostics' = diagnostics \cup {DiagnosticRow(d)}
    /\ stored' = evidence
    /\ given' = [given EXCEPT !.diagnostics = @ \cup {d}]
    /\ UNCHANGED <<state, nodes, observations, edges, assertions, evidence, derivations,
                   hash, edits>>

-----------------------------------------------------------------------------
(* Somebody assigns to a loaded evidence row                               *)

\* _guard_completed_snapshots
Editable == state = "building"

\* The row keeps its parent, and stays different from the other rows of that
\* parent.  A row of a completed snapshot raises at the next flush and is
\* rolled back.
Edit(r, e) ==
    /\ Editable /\ edits < MaxEdits
    /\ r \in evidence /\ [r EXCEPT !.record = e] \notin evidence
    /\ evidence' = (evidence \ {r}) \cup {[r EXCEPT !.record = e]}
    /\ edits' = edits + 1
    /\ UNCHANGED <<state, nodes, observations, edges, assertions, diagnostics, stored,
                   derivations, hash, given>>

-----------------------------------------------------------------------------
(* seal                                                                    *)

EvidenceOf(ref) == {r.record : r \in {x \in evidence : x.of = ref}}

RefsOf(ref) == {d.ref : d \in {x \in derivations : x.of = ref}}

ProducerDeclared(p) == p \in Producers

HasNode(key, kind) == \E n \in nodes : n.stable_key = key /\ n.node_kind = kind

\* _validate_stored_evidence
StoredEvidenceValid(r) ==
    /\ r.record.granularity \in {"span", "file"}
    /\ ~Escapes(r.record.path)
    /\ r.record.path # <<>> /\ NormalizePath(r.record.path) = r.record.path
    /\ ValidSpan(r.record)
    /\ ProducerDeclared(r.record.extractor)

OneRoot ==
    \E n \in nodes :
        /\ n.node_kind = "repository" /\ n.stable_key.form = "repo"
        /\ \A m \in nodes : m.node_kind = "repository" => m = n

NodesValid ==
    \A n \in nodes :
        /\ ~KeyRefused(n.node_kind, n.stable_key)
        /\ NormalizeKey(n.node_kind, n.stable_key) = n.stable_key
        /\ EvidenceOf(NodeRef(n.stable_key)) # {}

ObservationsValid ==
    \A o \in observations :
        \E e \in EvidenceOf(ObservationRef(o.id)) :
            /\ EvidenceOf(ObservationRef(o.id)) = {e}
            /\ HasNode(o.row.subject, o.row.subject_kind)
            /\ ObservationId(o.row, e) = o.id

EdgesValid ==
    \A e \in edges :
        /\ HasNode(e.subject, e.subject_kind) /\ HasNode(e.object, e.object_kind)
        /\ EdgeId(e.subject, e.predicate, e.object) = e.id
        /\ EvidenceOf(EdgeRef(e.id)) # {}
        /\ \E r \in RefsOf(EdgeRef(e.id)) : r.kind = "observation"
        /\ ProducerDeclared(e.producer)

AssertionsValid ==
    \A a \in assertions :
        /\ HasNode(a.row.subject, a.row.subject_kind)
        /\ RefsOf(AssertionRef(a.id)) # {}
        /\ AssertionId(a.row, RefsOf(AssertionRef(a.id))) = a.id
        /\ ProducerDeclared(a.row.producer)

DiagnosticsValid ==
    \A d \in diagnostics : d.severity # "fatal" /\ ProducerDeclared(d.producer)

FactRefs ==
    {NodeRef(k) : k \in NodeKeys}
        \cup {ObservationRef(o.id) : o \in observations}
        \cup {EdgeRef(e.id) : e \in edges}
        \cup {AssertionRef(a.id) : a \in assertions}

Derived == {d.of : d \in derivations}

ReferencesResolve == \A d \in derivations : d.ref \in FactRefs

\* Mutation: only a fact that rests on itself is a cycle.
CyclicDirect == \E f \in Derived : f \in RefsOf(f)

\* What the depth-first search of _validate_derivation_graph finds: some
\* derived facts all lead back to one another.
Cyclic ==
    \E S \in (SUBSET Derived) \ {{}} : \A f \in S : RefsOf(f) \cap S # {}

Valid ==
    /\ DiagnosticsValid
    /\ OneRoot
    /\ NodesValid
    /\ \A r \in evidence : StoredEvidenceValid(r)
    /\ ObservationsValid
    /\ EdgesValid
    /\ AssertionsValid
    /\ ReferencesResolve
    /\ ~Cyclic

\* _compute_hash over the rows
Document ==
    [producers |-> Producers,
     nodes |-> {NodeRecord(n, EvidenceOf(NodeRef(n.stable_key))) : n \in nodes},
     observations |->
        {ObservationRecord(o, EvidenceOf(ObservationRef(o.id))) : o \in observations},
     edges |->
        {EdgeRecord(e, EvidenceOf(EdgeRef(e.id)), RefsOf(EdgeRef(e.id))) : e \in edges},
     assertions |-> {AssertionRecord(a, RefsOf(AssertionRef(a.id))) : a \in assertions},
     diagnostics |-> diagnostics]

Seal ==
    /\ state = "building" /\ Valid
    /\ state' = "completed"
    /\ hash' = Document
    /\ stored' = evidence
    /\ UNCHANGED <<nodes, observations, edges, assertions, diagnostics, evidence,
                   derivations, given, edits>>

\* _fail_seal: the edits are dropped, the facts stay for the sweep.
SealFails ==
    /\ state = "building" /\ ~Valid
    /\ state' = "failed"
    /\ evidence' = stored
    /\ UNCHANGED <<nodes, observations, edges, assertions, diagnostics, stored,
                   derivations, hash, given, edits>>

\* Mutation: the sweep takes every snapshot that is not building.
SweepFinished ==
    /\ state # "building"
    /\ Discard
    /\ UNCHANGED <<state, hash, given, edits>>

\* purge_orphaned_failed_facts
Sweep ==
    /\ state = "failed"
    /\ Discard
    /\ UNCHANGED <<state, hash, given, edits>>

Next ==
    \/ \E n \in NodeFacts : AddNode(n)
    \/ \E o \in ObservationFacts : AddObservation(o)
    \/ \E e \in EdgeFacts : AddEdge(e)
    \/ \E a \in AssertionFacts : AddAssertion(a)
    \/ \E d \in DiagnosticFacts : AddDiagnostic(d)
    \/ MarkFailed
    \/ \E r \in evidence, e \in Edits : Edit(r, e)
    \/ Seal
    \/ SealFails
    \/ Sweep

Spec == Init /\ [][Next]_vars

-----------------------------------------------------------------------------
(* Properties                                                              *)

\* Every row belongs to a fact of the snapshot, nothing is stored of a
\* snapshot that was never begun, and the columns have their types.
TypeOK ==
    /\ state \in {"building", "completed", "failed"}
    /\ edits \in 0..MaxEdits
    /\ hash = IF state = "completed" THEN Document ELSE NoHash
    /\ \A r \in evidence \cup stored : r.of \in FactRefs
    /\ Derived \subseteq FactRefs

\* seal: in a completed snapshot every edge and every inferred assertion
\* rests, in finitely many steps, on facts that were observed; the ends of
\* every edge are there, and everything stored was produced by a declared
\* producer and points into its file.
SealedSound ==
    state = "completed" =>
        /\ \E rank \in [Derived -> 0..Cardinality(Derived)] :
              \A d \in derivations : d.ref \in Derived => rank[d.ref] < rank[d.of]
        /\ ReferencesResolve
        /\ \A e \in edges : e.subject \in NodeKeys /\ e.object \in NodeKeys
        /\ \A r \in evidence :
              /\ 1 <= r.record.start_line /\ r.record.start_line <= r.record.end_line
              /\ r.record.end_line <= r.record.lines
              /\ \A i \in DOMAIN r.record.path : r.record.path[i] \notin Dots
              /\ r.record.extractor \in Producers
        /\ \A o \in observations : Cardinality(EvidenceOf(ObservationRef(o.id))) = 1

\* How many directories below the root the first i segments lead
Depth(raw, i) ==
    Cardinality({j \in 1..i : raw[j] \notin Dots}) - Cardinality({j \in 1..i : raw[j] = ".."})

\* Walking along the segments of raw one ends at path: the walk never stands
\* above the root, and the d-th name of path is the one through which it came
\* down to depth d and above which it did not rise again.
Leads(raw, path) ==
    /\ \A i \in DOMAIN raw : Depth(raw, i) >= 0
    /\ Len(path) = Depth(raw, Len(raw))
    /\ \A d \in DOMAIN path :
          \E k \in DOMAIN raw :
              /\ raw[k] \notin Dots /\ raw[k] = path[d]
              /\ Depth(raw, k) = d
              /\ \A j \in k..Len(raw) : Depth(raw, j) >= d

\* normalize_repo_path: the path under which an accepted evidence is stored
\* names a file inside the repository, and the one file that the path it was
\* given as leads to.
PathsLead ==
    \A e \in (UNION {f.evidence : f \in given.nodes \cup given.edges})
                 \cup {o.evidence : o \in given.observations} :
        Leads(e.path, NormalizePath(e.path))

GivenEvidence(es) == {EvidenceRecord([e EXCEPT !.path = NormalizePath(@)]) : e \in es}

\* The document the accepted facts stand for, however they came.
GivenDocument ==
    [producers |-> Producers,
     nodes |->
        {[node |-> NodeRow(n),
          evidence |-> GivenEvidence(UNION {m.evidence : m \in
              {x \in given.nodes : NodeRow(x).stable_key = NodeRow(n).stable_key}})]
            : n \in given.nodes},
     observations |->
        {[observation |-> ObservationRow(o),
          evidence |-> GivenEvidence({m.evidence : m \in
              {x \in given.observations : ObservationRow(x).id = ObservationRow(o).id}})]
            : o \in given.observations},
     edges |->
        {[edge |-> EdgeRow(e),
          evidence |-> GivenEvidence(UNION {m.evidence : m \in
              {x \in given.edges : EdgeRow(x).id = EdgeRow(e).id}}),
          derived_from |-> UNION {m.derived_from : m \in
              {x \in given.edges : EdgeRow(x).id = EdgeRow(e).id}}]
            : e \in given.edges},
     assertions |->
        {[assertion |-> AssertionRow(a), derived_from |-> a.derived_from]
            : a \in given.assertions},
     diagnostics |-> {DiagnosticRow(d) : d \in given.diagnostics}]

\* The canonical graph hash depends on which facts were given, never on the
\* order or the number of times they were.
HashOfGiven == state = "completed" /\ edits = 0 => hash = GivenDocument

\* _guard_completed_snapshots: once a snapshot is sealed none of its facts
\* changes, so its hash stays the hash of what it holds.
SealedForGood ==
    [][state = "completed" => UNCHANGED <<state, factVars, hash>>]_vars

=============================================================================
