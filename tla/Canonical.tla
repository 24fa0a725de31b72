----------------------------- MODULE Canonical -----------------------------
(***************************************************************************)
(* intelligence/canonical.py: the normal form of paths, keys and values,   *)
(* the identities computed from them, and the document that is hashed.     *)
(*                                                                         *)
(* A hash is the document it digests: equal exactly when the documents     *)
(* are.  Records that the code orders and de-duplicates are sets.  A path  *)
(* is the sequence of its segments, so that "/a" is <<"", "a">>; the       *)
(* backslash is already a separator.                                       *)
(***************************************************************************)
EXTENDS Integers, Sequences, FiniteSets, SequencesExt

CONSTANTS
    Drives,     \* first segments that name a Windows drive
    NoName      \* what a key or a record does not have (None, an empty text)

-----------------------------------------------------------------------------
(* Paths                                                                   *)

Absolute(path) ==
    /\ path # <<>>
    /\ \/ path[1] \in Drives
       \/ path[1] = "" /\ Len(path) > 1

\* Segments that lead nowhere.
Skipped == {"", "."}

\* Segments that are no name.
Dots == Skipped \cup {".."}

\* Mutation: ".." takes back the first name.
StepPopsFirst(resolved, segment) ==
    IF segment \in Skipped \/ resolved.left THEN resolved
    ELSE IF segment # ".." THEN [resolved EXCEPT !.path = Append(@, segment)]
    ELSE IF resolved.path = <<>> THEN [resolved EXCEPT !.left = TRUE]
    ELSE [resolved EXCEPT !.path = Tail(@)]

\* normalize_repo_path reads the segments from the left.
Step(resolved, segment) ==
    IF segment \in Skipped \/ resolved.left THEN resolved
    ELSE IF segment # ".." THEN [resolved EXCEPT !.path = Append(@, segment)]
    ELSE IF resolved.path = <<>> THEN [resolved EXCEPT !.left = TRUE]
    ELSE [resolved EXCEPT !.path = Front(@)]

Resolved(path) ==
    LET run[i \in 0..Len(path)] ==
            IF i = 0 THEN [path |-> <<>>, left |-> FALSE] ELSE Step(run[i - 1], path[i])
    IN  run[Len(path)]

\* PathEscapeError
Escapes(path) == Absolute(path) \/ Resolved(path).left

NormalizePath(path) == Resolved(path).path

-----------------------------------------------------------------------------
(* Stable keys: a form (its prefix), a path and a name                     *)

RequiredForm ==
    [repository |-> "repo", module |-> "mod", file |-> "file", symbol |-> "::",
     dependency |-> "dep", service |-> "svc", iac_resource |-> "iac"]

PathBearing == {"module", "file", "symbol", "iac_resource"}

\* normalize_stable_key raises
KeyRefused(kind, key) ==
    \/ kind \in DOMAIN RequiredForm /\ key.form # RequiredForm[kind]
    \/ kind \in PathBearing /\ Escapes(key.path)
    \/ kind \in PathBearing \ {"module"} /\ NormalizePath(key.path) = <<>>
    \/ kind \in {"symbol", "service", "iac_resource"} /\ key.name = NoName

NormalizeKey(kind, key) ==
    IF kind \in PathBearing THEN [key EXCEPT !.path = NormalizePath(@)] ELSE key

-----------------------------------------------------------------------------
(* Values: arrays that stand for sets lose their order and repetitions     *)

\* normalize_declared_arrays raises for an array nobody declared.
ArraysRefused(value, setKeys) == ~(DOMAIN value \subseteq setKeys)

NormalizeArrays(value, setKeys) == [k \in DOMAIN value |-> Range(value[k])]

-----------------------------------------------------------------------------
(* Evidence and identities                                                 *)

ValidSpan(e) == 1 <= e.start_line /\ e.start_line <= e.end_line /\ e.end_line <= e.lines

\* canonical_evidence_record: the line count of the file is not part of it.
EvidenceRecord(e) ==
    [path |-> e.path, start_line |-> e.start_line, end_line |-> e.end_line,
     granularity |-> e.granularity, extractor |-> e.extractor]

EvidenceRecordOfAll(es) == {EvidenceRecord(e) : e \in es}

\* compute_edge_id
EdgeId(subject, predicate, object) ==
    [subject |-> subject, predicate |-> predicate, object |-> object]

\* compute_observation_id leaves the granularity of the evidence out.
ObservationId(o, e) ==
    [observed_kind |-> o.observed_kind, subject_kind |-> o.subject_kind,
     subject |-> o.subject, referent_text |-> o.referent_text, ordinal |-> o.ordinal,
     path |-> NormalizePath(e.path), start_line |-> e.start_line,
     end_line |-> e.end_line, extractor |-> e.extractor]

\* compute_assertion_id; derived_from is sorted and de-duplicated first.
AssertionId(a, derivedFrom) ==
    [subject_kind |-> a.subject_kind, subject |-> a.subject, predicate |-> a.predicate,
     value |-> a.value, attrs |-> a.attrs, producer |-> a.producer,
     derived_from |-> derivedFrom]

Reference(kind, id) == [kind |-> kind, id |-> id]

-----------------------------------------------------------------------------
(* compute_canonical_graph_hash                                            *)

NodeRecord(node, es) == [node |-> node, evidence |-> EvidenceRecordOfAll(es)]

EdgeRecord(edge, es, refs) ==
    [edge |-> edge, evidence |-> EvidenceRecordOfAll(es), derived_from |-> refs]

AssertionRecord(assertion, refs) == [assertion |-> assertion, derived_from |-> refs]

ObservationRecord(observation, es) ==
    [observation |-> observation, evidence |-> EvidenceRecordOfAll(es)]

=============================================================================
