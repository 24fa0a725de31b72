# A verification development for PARTHA

PARTHA imports a source repository, analyses it in the background and serves
views of the resulting, immutable *snapshot*.  This directory holds TLA+ models
of its backend (`apps/backend/app`): the parts where several processes share state
through a database, and the analysis itself, from the syntax tree of a file to
the hash of the sealed graph; the TLC configurations that check them on small
instances; and TLAPS proofs, for instances of any size, about every model except most
of what the language extractors make of a file.

`PROJECT.json` maps every definition to the source lines it models and lists
the runs, the theorems, the hazards of the code and the findings.

## The system

| component | state it keeps | operations | what makes it correct |
|---|---|---|---|
| Job requests (`services/analysis_job_service.py`) | none of its own; copies of rows held by a request | `submit`, `status`, `cancel`, reconciling a sealed snapshot | idempotent submits, an accepted cancel is honoured, a sealed snapshot is authoritative |
| Job table (`models/analysis_job.py`) | one row per job: status, attempt, owner, lease, cancel flag, retry delay, snapshot | two partial unique indexes | one effective job per identity |
| Control plane (`workers/control_plane.py`) | none | `next_eligible_job_id`, `claim`, `renew`, `expired_job_ids`, `reclaim`, `update_owned` | one owner per running row, no decision on a stale row |
| Worker (`workers/analysis_worker.py`) | stage context, heartbeat signals | stages open, extract, seal; complete; `_cancel`, `_retry_or_fail`, `_fail_resource_exceeded`, `sweep_stale` | no orphaned build, no lost or doubled result, bounded retries |
| Runner (`workers/runner.py`) | loop counter, stop event | poll, periodic sweep, start, stop | a dead worker's job is found again |
| Snapshot store (`intelligence/snapshot_store.py`, `models/snapshot.py`) | snapshots with their facts | `begin`, `get_or_reuse`, `add_*`, `seal`, `mark_failed` | a sealed snapshot is complete, unique and immutable |
| Retention (`intelligence/retention.py`) | none | purge of failed facts, at failure and in sweeps | never touches a live snapshot, leaves nothing behind |
| Repositories and lineages (`repositories/repository_repository.py`, `services/repository_service.py`) | repository rows, lineage counter and latest pointer, source directories | import, upload, re-analysis, delete | unique increasing sequence numbers, latest pointer at the last survivor |
| Account deletion (`services/account_deletion_service.py`) | audit rows | delete with cascade, then source directories | truthful audit, nothing owner-scoped left |
| Sessions (`auth/service.py`) | accounts, approved addresses, refresh tokens in families | register, sign in, refresh, log out, approve | a token is rotated once, reuse revokes the family, a closed family stays closed |
| OAuth (`services/oauth_service.py`) | one-time flow states, pending links, identities | start, callback, confirm, link, unlink | an external identity leads to one account, also when callbacks race |
| Rate limiting (`core/rate_limit.py`) | a counter per key and window, in memory or in Redis | hit, refuse, fail open | bounded bursts, deserved refusals, a `Retry-After` that is enough |
| AI workspace (`ai/`, `core/ai_egress.py`, `repositories/ai_conversation_repository.py`) | provider configuration with an encrypted key, threads, the slot of a local model | save, test, list models, ask, append | threads are pairs, keys and requests go only where they may |
| Extraction (`extraction/`) | none | per file: nodes, observations, diagnostics | facts the store accepts, that say what the source says |
| Resolution and classification (`intelligence/resolution.py`, `classification.py`) | none | observations to edges, diagnostics and roles | every observation answered, no guessing |
| Canonical form (`intelligence/canonical.py`) | none | normal paths, keys and values; identities; hash | order independence, paths inside the repository |
| Storage cleanup (`scripts/cleanup_storage.py`) | none | list known ids, list directories, remove orphans | removes no directory that is in use |
| Queries, reports, documentation | none | projections of a sealed snapshot | determinism |
| Web client (`apps/frontend`) | polling and token state | poll analysis, refresh token | one refresh in flight |

Interaction is through the database.  API requests and workers are separate
threads or processes with sessions of their own (`expire_on_commit=False`,
`autoflush=False`), so what one of them loaded stays in its memory while the
others write.  A worker also has a heartbeat thread that renews the lease and
reads the cancel flag, and it is killed, restarted and upgraded at any point.

The hard behaviours follow from that: a cancel, the seal, a retry and the sweep
of one job in any order; a lease that lapses under a worker that is slow and not
dead; commits in the middle of a stage that have no ownership guard
(`_release_write_lock`); a failure that takes three transactions (snapshot state,
purge of its facts, job row); an unguarded flush of an old copy of the row
(`_reconcile_completed_job`); an ORM that writes only columns which differ from
the loaded value; a new release with other producer versions in the middle of all
this.  For repositories: two imports that create one lineage at once; a deletion
that rolls the latest pointer back while an import moves it forward, on a database
with row locks and on one without; the deletion of the account under both; rows and
directories that are changed one after the other, by requests that may die in
between and beside a script that removes what looks orphaned.  For accounts:
sign-in, linking and deletion as several transactions of several requests, and
tokens presented twice.  For the AI workspace: names that resolve to something
else than when they were validated, and allocations that collide.  For the
analysis: facts of many producers that arrive in any order and must agree with
one another, since one refused write fails the whole analysis.

## Modules

| module | content |
|---|---|
| `AnalysisJobs` | jobs, snapshots, requests, control plane, workers, retention, deletion, deployment; the properties; the inductive invariant `JobInv` |
| `MCAnalysisJobs` | the symmetry set for TLC |
| `AnalysisJobsProofs` | the theorems about `AnalysisJobs` and their proofs |
| `RepositoryLineage` | import, re-analysis, upload and deletion of an owner's repositories, deletion of the account, the cleanup script; the properties |
| `AnalysisPromise` | what analysing promises to a user: a job's visible life and when its graph is published, without workers, leases and snapshots |
| `AnalysisJobsRefinement` | the mapping under which `AnalysisJobs` implements `AnalysisPromise` (extended by `MCAnalysisJobs`) |
| `AnalysisJobsRefinementProofs` | the proof that it does, and what follows from the same argument |
| `MCRepositoryLineage` | the symmetry set for TLC |
| `RepositoryLineageProofs` | the theorems about `RepositoryLineage`, their inductive invariants and proofs |
| `Accounts` | registration, password and OAuth sign-in, linking, refresh tokens, deletion of an account |
| `AccountsProofs` | the theorems about `Accounts`, their inductive invariant and proofs |
| `RateLimit` | the fixed-window limiter with both stores and the middleware |
| `RateLimitProofs` | the theorems about it and their proofs |
| `EgressPolicy` | where a request to an AI provider may go: normal form of URLs, allowed bases, classes of addresses |
| `AiWorkspace` | extends it: configuration, key, question, provider, thread of one owner |
| `AiWorkspaceProofs` | the theorems about it, their three invariants and proofs |
| `Canonical` | normal form of paths, keys and values; identities; records of the hash |
| `SnapshotFacts` | extends it: the fact writers, validation and seal of one snapshot, the guard of sealed ones |
| `SnapshotFactsProofs` | the theorems about both and their proofs |
| `Extraction` | what the extractors share: keys, spans, ordinals, HTTP destinations |
| `PythonSource`, `TypeScriptSource`, `Manifests` | the facts of one file, per language |
| `Resolution` | extends `SnapshotFacts` and `Extraction`: edges, diagnostics and roles from stored facts |
| `Analysis` | composes all of them: one analysis from the first file to the seal |
| `AnalysisProofs` | the theorems about `Analysis`, their inductive invariants and proofs |
| `MCAccounts`, `MCRateLimit`, `MCAiWorkspace`, `MCSnapshotFacts`, `MCAnalysis` | values of the constants and symmetry sets for TLC |

The two models share the repository row: `AnalysisJobs` has its status and knows
deletion as one step, `RepositoryLineage` has its lineage, its sequence number and its
directory and takes deletion apart.  `AnalysisJobs` and `SnapshotFacts` share the
snapshot: the first has its state, owner and commits and two kinds of facts, the second
its facts, with one process.  `Analysis` is what a worker of `AnalysisJobs` does between
`OpenSnapshot` and `Seal` when nothing interferes.  `RepositoryLineage` and `Accounts` share
the deletion of an account, which is the cascade over repositories in the one and
over sessions and identities in the other.

### State of `AnalysisJobs`

* `jobs[j]`: the row of the j-th job ever inserted (rows in `created_at` order).
  `lease` is `lease_expires_at` as an opaque instant, since the code compares it
  only for equality; `lapsed` says it has passed, `backoff` that
  `next_attempt_at` has not.  Status `unused` is a row not inserted yet,
  `deleted` one removed by the cascade.
* `snaps[<<j, a>>]`: the snapshot opened in attempt `a` of job `j` (an attempt
  opens at most one), with the facts stored under it.  Facts are of two kinds,
  observed and derived, because the second needs the first (foreign keys) and
  because a purge between the two must be told from one after both.
* `record[r]`: `repositories.status`; `gone` after deletion.
* `worker[w]`: where the thread is, its heartbeat's signal, the snapshot of its
  stage context, and for a sweeper the copy of the row it decides on.
* `client[c]`: a request, with the copies of the job and repository rows it
  loaded.
* `release`: the producer version set of the deployed build.

A job's identity is (repository, revision, configuration hash).  The revision of a
repository row never changes and there is one configuration, so the identity is
the repository.

### Actions of `AnalysisJobs`

One action is one transaction, or one read whose result is used after another
process may have run.  `submit` is `RequestStart`, `RequestFind`, `SubmitActive`,
then `SubmitInsert` or `SubmitConflict` and `SubmitReread`; a sealed snapshot leads
to `Reconcile`.  `cancel` is `CancelStart` and then one guarded update and re-read per
branch.  A worker takes `ClaimRead` and `Claim`, then for each stage `Gate` (the
cancel check), `FirstPulse` and the stage's transactions; the heartbeat thread is
`Heartbeat`, and what it signals is raised by `HeartbeatRaises`.  Every exception
handler goes through `Settle`, `Purge` and `Finish`: `Resolve` is the decision that
`_cancel`, `_retry_or_fail`, `_fail_resource_exceeded` and `_reconcile_stale` share
(complete a sealed snapshot, fail an open one, otherwise conclude the job).  The
sweep is `SweepLoad` and `Reclaim`, plus `SweepPurge`.  `LeaseLapse` and
`BackoffElapse` are time, `Crash` ends a worker's iteration with its open
transaction, `Deploy` restarts every process with another producer set.

### State and actions of `RepositoryLineage`

* `repos[i]`: the row with the i-th id ever minted, with the canonical pair of its
  lineage, its sequence number and its revision (a commit or an archive's hash).  A
  deleted row keeps its columns, so that the reuse of a number can be talked about.
* `lineage[k]`: the row of a canonical (source, branch) pair: latest pointer and next
  sequence number.
* `lock[k]`: who holds the row lock of `SELECT ... FOR UPDATE`; nobody ever does when
  `RowLocks` is `FALSE` (SQLite).
* `account`, `dirs`: the owner's row and the directories under `STORAGE_PATH/repositories`.
* `req[c]`: where a request is, and what it read and will act on; `cleaner[m]`: the
  script's list.

There is one owner: every query is scoped to one, and ids are never shared.  An import
mints an id and a directory (`Import`, `Reanalyse`), clones (`Clone`), looks the lineage
up (`FindLineage`), and then inserts the lineage if it found none, takes the next number,
checks for the revision, inserts the row and moves the pointer in one transaction
(`Allocate`), unless the insert is refused (`RetryAllocate`), the lineage has gone
(`LineageVanished`) or has the revision (`Duplicate`); every failure removes the directory
(`Discard`).  From its first write on the transaction excludes other writers of the
lineage, on both databases, so it is one step.  A deletion loads its record (`Delete`),
reads lineage and survivor under the lock (`LockLineage`), commits (`Erase`, or `EraseRaises`
when the deferred foreign key finds the pointer dangling) and removes the directory
(`RemoveSource`).  On SQLite the reads of a deletion come before the transaction's first
write and are not protected by it.  The account goes by `DeleteAccount`, `ListSources`,
`Expunge` (the cascade) and `RemoveSources`.

### `AnalysisPromise` and the refinement

A job is `queued`, `running` or settled, is started a bounded number of times, publishes at
most one graph, and only while it runs and nobody has asked to cancel it; how it ends
agrees with whether its graph was published.  `AnalysisJobsRefinement` maps a job to the
columns a user sees, and `published` to the jobs with a sealed snapshot.  The cancel flag
is mapped for active jobs only: a reconciliation that read the row before a cancel
leaves the flag set on the completed job, where nothing reads it any more.

### State and actions of `Accounts`

Tables are functions from the ids ever used to rows (`free`, `live` or gone), so that ids
are not reused; `req[c]` is where a request is and what it read.  A secret is modelled by
the row it is the secret of: to present a token is to choose one.  Registration is `Register`
(the reads: address free, approved, or the first account) and `Insert`; a sign-in is
`Login` and `OpenSession`.  A rotation is `Refresh` (the reads and checks) and `Claim`, which is the
guarded update together with the insert of the successor, or `ClaimLost`; logout and
reuse end in `RevokeRead` and `RevokeWrite`, because the family is read and then written.  OAuth
is `StartFlow`, `Callback` (read the flow), `Consume` (delete it), `Exchange` (the provider answers), then one of
`CompleteLink`, `LoginKnown`, `LoginPending`, `LoginRegister` with `Insert` and `Identify`, and `LoginRefused`.
`DeleteAccount` checks, `Expunge` cascades.  `Crash` ends a request between any two.

### State and actions of `RateLimit`

`windows[k]` is the counter of a key and the instant its window ends; time is in
fractions of a second because `Retry-After` and Redis' `TTL` are whole seconds.  `admitted[k]` is the
sequence of the instants at which the key was admitted and is used by the properties only.  `Dispatch` is the
middleware, `MemoryHit` and `RedisHit` the two stores, `FailOpen` a store that raises,
`LoseExpiry` the case `_WINDOW_SCRIPT` re-arms a key for.

### State and actions of `EgressPolicy` and `AiWorkspace`

A URL is a record of what the policy looks at; `Normalise` is the normal form, `Permitted` the
decision on the addresses a name resolves to.  A request saves (`Save`, `SaveCommit`), tests
or asks (`Test`, `Ask`), waits for the slot of a local model (`Acquire`), is validated and pinned to an
address (`Prepare`), sent (`Send`) and answered (`Answer`, `AnswerEnds`); the answer is appended by
`Allocate` (the maximum) and `Insert`, or `InsertCollides` and again.  The environment changes names,
deletes the repository, and restarts the process with another encryption key.  A key is
known by the provider the user gave it for.

### State and actions of `Canonical` and `SnapshotFacts`

A path is the sequence of its segments.  A hash is the document it digests, so two hashes
are equal exactly when the documents are.  Evidence and derivations are rows that name
their fact.  `AddNode`, `AddObservation`, `AddEdge`, `AddAssertion` and `AddDiagnostic` have the refusals and conflicts of the
writers (`NodeRefused`, `EdgeConflicts`, ...) as guards, `Edit` is a change of a stored evidence row
through the session, which the guard allows while the snapshot is building, `Seal` and `SealFails` validate (`Valid`) and
commit, `MarkFailed` and `Sweep` discard.  `given` remembers what was accepted and is used by the
properties only.

### `Extraction`, the sources, `Resolution` and `Analysis`

A source file is the sequence of the statements (or entries) the visitors meet, each with
its lines and the scope it stands in; parsing text into it is the work of libraries.  The
modules define, as operators, the nodes, observations and diagnostics of a file; `Resolution`
defines what the resolver and the classifier make of what is stored.  `Analysis` runs them:
`ReadFile` extracts and persists one file (dependency facts wait), `FileGone` passes over a file
that has gone, `PersistDeferred` merges and writes what waited, `Resolve`, `Classify` and `SealStage` follow.
A write that the store refuses makes the analysis `raised`.

### Mutants

The definitions introduced by a comment "Mutant:" or "Mutation:" are changed versions of the
definition that follows them, as a plausible bug would have it; they are not used
by the specification and serve to show that the properties can fail.

### Assumptions of `AnalysisJobs`

* Transactions are serialised where they touch the same row (SQLite has one
  writer; on PostgreSQL the guarded `UPDATE` locks the row until commit).
* `LeaseInstantsAssumption`: there is always an instant no sweeper remembers, that
  is, time does not repeat.  `FreshInstant` picks one.
* Worker ids are unique per process (`new_worker_id`), so a restarted worker has
  another id.  In the model it keeps its id, which is only more behaviour: the
  restarted worker could be taken for the owner of its old rows.
* `_insert_completed_job` is left out: it runs only when a sealed snapshot has no
  job, and `SealedIsEffective` says it always has one.
* A reused snapshot goes straight to completion: the two stages in between do
  nothing but move the lease.

## Runs

| run | instance | checks |
|---|---|---|
| `jobs_race` | 2 workers, 1 request, 1 job, 2 attempts | `JobInv`, `SealedIsEffective`, `NoOrphanBuild`, `SealedIsWhole`, `ReclaimSeesCurrent`, `SealedIsImmutable`, `KeepsPromise` |
| `jobs_requests` | 1 worker, 2 requests, 2 jobs, 1 attempt | `RecordAgrees`, `ReconcileNeverRaises` |
| `jobs_deploy` | 1 worker, 1 request, 1 job, 2 attempts, 2 releases, fair | `CompletedIsSealed`, `EveryJobSettles` |
| `jobs_purge` | 2 workers, 1 request, 1 job, 1 attempt, fair | `FailedFactsPurged` |
| `lineage_postgres` | 3 requests, 1 lineage, 2 commits, 1 archive, 3 ids, row locks | `LatestIsNewest`, `PresentHasSource`, `RetriesSuffice` |
| `lineage_sqlite` | 2 requests, 1 cleanup, 1 lineage, 2 commits, 3 ids, no row locks | `SequencesNeverReused`, `RevisionOnce` |
| `accounts` | 2 requests, 2 addresses, 1 provider account, 2 users, 3 tokens, 1 flow | `OneOpenToken`, `OneAccount`, `DeletedIsGone`, `ClosedForGood` |
| `ratelimit` | windows of 2 s in half seconds, budgets of 2 and 1, both stores | `WindowBudget`, `NoFalseRefusal`, `RetryAfterEnough`, `WindowAlwaysEnds` |
| `ai` | 2 requests, 3 questions, 2 saves, a cloud provider and Ollama | `ThreadIsPairs`, `AnswerKept`, `SentWherePermitted`, `KeyToItsProvider`, `SlotNotLeaked` |
| `facts` | about ten offered facts, valid, conflicting, cyclic and malformed; one edit | `SealedSound`, `PathsLead`, `HashOfGiven`, `SealedForGood` |
| `analysis` | repositories of one to five files | `AnalysisSeals`, `EveryInputAnswered`, `CallsAreBound`, `ServiceCallsAreClients`, `NeverGuesses`, `DeclarationsKept` |
| `say_no_borrowing` | the same | `BorrowsNothing`, violated |

What they show:

* **`SealedIsEffective`, `NoOrphanBuild`**: whatever the order of seal, cancel, retry,
  crash and sweep, a sealed snapshot belongs to a job that is running or
  completed and points at it, and a building one is the current attempt of a
  running job, where a sweep finds it.
* **`SealedIsWhole`, `SealedIsImmutable`**: the purges and the commits in the middle of
  a stage carry no ownership guard; still no snapshot is sealed with facts missing
  and none changes afterwards.
* **`ReclaimSeesCurrent`**: the sweep decides on a row loaded before its
  compare-and-swap.  The swap compares owner and lease instant and not the attempt;
  that is enough, because every claim and renewal brings a new instant.
* **`RecordAgrees`**: once the latest job has settled, the repository row says the same,
  although several paths write it from an old copy.
* **`ReconcileNeverRaises`**: the unguarded flush is never refused by the
  effective-identity index.
* **`CompletedIsSealed`**: across deployments.  It says that a completed job has *a* snapshot, not of which
  producers (see *Observations*).
* **`KeepsPromise`**: every step of all these processes is, to a user, a step of the promised
  life of a job or none.  In particular a cancel accepted before the seal holds across
  retries, crashes and sweeps, and no claim, sweep or late flush takes a settled job back.
* **`EveryJobSettles`, `FailedFactsPurged`**: see *Fairness*.
* **`SequencesNeverReused`, `RevisionOnce`**: a number is issued once and a commit is at most
  once in a lineage, also without row locks: the counter's update serialises imports.
* **`LatestIsNewest`**: with row locks the pointer is at the last survivor whatever
  imports and deletions do; without them it is not (see below).
* **`PresentHasSource`**: a row never lacks its directory, whoever dies when, as long as
  the cleanup script is not running (see below).
* **`RetriesSuffice`**: of the five attempts of an import the first two are enough while
  the account exists, because the second finds the lineage that refused the first.

* **`OneOpenToken`, `ClosedForGood`**: whatever is presented twice or at once, one token of a
  family can be used, and a family that logout or a replay has closed, with no rotation
  of it in flight, stays closed.  The premise is needed: see *Observations*.
* **`OneAccount`, `DeletedIsGone`**: racing registrations, callbacks and confirmations leave
  addresses and identities unique, and nothing of a deleted account comes back.
* **`WindowBudget`, `NoFalseRefusal`, `RetryAfterEnough`, `WindowAlwaysEnds`**: a fixed window admits
  up to twice its budget in a span of its length and never more; in memory a refusal
  is deserved and waiting as told is enough; after every counted request the key has a window that ends
  within a window's length, so that a Redis key that lost its expiry gets a new one with the next request.  The two properties about single answers are stated for the store in memory:
  Redis rounds `TTL` to the nearest second, so its `Retry-After` may be half a second short.
* **`ThreadIsPairs`, `AnswerKept`**: allocation by maximum under a unique index keeps pairs
  together, and an answer is given up only after as many others as there are retries.
* **`SentWherePermitted`, `KeyToItsProvider`, `SlotNotLeaked`**: because the connection goes to
  the address that was validated, a name that changes in between sends nothing
  elsewhere; a stored key is used for its own provider as long as two saves do not
  overlap; at most one request holds the slot of the local model,
  and it is always given back.
* **`SealedSound`, `HashOfGiven`, `SealedForGood`, `PathsLead`**: `Cyclic` is the store's own search for cycles and
  `SealedSound` asks for a rank of every derived fact, which is another definition of the
  same thing; `GivenDocument` computes the hashed document from the facts as they were
  offered, without the store's merging; `Leads` states where a path leads without
  resolving it step by step: by the depth the walk has reached at each segment.
* **`AnalysisSeals`**: producers, store, merge, resolver and classifier fit together.
* **`EveryInputAnswered`**: every relationship somebody observed ends as an edge or a diagnostic.
* **`CallsAreBound`, `ServiceCallsAreClients`, `NeverGuesses`, `DeclarationsKept`**: the edges and
  nodes of the sealed graph are compared with what the language says of the source
  (scoping and import rules, what the manifests list), not with the extractor.
  * `CallsAreBound`: a call edge stands for a call of a bare name that no parameter and no local declaration of
    a function around it hides, and ends at the one thing the name *means* in the file (`Means`): what the
    file defines at its top, else what an import takes under that name from the top of the file or files the import can
    mean (`ModuleFiles`, stated from the files' side as in `NeverGuesses`); the default import of a TypeScript file takes its default export.
    Where the name means nothing in the repository the edge may end at the one namesake that stands in for it (`StandsIn`):
    a symbol deeper in the imported file, the case `BorrowsNothing` is about, or one of a package passed on the way of a
    relative import (see *Observations*); nothing else is admitted.
  * `ServiceCallsAreClients`: a service edge stands for a call on a name that is bound to an HTTP client at that
    point (Python), on a default import of axios, or of `fetch` not hidden by a function around it
    (TypeScript), and its origin is that of the call's URL: scheme, host and port.

Deadlock is not checked: once every repository is deleted, or all ids are used up,
the system has nothing left to do.

### Bounds

`MaxJobs`, `MaxAttempts` and `MaxReleases` bound the rows ever inserted, the retries and
the deployments; the number of lease instants is one more than the number of
workers, the least that satisfies `LeaseInstantsAssumption`.  Two workers are enough
for an owner and a sweeper (or a late owner and a new one), two attempts for a retry
with a snapshot from the attempt before, two requests for a race of submits or of a
submit and a cancel, two jobs for a second submission after the first job settled.
In `RepositoryLineage`, three ids are enough for a member to delete, one that survives it
and one that is being imported, three requests for an import, a deletion and whatever
interferes with both; `MaxRetries` has the value of the code.  One lineage is enough
because no step touches two, except the cascade, which takes them all.
In `Accounts`, two requests and three tokens are enough for a rotation, a replay and what
the loser revokes; two users and two identities for a collision of either.  In `AiWorkspace` two
retries stand for the code's five, so that a pair can be crowded out.  In `RateLimit` half seconds
are enough for a window that begins between two seconds and for both roundings.  The facts offered
in `MCSnapshotFacts` and the repositories of `MCAnalysis` are chosen so that every refusal, conflict,
diagnostic and kind of edge occurs; `MCAnalysis` combines the constructs the extractors treat
differently (scopes, shadowing, nested packages, aliases, relative specifiers up to the root, packages passed on the way of a
relative import, origins that differ in scheme, host or port, several spellings of one package).
The races of two workers and those of two requests are checked in separate runs
because together they exceed a few minutes; what is proved holds for all of them
together.

### Fairness

`FairSpec` adds to `Spec`:

* weak fairness of `Work(w)`: a thread that is running keeps running;
* strong fairness of `ClaimRead`, `SweepLoad` and `SweepPurge`: the runner polls and, every
  few polls, sweeps for ever (`run_forever`); between two sweeps a worker is busy with
  a job, so the actions are not continuously enabled;
* weak fairness of `BackoffElapse`, and of `LeaseLapse` while no heartbeat renews the
  lease (`Attended`): time passes.

Nothing is assumed of requests, deletions and heartbeats, and nothing of crashes:
the liveness properties are conditional on `CrashesEnd`, that workers stop crashing at some
point.  Without it a job can be claimed, abandoned and swept up to its last attempt,
but a sweeper may also crash for ever.

## What the documentation says and the code does not do

`say_no_borrowing` (`BorrowsNothing`): the docstring of `_reference_candidates` says that a name
whose import cannot be resolved "returns no candidate (an unresolved diagnostic) rather than
borrowing an unrelated same-named symbol".  When the imported file has no such symbol at its top
level, the code takes any symbol of that name in the file: after `from .b import g`, where
`b.py` only has a method `C.g`, a call of `g` gets an edge to `C.g`.

### Observations

Other behaviours the models contain that a comment or a document describes otherwise, or that a
maintainer may want to know.

Jobs and lineages:

* The comment in `_insert_queued_job` calls the read after a lost insert "transactionally ordered
  reconciliation, not a timing check".  The winner may have been cancelled or failed by then;
  the request raises (`SubmitReread`).
* "A job serving retry backoff is invisible to the queue" (`claim`).  Only the read tests the
  delay, the update does not (`ClaimRead`, `Claim`).
* The RFC says a bumped producer version "produces a new snapshot for the same revision" (section 9.4).  The
  effective-identity index does not know the producers: after a deployment a submit finds no snapshot of the new ones,
  its insert is refused by the completed job of the old ones, and it answers with that job (`Deploy`, `SubmitConflict`,
  `SubmitReread`).  Nothing the models check excludes it.
* `cancel`'s docstring says that a terminal job, or no job, refuses a cancel.  A running
  job that its worker requeues between the read and the guarded update refuses it as
  well (`CancelRefuse` with status `queued`).
* `submit` sets the repository to `analysing`; when the row it loaded said so already and a
  cancel commits in between, the ORM writes nothing and the repository stays `cancelled`
  beside a queued job (`SubmitInsert` with `Flushed`).
* Without row locks a deletion that read the survivor before an import committed puts the
  latest pointer back at an older revision, so `LatestIsNewest` is checked with row locks.
* The cleanup script takes the directory of an import that commits its row after the script
  has read the ids, so `PresentHasSource` is checked without it.
* `_add_with_lineage_once` calls a lineage that is missing at the allocation "unreachable".
  The deletion of the account reaches it (`LineageVanished`); the import fails and removes
  its directory, so nothing is left behind.
* Two uploads of one archive at once both pass the duplicate check and are both
  imported (`Upload`, `Upload`, `UploadAdd`, `UploadAdd`).

Accounts:

* The claim of a refresh token tests `used_at` only.  A rotation that has passed its reads when a
  logout revokes the family still issues a successor, which is live.
* The docstring of `complete_callback` says a replayed callback "can never reuse a state value";
  two callbacks that read the flow before either deletes it both use it.  The provider named in the
  callback's URL is not compared with the flow's.
* Two unlinks at once each see the other's identity; an account without a password may be left with
  none (`Unlink`, `UnlinkCommit`).
* OAuth registration commits the account before its identity; after a crash in between the next
  sign-in finds an account without a password that it may not link.
* The first-account rule applies again once the only account was deleted.
* The audit row of a deletion that dies before the cascade stays `in_progress`.

AI workspace:

* Two saves at once write the columns that differ from what each read, so provider and key of
  a row may come from different saves (`mixed` in `KeyToItsProvider`).
* `append_turns` retries on every integrity error, also when the repository is gone.

Analysis:

* A Compose file that declares one key twice fails the whole analysis; the RFC says that a collision of
  keys drops the fact and completes.  `AnalysisSeals` names this exception.
* A repository without any text file has no root node and is never sealed.
* `from app import k`, with `app/__init__.py` and `app/k.py`, is always ambiguous.
* A Python import may resolve to an npm dependency of the same name.
* Every prefix of a relative import is a candidate: after `from .pkg.sub import g`, where `pkg/sub.py` has no `g`,
  a call of `g` may get an edge to the `g` of `pkg/__init__.py` (`StandsIn`).
* Names bound by `except ... as` and by a module-level `for` do not end a client binding in the scan for
  service calls.
* The docstring of the TypeScript `_collect_service_interactions` says that the client forms are "the ``fetch`` global" and
  calls on a default import of axios.  What hides a client is collected from the functions around a call and not from the
  program itself: after `import { k as fetch } from "./ui"` a call of `fetch`, which is a call of `k`, becomes a
  service interaction (`MCAnalysis` has this file).  `ServiceCallsAreClients` names this exception.
* Methods of the second class of one name get the first as their parent.

## Proofs

### `AnalysisJobsProofs`

`AnalysisJobsProofs` proves, for every number of repositories, workers, requests, jobs,
attempts and releases:

| theorem | states |
|---|---|
| `Invariance` | `Spec => []JobInv` |
| `TypeCorrect` | `Spec => []TypeOK` |
| `CompletedImpliesSealed` | `Spec => []CompletedIsSealed` |
| `SealedImpliesEffective` | `Spec => []SealedIsEffective` |
| `BuildsAreOwned` | `Spec => []NoOrphanBuild` |
| `SealedAreWhole` | `Spec => []SealedIsWhole` |
| `ReclaimIsCurrent` | `Spec => []ReclaimSeesCurrent` |
| `OwnerIsCurrent` | `Spec => []OwnerBuildsCurrent` |
| `SealsDoNotConflict` | `Spec => []SealNeverConflicts` |

They rest on the named assumptions of `AnalysisJobs`: the bounds are positive, `None` is no
other value, and time does not repeat.

None of the properties is inductive.  `JobInv` adds what relates the rows to the
processes' memories:

* `RowOK`: owner and lease are set exactly while a row is running, a queued row has
  attempts left, a row's snapshot is one of its own;
* `OneEffective`: what the effective-identity index enforces;
* `SnapOK`: a building or sealed snapshot is the one its row points at, of the row's
  current attempt, and attempts to come have none;
* `WorkerOK`: *if* a worker still owns its row, then its stage context is the row's
  snapshot and the snapshot is in the state the stage expects, and what it has committed of an
  extraction is still there, so that adding the rest makes it whole; a sweeper's copy is
  current *as long as* owner and lease instant are; a worker that is closing an
  attempt and still owns the row has no live snapshot any more;
* `ClientOK`: a request about to reconcile holds a copy of a row that still points
  at the sealed snapshot, unless it was deleted.

The argument is about interference.  A step changes few rows, so the lemmas
`Bystander` and `BystandingRequest` say what a step must leave alone for the invariant of a process
not taking it: the owner, attempt and snapshot of the rows it relies on
(`SameCore`), their snapshots (`SnapsKept`), or else the row was taken
from it (`Taken`).  `JobStep` combines them for a step on one job, and `RenewStep`, `FlagStep`,
`SnapStep`, `ReleaseStep` and `TakeStep` specialise it to the five ways the code
changes a row: renew the lease, set a flag, change the snapshot, give the row up, take it over.  Every
action is then one of these.

The type invariant of `AnalysisJobs` is a conjunct of `JobInv`, which `jobs_race` checks.  `OwnerBuildsCurrent`
and `SealNeverConflicts` say that a worker that passes the ownership guard works on the row's own open
snapshot and that its seal never meets the unique index; they are only proved.

### `AnalysisJobsRefinementProofs`

| theorem | states |
|---|---|
| `PromiseKept` | `Spec => KeepsPromise`, that is, `Spec => Promise!Spec` |
| `RecordsAgree` | `Spec => []RecordAgrees` |
| `ReconciliationsDoNotRaise` | `Spec => []ReconcileNeverRaises` |
| `SealedNeverChanges` | `Spec => SealedIsImmutable` |

From the same assumptions.  The invariant is `FullInv == JobInv /\ CancelInv /\ OrderInv`:

* `CancelInv`: a worker that closes an attempt as cancelled, or whose heartbeat saw the flag, works on a
  row that has the flag *as long as* it owns the row, and a sweeper's copy has it only if the
  row does as long as the copy is current.  Without it a row could, as far as `JobInv` knows, become
  cancelled that nobody asked to cancel, which is no step of the promise;
* `OrderInv`: rows are used in the order of their numbers, the effective job of a repository
  is its latest, a repository row (or a request's copy of it) says completed only if there is a
  completed job, and a reconciliation whose job was deleted lost its repository.  These are what
  `RecordAgrees` needs, because the row that a late flush belongs to must be the latest one.

The proof goes in two halves.  `StepEffect` takes each action of each process once and says which of nine
effects it has on what a user can see, if any: a row is submitted, claimed, sealed, asked to
cancel, withdrawn from the queue, completed, given up or requeued, or a repository is deleted (`Effect`).  Everything after that is about the nine
effects and never about an action: they carry `OrderInv` (`EffectRows`), and under the mapping each
is one step of `AnalysisPromise` or a stutter.

### `RepositoryLineageProofs`

For every number of lineages, commits, archives, requests, ids and retries:

| theorem | states | under |
|---|---|---|
| `LineageInvariance` | `Spec => []LineageInv` | |
| `LineageTypeCorrect` | `Spec => []TypeOK` | |
| `SequencesUnique` | `Spec => []SequencesNeverReused` | |
| `RevisionsUnique` | `Spec => []RevisionOnce` | |
| `LatestIsRight` | `Spec => []LatestIsNewest` | `RowLocks` |
| `SourcesKept` | `Spec => []PresentHasSource` | `Cleaners = {}` |
| `OneRetry` | `Spec => []RetriesSuffice` | |

The two hypotheses are needed: see *Observations*.

`LineageInv` adds to the properties that a request's minted id is its own (`Exclusive`,
`RequestOK`), that a row's lineage lives as long as the account does (`RowOK`), so that the
first member of a new lineage meets no older number, and that the account takes all
rows with it (`AccountOK`).  On top of it three invariants are proved separately:

* `SourceInv`: a request that is about to add a row still has its directory, because every
  removal is of an id that is not present and not held by another request;
* `PointerInv`: a deletion that has passed `LockLineage` holds the lock, and what it read is
  still so (`ErasesCurrent`); the pointer is stated as a relation (`IsNewest`) so that
  the choice in `Newest` is met only once, in `NewestUnique`.  That the survivor exists
  at all (`NewestExists`) follows from the well-foundedness of `<`;
* `RetryOK`: an import that was refused once sees its lineage exist from then on.

### `AccountsProofs`

For every number of addresses, providers, provider accounts, requests and ids, from
`BoundsAssumption`, `NullAssumption` and `DevelopmentAssumption` of `Accounts` (only that `None` is no other
value is used):

| theorem | states |
|---|---|
| `AccountInvariance` | `Spec => []AccountInv` |
| `AccountTypeCorrect` | `Spec => []TypeOK` |
| `OpenTokenUnique` | `Spec => []OneOpenToken` |
| `AccountsUnique` | `Spec => []OneAccount` |
| `DeletionIsComplete` | `Spec => []DeletedIsGone` |
| `ClosedStaysClosed` | `Spec => ClosedForGood` |

`OneOpenToken` is not inductive: a rotation issues a token whatever was revoked meanwhile, so
what has to be kept is that all tokens of a family but one are *used* (`FamilyOK`), which the
guarded update of `_claim_token` keeps.  `FamilyOK` also says that a family is named by a token
that was issued, so that a new session cannot fall into an old family, and that its tokens are of one
user, so that a deletion takes it whole.  `RequestsOK` says what a request has read by the time it is at
a stage.  `ClosedForGood` follows per step: only `Refresh` leads to a claim, and a closed family has no token
it would pass.

### `RateLimitProofs`

For every number of callers, every budget, window length, resolution of the clock and bound, from
`TimeAssumption`, `LimitAssumption` and `CallerAssumption` (somebody calls):

| theorem | states |
|---|---|
| `LimiterTypes` | `Spec => []TypeOK` |
| `BurstsAreBounded` | `Spec => []WindowBudget` |
| `RefusalsAreDeserved` | `Spec => []NoFalseRefusal` |
| `RetryAfterSuffices` | `Spec => []RetryAfterEnough` |
| `WindowsEnd` | `Spec => WindowAlwaysEnds` |

The counter says how many came in this window and nothing of the one before, and the
properties are about spans that straddle the two.  `WindowOK` therefore says that the current window
*began at some instant* `s`, that since `s` as many were admitted as it counted up to the budget, and that in
the span of a window before `s` no more than the budget were; a new window's `s` is the
present, and what was current becomes what was before.  `s` is no variable of the code; in Redis, where
a lost expiry makes a window longer, it is not even `ends - Window`.  `RefusalOK` ties the last refusal to the end of
its window; `CeilCovers` is the rounding of `Retry-After`.

### `AiWorkspaceProofs`

For every number of requests, repositories, addresses, URLs, retries and saves, from the assumptions of
`EgressPolicy` and `AiWorkspace`: there is a repository and an address
(`InhabitedAssumption`), and URLs are records of the fields the policy reads (`UrlAssumption`):

| theorem | states |
|---|---|
| `WorkspaceTypes` | `Spec => []TypeOK` |
| `ThreadsArePairs` | `Spec => []ThreadIsPairs` |
| `AnswersAreKept` | `Spec => []AnswerKept` |
| `SlotIsReturned` | `Spec => []SlotNotLeaked` |
| `SendsArePermitted` | `Spec => []SentWherePermitted` |
| `KeysStayWithTheirProvider` | `Spec => []KeyToItsProvider` |

* `ThreadInv`: a thread is finite, has an even length and the sequence numbers from 0 on, so that the
  maximum plus one, which `Allocate` reads, is its length; and `TurnsOK`: every attempt of a request that failed found
  another pair in its place, so that the thread has grown by two for each.  `AnswerKept` follows when the retries
  are used up.
* `SlotInv`: who holds the slot is on its way to the local model, hence will give it back.
* `EgressInv`: what a request carries at the moment of sending has been permitted *for the address it is
  pinned to*, and a key in a configuration was given for its provider unless two saves overlapped.

### `SnapshotFactsProofs`

For every set of offered facts, drives, edits and producers.  `FactsAssumption`: evidence records have the columns of
`EvidenceFacts` (their path is a sequence of strings), and a fact is derived from finitely many others.

| theorem | states |
|---|---|
| `FactsKept` | `Spec => []FactInv` |
| `FactTypes` | `Spec => []TypeOK` |
| `SealedIsSound` | `Spec => []SealedSound` |
| `PathsLeadToTheirFile` | `Spec => []PathsLead` |
| `HashesAreOfTheGiven` | `Spec => []HashOfGiven` |
| `SealedStays` | `Spec => SealedForGood` |

* `FactInv` keeps that a sealed snapshot is one that `Valid` accepted; `FactStep` shows that no step
  after the seal touches what `Valid` looked at.
* `ValidIsSound` is the hard part of `SealedSound`: the store searches for a cycle, the property asks for a rank of every derived
  fact.  `RankOneMore` extends a ranking of some facts by a fact outside of which nothing unranked is
  needed, which exists since the unranked ones are no cycle; `AcyclicRanks` takes a largest ranked subset.
* `PathsLead` compares `Resolved`, which goes through a path segment by segment, with `Leads`, which says at once
  where it ends.  `Depth(raw, i)`, the names less the `..` among the first `i` segments, is how far below the root the walk
  stands; it is never negative, the last one is the length of the result, and the `d`-th name of the result is the one
  at which the walk came down to depth `d` without rising above it again.  That is one name for each `d`, so `Leads` determines the
  result.  `RunFollows` carries, over a path of any length, the place in the given path of each kept name.
* `GivenInv`: while nothing was edited, the rows are those of the facts accepted (`RowsOfGiven`), computed
  without the store's order or merging.
* `RefsInv`: evidence, also the copy a rollback returns to, and derivations belong to facts of the snapshot.

The library's induction theorems take an operator as a parameter, which the provers cannot
instantiate.  `Least` (a nonempty set of naturals has a least element, from `NatLessThanWellFounded`) and
`UpTo` take their place: a property of `run[i]` for every `i` is proved for the least `i` at which it
fails.  That a recursive function equals its defining equation is first proved for some function (`RunExists`, again by a least
counterexample) and then follows for the one that `CHOOSE` picks.

The proof had two findings about the model, both corrected.  The arms of the `CASE` in `Canonical!Step` overlapped for `.`
after an empty path, and an overlapping `CASE` is any of its arms: TLC takes the first, the prover takes
none.  `TypeOK` did not relate the hash to the document.

### `AnalysisProofs`

The module extends `SnapshotFactsProofs`.  The theorems hold for every set of repositories, rules, names and builtins
that satisfies `FactsAssumption` and `RepositoriesAssumption`.

| theorem | states |
|---|---|
| `InputsAreAnswered` | `AnalysisSpec => []EveryInputAnswered` |
| `DeclarationsAreKept` | `AnalysisSpec => []DeclarationsKept` |
| `NothingIsGuessed` | `AnalysisSpec => []NeverGuesses` |

`RepositoriesAssumption` says of the files what the store of a source tree and a parser guarantee: a repository is a finite
sequence of files with distinct paths; a path is relative, normalised and leads nowhere but down; text and
statements are finite; no name is a file extension, and only a relative import may lack a module.  `InputsAreAnswered` uses none of it.

* `FilesPlain`: no extractor and no inventory diagnostic names an observation (`Plain`), whatever the file.
  What the two scans of a Python file have bound at a statement is a recursive function; what they report at it is defined beside it and
  not carried through it, so that no induction is needed.
* `ClaimsAreAnswered`: the outcome of an observation is either edges derived from it or a diagnostic about
  it (`Answers`), a case per resolver operator; that of a route may cite its one handler instead.
* `AnswersAreOwn`: no outcome of another observation cites it, except that of a second route observed at the
  same symbol, which is the same outcome.  It needs that the id of an observation determines the row (`Whole`), which is why
  `AnswerInv` keeps it.
* `AnswerInv` also keeps that nothing is derived before the resolver runs.  Classification adds derivations of
  assertions only, and the seal nothing.

* `StoreInv` relates what is stored to the files read so far: every observation, with its one row of evidence, is one that some file's
  extractor gives (`Recorded`), every node but the root is offered by a file (`Offered`), what waits for the merge is what the
  manifests and lockfiles among them offer, and after the merge the nodes of packages list what these say (`ListsAll`).
* `EntriesOffered` and `ListingsOffer` determine what the listings of one file offer; `FileOffers` shows that no other
  extractor offers a package.  `MergedMeans` is the merge: a merged node has exactly the records and the
  evidence of all nodes of its key, whichever stands first in the order of reading.  It needs a first member (`FirstOfMembers`, a least
  place, since `Before` orders a finite set) and that the sets listed are finite (`ListedSet`).
* `MembersSay` puts the two together: the members of a key, over all files read, say what `Said` says.
* `FileObserves`: an import or import binding recorded of a Python file is a statement of it (`Finds`), and the binding
  of every statement that brings a name into the module is recorded.  The five collectors of the Python extractor and the four of
  the TypeScript one are sequences joined to one another (`FlattenLists`, `WalkList`), of which only the members matter.
* `InputsStand`: an observation row and its evidence stand for one statement of one file that was read; so the file an
  import is resolved from is the one it stands in (`SourceFileOf`).
* `NamesMeanFiles`: a name leads from a directory to a file exactly when the file can be so named from there.
  `AbsoluteMeans` and `RelativeMeans` conclude that the paths the resolver tries are those `Meant` says; for relative imports the
  recursive walk up the directories is `UpFrom`, by the induction used for paths (`UpTo`).
* `ImportsLead`: an import with one candidate leads to the one file its statement can mean, or to a package.
  `EdgesMean`: all evidence of an edge between a file and a file is of such imports, and no package has the key of a file.
  `GuessInv` is `StoreInv` with `NothingGuessed`, which is `NeverGuesses` from the end of the resolver on.

The proofs found that the prover and TLC read `UNION S \cup T` differently (`UNION (S \cup T)` and
`(UNION S) \cup T`).  The two definitions concerned, `Built` and `Persist`, now have parentheses.

### Only model-checked

* Liveness under fairness (`EveryJobSettles`, `FailedFactsPurged`) is out of the prover's reach.
* `AnalysisSeals`, `CallsAreBound` and `ServiceCallsAreClients` of `Analysis`.  The last two compare scans of whole files,
  which carry a binding environment from statement to statement, with Python's scoping rules: each takes an
  invariant of that environment at every statement, by induction over the file and inside it over
  the scopes.  `AnalysisSeals` takes in addition that no two files offer one key with different columns, for every kind of node.

## Plan

What is left to prove is about `Analysis`: the scans of the Python extractor (`CallsAreBound`,
`ServiceCallsAreClients`), and that the facts it persists keep `FactInv`, so that its seal has `SealedSound` as well.

## Not modelled

* Parsing of text into syntax trees and decoded documents (libraries); Unicode normalisation.
* Queries, graph views, reports, documentation and the support matrix: read-only projections of a
  sealed snapshot and tables; the architecture and file analyses that read no stored state.
* HTTP routing, authorisation dependencies, response shaping, configuration and migrations.
* Files, Git and AI vendors: of the file system only the existence of a repository's
  directory is modelled.  A worker whose source directory is gone takes `StageError`.
* Stage names, progress and messages of a job, and timestamps other than the lease
  and the retry delay.
* SQLite lock errors, except the deferred heartbeat: an operation that gives up
  is a request that ends or a worker that takes `StageError` or `Crash`.
