---------------------------- MODULE AnalysisJobs ----------------------------
(***************************************************************************)
(* The durable analysis-job lifecycle of PARTHA: the analysis_jobs table,  *)
(* the snapshots the jobs build, the API requests that submit, poll and    *)
(* cancel jobs (services/analysis_job_service.py), the control plane's     *)
(* compare-and-swaps (workers/control_plane.py) and the workers that claim,*)
(* execute, retry and sweep jobs (workers/analysis_worker.py).             *)
(*                                                                         *)
(* One action is one database transaction (or one read outside of a        *)
(* transaction that is used later), because every other process can run    *)
(* between two of them.  Sessions are opened with expire_on_commit=False,  *)
(* so what a process loaded earlier stays in its memory: the copies that   *)
(* the code acts on later are kept in worker[w].row and client[c].row.     *)
(*                                                                         *)
(* A job's identity is (repository, revision, config hash).  A repository  *)
(* row's revision never changes and there is one configuration, so the     *)
(* identity is the repository.  Left out: stage names, progress, messages, *)
(* timestamps other than the lease and the retry delay, and the owner.     *)
(***************************************************************************)
EXTENDS Integers, FiniteSets

CONSTANTS
    Repos,          \* rows of the repositories table
    Workers,        \* worker ids, one AnalysisWorker thread each
    Clients,        \* concurrent API requests
    LeaseInstants,  \* values of lease_expires_at
    None,           \* SQL NULL
    MaxJobs,        \* bound: rows ever inserted into analysis_jobs
    MaxAttempts,    \* analysis_jobs.max_attempts
    MaxReleases     \* bound: deployed producer version sets

ASSUME MaxJobsAssumption == MaxJobs \in Nat \ {0}
ASSUME MaxAttemptsAssumption == MaxAttempts \in Nat \ {0}
ASSUME MaxReleasesAssumption == MaxReleases \in Nat \ {0}

\* NULL is no other value of a nullable column.
ASSUME NoneAssumption ==
    /\ None \notin Repos
    /\ None \notin Workers
    /\ None \notin LeaseInstants
    /\ None \notin (1..MaxJobs)
    /\ None \notin ((1..MaxJobs) \X (1..MaxAttempts))

\* Time does not repeat: there is always an instant that no sweeper remembers.
ASSUME LeaseInstantsAssumption ==
    \A f \in [Workers -> LeaseInstants \cup {None}] :
        \E t \in LeaseInstants : \A w \in Workers : f[w] # t

Jobs == 1..MaxJobs                      \* in created_at order
Attempts == 1..MaxAttempts
Snaps == Jobs \X Attempts               \* an attempt opens at most one snapshot
Releases == 1..MaxReleases
Facts == {"observed", "derived"}        \* extracted nodes; resolved edges

JobStatus == {"unused", "queued", "running", "completed", "failed",
              "cancelled", "deleted"}
Active == {"queued", "running"}
Effective == {"queued", "running", "completed"}
Terminal == {"completed", "failed", "cancelled", "deleted"}

VARIABLES
    jobs,       \* analysis_jobs, by creation order
    snaps,      \* ri_snapshots and the facts stored under each
    record,     \* repositories.status
    worker,     \* each worker's local state
    client,     \* each request's local state
    release     \* the producer version set of the running build

vars == <<jobs, snaps, record, worker, client, release>>

-----------------------------------------------------------------------------
(* Rows and local states                                                   *)

\* lapsed stands for lease_expires_at < now, backoff for next_attempt_at > now.
JobRow == [repo : Repos \cup {None}, status : JobStatus,
           attempt : 0..MaxAttempts, cancel : BOOLEAN,
           worker : Workers \cup {None}, lease : LeaseInstants \cup {None},
           lapsed : BOOLEAN, backoff : BOOLEAN, snap : Snaps \cup {None}]

NoRow == [repo |-> None, status |-> "unused", attempt |-> 0, cancel |-> FALSE,
          worker |-> None, lease |-> None, lapsed |-> FALSE, backoff |-> FALSE,
          snap |-> None]

Snapshot == [state : {"none", "building", "completed", "failed"},
             facts : SUBSET Facts, release : Releases \cup {0}]

NoSnapshot == [state |-> "none", facts |-> {}, release |-> 0]

RecordStatus == {"analysing", "completed", "cancelled", "error", "gone"}

\* pc is where the worker thread is; stage the stage of _execute_stages it is
\* at; hb the signals of its heartbeat; verdict why the attempt is being closed.
WorkerState ==
    [pc : {"idle", "claim", "gate", "pulse", "stage", "settle", "reclaim",
           "purge", "finish"},
     stage : {"none", "open", "extract", "seal", "checkpoint", "complete"},
     hb : {"ok", "cancel", "lost"},
     verdict : {"none", "cancel", "retry", "exceeded", "stale"},
     job : Jobs \cup {None}, snap : Snaps \cup {None},
     written : SUBSET Facts, row : JobRow]

IdleWorker == [pc |-> "idle", stage |-> "none", hb |-> "ok",
               verdict |-> "none", job |-> None, snap |-> None,
               written |-> {}, row |-> NoRow]

ClientState ==
    [pc : {"idle", "find", "active", "insert", "reread", "reconcile",
           "cancelQueued", "reloadQueued", "cancelRunning", "refuse",
           "reply"},
     op : {"none", "submit", "status", "cancel"},
     result : {"none", "ok", "conflict", "raised"}, status : JobStatus,
     repo : Repos \cup {None}, rec : RecordStatus,
     job : Jobs \cup {None}, snap : Snaps \cup {None}, row : JobRow]

IdleClient == [pc |-> "idle", op |-> "none", result |-> "none", repo |-> None,
               rec |-> "gone", job |-> None, snap |-> None, row |-> NoRow,
               status |-> "unused"]

TypeOK ==
    /\ jobs \in [Jobs -> JobRow]
    /\ snaps \in [Snaps -> Snapshot]
    /\ record \in [Repos -> RecordStatus]
    /\ worker \in [Workers -> WorkerState]
    /\ client \in [Clients -> ClientState]
    /\ release \in Releases

\* An import inserts the repository row as "analysing" before any job exists.
Init ==
    /\ jobs = [j \in Jobs |-> NoRow]
    /\ snaps = [s \in Snaps |-> NoSnapshot]
    /\ record = [r \in Repos |-> "analysing"]
    /\ worker = [w \in Workers |-> IdleWorker]
    /\ client = [c \in Clients |-> IdleClient]
    /\ release = 1

-----------------------------------------------------------------------------
(* Queries and row updates                                                 *)

JobsOf(r) == {j \in Jobs : jobs[j].repo = r}

\* Mutant: an index predicate that forgets completed jobs.
EffectiveForgetsCompleted(r) == {j \in JobsOf(r) : jobs[j].status \in Active}

EffectiveJobs(r) == {j \in JobsOf(r) : jobs[j].status \in Effective}

ActiveJobs(r) == {j \in JobsOf(r) : jobs[j].status \in Active}

\* Mutant: a lookup that also takes a building snapshot for a result.
SealedTakesBuilding(r) == {s \in Snaps : /\ snaps[s].state \in {"building", "completed"}
                                         /\ snaps[s].release = release
                                         /\ jobs[s[1]].repo = r}

\* The completed snapshots of the repository under the deployed producer set.
Sealed(r) == {s \in Snaps : /\ snaps[s].state = "completed"
                            /\ snaps[s].release = release
                            /\ jobs[s[1]].repo = r}

\* The queue's eligibility predicate.
Eligible == {j \in Jobs : jobs[j].status = "queued" /\ ~jobs[j].backoff}

\* The ownership guard of update_owned and renew.
Owns(w, j) == jobs[j].status = "running" /\ jobs[j].worker = w

\* Mutant: the guarded lock without its cancel condition.
LockIgnoresCancel(w, j) == Owns(w, j)

\* update_owned with require_cancel_not_requested.
OwnsUncancelled(w, j) == Owns(w, j) /\ ~jobs[j].cancel

SnapState(s) == IF s = None THEN "none" ELSE snaps[s].state

\* A lease instant that no sweeper has loaded: only equality is ever tested.
FreshInstant == CHOOSE t \in LeaseInstants :
                    \A w \in Workers : worker[w].row.lease # t

Renewed(row) == [row EXCEPT !.lease = FreshInstant, !.lapsed = FALSE]

\* Mutant: the lease columns are not reset.
ReleasedKeepsLease(row, status) ==
    [row EXCEPT !.status = status, !.worker = None, !.backoff = FALSE]

Released(row, status) ==
    [row EXCEPT !.status = status, !.worker = None, !.lease = None,
                !.lapsed = FALSE, !.backoff = FALSE]

CompletedRow(row) == [Released(row, "completed") EXCEPT !.cancel = FALSE]

RequeuedRow(row) == [Released(row, "queued") EXCEPT !.backoff = TRUE]

-----------------------------------------------------------------------------
(* Submit, status and cancel requests                                      *)

\* The request ends; the answer carries the status of the job it is about.
Answer(c, result, status) ==
    client' = [client EXCEPT ![c] =
        [IdleClient EXCEPT !.pc = "reply", !.result = result,
                           !.status = status, !.op = client[c].op,
                           !.repo = client[c].repo]]

\* submit and status load the repository row first.
RequestStart(c, r, op) ==
    /\ client[c].pc = "idle"
    /\ record[r] # "gone"
    /\ op \in {"submit", "status"}
    /\ client' = [client EXCEPT ![c].pc = "find", ![c].op = op, ![c].repo = r,
                                ![c].rec = record[r]]
    /\ UNCHANGED <<jobs, snaps, record, worker, release>>

\* A sealed snapshot of the identity short-circuits; status otherwise answers
\* with the latest job.
RequestFind(c) ==
    /\ client[c].pc = "find"
    /\ \/ \E s \in Sealed(client[c].repo), j \in Jobs :
            /\ jobs[j].snap = s
            /\ client' = [client EXCEPT ![c].pc = "reconcile", ![c].job = j,
                                        ![c].snap = s, ![c].row = jobs[j]]
       \/ /\ Sealed(client[c].repo) = {}
          /\ client[c].op = "submit"
          /\ client' = [client EXCEPT ![c].pc = "active"]
       \/ /\ Sealed(client[c].repo) = {}
          /\ client[c].op = "status"
          /\ Answer(c, "ok", "unused")
    /\ UNCHANGED <<jobs, snaps, record, worker, release>>

\* An active job of the identity is returned unchanged.
SubmitActive(c) ==
    /\ client[c].pc = "active"
    /\ \/ \E j \in ActiveJobs(client[c].repo) : Answer(c, "ok", jobs[j].status)
       \/ /\ ActiveJobs(client[c].repo) = {}
          /\ client' = [client EXCEPT ![c].pc = "insert"]
    /\ UNCHANGED <<jobs, snaps, record, worker, release>>

QueuedRow(r) == [NoRow EXCEPT !.repo = r, !.status = "queued"]

\* The next id of a new row: rows are numbered in created_at order.
NextJob(j) == /\ jobs[j].status = "unused"
              /\ \A k \in Jobs : k < j => jobs[k].status # "unused"

\* The ORM writes a column only when it differs from the loaded value.
Flushed(current, loaded, target) == IF target = loaded THEN current ELSE target

\* Insert and record update commit together; the effective-identity index
\* lets the insert through only when the identity has no effective job.
SubmitInsert(c) ==
    LET r == client[c].repo IN
    /\ client[c].pc = "insert"
    /\ record[r] # "gone"
    /\ EffectiveJobs(r) = {}
    /\ \E j \in Jobs :
         /\ NextJob(j)
         /\ jobs' = [jobs EXCEPT ![j] = QueuedRow(r)]
    /\ record' = [record EXCEPT ![r] =
                     Flushed(record[r], client[c].rec, "analysing")]
    /\ Answer(c, "ok", "queued")
    /\ UNCHANGED <<snaps, worker, release>>

\* The index refuses the insert, or the repository is gone (foreign key):
\* the session rolls back.
SubmitConflict(c) ==
    LET r == client[c].repo IN
    /\ client[c].pc = "insert"
    /\ record[r] = "gone" \/ EffectiveJobs(r) # {}
    /\ client' = [client EXCEPT ![c].pc = "reread"]
    /\ UNCHANGED <<jobs, snaps, record, worker, release>>

\* The read after the rollback also reloads the repository row.
SubmitReread(c) ==
    LET r == client[c].repo IN
    /\ client[c].pc = "reread"
    /\ \/ /\ EffectiveJobs(r) = {}
          /\ Answer(c, "raised", "unused")
       \/ \E j \in EffectiveJobs(r) :
            /\ Sealed(r) = {}
            /\ Answer(c, "ok", jobs[j].status)
       \/ \E j \in EffectiveJobs(r), s \in Sealed(r) :
            client' = [client EXCEPT ![c].pc = "reconcile", ![c].job = j,
                                     ![c].snap = s, ![c].row = jobs[j],
                                     ![c].rec = record[r]]
    /\ UNCHANGED <<jobs, snaps, record, worker, release>>

\* The row that _reconcile_completed_job flushes: no guard, only the columns
\* that differ from the loaded copy.
ReconciledRow(row, old, s) ==
    [row EXCEPT !.status = Flushed(row.status, old.status, "completed"),
                !.snap = Flushed(row.snap, old.snap, s),
                !.cancel = Flushed(row.cancel, old.cancel, FALSE),
                !.worker = Flushed(row.worker, old.worker, None),
                !.lease = Flushed(row.lease, old.lease, None),
                !.lapsed = row.lapsed /\ old.lease = None,
                !.backoff = Flushed(row.backoff, old.backoff, FALSE)]

\* Both loaded copies say completed already: the early return.
AlreadyCompleted(c) ==
    /\ client[c].row = [CompletedRow(client[c].row) EXCEPT !.snap = client[c].snap]
    /\ client[c].rec = "completed"

\* A flush of a deleted row, or one the effective-identity index refuses,
\* raises; otherwise job and repository row are completed together.
Reconcile(c) ==
    LET r == client[c].repo
        j == client[c].job
        new == ReconciledRow(jobs[j], client[c].row, client[c].snap)
    IN
    /\ client[c].pc = "reconcile"
    /\ \/ /\ AlreadyCompleted(c)
          /\ Answer(c, "ok", "completed")
          /\ UNCHANGED <<jobs, record>>
       \/ /\ ~AlreadyCompleted(c)
          /\ jobs[j].status # "deleted"
          /\ EffectiveJobs(r) \subseteq {j}
          /\ jobs' = [jobs EXCEPT ![j] = new]
          /\ record' = [record EXCEPT ![r] =
                           Flushed(record[r], client[c].rec, "completed")]
          /\ Answer(c, "ok", new.status)
       \/ /\ ~AlreadyCompleted(c)
          /\ jobs[j].status = "deleted" \/ ~(EffectiveJobs(r) \subseteq {j})
          /\ Answer(c, "raised", "unused")
          /\ UNCHANGED <<jobs, record>>
    /\ UNCHANGED <<snaps, worker, release>>

\* cancel loads the latest job and branches on the status it saw: a queued and
\* a running job have a guarded update to try, any other is refused.
CancelStart(c, r) ==
    /\ client[c].pc = "idle"
    /\ record[r] # "gone"
    /\ \/ \E j \in JobsOf(r) :
            /\ \A k \in JobsOf(r) : k <= j
            /\ client' = [client EXCEPT ![c] =
                 [IdleClient EXCEPT !.op = "cancel", !.repo = r, !.job = j,
                      !.pc = CASE jobs[j].status = "queued" -> "cancelQueued"
                               [] jobs[j].status = "running" -> "cancelRunning"
                               [] OTHER -> "refuse"]]
       \/ /\ JobsOf(r) = {}
          /\ client' = [client EXCEPT ![c] =
                 [IdleClient EXCEPT !.pc = "reply", !.op = "cancel",
                                    !.repo = r, !.result = "conflict"]]
    /\ UNCHANGED <<jobs, snaps, record, worker, release>>

WithdrawnRow(row) == [Released(row, "cancelled") EXCEPT !.cancel = FALSE]

CancelQueued(c) ==
    LET j == client[c].job IN
    /\ client[c].pc = "cancelQueued"
    /\ \/ /\ jobs[j].status = "queued"
          /\ jobs' = [jobs EXCEPT ![j] = WithdrawnRow(jobs[j])]
          /\ record' = [record EXCEPT ![client[c].repo] = "cancelled"]
          /\ Answer(c, "ok", "cancelled")
       \/ /\ jobs[j].status # "queued"
          /\ client' = [client EXCEPT ![c].pc = "reloadQueued"]
          /\ UNCHANGED <<jobs, record>>
    /\ UNCHANGED <<snaps, worker, release>>

\* The guarded update missed: re-read, and ask a running owner instead.
CancelReloadQueued(c) ==
    LET j == client[c].job IN
    /\ client[c].pc = "reloadQueued"
    /\ \/ /\ jobs[j].status = "running"
          /\ client' = [client EXCEPT ![c].pc = "cancelRunning"]
       \/ /\ jobs[j].status # "running"
          /\ Answer(c, "conflict", jobs[j].status)
    /\ UNCHANGED <<jobs, snaps, record, worker, release>>

CancelRunning(c) ==
    LET j == client[c].job IN
    /\ client[c].pc = "cancelRunning"
    /\ \/ /\ jobs[j].status = "running"
          /\ jobs' = [jobs EXCEPT ![j].cancel = TRUE]
          /\ Answer(c, "ok", "running")
       \/ /\ jobs[j].status # "running"
          /\ client' = [client EXCEPT ![c].pc = "refuse"]
          /\ UNCHANGED jobs
    /\ UNCHANGED <<snaps, record, worker, release>>

\* A terminal row at the first read, or any row at the second, is refused.
CancelRefuse(c) ==
    /\ client[c].pc = "refuse"
    /\ Answer(c, "conflict", jobs[client[c].job].status)
    /\ UNCHANGED <<jobs, snaps, record, worker, release>>

Reply(c) ==
    /\ client[c].pc = "reply"
    /\ client' = [client EXCEPT ![c] = IdleClient]
    /\ UNCHANGED <<jobs, snaps, record, worker, release>>

\* Deleting a repository cascades to its jobs, snapshots and facts.
DeleteRepository(r) ==
    /\ record[r] # "gone"
    /\ record' = [record EXCEPT ![r] = "gone"]
    /\ jobs' = [j \in Jobs |-> IF jobs[j].repo = r
                               THEN [NoRow EXCEPT !.status = "deleted"]
                               ELSE jobs[j]]
    /\ snaps' = [s \in Snaps |-> IF jobs[s[1]].repo = r
                                 THEN NoSnapshot ELSE snaps[s]]
    /\ UNCHANGED <<worker, client, release>>

-----------------------------------------------------------------------------
(* Claiming and the heartbeat                                              *)

Goto(w, pc) == worker' = [worker EXCEPT ![w].pc = pc]

Abandon(w) == worker' = [worker EXCEPT ![w] = IdleWorker]

\* Leave the stages to close the attempt: cancel it, retry it or fail it.
Close(w, verdict) ==
    worker' = [worker EXCEPT ![w] = [IdleWorker EXCEPT !.pc = "settle",
                               !.verdict = verdict, !.job = worker[w].job]]

\* claim first reads the oldest eligible job, which it does not own yet ...
ClaimRead(w) ==
    /\ worker[w].pc = "idle"
    /\ \E j \in Eligible :
         /\ \A k \in Eligible : j <= k
         /\ worker' = [worker EXCEPT ![w].pc = "claim", ![w].job = j]
    /\ UNCHANGED <<jobs, snaps, record, client, release>>

\* The predicate of claim's UPDATE.
Claimable(j) == jobs[j].status = "queued"

\* ... and then swaps the row to running, if it is still queued.
Claim(w) ==
    LET j == worker[w].job IN
    /\ worker[w].pc = "claim"
    /\ \/ /\ Claimable(j)
          /\ jobs' = [jobs EXCEPT ![j] =
                        [Renewed(jobs[j]) EXCEPT !.status = "running",
                             !.worker = w, !.attempt = @ + 1, !.backoff = FALSE]]
          /\ worker' = [worker EXCEPT ![w].pc = "gate", ![w].stage = "open"]
       \/ /\ ~Claimable(j)
          /\ Abandon(w)
          /\ UNCHANGED jobs
    /\ UNCHANGED <<snaps, record, client, release>>

\* The cooperative cancel check before each stage and before completion.
Gate(w) ==
    /\ worker[w].pc = "gate"
    /\ \/ /\ jobs[worker[w].job].cancel
          /\ Close(w, "cancel")
       \/ /\ ~jobs[worker[w].job].cancel
          /\ Goto(w, IF worker[w].stage = "complete" THEN "stage" ELSE "pulse")
    /\ UNCHANGED <<jobs, snaps, record, client, release>>

\* Entering a stage renews the lease once and checks the outcome.
FirstPulse(w) ==
    LET j == worker[w].job IN
    /\ worker[w].pc = "pulse"
    /\ \/ /\ Owns(w, j)
          /\ jobs' = [jobs EXCEPT ![j] = Renewed(jobs[j])]
          /\ IF jobs[j].cancel THEN Close(w, "cancel") ELSE Goto(w, "stage")
       \/ /\ ~Owns(w, j)
          /\ Abandon(w)
          /\ UNCHANGED jobs
    /\ UNCHANGED <<snaps, record, client, release>>

\* A pulse that SQLite's write lock deferred leaves every signal clear.
FirstPulseDeferred(w) ==
    /\ worker[w].pc = "pulse"
    /\ Goto(w, "stage")
    /\ UNCHANGED <<jobs, snaps, record, client, release>>

\* The stages that run inside the heartbeat context.
Beating(w) == /\ worker[w].pc = "stage"
              /\ worker[w].stage # "complete"

\* The heartbeat thread pulses until it has raised a signal.
Heartbeat(w) ==
    LET j == worker[w].job IN
    /\ Beating(w)
    /\ worker[w].hb = "ok"
    /\ \/ /\ Owns(w, j)
          /\ jobs' = [jobs EXCEPT ![j] = Renewed(jobs[j])]
          /\ worker' = [worker EXCEPT ![w].hb =
                           IF jobs[j].cancel THEN "cancel" ELSE "ok"]
       \/ /\ ~Owns(w, j)
          /\ worker' = [worker EXCEPT ![w].hb = "lost"]
          /\ UNCHANGED jobs
    /\ UNCHANGED <<snaps, record, client, release>>

\* _check_heartbeat raises what the heartbeat signalled.
HeartbeatRaises(w) ==
    /\ Beating(w)
    /\ \/ worker[w].hb = "lost" /\ Abandon(w)
       \/ worker[w].hb = "cancel" /\ Close(w, "cancel")
    /\ UNCHANGED <<jobs, snaps, record, client, release>>

-----------------------------------------------------------------------------
(* The stages                                                              *)

InStage(w, stage) == /\ worker[w].pc = "stage"
                     /\ worker[w].stage = stage
                     /\ worker[w].hb = "ok"

NextStage(w, stage) == [worker[w] EXCEPT !.pc = "gate", !.stage = stage]

\* get_or_reuse: the sealed snapshot of the identity, else a new building one.
Opened(w, j) == IF Sealed(jobs[j].repo) = {}
                THEN <<j, jobs[j].attempt>>
                ELSE CHOOSE s \in Sealed(jobs[j].repo) : TRUE

\* The snapshot row, job.snapshot_id and the checkpoint commit together.  A
\* reused snapshot makes the next two stages no-ops.
OpenSnapshot(w) ==
    LET j == worker[w].job
        s == Opened(w, j)
    IN
    /\ InStage(w, "open")
    /\ \/ /\ Owns(w, j)
          /\ jobs' = [jobs EXCEPT ![j] = [Renewed(jobs[j]) EXCEPT !.snap = s]]
          /\ snaps' = IF Sealed(jobs[j].repo) = {}
                      THEN [snaps EXCEPT ![s] = [state |-> "building",
                                  facts |-> {}, release |-> release]]
                      ELSE snaps
          /\ record' = [record EXCEPT ![jobs[j].repo] = "analysing"]
          /\ worker' = [worker EXCEPT ![w] =
               [NextStage(w, IF Sealed(jobs[j].repo) = {} THEN "extract"
                             ELSE "complete") EXCEPT !.snap = s, !.written = {}]]
       \/ /\ ~Owns(w, j)
          /\ Abandon(w)
          /\ UNCHANGED <<jobs, snaps, record>>
    /\ UNCHANGED <<client, release>>

NextFacts(w) == IF worker[w].written = {} THEN {"observed"}
                ELSE Facts \ worker[w].written

\* Foreign keys: facts need their snapshot row, derived facts their nodes.
Storable(s, b) == /\ snaps[s].state \in {"building", "failed"}
                  /\ "derived" \in b => "observed" \in snaps[s].facts

\* _release_write_lock: the open transaction commits in the middle of the
\* stage, with no ownership guard, and the cancel flag is read afterwards.
ReleaseFacts(w) ==
    LET j == worker[w].job
        s == worker[w].snap
        b == NextFacts(w)
    IN
    /\ InStage(w, "extract")
    /\ b # {}
    /\ \/ /\ Storable(s, b)
          /\ snaps' = [snaps EXCEPT ![s].facts = @ \cup b]
          /\ IF jobs[j].cancel
             THEN Close(w, "cancel")
             ELSE worker' = [worker EXCEPT ![w].written = @ \cup b]
       \/ /\ ~Storable(s, b)
          /\ Close(w, "retry")
          /\ UNCHANGED snaps
    /\ UNCHANGED <<jobs, record, client, release>>

\* The remaining facts commit with the guarded checkpoint, or not at all.
FinishExtract(w) ==
    LET j == worker[w].job
        s == worker[w].snap
    IN
    /\ InStage(w, "extract")
    /\ \/ /\ Owns(w, j)
          /\ jobs' = [jobs EXCEPT ![j] = Renewed(jobs[j])]
          /\ snaps' = [snaps EXCEPT ![s].facts = @ \cup (Facts \ worker[w].written)]
          /\ worker' = [worker EXCEPT ![w] = NextStage(w, "seal")]
       \/ /\ ~Owns(w, j)
          /\ Abandon(w)
          /\ UNCHANGED <<jobs, snaps>>
    /\ UNCHANGED <<record, client, release>>

\* uq_ri_snapshots_completed_identity
SealConflicts(s) ==
    \E t \in Snaps \ {s} : /\ snaps[t].state = "completed"
                           /\ snaps[t].release = snaps[s].release
                           /\ jobs[t[1]].repo = jobs[s[1]].repo

\* Mutant: the seal without the guarded row lock.
SealUnguarded(w) ==
    LET s == worker[w].snap IN
    /\ InStage(w, "seal")
    /\ ~SealConflicts(s)
    /\ snaps' = [snaps EXCEPT ![s].state = "completed"]
    /\ worker' = [worker EXCEPT ![w].stage = "checkpoint"]
    /\ UNCHANGED <<jobs, record, client, release>>

\* The guarded row lock and the seal are one transaction.
Seal(w) ==
    LET j == worker[w].job
        s == worker[w].snap
    IN
    /\ InStage(w, "seal")
    /\ OwnsUncancelled(w, j)
    /\ IF SealConflicts(s)
       THEN Close(w, "retry") /\ UNCHANGED snaps
       ELSE /\ snaps' = [snaps EXCEPT ![s].state = "completed"]
            /\ worker' = [worker EXCEPT ![w].stage = "checkpoint"]
    /\ UNCHANGED <<jobs, record, client, release>>

\* Validation refuses the build: it is failed, with its facts kept for now.
SealRejected(w) ==
    LET s == worker[w].snap IN
    /\ InStage(w, "seal")
    /\ OwnsUncancelled(w, worker[w].job)
    /\ snaps' = [snaps EXCEPT ![s].state = "failed"]
    /\ Close(w, "retry")
    /\ UNCHANGED <<jobs, record, client, release>>

\* The guard missed: cancellation was accepted, or the job was reclaimed.
SealRefused(w) ==
    LET j == worker[w].job IN
    /\ InStage(w, "seal")
    /\ ~OwnsUncancelled(w, j)
    /\ IF Owns(w, j) THEN Close(w, "cancel") ELSE Abandon(w)
    /\ UNCHANGED <<jobs, snaps, record, client, release>>

SealCheckpoint(w) ==
    LET j == worker[w].job IN
    /\ InStage(w, "checkpoint")
    /\ \/ /\ Owns(w, j)
          /\ jobs' = [jobs EXCEPT ![j] = Renewed(jobs[j])]
          /\ worker' = [worker EXCEPT ![w] = NextStage(w, "complete")]
       \/ /\ ~Owns(w, j)
          /\ Abandon(w)
          /\ UNCHANGED jobs
    /\ UNCHANGED <<snaps, record, client, release>>

\* The job and its repository row complete together, unless a cancel was
\* accepted after the last gate.
Complete(w) ==
    LET j == worker[w].job IN
    /\ InStage(w, "complete")
    /\ \/ /\ OwnsUncancelled(w, j)
          /\ jobs' = [jobs EXCEPT ![j] = CompletedRow(jobs[j])]
          /\ record' = [record EXCEPT ![jobs[j].repo] = "completed"]
          /\ Abandon(w)
       \/ /\ ~OwnsUncancelled(w, j)
          /\ IF Owns(w, j) THEN Close(w, "cancel") ELSE Abandon(w)
          /\ UNCHANGED <<jobs, record>>
    /\ UNCHANGED <<snaps, client, release>>

\* Any exception of a stage goes to _retry_or_fail, except a breach of the
\* resource budget, which exists from the open stage on.
StageError(w) ==
    /\ worker[w].pc \in {"gate", "pulse", "stage"}
    /\ Close(w, "retry")
    /\ UNCHANGED <<jobs, snaps, record, client, release>>

ResourceExceeded(w) ==
    /\ Beating(w)
    /\ Close(w, "exceeded")
    /\ UNCHANGED <<jobs, snaps, record, client, release>>

-----------------------------------------------------------------------------
(* Closing an attempt                                                      *)

Outcome(attempt, verdict) ==
    CASE verdict = "cancel" -> "cancelled"
      [] verdict = "exceeded" -> "failed"
      [] OTHER -> IF attempt >= MaxAttempts THEN "failed" ELSE "queued"

ConcludedRow(row, status) == IF status = "queued" THEN RequeuedRow(row)
                             ELSE Released(row, status)

\* Mutant: a failure does not reach the repository row.
RecordForgetsFailure(old, status, verdict) ==
    IF status = "cancelled" THEN "cancelled" ELSE old

\* A retry of the worker's own leaves the repository row alone; a sweep's
\* requeue writes it.
ConcludedRecord(old, status, verdict) ==
    CASE status = "cancelled" -> "cancelled"
      [] status = "failed" -> "error"
      [] OTHER -> IF verdict = "stale" THEN "analysing" ELSE old

\* The guarded terminal (or requeueing) update and the repository row.
Conclude(w, j, row, attempt, verdict) ==
    LET status == Outcome(attempt, verdict)
        r == jobs[j].repo
    IN
    /\ jobs' = [jobs EXCEPT ![j] = ConcludedRow(row, status)]
    /\ record' = [record EXCEPT ![r] =
                     ConcludedRecord(record[r], status, verdict)]
    /\ Abandon(w)

\* Mutants: a sealed snapshot is not looked for; an open one is not failed; a
\* sealed one is failed too.
ResolveIgnoresSeal(w, j, row, seen, verdict) ==
    \/ /\ SnapState(seen.snap) = "building"
       /\ jobs' = [jobs EXCEPT ![j] = row]
       /\ snaps' = [snaps EXCEPT ![seen.snap].state = "failed"]
       /\ worker' = [worker EXCEPT ![w] =
            [IdleWorker EXCEPT !.pc = "purge", !.verdict = verdict,
                               !.job = j, !.snap = seen.snap]]
       /\ UNCHANGED record
    \/ /\ SnapState(seen.snap) # "building"
       /\ Conclude(w, j, row, seen.attempt, verdict)
       /\ UNCHANGED snaps

ResolveLeavesBuild(w, j, row, seen, verdict) ==
    /\ Conclude(w, j, row, seen.attempt, verdict)
    /\ UNCHANGED snaps

ResolveFailsSealed(w, j, row, seen, verdict) ==
    /\ snaps' = IF SnapState(seen.snap) \in {"building", "completed"}
                THEN [snaps EXCEPT ![seen.snap].state = "failed"] ELSE snaps
    /\ Conclude(w, j, row, seen.attempt, verdict)

\* What _cancel, _retry_or_fail, _fail_resource_exceeded and _reconcile_stale
\* share once the row is theirs.  row is the database row to write, seen the
\* copy of it that the decision is taken on.
Resolve(w, j, row, seen, verdict) ==
    \/ /\ SnapState(seen.snap) = "completed"
       /\ jobs' = [jobs EXCEPT ![j] = CompletedRow(row)]
       /\ record' = [record EXCEPT ![jobs[j].repo] = "completed"]
       /\ Abandon(w)
       /\ UNCHANGED snaps
    \/ /\ SnapState(seen.snap) = "building"       \* mark_failed commits here
       /\ jobs' = [jobs EXCEPT ![j] = row]
       /\ snaps' = [snaps EXCEPT ![seen.snap].state = "failed"]
       /\ worker' = [worker EXCEPT ![w] =
            [IdleWorker EXCEPT !.pc = "purge", !.verdict = verdict,
                               !.job = j, !.snap = seen.snap]]
       /\ UNCHANGED record
    \/ /\ SnapState(seen.snap) \in {"none", "failed"}
       /\ Conclude(w, j, row, seen.attempt, verdict)
       /\ UNCHANGED snaps

\* The worker's own attempt: lock the owned row, let an accepted cancel win
\* over a retry or a failure, and resolve.
Settle(w) ==
    LET j == worker[w].job
        verdict == worker[w].verdict
    IN
    /\ worker[w].pc = "settle"
    /\ \/ /\ ~Owns(w, j)
          /\ Abandon(w)
          /\ UNCHANGED <<jobs, snaps, record>>
       \/ /\ Owns(w, j)
          /\ verdict # "cancel" /\ jobs[j].cancel
          /\ Close(w, "cancel")
          /\ UNCHANGED <<jobs, snaps, record>>
       \/ /\ Owns(w, j)
          /\ verdict = "cancel" \/ ~jobs[j].cancel
          /\ Resolve(w, j, jobs[j], jobs[j], verdict)
    /\ UNCHANGED <<client, release>>

\* purge_snapshot_facts deletes the facts of a failed snapshot only.
Purged(snap) == IF snap.state = "failed" THEN [snap EXCEPT !.facts = {}] ELSE snap

\* mark_failed purges the facts in a second transaction.
Purge(w) ==
    LET s == worker[w].snap IN
    /\ worker[w].pc = "purge"
    /\ snaps' = [snaps EXCEPT ![s] = Purged(snaps[s])]
    /\ Goto(w, "finish")
    /\ UNCHANGED <<jobs, record, client, release>>

Finish(w) ==
    LET j == worker[w].job IN
    /\ worker[w].pc = "finish"
    /\ \/ /\ Owns(w, j)
          /\ Conclude(w, j, jobs[j], jobs[j].attempt, worker[w].verdict)
       \/ /\ ~Owns(w, j)
          /\ Abandon(w)
          /\ UNCHANGED <<jobs, record>>
    /\ UNCHANGED <<snaps, client, release>>

-----------------------------------------------------------------------------
(* The stale sweep                                                         *)

\* Mutant: the sweep passes over rows whose cancellation was requested.
SweepSkipsCancelled(w) ==
    /\ worker[w].pc = "idle"
    /\ \E j \in Jobs :
         /\ jobs[j].status = "running"
         /\ jobs[j].lapsed /\ ~jobs[j].cancel
         /\ worker' = [worker EXCEPT ![w].pc = "reclaim", ![w].job = j,
                                     ![w].row = jobs[j]]
    /\ UNCHANGED <<jobs, snaps, record, client, release>>

\* The sweep loads a running row whose lease has lapsed ...
SweepLoad(w) ==
    /\ worker[w].pc = "idle"
    /\ \E j \in Jobs :
         /\ jobs[j].status = "running"
         /\ jobs[j].lapsed
         /\ worker' = [worker EXCEPT ![w].pc = "reclaim", ![w].job = j,
                                     ![w].row = jobs[j]]
    /\ UNCHANGED <<jobs, snaps, record, client, release>>

\* Mutant: the compare-and-swap without the lease instant.
ReclaimableAnyLease(j, seen) == /\ jobs[j].status = "running"
                                /\ jobs[j].worker = seen.worker
                                /\ jobs[j].lapsed

\* reclaim's guard: the exact owner and lease instant that were loaded.
Reclaimable(j, seen) == /\ jobs[j].status = "running"
                        /\ jobs[j].worker = seen.worker
                        /\ jobs[j].lease = seen.lease
                        /\ jobs[j].lapsed

\* ... and reconciles it in the transaction that wins the compare-and-swap.
Reclaim(w) ==
    LET j == worker[w].job
        seen == worker[w].row
    IN
    /\ worker[w].pc = "reclaim"
    /\ \/ /\ Reclaimable(j, seen)
          /\ Resolve(w, j, [Renewed(jobs[j]) EXCEPT !.worker = w], seen,
                     IF seen.cancel THEN "cancel" ELSE "stale")
       \/ /\ ~Reclaimable(j, seen)
          /\ Abandon(w)
          /\ UNCHANGED <<jobs, snaps, record>>
    /\ UNCHANGED <<client, release>>

\* Mutant: only snapshots that still hold derived facts are found.
SweepPurgesDerivedOnly(w) ==
    /\ worker[w].pc = "idle"
    /\ \E s \in Snaps :
         /\ snaps[s].state = "failed" /\ "derived" \in snaps[s].facts
         /\ snaps' = [snaps EXCEPT ![s] = Purged(snaps[s])]
    /\ UNCHANGED <<jobs, record, worker, client, release>>

\* Facts that a failed snapshot still holds are worked off by the sweeps.
SweepPurge(w) ==
    /\ worker[w].pc = "idle"
    /\ \E s \in Snaps :
         /\ snaps[s].state = "failed" /\ "observed" \in snaps[s].facts
         /\ snaps' = [snaps EXCEPT ![s] = Purged(snaps[s])]
    /\ UNCHANGED <<jobs, record, worker, client, release>>

-----------------------------------------------------------------------------
(* Time, crashes and deployments                                           *)

LeaseLapse(j) ==
    /\ jobs[j].lease # None
    /\ ~jobs[j].lapsed
    /\ jobs' = [jobs EXCEPT ![j].lapsed = TRUE]
    /\ UNCHANGED <<snaps, record, worker, client, release>>

BackoffElapse(j) ==
    /\ jobs[j].backoff
    /\ jobs' = [jobs EXCEPT ![j].backoff = FALSE]
    /\ UNCHANGED <<snaps, record, worker, client, release>>

\* The process dies, or an exception escapes the iteration and the session is
\* closed: the open transaction is lost and the lease is left behind.
Crash(w) ==
    /\ worker[w].pc # "idle"
    /\ Abandon(w)
    /\ UNCHANGED <<jobs, snaps, record, client, release>>

\* A new build with another producer version set restarts every process.
Deploy ==
    /\ release < MaxReleases
    /\ release' = release + 1
    /\ worker' = [w \in Workers |-> IdleWorker]
    /\ client' = [c \in Clients |-> IdleClient]
    /\ UNCHANGED <<jobs, snaps, record>>

-----------------------------------------------------------------------------
(* The specification                                                       *)

Request(c) ==
    \/ \E r \in Repos, op \in {"submit", "status"} : RequestStart(c, r, op)
    \/ RequestFind(c) \/ SubmitActive(c) \/ SubmitInsert(c)
    \/ SubmitConflict(c) \/ SubmitReread(c) \/ Reconcile(c)
    \/ \E r \in Repos : CancelStart(c, r)
    \/ CancelQueued(c) \/ CancelReloadQueued(c)
    \/ CancelRunning(c) \/ CancelRefuse(c)
    \/ Reply(c)

\* The steps a busy worker thread takes of its own accord.
Work(w) ==
    \/ Claim(w) \/ Gate(w) \/ FirstPulse(w) \/ FirstPulseDeferred(w)
    \/ HeartbeatRaises(w) \/ OpenSnapshot(w) \/ ReleaseFacts(w)
    \/ FinishExtract(w) \/ Seal(w) \/ SealRejected(w) \/ SealRefused(w)
    \/ SealCheckpoint(w) \/ Complete(w) \/ StageError(w) \/ ResourceExceeded(w)
    \/ Settle(w) \/ Purge(w) \/ Finish(w) \/ Reclaim(w)

Poll(w) == ClaimRead(w) \/ SweepLoad(w) \/ SweepPurge(w)

Next ==
    \/ \E c \in Clients : Request(c)
    \/ \E r \in Repos : DeleteRepository(r)
    \/ \E w \in Workers : Work(w) \/ Poll(w) \/ Heartbeat(w) \/ Crash(w)
    \/ \E j \in Jobs : LeaseLapse(j) \/ BackoffElapse(j)
    \/ Deploy

Spec == Init /\ [][Next]_vars

\* Some worker's heartbeat renews the lease of j.
Attended(j) == \E w \in Workers : /\ Beating(w)
                                  /\ worker[w].job = j
                                  /\ worker[w].hb = "ok"
                                  /\ Owns(w, j)

\* A thread that is running keeps running; the runner's loop polls the queue
\* and sweeps again and again; time passes for delays and for leases that
\* nobody renews.  Nothing is assumed of requests, deletions and crashes.
Fairness ==
    /\ \A w \in Workers : /\ WF_vars(Work(w))
                          /\ SF_vars(ClaimRead(w))
                          /\ SF_vars(SweepLoad(w))
                          /\ SF_vars(SweepPurge(w))
    /\ \A j \in Jobs : /\ WF_vars(LeaseLapse(j) /\ ~Attended(j))
                       /\ WF_vars(BackoffElapse(j))

FairSpec == Spec /\ Fairness

-----------------------------------------------------------------------------
(* Safety                                                                  *)

\* A sealed snapshot belongs to a job that is running or completed and points
\* at it: no race of seal, cancel, retry and sweep leaves a sealed graph
\* behind a cancelled, failed or requeued job.
SealedIsEffective ==
    \A s \in Snaps : snaps[s].state = "completed" =>
        /\ jobs[s[1]].status \in {"running", "completed"}
        /\ jobs[s[1]].snap = s

\* A completed job points at a sealed snapshot.
CompletedIsSealed ==
    \A j \in Jobs : jobs[j].status = "completed" =>
        SnapState(jobs[j].snap) = "completed"

\* A building snapshot is the current attempt of a running job, so that the
\* sweep can find it after a crash: none is ever orphaned.
NoOrphanBuild ==
    \A s \in Snaps : snaps[s].state = "building" =>
        /\ jobs[s[1]].status = "running"
        /\ jobs[s[1]].snap = s
        /\ jobs[s[1]].attempt = s[2]

\* A sealed snapshot holds every fact its build extracted, although other
\* processes purge and release facts without an ownership guard.
SealedIsWhole ==
    \A s \in Snaps : snaps[s].state = "completed" => snaps[s].facts = Facts

\* The unique index on completed snapshots is never hit by a seal.
SealNeverConflicts ==
    \A w \in Workers :
        InStage(w, "seal") /\ OwnsUncancelled(w, worker[w].job)
            => ~SealConflicts(worker[w].snap)

\* A sweeper whose compare-and-swap would succeed decides on a copy of the row
\* whose attempt and snapshot are still the row's.
ReclaimSeesCurrent ==
    \A w \in Workers :
        worker[w].pc = "reclaim" /\ Reclaimable(worker[w].job, worker[w].row)
            => /\ worker[w].row.attempt = jobs[worker[w].job].attempt
               /\ worker[w].row.snap = jobs[worker[w].job].snap

\* A worker that still owns its row in a stage works on the row's snapshot,
\* and that snapshot is still open: nobody failed it or sealed it meanwhile.
OwnerBuildsCurrent ==
    \A w \in Workers :
        /\ worker[w].pc = "stage"
        /\ worker[w].stage \in {"extract", "seal"}
        /\ Owns(w, worker[w].job)
        => /\ worker[w].snap = jobs[worker[w].job].snap
           /\ snaps[worker[w].snap].state = "building"

\* Once the latest job of a repository has settled, the repository row says so.
RecordStatusOf(status) == CASE status = "completed" -> "completed"
                            [] status = "failed" -> "error"
                            [] OTHER -> "cancelled"

RecordAgrees ==
    \A r \in Repos, j \in Jobs :
        /\ j \in JobsOf(r)
        /\ \A k \in JobsOf(r) : k <= j
        /\ jobs[j].status \in Terminal
        => record[r] = RecordStatusOf(jobs[j].status)

\* The unguarded flush of _reconcile_completed_job never raises while its
\* repository exists: no second effective job stands in its way.
ReconcileNeverRaises ==
    \A c \in Clients :
        client[c].pc = "reconcile" /\ record[client[c].repo] # "gone"
            => EffectiveJobs(client[c].repo) \subseteq {client[c].job}

\* A sealed snapshot never changes until its repository is deleted.
SealedIsImmutable ==
    [][\A s \in Snaps : snaps[s].state = "completed" =>
           snaps'[s] \in {snaps[s], NoSnapshot}]_vars

-----------------------------------------------------------------------------
(* The inductive invariant                                                 *)

RowOK(j) ==
    /\ jobs[j].status \in {"unused", "deleted"} <=> jobs[j].repo = None
    /\ jobs[j].status \in {"unused", "deleted"} => jobs[j].snap = None
    /\ jobs[j].status = "unused" => jobs[j].attempt = 0
    /\ jobs[j].status = "running" =>
         jobs[j].worker # None /\ jobs[j].lease # None /\ jobs[j].attempt > 0
    /\ jobs[j].status # "running" => jobs[j].worker = None /\ jobs[j].lease = None
    /\ jobs[j].status = "queued" => jobs[j].attempt < MaxAttempts
    /\ jobs[j].snap # None =>
         jobs[j].snap[1] = j /\ jobs[j].snap[2] <= jobs[j].attempt
    /\ jobs[j].repo # None => record[jobs[j].repo] # "gone"

\* uq_analysis_jobs_effective_identity
OneEffective ==
    \A j, k \in Jobs : /\ jobs[j].repo = jobs[k].repo
                       /\ jobs[j].status \in Effective
                       /\ jobs[k].status \in Effective
                       => j = k

SnapOK(s) ==
    /\ snaps[s].state \in {"building", "completed"} =>
         jobs[s[1]].snap = s /\ jobs[s[1]].attempt = s[2]
    /\ snaps[s].state = "building" => jobs[s[1]].status = "running"
    /\ snaps[s].state = "completed" =>
         jobs[s[1]].status \in {"running", "completed"} /\ snaps[s].facts = Facts
    /\ s[2] > jobs[s[1]].attempt => snaps[s].state = "none"

Executing(w) == worker[w].pc \in {"gate", "pulse", "stage"}

WorkerOK(w) ==
    LET j == worker[w].job
        s == worker[w].snap
    IN
    /\ worker[w].pc # "idle" => j \in Jobs
    /\ worker[w].pc # "reclaim" => worker[w].row = NoRow
    /\ Executing(w) => worker[w].stage # "none"
    /\ Executing(w) /\ worker[w].stage # "open" => s \in Snaps /\ s[1] = j
    /\ Executing(w) /\ Owns(w, j) =>
         /\ worker[w].stage = "open" => snaps[<<j, jobs[j].attempt>>].state = "none"
         /\ worker[w].stage # "open" => s = jobs[j].snap
         /\ worker[w].stage \in {"extract", "seal"} => snaps[s].state = "building"
         /\ worker[w].stage = "extract" => worker[w].written \subseteq snaps[s].facts
         /\ worker[w].stage = "seal" => snaps[s].facts = Facts
         /\ worker[w].stage \in {"checkpoint", "complete"} =>
              snaps[s].state = "completed"
    /\ worker[w].pc \in {"purge", "finish"} =>
         /\ s \in Snaps
         /\ Owns(w, j) => SnapState(jobs[j].snap) \in {"none", "failed"}
    /\ worker[w].pc = "reclaim" =>
         /\ worker[w].row.worker # None
         /\ worker[w].row.lease # None
         /\ /\ jobs[j].status = "running"
            /\ jobs[j].worker = worker[w].row.worker
            /\ jobs[j].lease = worker[w].row.lease
            => /\ worker[w].row.attempt = jobs[j].attempt
               /\ worker[w].row.snap = jobs[j].snap

ClientOK(c) ==
    LET j == client[c].job
        r == client[c].repo
    IN
    /\ client[c].pc # "idle" => r \in Repos
    /\ client[c].pc \in {"cancelQueued", "reloadQueued", "cancelRunning", "refuse"}
         => j \in Jobs /\ (jobs[j].repo = r \/ jobs[j].status = "deleted")
    /\ client[c].pc = "reconcile" =>
         /\ j \in Jobs
         /\ jobs[j].status # "deleted" =>
              /\ jobs[j].repo = r
              /\ jobs[j].snap = client[c].snap
              /\ SnapState(client[c].snap) = "completed"
              /\ client[c].row.snap = client[c].snap
              /\ client[c].row.status = "running" =>
                   client[c].row.worker # None /\ client[c].row.lease # None
              /\ client[c].row.status # "running" =>
                   client[c].row.status = "completed" /\ jobs[j].status = "completed"

\* What makes the safety properties inductive: above all, that a worker which
\* still owns its row is the only one that touched the row's snapshot, and
\* that a sweeper's copy of the row is current as long as the lease instant is.
JobInv ==
    /\ TypeOK
    /\ \A j \in Jobs : RowOK(j)
    /\ OneEffective
    /\ \A s \in Snaps : SnapOK(s)
    /\ CompletedIsSealed
    /\ \A w \in Workers : WorkerOK(w)
    /\ \A c \in Clients : ClientOK(c)

-----------------------------------------------------------------------------
(* Liveness, once workers have stopped crashing                            *)

CrashesEnd == <>[][\A w \in Workers : ~Crash(w)]_vars

\* Every submitted job settles: retries are bounded and a dead worker's job is
\* found again.
EveryJobSettles ==
    CrashesEnd => \A j \in Jobs :
        jobs[j].status \in Active ~> jobs[j].status \in Terminal

\* The facts of a failed build are discarded in the end, those written by a
\* worker that had already lost the job included.
FailedFactsPurged ==
    CrashesEnd => \A s \in Snaps :
        snaps[s].state = "failed" ~> (snaps[s].state # "failed" \/ snaps[s].facts = {})

=============================================================================
