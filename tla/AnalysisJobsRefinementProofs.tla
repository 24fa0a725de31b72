-------------------- MODULE AnalysisJobsRefinementProofs --------------------
(***************************************************************************)
(* AnalysisJobs implements AnalysisPromise, and what else follows from the *)
(* same argument: every step of the detailed specification has one of nine *)
(* effects on the rows a user can see.  The effects are steps of the       *)
(* promise, or none, and they carry the invariants about the order of jobs *)
(* and about the repository row.                                           *)
(***************************************************************************)
EXTENDS AnalysisJobsRefinement, AnalysisJobsProofs

-----------------------------------------------------------------------------
(* Invariants                                                              *)

\* A worker that closes its attempt as cancelled, or whose heartbeat saw the
\* flag, works on a row that has the flag as long as it owns the row; and so
\* does a sweeper whose copy has it as long as the copy is current.
CancelOK(w) ==
    LET j == worker[w].job IN
    /\ /\ \/ worker[w].pc \in {"settle", "purge", "finish"} /\ worker[w].verdict = "cancel"
          \/ worker[w].pc \in {"gate", "pulse", "stage"} /\ worker[w].hb = "cancel"
       /\ Owns(w, j)
       => jobs[j].cancel
    /\ worker[w].pc \in {"idle", "claim"} => worker[w].hb = "ok"
    /\ /\ worker[w].pc = "reclaim" /\ worker[w].row.cancel
       /\ jobs[j].status = "running"
       /\ jobs[j].worker = worker[w].row.worker
       /\ jobs[j].lease = worker[w].row.lease
       => jobs[j].cancel

\* Rows are used in the order of their numbers.
UsedInOrder ==
    \A j, k \in Jobs : j < k /\ jobs[j].status = "unused" => jobs[k].status = "unused"

\* The effective job of a repository is its latest.
EffectiveIsLatest ==
    \A j, k \in Jobs :
        jobs[j].status \in Effective /\ jobs[k].repo = jobs[j].repo => k <= j

HasCompleted(r) == \E j \in Jobs : jobs[j].repo = r /\ jobs[j].status = "completed"

\* A repository row, or a request's copy of it, that says completed was
\* written with a completed job.
CompletedRecord ==
    /\ \A r \in Repos : record[r] = "completed" => HasCompleted(r)
    /\ \A c \in Clients :
        /\ client[c].pc # "idle" /\ client[c].rec = "completed"
        /\ record[client[c].repo] # "gone"
        => HasCompleted(client[c].repo)

\* A request that is about to reconcile a deleted job lost its repository too.
DeletedIsGone ==
    \A c \in Clients :
        /\ client[c].pc = "reconcile"
        /\ jobs[client[c].job].status = "deleted"
        => record[client[c].repo] = "gone"

OrderInv == UsedInOrder /\ EffectiveIsLatest /\ CompletedRecord /\ RecordAgrees /\ DeletedIsGone

CancelInv == \A w \in Workers : CancelOK(w)

-----------------------------------------------------------------------------
(* The effects of a step                                                   *)

\* What a user sees of row k is the same.
Kept(k) ==
    /\ jobs'[k].repo = jobs[k].repo
    /\ jobs'[k].status = jobs[k].status
    /\ jobs'[k].attempt = jobs[k].attempt
    /\ jobs[k].status \in Active => jobs'[k].cancel = jobs[k].cancel

OthersKept(j) == \A k \in Jobs : k # j => Kept(k)

SealsKept == \A s \in Snaps : snaps'[s].state = "completed" <=> snaps[s].state = "completed"

OtherRecords(r) == \A q \in Repos : q # r => record'[q] = record[q]

\* Nothing, but that a running job may mark its repository row.
Quiet ==
    /\ \A k \in Jobs : Kept(k)
    /\ SealsKept
    /\ \A r \in Repos :
        \/ record'[r] = record[r]
        \/ /\ record'[r] = "analysing"
           /\ record[r] # "gone"
           /\ \E k \in Jobs : jobs[k].repo = r /\ jobs[k].status = "running"

Submitted(j, r) ==
    /\ record[r] # "gone"
    /\ jobs[j].status = "unused"
    /\ \A k \in Jobs : k < j => jobs[k].status # "unused"
    /\ EffectiveJobs(r) = {}
    /\ jobs'[j].repo = r /\ jobs'[j].status = "queued"
    /\ jobs'[j].attempt = 0 /\ jobs'[j].cancel = FALSE
    /\ OthersKept(j)
    /\ SealsKept
    /\ record'[r] \in {record[r], "analysing"}
    /\ OtherRecords(r)

Claimed(j) ==
    /\ jobs[j].status = "queued"
    /\ jobs'[j].repo = jobs[j].repo /\ jobs'[j].status = "running"
    /\ jobs'[j].attempt = jobs[j].attempt + 1 /\ jobs'[j].cancel = jobs[j].cancel
    /\ OthersKept(j)
    /\ SealsKept
    /\ record' = record

SealedNow(j) ==
    /\ jobs[j].status = "running" /\ ~jobs[j].cancel
    /\ \A k \in Jobs : Kept(k)
    /\ \E a \in Attempts :
        /\ snaps[<<j, a>>].state = "building"
        /\ \A s \in Snaps : snaps'[s].state = "completed" <=>
                                snaps[s].state = "completed" \/ s = <<j, a>>
    /\ record' = record

CancelAsked(j) ==
    /\ jobs[j].status = "running"
    /\ jobs'[j].repo = jobs[j].repo /\ jobs'[j].status = "running"
    /\ jobs'[j].attempt = jobs[j].attempt /\ jobs'[j].cancel = TRUE
    /\ OthersKept(j)
    /\ SealsKept
    /\ record' = record

\* A job leaves its status for another, and the repository row follows.
Ended(j, from, to) ==
    /\ jobs[j].status = from
    /\ jobs'[j].repo = jobs[j].repo /\ jobs'[j].status = to
    /\ jobs'[j].attempt = jobs[j].attempt
    /\ OthersKept(j)
    /\ SealsKept
    /\ record'[jobs[j].repo] = RecordStatusOf(to)
    /\ OtherRecords(jobs[j].repo)

Withdrawn(j) == Ended(j, "queued", "cancelled")

Completed(j) ==
    /\ SnapState(jobs[j].snap) = "completed"
    /\ Ended(j, "running", "completed")

GivenUp(j) ==
    /\ SnapState(jobs[j].snap) # "completed"
    /\ \/ Ended(j, "running", "failed")
       \/ jobs[j].cancel /\ Ended(j, "running", "cancelled")

Requeued(j) ==
    /\ SnapState(jobs[j].snap) # "completed"
    /\ jobs[j].status = "running" /\ jobs[j].attempt < MaxAttempts
    /\ jobs'[j].repo = jobs[j].repo /\ jobs'[j].status = "queued"
    /\ jobs'[j].attempt = jobs[j].attempt /\ jobs'[j].cancel = jobs[j].cancel
    /\ OthersKept(j)
    /\ SealsKept
    /\ record'[jobs[j].repo] \in {record[jobs[j].repo], "analysing"}
    /\ OtherRecords(jobs[j].repo)

Deleted(r) ==
    /\ \A k \in Jobs :
        /\ jobs[k].repo = r => jobs'[k] = [NoRow EXCEPT !.status = "deleted"]
        /\ jobs[k].repo # r => Kept(k)
    /\ \A s \in Snaps : snaps'[s].state = "completed" <=>
                            snaps[s].state = "completed" /\ jobs[s[1]].repo # r
    /\ record'[r] = "gone"
    /\ OtherRecords(r)

Effect ==
    \/ Quiet
    \/ \E j \in Jobs :
        \/ \E r \in Repos : Submitted(j, r)
        \/ Claimed(j) \/ SealedNow(j) \/ CancelAsked(j) \/ Withdrawn(j)
        \/ Completed(j) \/ GivenUp(j) \/ Requeued(j)
    \/ \E r \in Repos : Deleted(r)

\* A running row is w's after the step, or it was running and its owner's
\* before; it has a new lease instant, or all of this is as it was; and a
\* cancel that was asked for stays.
Tenure(w) ==
    \A k \in Jobs : jobs'[k].status = "running" =>
        /\ \/ jobs'[k].worker = w
           \/ jobs[k].status = "running" /\ jobs'[k].worker = jobs[k].worker
        /\ \/ jobs'[k].lease = FreshInstant
           \/ /\ jobs[k].status = "running" /\ jobs'[k].worker = jobs[k].worker
              /\ jobs'[k].lease = jobs[k].lease
        /\ jobs[k].status = "running" /\ jobs[k].cancel => jobs'[k].cancel

LEMMA KeptSame == \A k : jobs'[k] = jobs[k] => Kept(k)
BY DEF Kept

\* A step that writes no row.
LEMMA LocalEffect ==
    ASSUME NEW w, UNCHANGED <<jobs, record>>, SealsKept
    PROVE  Effect /\ Tenure(w)
<1>1. Quiet
  BY DEF Quiet, Kept
<1>2. Tenure(w)
  BY DEF Tenure
<1> QED BY <1>1, <1>2 DEF Effect

\* A step that writes one row.
LEMMA RowWritten ==
    ASSUME TypeOK, NEW j \in Jobs, NEW new, jobs' = [jobs EXCEPT ![j] = new]
    PROVE  jobs'[j] = new /\ OthersKept(j) /\ \A k \in Jobs : k # j => jobs'[k] = jobs[k]
BY DEF TypeOK, OthersKept, Kept

LEMMA RowTenure ==
    ASSUME NEW w, NEW j \in Jobs, \A k \in Jobs : k # j => jobs'[k] = jobs[k],
           jobs'[j].status = "running" =>
             /\ \/ jobs'[j].worker = w
                \/ jobs[j].status = "running" /\ jobs'[j].worker = jobs[j].worker
             /\ \/ jobs'[j].lease = FreshInstant
                \/ /\ jobs[j].status = "running" /\ jobs'[j].worker = jobs[j].worker
                   /\ jobs'[j].lease = jobs[j].lease
             /\ jobs[j].status = "running" /\ jobs[j].cancel => jobs'[j].cancel
    PROVE  Tenure(w)
BY DEF Tenure

\* A job that counts has its repository row.
LEMMA LiveRepo ==
    ASSUME JobInv, NEW j \in Jobs, jobs[j].status \notin {"unused", "deleted"}
    PROVE  jobs[j].repo \in Repos /\ record[jobs[j].repo] # "gone"
BY DEF JobInv, RowOK, TypeOK, JobRow

\* The owner renews its lease, or another takes the row over: nothing to see.
LEMMA RenewEffect ==
    ASSUME JobInv, NEW w, NEW j \in Jobs,
           \A k \in Jobs : k # j => jobs'[k] = jobs[k],
           jobs[j].status = "running", jobs'[j].status = "running",
           jobs'[j].repo = jobs[j].repo, jobs'[j].attempt = jobs[j].attempt,
           jobs'[j].cancel = jobs[j].cancel,
           jobs'[j].worker = w \/ jobs'[j].worker = jobs[j].worker,
           jobs'[j].lease = FreshInstant
             \/ (jobs'[j].worker = jobs[j].worker /\ jobs'[j].lease = jobs[j].lease),
           SealsKept,
           \A r \in Repos : record'[r] = record[r]
                            \/ (record'[r] = "analysing" /\ r = jobs[j].repo)
    PROVE  Effect /\ Tenure(w)
<1>1. \A k \in Jobs : Kept(k)
  BY DEF Kept
<1>2. jobs[j].repo \in Repos /\ record[jobs[j].repo] # "gone"
  BY LiveRepo
<1>3. Quiet
  BY <1>1, <1>2 DEF Quiet
<1>4. Tenure(w)
  BY RowTenure
<1> QED BY <1>3, <1>4 DEF Effect

\* The fields of released rows.
LEMMA ConcludedFields ==
    ASSUME NEW row \in JobRow, NEW status \in {"queued", "failed", "cancelled"}
    PROVE  LET new == ConcludedRow(row, status) IN
           /\ new.status = status /\ new.repo = row.repo /\ new.attempt = row.attempt
           /\ new.cancel = row.cancel
BY DEF ConcludedRow, RequeuedRow, Released, JobRow

LEMMA CompletedFields ==
    ASSUME NEW row \in JobRow
    PROVE  LET new == CompletedRow(row) IN
           new.status = "completed" /\ new.repo = row.repo /\ new.attempt = row.attempt
BY DEF CompletedRow, Released, JobRow

\* A running job completes with its repository row.
LEMMA CompleteEffect ==
    ASSUME JobInv, NEW w, NEW j \in Jobs, NEW row \in JobRow,
           jobs[j].status = "running", row.repo = jobs[j].repo,
           row.attempt = jobs[j].attempt, SnapState(jobs[j].snap) = "completed",
           jobs' = [jobs EXCEPT ![j] = CompletedRow(row)],
           record' = [record EXCEPT ![jobs[j].repo] = "completed"], UNCHANGED snaps
    PROVE  Effect /\ Tenure(w)
<1> DEFINE new == CompletedRow(row)
<1>1. new.status = "completed" /\ new.repo = row.repo /\ new.attempt = row.attempt
  BY CompletedFields
<1>2. jobs'[j] = new /\ OthersKept(j) /\ \A k \in Jobs : k # j => jobs'[k] = jobs[k]
  BY RowWritten DEF JobInv
<1> HIDE DEF new
<1>3. record'[jobs[j].repo] = "completed" /\ OtherRecords(jobs[j].repo)
  BY LiveRepo DEF JobInv, TypeOK, OtherRecords
<1>4. Completed(j)
  BY <1>1, <1>2, <1>3 DEF Completed, Ended, SealsKept, RecordStatusOf
<1>5. Tenure(w)
  BY <1>1, <1>2, RowTenure
<1> QED BY <1>4, <1>5 DEF Effect

\* The terminal or requeueing update of an attempt.
LEMMA ConcludeEffect ==
    ASSUME JobInv, NEW w, NEW j \in Jobs, NEW row \in JobRow, NEW verdict,
           jobs[j].status = "running", row.repo = jobs[j].repo,
           row.attempt = jobs[j].attempt, row.cancel = jobs[j].cancel,
           SnapState(jobs[j].snap) # "completed",
           verdict = "cancel" => jobs[j].cancel,
           Conclude(w, j, row, jobs[j].attempt, verdict), UNCHANGED snaps
    PROVE  Effect /\ Tenure(w)
<1> DEFINE status == Outcome(jobs[j].attempt, verdict)
           new == ConcludedRow(row, status)
           old == record[jobs[j].repo]
<1>1. jobs[j].attempt \in Nat
  BY DEF JobInv, TypeOK, JobRow
<1>2. /\ status \in {"queued", "failed", "cancelled"}
      /\ status = "cancelled" => jobs[j].cancel
      /\ status = "queued" => jobs[j].attempt < MaxAttempts
  BY <1>1, MaxAttemptsAssumption DEF Outcome
<1>3. /\ new.status = status /\ new.repo = row.repo /\ new.attempt = row.attempt
      /\ new.cancel = row.cancel
  BY <1>2, ConcludedFields
<1>4. /\ jobs' = [jobs EXCEPT ![j] = new]
      /\ record' = [record EXCEPT ![jobs[j].repo] = ConcludedRecord(old, status, verdict)]
  BY DEF Conclude
<1> HIDE DEF new, status
<1>5. jobs'[j] = new /\ OthersKept(j) /\ \A k \in Jobs : k # j => jobs'[k] = jobs[k]
  BY <1>4, RowWritten DEF JobInv
<1>6. /\ record'[jobs[j].repo] = ConcludedRecord(old, status, verdict)
      /\ OtherRecords(jobs[j].repo)
  BY <1>4, LiveRepo DEF JobInv, TypeOK, OtherRecords
<1>7. SealsKept
  BY DEF SealsKept
<1>8. CASE status = "queued"
  <2>1. ConcludedRecord(old, status, verdict) \in {old, "analysing"}
    BY <1>8 DEF ConcludedRecord
  <2>2. Requeued(j)
    BY <1>2, <1>3, <1>5, <1>6, <1>7, <1>8, <2>1 DEF Requeued
  <2>3. Tenure(w)
    BY <1>3, <1>5, <1>8, RowTenure
  <2> QED BY <2>2, <2>3 DEF Effect
<1>9. CASE status \in {"failed", "cancelled"}
  <2>1. ConcludedRecord(old, status, verdict) = RecordStatusOf(status)
    BY <1>9 DEF ConcludedRecord, RecordStatusOf
  <2>2. Ended(j, "running", status)
    BY <1>3, <1>5, <1>6, <1>7, <2>1 DEF Ended
  <2>3. GivenUp(j)
    BY <1>2, <1>9, <2>2 DEF GivenUp
  <2>4. Tenure(w)
    BY <1>3, <1>5, <1>9, RowTenure
  <2> QED BY <2>3, <2>4 DEF Effect
<1> QED BY <1>2, <1>8, <1>9

\* What closing an attempt does, on the row itself or on a current copy of it.
LEMMA ResolveEffect ==
    ASSUME JobInv, NEW w, NEW j \in Jobs, NEW row \in JobRow, NEW seen, NEW verdict,
           jobs[j].status = "running", row.status = "running", row.repo = jobs[j].repo,
           row.attempt = jobs[j].attempt, row.cancel = jobs[j].cancel, row.worker = w,
           row.lease = FreshInstant
             \/ (row.worker = jobs[j].worker /\ row.lease = jobs[j].lease),
           seen.attempt = jobs[j].attempt, seen.snap = jobs[j].snap,
           verdict = "cancel" => jobs[j].cancel,
           Resolve(w, j, row, seen, verdict)
    PROVE  Effect /\ Tenure(w)
<1>1. CASE SnapState(seen.snap) = "completed"
  <2>1. /\ jobs' = [jobs EXCEPT ![j] = CompletedRow(row)]
        /\ record' = [record EXCEPT ![jobs[j].repo] = "completed"] /\ UNCHANGED snaps
    BY <1>1 DEF Resolve
  <2> QED BY <1>1, <2>1, CompleteEffect
<1>2. CASE SnapState(seen.snap) = "building"
  <2>1. /\ jobs' = [jobs EXCEPT ![j] = row] /\ UNCHANGED record
        /\ snaps' = [snaps EXCEPT ![seen.snap].state = "failed"]
    BY <1>2 DEF Resolve
  <2>2. SealsKept
    <3>1. seen.snap \in Snaps /\ snaps[seen.snap].state = "building"
      BY <1>2 DEF SnapState, JobInv, TypeOK, JobRow
    <3> QED BY <2>1, <3>1 DEF SealsKept, JobInv, TypeOK, Snapshot
  <2>3. jobs'[j] = row /\ \A k \in Jobs : k # j => jobs'[k] = jobs[k]
    BY <2>1 DEF JobInv, TypeOK
  <2> QED BY <2>1, <2>2, <2>3, RenewEffect
<1>3. CASE SnapState(seen.snap) \in {"none", "failed"}
  <2>1. Conclude(w, j, row, jobs[j].attempt, verdict) /\ UNCHANGED snaps
    BY <1>3 DEF Resolve
  <2> QED BY <1>3, <2>1, ConcludeEffect
<1> QED BY <1>1, <1>2, <1>3 DEF Resolve

-----------------------------------------------------------------------------
(* The effect of each step of a worker                                     *)

OthersIdle(w) == \A v \in Workers : v # w => worker'[v] = worker[v]

SealStays ==
    \A s \in Snaps : snaps[s].state = "completed" => snaps'[s] \in {snaps[s], NoSnapshot}

\* What a step of w does to the rows, and what it leaves w with.
Acts(w) == Effect /\ Tenure(w) /\ CancelOK(w)' /\ OthersIdle(w) /\ SealStays

\* A step that writes no snapshot, or one that is not sealed.
LEMMA NoSnapWritten ==
    ASSUME UNCHANGED snaps
    PROVE  SealsKept /\ SealStays
BY DEF SealsKept, SealStays

LEMMA SnapWritten ==
    ASSUME TypeOK, NEW s \in Snaps, NEW new, snaps' = [snaps EXCEPT ![s] = new],
           snaps[s].state # "completed" \/ new = snaps[s]
    PROVE  /\ SealStays /\ snaps'[s] = new
           /\ \A t \in Snaps : t # s => snaps'[t] = snaps[t]
           /\ (snaps[s].state # "completed" => new.state # "completed") => SealsKept
BY DEF TypeOK, SealsKept, SealStays

LEMMA AbandonActs ==
    ASSUME TypeOK, NEW w \in Workers, Abandon(w)
    PROVE  CancelOK(w)' /\ OthersIdle(w)
<1>1. worker'[w] = IdleWorker /\ OthersIdle(w)
  BY DEF TypeOK, Abandon, OthersIdle
<1> QED BY <1>1 DEF CancelOK, IdleWorker

LEMMA CloseActs ==
    ASSUME TypeOK, NEW w \in Workers, NEW verdict, Close(w, verdict),
           verdict = "cancel" => jobs'[worker[w].job].cancel
    PROVE  CancelOK(w)' /\ OthersIdle(w)
<1> DEFINE st == [IdleWorker EXCEPT !.pc = "settle", !.verdict = verdict,
                                    !.job = worker[w].job]
<1>1. st.pc = "settle" /\ st.verdict = verdict /\ st.job = worker[w].job
  BY DEF IdleWorker
<1>2. worker'[w] = st /\ OthersIdle(w)
  BY DEF TypeOK, Close, OthersIdle
<1> HIDE DEF st
<1> QED BY <1>1, <1>2 DEF CancelOK

\* A worker that goes on executing.
LEMMA OnActs ==
    ASSUME TypeOK, NEW w \in Workers, NEW st, worker' = [worker EXCEPT ![w] = st],
           st.pc \in {"gate", "pulse", "stage"},
           st.hb = "cancel" /\ jobs'[st.job].status = "running" /\ jobs'[st.job].worker = w
             => jobs'[st.job].cancel
    PROVE  CancelOK(w)' /\ OthersIdle(w)
<1>1. worker'[w] = st /\ OthersIdle(w)
  BY DEF TypeOK, OthersIdle
<1> QED BY <1>1 DEF CancelOK, Owns

LEMMA GotoActs ==
    ASSUME TypeOK, NEW w \in Workers, CancelOK(w), UNCHANGED jobs,
           worker[w].pc \in {"gate", "pulse"},
           NEW pc \in {"gate", "pulse", "stage"}, Goto(w, pc)
    PROVE  CancelOK(w)' /\ OthersIdle(w)
<1> DEFINE st == [worker[w] EXCEPT !.pc = pc]
<1>1. worker[w] \in WorkerState
  BY DEF TypeOK
<1>2. st.pc = pc /\ st.hb = worker[w].hb /\ st.job = worker[w].job
  BY <1>1 DEF WorkerState
<1>3. worker' = [worker EXCEPT ![w] = st]
  BY DEF Goto
<1> HIDE DEF st
<1>4. st.hb = "cancel" /\ jobs'[st.job].status = "running" /\ jobs'[st.job].worker = w
        => jobs'[st.job].cancel
  BY <1>2 DEF CancelOK, Owns
<1> QED BY <1>2, <1>3, <1>4, OnActs

\* The worker's job is a job, its state a state.
LEMMA BusyWorker ==
    ASSUME JobInv, NEW w \in Workers, worker[w].pc # "idle"
    PROVE  /\ TypeOK /\ worker[w] \in WorkerState /\ worker[w].job \in Jobs
           /\ jobs[worker[w].job] \in JobRow
BY DEF JobInv, WorkerOK, TypeOK

\* Renewing the lease of a row one owns.
LEMMA RenewalEffect ==
    ASSUME JobInv, NEW w \in Workers, NEW j \in Jobs, Owns(w, j),
           jobs' = [jobs EXCEPT ![j] = Renewed(jobs[j])], SealsKept, UNCHANGED record
    PROVE  Effect /\ Tenure(w) /\ jobs'[j].cancel = jobs[j].cancel
<1>1. jobs'[j] = Renewed(jobs[j]) /\ \A k \in Jobs : k # j => jobs'[k] = jobs[k]
  BY DEF JobInv, TypeOK
<1>2. /\ jobs'[j].status = "running" /\ jobs'[j].repo = jobs[j].repo
      /\ jobs'[j].attempt = jobs[j].attempt /\ jobs'[j].cancel = jobs[j].cancel
      /\ jobs'[j].worker = w /\ jobs'[j].lease = FreshInstant
      /\ jobs[j].status = "running"
  BY <1>1, RenewedFields DEF JobInv, TypeOK, Owns
<1> QED BY <1>1, <1>2, RenewEffect

\* The steps that only change the worker.
LEMMA GateActs ==
    ASSUME JobInv, NEW w \in Workers, CancelOK(w),
           \/ Gate(w) \/ FirstPulseDeferred(w) \/ HeartbeatRaises(w)
           \/ SealRefused(w) \/ StageError(w) \/ ResourceExceeded(w) \/ Crash(w)
    PROVE  Acts(w)
<1>1. UNCHANGED <<jobs, record, snaps>> /\ worker[w].pc # "idle"
  BY DEF Gate, FirstPulseDeferred, HeartbeatRaises, SealRefused, StageError,
         ResourceExceeded, Crash, Beating, InStage
<1>2. /\ TypeOK /\ worker[w] \in WorkerState /\ worker[w].job \in Jobs
      /\ jobs[worker[w].job] \in JobRow
  BY <1>1, BusyWorker
<1>3. Effect /\ Tenure(w)
  BY <1>1, LocalEffect DEF SealsKept
<1> SUFFICES CancelOK(w)' /\ OthersIdle(w)
  BY <1>1, <1>3, NoSnapWritten DEF Acts
<1>4. CASE Abandon(w)
  BY <1>2, <1>4, AbandonActs
<1>5. CASE Close(w, "retry") \/ Close(w, "exceeded")
  BY <1>2, <1>5, CloseActs
<1>6. CASE Close(w, "cancel") /\ jobs[worker[w].job].cancel
  BY <1>1, <1>2, <1>6, CloseActs
<1>7. CASE Gate(w)
  <2>1. CASE Goto(w, IF worker[w].stage = "complete" THEN "stage" ELSE "pulse")
    BY <1>1, <1>2, <1>7, <2>1, GotoActs DEF Gate
  <2> QED BY <1>6, <1>7, <2>1 DEF Gate
<1>8. CASE FirstPulseDeferred(w)
  BY <1>1, <1>2, <1>8, GotoActs DEF FirstPulseDeferred
<1>9. CASE HeartbeatRaises(w)
  <2>1. worker[w].pc = "stage"
    BY <1>9 DEF HeartbeatRaises, Beating
  <2>2. CASE worker[w].hb = "cancel" /\ Close(w, "cancel")
    <3>1. CASE Owns(w, worker[w].job)
      BY <1>6, <2>1, <2>2, <3>1 DEF CancelOK
    <3>2. CASE ~Owns(w, worker[w].job)
      <4>1. worker'[w] = [IdleWorker EXCEPT !.pc = "settle", !.verdict = "cancel",
                                            !.job = worker[w].job] /\ OthersIdle(w)
        BY <1>2, <2>2 DEF Close, TypeOK, OthersIdle
      <4>2. worker'[w].pc = "settle" /\ worker'[w].job = worker[w].job
        BY <4>1 DEF IdleWorker
      <4> QED BY <1>1, <3>2, <4>1, <4>2 DEF CancelOK, Owns
    <3> QED BY <3>1, <3>2
  <2> QED BY <1>4, <1>9, <2>2 DEF HeartbeatRaises
<1>10. CASE SealRefused(w)
  <2>1. CASE Owns(w, worker[w].job)
    BY <1>2, <1>6, <1>10, <2>1 DEF SealRefused, OwnsUncancelled
  <2> QED BY <1>4, <1>10, <2>1 DEF SealRefused
<1> QED BY <1>4, <1>5, <1>7, <1>8, <1>9, <1>10 DEF StageError, ResourceExceeded, Crash

\* Reading the queue or a stale row.
LEMMA PollActs ==
    ASSUME JobInv, NEW w \in Workers, CancelOK(w), ClaimRead(w) \/ SweepLoad(w)
    PROVE  Acts(w)
<1>1. UNCHANGED <<jobs, record, snaps>> /\ worker[w].pc = "idle" /\ TypeOK
  BY DEF ClaimRead, SweepLoad, JobInv
<1>2. Effect /\ Tenure(w)
  BY <1>1, LocalEffect DEF SealsKept
<1>3. worker[w] \in WorkerState /\ worker[w].hb = "ok"
  BY <1>1 DEF TypeOK, CancelOK
<1>4. CASE ClaimRead(w)
  <2>1. PICK j \in Jobs : worker' = [worker EXCEPT ![w].pc = "claim", ![w].job = j]
    BY <1>4 DEF ClaimRead, Eligible
  <2>2. /\ worker'[w].pc = "claim" /\ worker'[w].hb = "ok" /\ OthersIdle(w)
    BY <1>1, <1>3, <2>1 DEF TypeOK, OthersIdle, WorkerState
  <2> QED BY <1>1, <1>2, <2>2, NoSnapWritten DEF CancelOK, Acts
<1>5. CASE SweepLoad(w)
  <2>1. PICK j \in Jobs :
          worker' = [worker EXCEPT ![w].pc = "reclaim", ![w].job = j, ![w].row = jobs[j]]
    BY <1>5 DEF SweepLoad
  <2>2. /\ worker'[w].pc = "reclaim" /\ worker'[w].job = j /\ worker'[w].row = jobs[j]
        /\ OthersIdle(w)
    BY <1>1, <1>3, <2>1 DEF TypeOK, OthersIdle, WorkerState
  <2> QED BY <1>1, <1>2, <2>2, NoSnapWritten DEF CancelOK, Acts
<1> QED BY <1>4, <1>5

LEMMA ClaimActs ==
    ASSUME JobInv, NEW w \in Workers, CancelOK(w), Claim(w)
    PROVE  Acts(w)
<1> DEFINE j == worker[w].job
<1>1. worker[w].pc = "claim" /\ UNCHANGED <<snaps, record>>
  BY DEF Claim
<1>2. TypeOK /\ worker[w] \in WorkerState /\ j \in Jobs /\ jobs[j] \in JobRow
  BY <1>1, BusyWorker
<1> HIDE DEF j
<1>3. CASE ~Claimable(j)
  <2>1. UNCHANGED jobs /\ Abandon(w)
    BY <1>3 DEF Claim, j
  <2> QED BY <1>1, <1>2, <2>1, AbandonActs, LocalEffect, NoSnapWritten DEF Acts
<1>4. CASE Claimable(j)
  <2> DEFINE old == Renewed(jobs[j])
             new == [old EXCEPT !.status = "running", !.worker = w, !.attempt = @ + 1,
                                !.backoff = FALSE]
  <2>1. /\ old \in JobRow /\ old.repo = jobs[j].repo /\ old.attempt = jobs[j].attempt
        /\ old.cancel = jobs[j].cancel /\ old.lease = FreshInstant
    BY <1>2, RenewedType, RenewedFields
  <2>2. /\ jobs' = [jobs EXCEPT ![j] = new]
        /\ worker' = [worker EXCEPT ![w].pc = "gate", ![w].stage = "open"]
    BY <1>4 DEF Claim, j
  <2> HIDE DEF old
  <2>3. /\ new.status = "running" /\ new.repo = old.repo /\ new.attempt = old.attempt + 1
        /\ new.cancel = old.cancel /\ new.worker = w /\ new.lease = old.lease
    BY <2>1 DEF JobRow
  <2> HIDE DEF new
  <2>4. jobs'[j] = new /\ OthersKept(j) /\ \A k \in Jobs : k # j => jobs'[k] = jobs[k]
    BY <1>2, <2>2, RowWritten
  <2>5. Claimed(j)
    BY <1>1, <1>4, <2>1, <2>3, <2>4 DEF Claimed, Claimable, SealsKept
  <2>6. Tenure(w)
    BY <1>2, <1>4, <2>1, <2>3, <2>4, RowTenure DEF Claimable
  <2>7. worker'[w].pc = "gate" /\ worker'[w].hb = "ok" /\ OthersIdle(w)
    BY <1>1, <1>2, <2>2 DEF TypeOK, OthersIdle, WorkerState, CancelOK
  <2>8. CancelOK(w)'
    BY <2>7 DEF CancelOK
  <2> QED BY <1>1, <1>2, <2>5, <2>6, <2>7, <2>8, NoSnapWritten DEF Acts, Effect
<1> QED BY <1>3, <1>4

\* The pulse before a stage, the heartbeat, and the checkpoint after the seal.
LEMMA PulseActs ==
    ASSUME JobInv, NEW w \in Workers, CancelOK(w),
           FirstPulse(w) \/ Heartbeat(w) \/ SealCheckpoint(w)
    PROVE  Acts(w)
<1> DEFINE j == worker[w].job
<1>1. /\ worker[w].pc \in {"pulse", "stage"} /\ UNCHANGED <<snaps, record>>
      /\ ~FirstPulse(w) => worker[w].pc = "stage" /\ worker[w].hb = "ok"
  BY DEF FirstPulse, Heartbeat, SealCheckpoint, Beating, InStage
<1>2. TypeOK /\ worker[w] \in WorkerState /\ j \in Jobs /\ jobs[j] \in JobRow
  BY <1>1, BusyWorker
<1>3. SealsKept /\ SealStays
  BY <1>1, NoSnapWritten
<1>4. CASE ~Owns(w, j)
  <2>1. UNCHANGED jobs
    BY <1>4 DEF FirstPulse, Heartbeat, SealCheckpoint
  <2>2. Effect /\ Tenure(w)
    BY <1>1, <1>3, <2>1, LocalEffect
  <2>3. CASE Abandon(w)
    BY <1>2, <1>3, <2>2, <2>3, AbandonActs DEF Acts
  <2>4. CASE worker' = [worker EXCEPT ![w].hb = "lost"] /\ worker[w].pc = "stage"
    <3>1. worker'[w].hb = "lost" /\ worker'[w].pc = "stage" /\ OthersIdle(w)
      BY <1>2, <2>4 DEF TypeOK, OthersIdle, WorkerState
    <3> QED BY <1>3, <2>2, <3>1 DEF CancelOK, Acts
  <2> QED BY <1>1, <1>4, <2>3, <2>4 DEF FirstPulse, Heartbeat, SealCheckpoint, Beating
<1>5. CASE Owns(w, j)
  <2>1. jobs' = [jobs EXCEPT ![j] = Renewed(jobs[j])]
    BY <1>5 DEF FirstPulse, Heartbeat, SealCheckpoint
  <2>2. Effect /\ Tenure(w) /\ jobs'[j].cancel = jobs[j].cancel
    BY <1>1, <1>2, <1>3, <1>5, <2>1, RenewalEffect
  <2> SUFFICES CancelOK(w)' /\ OthersIdle(w)
    BY <1>3, <2>2 DEF Acts
  <2>3. CASE FirstPulse(w)
    <3>1. CASE jobs[j].cancel
      BY <1>2, <1>5, <2>2, <2>3, <3>1, CloseActs DEF FirstPulse
    <3>2. CASE ~jobs[j].cancel
      <4>1. Goto(w, "stage") /\ worker[w].pc = "pulse"
        BY <1>5, <2>3, <3>2 DEF FirstPulse
      <4>2. /\ worker'[w].hb = worker[w].hb /\ worker'[w].job = j /\ OthersIdle(w)
            /\ worker'[w].pc = "stage"
        BY <1>2, <4>1 DEF TypeOK, OthersIdle, WorkerState, Goto
      <4>3. worker[w].hb # "cancel"
        BY <1>5, <3>2, <4>1 DEF CancelOK
      <4> QED BY <4>2, <4>3 DEF CancelOK
    <3> QED BY <3>1, <3>2
  <2>4. CASE Heartbeat(w)
    <3>1. worker' = [worker EXCEPT ![w].hb = IF jobs[j].cancel THEN "cancel" ELSE "ok"]
          /\ worker[w].pc = "stage"
      BY <1>5, <2>4 DEF Heartbeat, Beating
    <3>2. /\ worker'[w].hb = (IF jobs[j].cancel THEN "cancel" ELSE "ok")
          /\ worker'[w].job = j /\ OthersIdle(w) /\ worker'[w].pc = "stage"
      BY <1>2, <3>1 DEF TypeOK, OthersIdle, WorkerState
    <3> QED BY <2>2, <3>2 DEF CancelOK
  <2>5. CASE SealCheckpoint(w)
    <3>1. worker' = [worker EXCEPT ![w] = NextStage(w, "complete")] /\ worker[w].hb = "ok"
      BY <1>5, <2>5 DEF SealCheckpoint, InStage
    <3>2. worker'[w].hb = "ok" /\ OthersIdle(w) /\ worker'[w].pc = "gate"
      BY <1>2, <3>1 DEF TypeOK, OthersIdle, WorkerState, NextStage
    <3> QED BY <3>2 DEF CancelOK
  <2> QED BY <2>3, <2>4, <2>5
<1> QED BY <1>4, <1>5

\* The open stage: nothing is reused, a building snapshot is inserted.
LEMMA OpenSnapshotActs ==
    ASSUME JobInv, NEW w \in Workers, CancelOK(w), OpenSnapshot(w)
    PROVE  Acts(w)
<1>1. worker[w].pc = "stage" /\ worker[w].stage = "open" /\ worker[w].hb = "ok"
  BY DEF OpenSnapshot, InStage
<1>2. PICK j \in Jobs : j = worker[w].job /\ TypeOK /\ worker[w] \in WorkerState
                        /\ jobs[j] \in JobRow
  BY <1>1, BusyWorker
<1>3. CASE ~Owns(w, j)
  <2>1. UNCHANGED <<jobs, snaps, record>> /\ Abandon(w)
    BY <1>2, <1>3 DEF OpenSnapshot
  <2> QED BY <1>2, <2>1, AbandonActs, LocalEffect, NoSnapWritten DEF Acts
<1>4. CASE Owns(w, j)
  <2>1. /\ Sealed(jobs[j].repo) = {} /\ jobs[j].attempt \in Attempts
        /\ snaps[<<j, jobs[j].attempt>>].state = "none"
    BY <1>1, <1>2, <1>4, NothingToReuse DEF Executing
  <2>2. PICK s \in Snaps : s = <<j, jobs[j].attempt>>
    BY <2>1 DEF Snaps
  <2> DEFINE sn == [state |-> "building", facts |-> {}, release |-> release]
             old == Renewed(jobs[j])
  <2>3. /\ jobs' = [jobs EXCEPT ![j] = [old EXCEPT !.snap = s]]
        /\ snaps' = [snaps EXCEPT ![s] = sn]
        /\ record' = [record EXCEPT ![jobs[j].repo] = "analysing"]
        /\ worker' = [worker EXCEPT ![w] =
              [NextStage(w, "extract") EXCEPT !.snap = s, !.written = {}]]
    BY <1>2, <1>4, <2>1, <2>2 DEF OpenSnapshot, Opened
  <2>4. SealStays /\ SealsKept
    <3>1. sn.state = "building"
      OBVIOUS
    <3> HIDE DEF sn
    <3> QED BY <1>2, <2>1, <2>2, <2>3, <3>1, SnapWritten
  <2>5. /\ old \in JobRow /\ old.status = "running" /\ old.repo = jobs[j].repo
        /\ old.attempt = jobs[j].attempt /\ old.cancel = jobs[j].cancel
        /\ old.worker = w /\ old.lease = FreshInstant /\ jobs[j].status = "running"
    BY <1>2, <1>4, RenewedType, RenewedFields DEF Owns
  <2> HIDE DEF old
  <2>6. /\ jobs'[j] = [old EXCEPT !.snap = s] /\ \A k \in Jobs : k # j => jobs'[k] = jobs[k]
    BY <1>2, <2>3 DEF TypeOK
  <2>7. /\ jobs'[j].status = "running" /\ jobs'[j].repo = jobs[j].repo
        /\ jobs'[j].attempt = jobs[j].attempt /\ jobs'[j].cancel = jobs[j].cancel
        /\ jobs'[j].worker = w /\ jobs'[j].lease = FreshInstant
    BY <2>5, <2>6 DEF JobRow
  <2>8. \A r \in Repos : record'[r] = record[r]
                         \/ (record'[r] = "analysing" /\ r = jobs[j].repo)
    BY <1>2, <2>3 DEF TypeOK
  <2>9. Effect /\ Tenure(w)
    BY <2>4, <2>5, <2>6, <2>7, <2>8, RenewEffect
  <2>10. worker'[w].hb = "ok" /\ worker'[w].pc = "gate" /\ OthersIdle(w)
    BY <1>1, <1>2, <2>3 DEF TypeOK, OthersIdle, WorkerState, NextStage
  <2> QED BY <2>4, <2>9, <2>10 DEF Acts, CancelOK
<1> QED BY <1>3, <1>4

\* Facts committed in the middle of the extract stage.
LEMMA ReleaseFactsActs ==
    ASSUME JobInv, NEW w \in Workers, CancelOK(w), ReleaseFacts(w)
    PROVE  Acts(w)
<1> DEFINE j == worker[w].job
           b == NextFacts(w)
<1>1. /\ worker[w].pc = "stage" /\ worker[w].stage = "extract" /\ worker[w].hb = "ok"
      /\ UNCHANGED <<jobs, record>> /\ TypeOK
  BY DEF ReleaseFacts, InStage, JobInv
<1>2. PICK s \in Snaps : s = worker[w].snap /\ worker[w] \in WorkerState
                         /\ snaps[s] \in Snapshot /\ j \in Jobs
  BY <1>1, StageSnap
<1>3. CASE ~Storable(s, b)
  BY <1>1, <1>2, <1>3, CloseActs, LocalEffect, NoSnapWritten DEF Acts, ReleaseFacts
<1>4. CASE Storable(s, b)
  <2> DEFINE sn == [snaps[s] EXCEPT !.facts = @ \cup b]
  <2>1. snaps' = [snaps EXCEPT ![s] = sn]
    BY <1>2, <1>4 DEF ReleaseFacts
  <2>2. sn.state = snaps[s].state /\ snaps[s].state # "completed"
    BY <1>2, <1>4 DEF Snapshot, Storable
  <2> HIDE DEF sn
  <2>3. SealStays /\ SealsKept
    BY <1>1, <2>1, <2>2, SnapWritten
  <2>4. Effect /\ Tenure(w)
    BY <1>1, <2>3, LocalEffect
  <2>5. CASE jobs[j].cancel
    BY <1>1, <1>2, <1>4, <2>3, <2>4, <2>5, CloseActs DEF Acts, ReleaseFacts
  <2>6. CASE ~jobs[j].cancel
    <3>1. worker' = [worker EXCEPT ![w].written = @ \cup b]
      BY <1>2, <1>4, <2>6 DEF ReleaseFacts
    <3>2. worker'[w].hb = "ok" /\ worker'[w].pc = "stage" /\ OthersIdle(w)
      BY <1>1, <1>2, <3>1 DEF TypeOK, OthersIdle, WorkerState
    <3> QED BY <2>3, <2>4, <3>2 DEF Acts, CancelOK
  <2> QED BY <2>5, <2>6
<1> QED BY <1>3, <1>4

\* The checkpoint of the extract stage.
LEMMA FinishExtractActs ==
    ASSUME JobInv, NEW w \in Workers, CancelOK(w), FinishExtract(w)
    PROVE  Acts(w)
<1>1. /\ worker[w].pc = "stage" /\ worker[w].stage = "extract" /\ worker[w].hb = "ok"
      /\ UNCHANGED record /\ TypeOK
  BY DEF FinishExtract, InStage, JobInv
<1>2. PICK s \in Snaps : s = worker[w].snap /\ worker[w] \in WorkerState
                         /\ snaps[s] \in Snapshot
  BY <1>1, StageSnap
<1>3. PICK j \in Jobs : j = worker[w].job
  BY <1>1, StageSnap
<1>4. CASE ~Owns(w, j)
  BY <1>1, <1>3, <1>4, AbandonActs, LocalEffect, NoSnapWritten DEF Acts, FinishExtract
<1>5. CASE Owns(w, j)
  <2> DEFINE sn == [snaps[s] EXCEPT !.facts = @ \cup (Facts \ worker[w].written)]
  <2>1. /\ jobs' = [jobs EXCEPT ![j] = Renewed(jobs[j])]
        /\ snaps' = [snaps EXCEPT ![s] = sn]
        /\ worker' = [worker EXCEPT ![w] = NextStage(w, "seal")]
    BY <1>2, <1>3, <1>5 DEF FinishExtract
  <2>2. snaps[s].state = "building"
    BY <1>1, <1>2, <1>3, <1>5 DEF JobInv, WorkerOK, Executing
  <2>3. sn.state = "building"
    BY <1>2, <2>2 DEF Snapshot
  <2> HIDE DEF sn
  <2>4. SealStays /\ SealsKept
    BY <1>1, <2>1, <2>2, <2>3, SnapWritten
  <2>5. Effect /\ Tenure(w)
    BY <1>1, <1>5, <2>1, <2>4, RenewalEffect
  <2>6. worker'[w].hb = "ok" /\ worker'[w].pc = "gate" /\ OthersIdle(w)
    BY <1>1, <1>2, <2>1 DEF TypeOK, OthersIdle, WorkerState, NextStage
  <2> QED BY <2>4, <2>5, <2>6 DEF Acts, CancelOK
<1> QED BY <1>4, <1>5

\* The seal, and the build that validation refuses.
LEMMA SealActs ==
    ASSUME JobInv, NEW w \in Workers, CancelOK(w), Seal(w) \/ SealRejected(w)
    PROVE  Acts(w)
<1> DEFINE j == worker[w].job
<1>1. /\ worker[w].pc = "stage" /\ worker[w].stage = "seal" /\ worker[w].hb = "ok"
      /\ UNCHANGED <<jobs, record>> /\ TypeOK /\ OwnsUncancelled(w, j)
  BY DEF Seal, SealRejected, InStage, JobInv
<1>2. PICK s \in Snaps : s = worker[w].snap /\ worker[w] \in WorkerState
                         /\ snaps[s] \in Snapshot /\ j \in Jobs /\ s[1] = j
  BY <1>1, StageSnap
<1>3. snaps[s].state = "building"
  BY <1>1, <1>2 DEF JobInv, WorkerOK, Executing, OwnsUncancelled
<1>4. CASE SealConflicts(s) /\ Seal(w)
  BY <1>1, <1>2, <1>4, CloseActs, LocalEffect, NoSnapWritten DEF Acts, Seal
<1>5. CASE SealRejected(w)
  <2> DEFINE sn == [snaps[s] EXCEPT !.state = "failed"]
  <2>1. snaps' = [snaps EXCEPT ![s] = sn] /\ Close(w, "retry")
    BY <1>2, <1>5 DEF SealRejected
  <2>2. sn.state = "failed"
    BY <1>2 DEF Snapshot
  <2> HIDE DEF sn
  <2>3. SealStays /\ SealsKept
    BY <1>1, <1>3, <2>1, <2>2, SnapWritten
  <2> QED BY <1>1, <2>1, <2>3, CloseActs, LocalEffect DEF Acts
<1>6. CASE ~SealConflicts(s) /\ Seal(w)
  <2> DEFINE sn == [snaps[s] EXCEPT !.state = "completed"]
  <2>1. /\ snaps' = [snaps EXCEPT ![s] = sn]
        /\ worker' = [worker EXCEPT ![w].stage = "checkpoint"]
    BY <1>2, <1>6 DEF Seal
  <2>2. sn.state = "completed"
    BY <1>2 DEF Snapshot
  <2> HIDE DEF sn
  <2>3. SealStays /\ snaps'[s] = sn /\ \A t \in Snaps : t # s => snaps'[t] = snaps[t]
    BY <1>1, <1>3, <2>1, SnapWritten
  <2>4. PICK a \in Attempts : s = <<j, a>>
    BY <1>2 DEF Snaps
  <2>5. \A k \in Jobs : Kept(k)
    BY <1>1 DEF Kept
  <2>6. \A t \in Snaps : snaps'[t].state = "completed" <=>
                           snaps[t].state = "completed" \/ t = s
    BY <2>2, <2>3
  <2>7. SealedNow(j)
    BY <1>1, <1>3, <2>4, <2>5, <2>6 DEF SealedNow, OwnsUncancelled, Owns
  <2>8. Tenure(w)
    BY <1>1 DEF Tenure
  <2>9. worker'[w].hb = "ok" /\ worker'[w].pc = "stage" /\ OthersIdle(w)
    BY <1>1, <1>2, <2>1 DEF TypeOK, OthersIdle, WorkerState
  <2> QED BY <1>2, <2>3, <2>7, <2>8, <2>9 DEF Acts, CancelOK, Effect
<1> QED BY <1>4, <1>5, <1>6

\* The completion that no cancel came before.
LEMMA CompleteActs ==
    ASSUME JobInv, NEW w \in Workers, CancelOK(w), Complete(w)
    PROVE  Acts(w)
<1>1. /\ worker[w].pc = "stage" /\ worker[w].stage = "complete" /\ worker[w].hb = "ok"
      /\ UNCHANGED snaps /\ TypeOK
  BY DEF Complete, InStage, JobInv
<1>2. PICK j \in Jobs : j = worker[w].job /\ jobs[j] \in JobRow
  BY <1>1, BusyWorker
<1>3. SealsKept /\ SealStays
  BY <1>1, NoSnapWritten
<1>4. CASE ~OwnsUncancelled(w, j)
  <2>1. UNCHANGED <<jobs, record>>
    BY <1>2, <1>4 DEF Complete
  <2>2. Effect /\ Tenure(w)
    BY <1>3, <2>1, LocalEffect
  <2>3. CASE Owns(w, j)
    <3>1. jobs[j].cancel
      BY <1>2, <1>4, <2>3 DEF OwnsUncancelled, JobRow
    <3> QED BY <1>1, <1>2, <1>3, <1>4, <2>1, <2>2, <2>3, <3>1, CloseActs DEF Acts, Complete
  <2>4. CASE ~Owns(w, j)
    BY <1>1, <1>2, <1>3, <1>4, <2>2, <2>4, AbandonActs DEF Acts, Complete
  <2> QED BY <2>3, <2>4
<1>5. CASE OwnsUncancelled(w, j)
  <2>1. /\ jobs' = [jobs EXCEPT ![j] = CompletedRow(jobs[j])] /\ Abandon(w)
        /\ record' = [record EXCEPT ![jobs[j].repo] = "completed"]
    BY <1>2, <1>5 DEF Complete
  <2>2. /\ jobs[j].status = "running" /\ worker[w].snap \in Snaps
        /\ worker[w].snap = jobs[j].snap /\ snaps[worker[w].snap].state = "completed"
    BY <1>1, <1>2, <1>5, StageSnap DEF OwnsUncancelled, Owns, JobInv, WorkerOK, Executing
  <2>3. SnapState(jobs[j].snap) = "completed"
    BY <2>2, NoneAssumption DEF SnapState, Snaps, Jobs, Attempts
  <2>4. Effect /\ Tenure(w)
    BY <1>1, <1>2, <2>1, <2>2, <2>3, CompleteEffect
  <2> QED BY <1>1, <1>3, <2>1, <2>4, AbandonActs DEF Acts
<1> QED BY <1>4, <1>5

\* Closing an attempt, from the worker's side as well.
LEMMA ResolveActs ==
    ASSUME JobInv, NEW w \in Workers, NEW j \in Jobs, NEW row \in JobRow, NEW seen, NEW verdict,
           jobs[j].status = "running", row.status = "running", row.repo = jobs[j].repo,
           row.attempt = jobs[j].attempt, row.cancel = jobs[j].cancel, row.worker = w,
           row.lease = FreshInstant
             \/ (row.worker = jobs[j].worker /\ row.lease = jobs[j].lease),
           seen.attempt = jobs[j].attempt, seen.snap = jobs[j].snap,
           verdict = "cancel" => jobs[j].cancel,
           Resolve(w, j, row, seen, verdict)
    PROVE  Acts(w)
<1>1. Effect /\ Tenure(w)
  BY ResolveEffect
<1>2. TypeOK
  BY DEF JobInv
<1>3. CASE Abandon(w) /\ UNCHANGED snaps
  BY <1>1, <1>2, <1>3, AbandonActs, NoSnapWritten DEF Acts
<1>4. CASE SnapState(seen.snap) = "building"
  <2> DEFINE s == jobs[j].snap
             sn == [snaps[s] EXCEPT !.state = "failed"]
             st == [IdleWorker EXCEPT !.pc = "purge", !.verdict = verdict,
                                      !.job = j, !.snap = s]
  <2>1. /\ jobs' = [jobs EXCEPT ![j] = row] /\ snaps' = [snaps EXCEPT ![s] = sn]
        /\ worker' = [worker EXCEPT ![w] = st]
    BY <1>4 DEF Resolve
  <2>2. s \in Snaps /\ snaps[s].state = "building"
    BY <1>2, <1>4 DEF SnapState, TypeOK, JobRow
  <2>3. SealStays
    BY <1>2, <2>1, <2>2, SnapWritten
  <2>4. st.pc = "purge" /\ st.verdict = verdict /\ st.job = j
    BY DEF IdleWorker
  <2> HIDE DEF st
  <2>5. worker'[w] = st /\ OthersIdle(w) /\ jobs'[j] = row
    BY <1>2, <2>1 DEF TypeOK, OthersIdle
  <2>6. CancelOK(w)'
    BY <2>4, <2>5 DEF CancelOK
  <2> QED BY <1>1, <2>3, <2>5, <2>6 DEF Acts
<1> QED BY <1>3, <1>4 DEF Resolve, Conclude

\* A worker closes its own attempt.
LEMMA SettleActs ==
    ASSUME JobInv, NEW w \in Workers, CancelOK(w), Settle(w)
    PROVE  Acts(w)
<1>1. worker[w].pc = "settle"
  BY DEF Settle
<1>2. PICK j \in Jobs : j = worker[w].job /\ jobs[j] \in JobRow /\ TypeOK
  BY <1>1, BusyWorker
<1>3. CASE ~Owns(w, j)
  <2>1. Abandon(w) /\ UNCHANGED <<jobs, snaps, record>>
    BY <1>2, <1>3 DEF Settle
  <2> QED BY <1>2, <2>1, AbandonActs, LocalEffect, NoSnapWritten DEF Acts
<1>4. CASE Close(w, "cancel") /\ jobs[j].cancel /\ UNCHANGED <<jobs, snaps, record>>
  BY <1>2, <1>4, CloseActs, LocalEffect, NoSnapWritten DEF Acts
<1>5. CASE Owns(w, j) /\ Resolve(w, j, jobs[j], jobs[j], worker[w].verdict)
  <2>1. jobs[j].status = "running" /\ jobs[j].worker = w
    BY <1>5 DEF Owns
  <2>2. worker[w].verdict = "cancel" => jobs[j].cancel
    BY <1>1, <1>2, <1>5 DEF CancelOK
  <2> QED BY <1>2, <1>5, <2>1, <2>2, ResolveActs
<1> QED BY <1>2, <1>3, <1>4, <1>5 DEF Settle

\* A sweeper closes the attempt of another, on the copy it loaded.
LEMMA ReclaimActs ==
    ASSUME JobInv, NEW w \in Workers, CancelOK(w), Reclaim(w)
    PROVE  Acts(w)
<1>1. worker[w].pc = "reclaim"
  BY DEF Reclaim
<1>2. PICK j \in Jobs : j = worker[w].job /\ jobs[j] \in JobRow /\ TypeOK
  BY <1>1, BusyWorker
<1> DEFINE seen == worker[w].row
<1>3. CASE ~Reclaimable(j, seen)
  <2>1. Abandon(w) /\ UNCHANGED <<jobs, snaps, record>>
    BY <1>2, <1>3 DEF Reclaim
  <2> QED BY <1>2, <2>1, AbandonActs, LocalEffect, NoSnapWritten DEF Acts
<1>4. CASE Reclaimable(j, seen)
  <2> DEFINE verdict == IF seen.cancel THEN "cancel" ELSE "stale"
  <2>1. PICK old \in JobRow : old = Renewed(jobs[j])
    BY <1>2, RenewedType
  <2>2. /\ old.status = jobs[j].status /\ old.repo = jobs[j].repo
        /\ old.attempt = jobs[j].attempt /\ old.cancel = jobs[j].cancel
        /\ old.lease = FreshInstant /\ jobs[j].status = "running"
    BY <1>2, <1>4, <2>1, RenewedFields DEF Reclaimable
  <2>3. PICK row \in JobRow : row = [old EXCEPT !.worker = w]
    BY DEF JobRow
  <2>4. /\ row.status = "running" /\ row.repo = jobs[j].repo
        /\ row.attempt = jobs[j].attempt /\ row.cancel = jobs[j].cancel
        /\ row.lease = FreshInstant /\ row.worker = w
    BY <2>2, <2>3 DEF JobRow
  <2>5. Resolve(w, j, row, seen, verdict)
    BY <1>2, <1>4, <2>1, <2>3 DEF Reclaim
  <2>6. seen.attempt = jobs[j].attempt /\ seen.snap = jobs[j].snap
    BY <1>1, <1>2, <1>4 DEF Reclaimable, JobInv, WorkerOK
  <2>7. verdict = "cancel" => jobs[j].cancel
    BY <1>1, <1>2, <1>4 DEF Reclaimable, CancelOK
  <2> HIDE DEF verdict, seen
  <2> QED BY <2>2, <2>4, <2>5, <2>6, <2>7, ResolveActs
<1> QED BY <1>3, <1>4

\* The purge of a failed snapshot's facts.
LEMMA PurgeActs ==
    ASSUME JobInv, NEW w \in Workers, CancelOK(w), Purge(w)
    PROVE  Acts(w)
<1>1. worker[w].pc = "purge" /\ UNCHANGED <<jobs, record>> /\ Goto(w, "finish")
  BY DEF Purge
<1>2. TypeOK /\ worker[w] \in WorkerState
  BY <1>1, BusyWorker
<1>3. PICK s \in Snaps : s = worker[w].snap /\ snaps[s] \in Snapshot
  BY <1>1 DEF JobInv, WorkerOK, TypeOK
<1> DEFINE sn == Purged(snaps[s])
<1>4. sn.state = snaps[s].state /\ (snaps[s].state # "completed" \/ sn = snaps[s])
  BY <1>3, PurgedFields
<1>5. snaps' = [snaps EXCEPT ![s] = sn]
  BY <1>3 DEF Purge
<1> HIDE DEF sn
<1>6. SealStays /\ SealsKept
  BY <1>2, <1>4, <1>5, SnapWritten
<1>7. Effect /\ Tenure(w)
  BY <1>1, <1>6, LocalEffect
<1>8. /\ worker'[w].pc = "finish" /\ worker'[w].verdict = worker[w].verdict
      /\ worker'[w].job = worker[w].job /\ OthersIdle(w)
  BY <1>1, <1>2 DEF Goto, TypeOK, WorkerState, OthersIdle
<1>9. CancelOK(w)'
  BY <1>1, <1>8 DEF CancelOK, Owns
<1> QED BY <1>6, <1>7, <1>8, <1>9 DEF Acts

\* The last update of a failed attempt.
LEMMA FinishActs ==
    ASSUME JobInv, NEW w \in Workers, CancelOK(w), Finish(w)
    PROVE  Acts(w)
<1>1. worker[w].pc = "finish" /\ UNCHANGED snaps
  BY DEF Finish
<1>2. PICK j \in Jobs : j = worker[w].job /\ jobs[j] \in JobRow /\ TypeOK
  BY <1>1, BusyWorker
<1>3. CASE ~Owns(w, j)
  <2>1. Abandon(w) /\ UNCHANGED <<jobs, record>>
    BY <1>2, <1>3 DEF Finish
  <2> QED BY <1>1, <1>2, <2>1, AbandonActs, LocalEffect, NoSnapWritten DEF Acts
<1>4. CASE Owns(w, j)
  <2>1. Conclude(w, j, jobs[j], jobs[j].attempt, worker[w].verdict)
    BY <1>2, <1>4 DEF Finish
  <2>2. jobs[j].status = "running" /\ SnapState(jobs[j].snap) # "completed"
    BY <1>1, <1>2, <1>4 DEF Owns, JobInv, WorkerOK
  <2>3. worker[w].verdict = "cancel" => jobs[j].cancel
    BY <1>1, <1>2, <1>4 DEF CancelOK
  <2>4. Effect /\ Tenure(w)
    BY <1>1, <1>2, <2>1, <2>2, <2>3, ConcludeEffect
  <2> QED BY <1>1, <1>2, <2>1, <2>4, AbandonActs, NoSnapWritten DEF Acts, Conclude
<1> QED BY <1>3, <1>4

\* The sweep's purge.
LEMMA SweepPurgeActs ==
    ASSUME JobInv, NEW w \in Workers, CancelOK(w), SweepPurge(w)
    PROVE  Acts(w)
<1>1. UNCHANGED <<jobs, record, worker>> /\ TypeOK
  BY DEF SweepPurge, JobInv
<1>2. PICK s \in Snaps : snaps' = [snaps EXCEPT ![s] = Purged(snaps[s])]
  BY DEF SweepPurge
<1>3. snaps[s] \in Snapshot
  BY <1>1 DEF TypeOK
<1> DEFINE sn == Purged(snaps[s])
<1>4. sn.state = snaps[s].state /\ (snaps[s].state # "completed" \/ sn = snaps[s])
  BY <1>3, PurgedFields
<1>5. snaps' = [snaps EXCEPT ![s] = sn]
  BY <1>2
<1> HIDE DEF sn
<1>6. SealStays /\ SealsKept
  BY <1>1, <1>4, <1>5, SnapWritten
<1>7. Effect /\ Tenure(w)
  BY <1>1, <1>6, LocalEffect
<1>8. CancelOK(w)' /\ OthersIdle(w)
  BY <1>1 DEF CancelOK, Owns, OthersIdle
<1> QED BY <1>6, <1>7, <1>8 DEF Acts

\* Every step of a worker.
LEMMA WorkerActs ==
    ASSUME JobInv, CancelInv, NEW w \in Workers,
           Work(w) \/ Poll(w) \/ Heartbeat(w) \/ Crash(w)
    PROVE  Acts(w) /\ UNCHANGED client
<1>1. CancelOK(w)
  BY DEF CancelInv
<1>2. Acts(w)
  BY <1>1, GateActs, PollActs, ClaimActs, PulseActs, OpenSnapshotActs, ReleaseFactsActs,
     FinishExtractActs, SealActs, CompleteActs, SettleActs, ReclaimActs, PurgeActs,
     FinishActs, SweepPurgeActs DEF Work, Poll
<1>3. UNCHANGED client
  BY DEF Work, Poll, Heartbeat, Crash, Claim, Gate, FirstPulse, FirstPulseDeferred,
         HeartbeatRaises, OpenSnapshot, ReleaseFacts, FinishExtract, Seal, SealRejected,
         SealRefused, SealCheckpoint, Complete, StageError, ResourceExceeded, Settle,
         Purge, Finish, Reclaim, ClaimRead, SweepLoad, SweepPurge
<1> QED BY <1>2, <1>3

-----------------------------------------------------------------------------
(* The effect of requests, of deletions and of time                        *)

\* What a request holds of the repository row and of the job it reconciles.
ClientStep ==
    \A c \in Clients :
        \/ client'[c] = client[c]
        \/ client'[c].pc # "reconcile" /\ client'[c].rec = "gone"
        \/ /\ UNCHANGED <<jobs, record>>
           /\ \/ client'[c].rec = client[c].rec /\ client'[c].repo = client[c].repo
                 /\ client[c].pc # "idle"
              \/ client'[c].rec = record[client'[c].repo] /\ client'[c].repo \in Repos
           /\ client'[c].pc = "reconcile" => jobs[client'[c].job].status # "deleted"

\* What a step that is no worker's does.
Asks == Effect /\ Tenure(None) /\ SealStays /\ ClientStep /\ UNCHANGED worker

LEMMA AnswerStep ==
    ASSUME TypeOK, NEW c \in Clients, NEW result, NEW status, Answer(c, result, status)
    PROVE  ClientStep
<1> DEFINE st == [IdleClient EXCEPT !.pc = "reply", !.result = result,
                           !.status = status, !.op = client[c].op,
                           !.repo = client[c].repo]
<1>1. st.pc = "reply" /\ st.rec = "gone"
  BY DEF IdleClient
<1>2. client' = [client EXCEPT ![c] = st]
  BY DEF Answer
<1> HIDE DEF st
<1> QED BY <1>1, <1>2 DEF ClientStep, TypeOK

\* A request goes on with a new local state and writes nothing.
LEMMA OnStep ==
    ASSUME TypeOK, NEW c \in Clients, NEW st, client' = [client EXCEPT ![c] = st],
           UNCHANGED <<jobs, record>>,
           \/ st.rec = client[c].rec /\ st.repo = client[c].repo /\ client[c].pc # "idle"
           \/ st.rec = record[st.repo] /\ st.repo \in Repos,
           st.pc = "reconcile" => jobs[st.job].status # "deleted"
    PROVE  ClientStep
<1>1. client'[c] = st /\ \A d \in Clients : d # c => client'[d] = client[d]
  BY DEF TypeOK
<1> QED BY <1>1 DEF ClientStep

LEMMA LocalAsks ==
    ASSUME UNCHANGED <<jobs, snaps, record, worker>>, ClientStep
    PROVE  Asks
BY LocalEffect, NoSnapWritten DEF Asks

\* The row of a job that points at a snapshot is still there.
LEMMA PointsAtSnapshot ==
    ASSUME JobInv, NEW j \in Jobs, jobs[j].snap # None
    PROVE  jobs[j].status # "deleted"
BY DEF JobInv, RowOK

LEMMA SealedSnaps ==
    ASSUME JobInv, NEW r \in Repos, NEW s \in Sealed(r)
    PROVE  s \in Snaps /\ s # None
BY NoneAssumption DEF Sealed, Snaps, Jobs, Attempts

\* The requests that only read.
LEMMA ReadAsks ==
    ASSUME JobInv, NEW c \in Clients,
           \/ \E r \in Repos, op \in {"submit", "status"} : RequestStart(c, r, op)
           \/ SubmitActive(c) \/ SubmitConflict(c)
           \/ \E r \in Repos : CancelStart(c, r)
           \/ CancelReloadQueued(c) \/ CancelRefuse(c) \/ Reply(c)
    PROVE  Asks
<1>1. UNCHANGED <<jobs, snaps, record, worker>> /\ TypeOK /\ client[c] \in ClientState
  BY DEF RequestStart, SubmitActive, SubmitConflict, CancelStart, CancelReloadQueued,
         CancelRefuse, Reply, JobInv, TypeOK
<1> SUFFICES ClientStep
  BY <1>1, LocalAsks
<1>2. CASE \E result, status : Answer(c, result, status)
  BY <1>1, <1>2, AnswerStep
<1>3. ASSUME NEW pc \in {"insert", "reread", "cancelRunning"}, client[c].pc # "idle",
             client' = [client EXCEPT ![c].pc = pc]
      PROVE  ClientStep
  <2> DEFINE st == [client[c] EXCEPT !.pc = pc]
  <2>1. st.rec = client[c].rec /\ st.repo = client[c].repo /\ st.pc = pc
    BY <1>1 DEF ClientState
  <2>2. client' = [client EXCEPT ![c] = st]
    BY <1>3
  <2> HIDE DEF st
  <2> QED BY <1>1, <1>3, <2>1, <2>2, OnStep
<1>4. ASSUME NEW st, client' = [client EXCEPT ![c] = st], st.rec = "gone",
             st.pc # "reconcile"
      PROVE  ClientStep
  BY <1>1, <1>4 DEF ClientStep, TypeOK
<1>5. CASE \E r \in Repos, op \in {"submit", "status"} : RequestStart(c, r, op)
  <2>1. PICK r \in Repos, op \in {"submit", "status"} : RequestStart(c, r, op)
    BY <1>5
  <2> DEFINE st == [client[c] EXCEPT !.pc = "find", !.op = op, !.repo = r, !.rec = record[r]]
  <2>2. st.rec = record[r] /\ st.repo = r /\ st.pc = "find"
    BY <1>1 DEF ClientState
  <2>3. client' = [client EXCEPT ![c] = st]
    BY <2>1 DEF RequestStart
  <2> HIDE DEF st
  <2> QED BY <1>1, <2>2, <2>3, OnStep
<1>6. CASE SubmitActive(c) \/ SubmitConflict(c) \/ CancelReloadQueued(c) \/ CancelRefuse(c)
  BY <1>2, <1>3, <1>6 DEF SubmitActive, SubmitConflict, CancelReloadQueued, CancelRefuse
<1>7. CASE Reply(c)
  <2>1. IdleClient.rec = "gone" /\ IdleClient.pc # "reconcile"
    BY DEF IdleClient
  <2> QED BY <1>4, <1>7, <2>1 DEF Reply
<1>8. CASE \E r \in Repos : CancelStart(c, r)
  <2>1. PICK r \in Repos : CancelStart(c, r)
    BY <1>8
  <2>2. ASSUME NEW j, NEW pc \in {"cancelQueued", "cancelRunning", "refuse"},
               client' = [client EXCEPT ![c] =
                 [IdleClient EXCEPT !.op = "cancel", !.repo = r, !.job = j, !.pc = pc]]
        PROVE  ClientStep
    <3> DEFINE st == [IdleClient EXCEPT !.op = "cancel", !.repo = r, !.job = j, !.pc = pc]
    <3>1. st.rec = "gone" /\ st.pc = pc
      BY DEF IdleClient
    <3> HIDE DEF st
    <3>2. client' = [client EXCEPT ![c] = st]
      BY <2>2 DEF st
    <3> QED BY <1>4, <3>1, <3>2
  <2>3. CASE client' = [client EXCEPT ![c] =
                 [IdleClient EXCEPT !.pc = "reply", !.op = "cancel",
                                    !.repo = r, !.result = "conflict"]]
    <3> DEFINE st == [IdleClient EXCEPT !.pc = "reply", !.op = "cancel",
                                        !.repo = r, !.result = "conflict"]
    <3>1. st.rec = "gone" /\ st.pc = "reply"
      BY DEF IdleClient
    <3> HIDE DEF st
    <3>2. client' = [client EXCEPT ![c] = st]
      BY <2>3 DEF st
    <3> QED BY <1>4, <3>1, <3>2
  <2> QED BY <2>1, <2>2, <2>3 DEF CancelStart
<1> QED BY <1>5, <1>6, <1>7, <1>8

\* The requests that find a sealed snapshot.
LEMMA FindAsks ==
    ASSUME JobInv, NEW c \in Clients, RequestFind(c) \/ SubmitReread(c)
    PROVE  Asks
<1>1. /\ UNCHANGED <<jobs, snaps, record, worker>> /\ TypeOK /\ client[c].pc # "idle"
      /\ client[c] \in ClientState /\ client[c].repo \in Repos
  BY RequestFacts DEF RequestFind, SubmitReread, JobInv
<1> SUFFICES ClientStep
  BY <1>1, LocalAsks
<1>2. CASE \E result, status : Answer(c, result, status)
  BY <1>1, <1>2, AnswerStep
<1>3. CASE client' = [client EXCEPT ![c].pc = "active"]
  <2> DEFINE st == [client[c] EXCEPT !.pc = "active"]
  <2>1. st.rec = client[c].rec /\ st.repo = client[c].repo /\ st.pc = "active"
    BY <1>1 DEF ClientState
  <2>2. client' = [client EXCEPT ![c] = st]
    BY <1>3
  <2> HIDE DEF st
  <2> QED BY <1>1, <2>1, <2>2, OnStep
<1>4. ASSUME NEW s \in Sealed(client[c].repo), NEW j \in Jobs, jobs[j].snap = s,
             client' = [client EXCEPT ![c].pc = "reconcile", ![c].job = j,
                                      ![c].snap = s, ![c].row = jobs[j]]
      PROVE  ClientStep
  <2> DEFINE st == [client[c] EXCEPT !.pc = "reconcile", !.job = j, !.snap = s,
                                     !.row = jobs[j]]
  <2>1. st.rec = client[c].rec /\ st.repo = client[c].repo /\ st.job = j
    BY <1>1 DEF ClientState
  <2>2. client' = [client EXCEPT ![c] = st]
    BY <1>4
  <2>3. jobs[j].status # "deleted"
    BY <1>1, <1>4, SealedSnaps, PointsAtSnapshot
  <2> HIDE DEF st
  <2> QED BY <1>1, <2>1, <2>2, <2>3, OnStep
<1>5. ASSUME NEW s, NEW j \in EffectiveJobs(client[c].repo),
             client' = [client EXCEPT ![c].pc = "reconcile", ![c].job = j,
                                      ![c].snap = s, ![c].row = jobs[j],
                                      ![c].rec = record[client[c].repo]]
      PROVE  ClientStep
  <2> DEFINE st == [client[c] EXCEPT !.pc = "reconcile", !.job = j, !.snap = s,
                                     !.row = jobs[j], !.rec = record[client[c].repo]]
  <2>1. st.rec = record[client[c].repo] /\ st.repo = client[c].repo /\ st.job = j
    BY <1>1 DEF ClientState
  <2>2. client' = [client EXCEPT ![c] = st]
    BY <1>5
  <2>3. jobs[j].status # "deleted"
    BY <1>5 DEF EffectiveJobs, Effective
  <2> HIDE DEF st
  <2> QED BY <1>1, <2>1, <2>2, <2>3, OnStep
<1> QED BY <1>2, <1>3, <1>4, <1>5 DEF RequestFind, SubmitReread

\* The insert of a job.
LEMMA SubmitInsertAsks ==
    ASSUME JobInv, NEW c \in Clients, SubmitInsert(c)
    PROVE  Asks
<1>1. UNCHANGED <<snaps, worker>> /\ TypeOK /\ client[c].pc = "insert"
  BY DEF SubmitInsert, JobInv
<1>2. PICK r \in Repos : r = client[c].repo
  BY <1>1, RequestFacts
<1>3. /\ record[r] # "gone" /\ EffectiveJobs(r) = {} /\ Answer(c, "ok", "queued")
      /\ record' = [record EXCEPT ![r] = Flushed(record[r], client[c].rec, "analysing")]
  BY <1>2 DEF SubmitInsert
<1>4. PICK j \in Jobs : NextJob(j) /\ jobs' = [jobs EXCEPT ![j] = QueuedRow(r)]
  BY <1>2 DEF SubmitInsert
<1> DEFINE new == QueuedRow(r)
<1>5. new.status = "queued" /\ new.repo = r /\ new.attempt = 0 /\ new.cancel = FALSE
  BY DEF QueuedRow, NoRow
<1>6. jobs'[j] = new /\ OthersKept(j) /\ \A k \in Jobs : k # j => jobs'[k] = jobs[k]
  BY <1>1, <1>4, RowWritten
<1> HIDE DEF new
<1>7. record'[r] \in {record[r], "analysing"} /\ OtherRecords(r)
  BY <1>1, <1>3 DEF TypeOK, Flushed, OtherRecords
<1>8. SealsKept /\ SealStays
  BY <1>1, NoSnapWritten
<1>9. Submitted(j, r)
  BY <1>3, <1>4, <1>5, <1>6, <1>7, <1>8 DEF Submitted, NextJob
<1>10. Tenure(None)
  BY <1>5, <1>6, RowTenure
<1>11. ClientStep
  BY <1>1, <1>3, AnswerStep
<1> QED BY <1>1, <1>8, <1>9, <1>10, <1>11 DEF Asks, Effect

\* The guarded update of a queued row.
LEMMA CancelQueuedAsks ==
    ASSUME JobInv, NEW c \in Clients, CancelQueued(c)
    PROVE  Asks
<1>1. UNCHANGED <<snaps, worker>> /\ TypeOK /\ client[c].pc = "cancelQueued"
  BY DEF CancelQueued, JobInv
<1>2. client[c] \in ClientState /\ client[c].repo \in Repos
  BY <1>1, RequestFacts
<1>3. PICK j \in Jobs : /\ j = client[c].job /\ jobs[j] \in JobRow
                        /\ jobs[j].repo = client[c].repo \/ jobs[j].status = "deleted"
  BY <1>1 DEF JobInv, ClientOK, TypeOK
<1>4. SealsKept /\ SealStays
  BY <1>1, NoSnapWritten
<1>5. CASE jobs[j].status # "queued"
  <2> DEFINE st == [client[c] EXCEPT !.pc = "reloadQueued"]
  <2>1. st.rec = client[c].rec /\ st.repo = client[c].repo /\ st.pc = "reloadQueued"
    BY <1>2 DEF ClientState
  <2>2. client' = [client EXCEPT ![c] = st] /\ UNCHANGED <<jobs, record>>
    BY <1>3, <1>5 DEF CancelQueued
  <2> HIDE DEF st
  <2>3. ClientStep
    BY <1>1, <2>1, <2>2, OnStep
  <2> QED BY <1>1, <2>2, <2>3, LocalAsks
<1>6. CASE jobs[j].status = "queued"
  <2> DEFINE new == WithdrawnRow(jobs[j])
  <2>1. /\ jobs' = [jobs EXCEPT ![j] = new] /\ Answer(c, "ok", "cancelled")
        /\ record' = [record EXCEPT ![jobs[j].repo] = "cancelled"]
    BY <1>3, <1>6 DEF CancelQueued
  <2>2. /\ new.status = "cancelled" /\ new.repo = jobs[j].repo
        /\ new.attempt = jobs[j].attempt
    BY <1>3 DEF WithdrawnRow, Released, JobRow
  <2>3. jobs'[j] = new /\ OthersKept(j) /\ \A k \in Jobs : k # j => jobs'[k] = jobs[k]
    BY <1>1, <2>1, RowWritten
  <2> HIDE DEF new
  <2>4. record'[jobs[j].repo] = "cancelled" /\ OtherRecords(jobs[j].repo)
    BY <1>1, <1>2, <1>3, <1>6, <2>1 DEF TypeOK, OtherRecords
  <2>5. Withdrawn(j)
    BY <1>4, <1>6, <2>2, <2>3, <2>4 DEF Withdrawn, Ended, RecordStatusOf
  <2>6. Tenure(None)
    BY <2>2, <2>3, RowTenure
  <2>7. ClientStep
    BY <1>1, <2>1, AnswerStep
  <2> QED BY <1>1, <1>4, <2>5, <2>6, <2>7 DEF Asks, Effect
<1> QED BY <1>5, <1>6

\* The cancel that asks a running owner.
LEMMA CancelRunningAsks ==
    ASSUME JobInv, NEW c \in Clients, CancelRunning(c)
    PROVE  Asks
<1>1. UNCHANGED <<snaps, record, worker>> /\ TypeOK /\ client[c].pc = "cancelRunning"
  BY DEF CancelRunning, JobInv
<1>2. client[c] \in ClientState /\ client[c].repo \in Repos
  BY <1>1, RequestFacts
<1>3. PICK j \in Jobs : j = client[c].job /\ jobs[j] \in JobRow
  BY <1>1 DEF JobInv, ClientOK, TypeOK
<1>4. SealsKept /\ SealStays
  BY <1>1, NoSnapWritten
<1>5. CASE jobs[j].status # "running"
  <2> DEFINE st == [client[c] EXCEPT !.pc = "refuse"]
  <2>1. st.rec = client[c].rec /\ st.repo = client[c].repo /\ st.pc = "refuse"
    BY <1>2 DEF ClientState
  <2>2. client' = [client EXCEPT ![c] = st] /\ UNCHANGED jobs
    BY <1>3, <1>5 DEF CancelRunning
  <2> HIDE DEF st
  <2>3. ClientStep
    BY <1>1, <2>1, <2>2, OnStep
  <2> QED BY <1>1, <2>2, <2>3, LocalAsks
<1>6. CASE jobs[j].status = "running"
  <2> DEFINE new == [jobs[j] EXCEPT !.cancel = TRUE]
  <2>1. /\ jobs' = [jobs EXCEPT ![j] = new] /\ Answer(c, "ok", "running")
    BY <1>3, <1>6 DEF CancelRunning
  <2>2. /\ new.status = "running" /\ new.repo = jobs[j].repo
        /\ new.attempt = jobs[j].attempt /\ new.cancel = TRUE
        /\ new.worker = jobs[j].worker /\ new.lease = jobs[j].lease
    BY <1>3, <1>6 DEF JobRow
  <2>3. jobs'[j] = new /\ OthersKept(j) /\ \A k \in Jobs : k # j => jobs'[k] = jobs[k]
    BY <1>1, <2>1, RowWritten
  <2> HIDE DEF new
  <2>4. CancelAsked(j)
    BY <1>1, <1>4, <1>6, <2>2, <2>3 DEF CancelAsked
  <2>5. Tenure(None)
    BY <1>6, <2>2, <2>3, RowTenure
  <2>6. ClientStep
    BY <1>1, <2>1, AnswerStep
  <2> QED BY <1>1, <1>4, <2>4, <2>5, <2>6 DEF Asks, Effect
<1> QED BY <1>5, <1>6

\* The columns a reconciliation flushes.
LEMMA ReconciledFields ==
    ASSUME NEW row \in JobRow, NEW old, NEW s
    PROVE  LET new == ReconciledRow(row, old, s) IN
           /\ new.repo = row.repo /\ new.attempt = row.attempt
           /\ new.status = Flushed(row.status, old.status, "completed")
BY DEF ReconciledRow, JobRow

\* The unguarded completion by a request: it completes a running job with its
\* repository row, or finds both completed.
LEMMA ReconcileAsks ==
    ASSUME JobInv, OrderInv, NEW c \in Clients, Reconcile(c)
    PROVE  Asks
<1>1. UNCHANGED <<snaps, worker>> /\ TypeOK /\ client[c].pc = "reconcile"
  BY DEF Reconcile, JobInv
<1>2. client[c] \in ClientState /\ client[c].repo \in Repos /\ ClientOK(c)
  BY <1>1, RequestFacts DEF JobInv
<1>3. PICK j \in Jobs : j = client[c].job /\ jobs[j] \in JobRow
  BY <1>1, <1>2 DEF ClientOK, TypeOK
<1>4. PICK r \in Repos : r = client[c].repo
  BY <1>2
<1>5. SealsKept /\ SealStays
  BY <1>1, NoSnapWritten
<1> DEFINE new == ReconciledRow(jobs[j], client[c].row, client[c].snap)
           rs == Flushed(record[r], client[c].rec, "completed")
<1>6. CASE UNCHANGED <<jobs, record>> /\ \E result, status : Answer(c, result, status)
  BY <1>1, <1>6, AnswerStep, LocalAsks
<1>7. CASE /\ jobs[j].status # "deleted" /\ jobs' = [jobs EXCEPT ![j] = new]
           /\ record' = [record EXCEPT ![r] = rs] /\ Answer(c, "ok", new.status)
  <2>1. /\ jobs[j].repo = r /\ jobs[j].snap = client[c].snap
        /\ SnapState(jobs[j].snap) = "completed"
        /\ client[c].row.status # "running" =>
             client[c].row.status = "completed" /\ jobs[j].status = "completed"
    BY <1>1, <1>2, <1>3, <1>4, <1>7 DEF ClientOK
  <2>2. jobs[j].snap # None
    BY <2>1 DEF SnapState
  <2>3. jobs[j].status \in {"running", "completed"}
    <3>1. PICK a \in Attempts : jobs[j].snap = <<j, a>>
      BY <2>2, OwnSnapshot
    <3>2. snaps[<<j, a>>].state = "completed"
      BY <2>1, <2>2, <3>1 DEF SnapState
    <3> QED BY <3>2, LiveSnapshot
  <2>4. new.repo = jobs[j].repo /\ new.attempt = jobs[j].attempt /\ new.status = "completed"
    BY <1>3, <2>1, ReconciledFields DEF Flushed
  <2>5. ClientStep
    BY <1>1, <1>7, AnswerStep
  <2> HIDE DEF new
  <2>6. jobs'[j] = new /\ OthersKept(j) /\ \A k \in Jobs : k # j => jobs'[k] = jobs[k]
    BY <1>1, <1>7, RowWritten
  <2>7. Tenure(None)
    BY <2>4, <2>6, RowTenure
  <2>8. record'[r] = rs /\ OtherRecords(r)
    BY <1>1, <1>7 DEF TypeOK, OtherRecords
  <2>9. record[r] # "gone"
    BY <2>1, <2>3, LiveRepo
  <2>10. CASE jobs[j].status = "running"
    <3>1. ~HasCompleted(r)
      BY <2>1, <2>10 DEF HasCompleted, JobInv, OneEffective, Effective
    <3>2. client[c].rec # "completed"
      BY <1>1, <1>4, <2>9, <3>1 DEF OrderInv, CompletedRecord
    <3>3. rs = "completed"
      BY <3>2 DEF Flushed
    <3>4. Completed(j)
      BY <1>5, <2>1, <2>4, <2>6, <2>8, <2>10, <3>3
         DEF Completed, Ended, RecordStatusOf
    <3> QED BY <1>1, <1>5, <2>5, <2>7, <3>4 DEF Asks, Effect
  <2>11. CASE jobs[j].status = "completed"
    <3>1. \A k \in JobsOf(r) : k <= j
      BY <2>1, <2>11 DEF JobsOf, OrderInv, EffectiveIsLatest, Effective
    <3>2. record[r] = "completed"
      BY <2>1, <2>11, <3>1 DEF OrderInv, RecordAgrees, RecordStatusOf, Terminal, JobsOf
    <3>3. rs = record[r]
      BY <3>2 DEF Flushed
    <3>4. \A q \in Repos : record'[q] = record[q]
      BY <2>8, <3>3 DEF OtherRecords
    <3>5. \A k \in Jobs : Kept(k)
      BY <2>4, <2>6, <2>11 DEF OthersKept, Kept, Active
    <3>6. Quiet
      BY <1>5, <3>4, <3>5 DEF Quiet
    <3> QED BY <1>1, <1>5, <2>5, <2>7, <3>6 DEF Asks, Effect
  <2> QED BY <2>3, <2>10, <2>11
<1> QED BY <1>3, <1>4, <1>6, <1>7 DEF Reconcile

\* Deletion takes jobs and snapshots along.
LEMMA DeleteAsks ==
    ASSUME JobInv, NEW r \in Repos, DeleteRepository(r)
    PROVE  Asks
<1>1. /\ record' = [record EXCEPT ![r] = "gone"] /\ UNCHANGED <<worker, client>> /\ TypeOK
      /\ jobs' = [j \in Jobs |-> IF jobs[j].repo = r THEN [NoRow EXCEPT !.status = "deleted"]
                                 ELSE jobs[j]]
      /\ snaps' = [s \in Snaps |-> IF jobs[s[1]].repo = r THEN NoSnapshot ELSE snaps[s]]
  BY DEF DeleteRepository, JobInv
<1>2. \A k \in Jobs : /\ jobs[k].repo = r => jobs'[k] = [NoRow EXCEPT !.status = "deleted"]
                      /\ jobs[k].repo # r => jobs'[k] = jobs[k]
  BY <1>1
<1>3. \A s \in Snaps : /\ jobs[s[1]].repo = r => snaps'[s] = NoSnapshot
                       /\ jobs[s[1]].repo # r => snaps'[s] = snaps[s]
  BY <1>1
<1>4. NoSnapshot.state = "none"
  BY DEF NoSnapshot
<1>5. Deleted(r)
  <2>1. \A s \in Snaps : snaps'[s].state = "completed" <=>
                            snaps[s].state = "completed" /\ jobs[s[1]].repo # r
    BY <1>3, <1>4
  <2>2. record'[r] = "gone" /\ OtherRecords(r)
    BY <1>1 DEF TypeOK, OtherRecords
  <2> QED BY <1>2, <2>1, <2>2 DEF Deleted, Kept
<1>6. [NoRow EXCEPT !.status = "deleted"].status = "deleted"
  BY DEF NoRow
<1>7. Tenure(None)
  BY <1>2, <1>6 DEF Tenure
<1>8. SealStays /\ ClientStep
  BY <1>1, <1>3 DEF SealStays, ClientStep
<1> QED BY <1>1, <1>5, <1>7, <1>8 DEF Asks, Effect

\* Time writes rows, but nothing a user can see.
LEMMA TimeAsks ==
    ASSUME JobInv, NEW j \in Jobs, LeaseLapse(j) \/ BackoffElapse(j)
    PROVE  Asks
<1>1. UNCHANGED <<snaps, record, worker, client>> /\ TypeOK /\ jobs[j] \in JobRow
  BY DEF LeaseLapse, BackoffElapse, JobInv, TypeOK
<1>2. /\ \A k \in Jobs : k # j => jobs'[k] = jobs[k]
      /\ jobs'[j].status = jobs[j].status /\ jobs'[j].repo = jobs[j].repo
      /\ jobs'[j].attempt = jobs[j].attempt /\ jobs'[j].cancel = jobs[j].cancel
      /\ jobs'[j].worker = jobs[j].worker /\ jobs'[j].lease = jobs[j].lease
  BY <1>1 DEF LeaseLapse, BackoffElapse, TypeOK, JobRow
<1>3. \A k \in Jobs : Kept(k)
  BY <1>2 DEF Kept
<1>4. SealsKept /\ SealStays
  BY <1>1, NoSnapWritten
<1>5. Quiet
  BY <1>1, <1>3, <1>4 DEF Quiet
<1>6. Tenure(None)
  BY <1>2, RowTenure
<1>7. ClientStep
  BY <1>1 DEF ClientStep
<1> QED BY <1>1, <1>4, <1>5, <1>6, <1>7 DEF Asks, Effect

-----------------------------------------------------------------------------
(* The invariants                                                          *)

\* Workers that did not act keep what they know of the cancel flag.
LEMMA TenureCancel ==
    ASSUME JobInv, CancelInv, NEW w, Tenure(w), NEW v \in Workers, v # w,
           worker'[v] = worker[v]
    PROVE  CancelOK(v)'
<1> DEFINE j == worker[v].job
           row == worker[v].row
<1>1. CancelOK(v) /\ WorkerOK(v) /\ row.lease # FreshInstant
  BY FreshInstantType DEF CancelInv, JobInv
<1>2. CASE worker[v].pc = "idle"
  BY <1>1, <1>2 DEF CancelOK
<1>3. CASE worker[v].pc # "idle"
  <2>1. j \in Jobs
    BY <1>1, <1>3 DEF WorkerOK
  <2>2. jobs'[j].status = "running" /\ jobs'[j].worker = v
          => Owns(v, j) /\ (jobs[j].cancel => jobs'[j].cancel)
    BY <2>1 DEF Tenure, Owns
  <2>3. jobs'[j].status = "running" /\ jobs'[j].worker = row.worker /\ jobs'[j].lease = row.lease
          => /\ jobs[j].status = "running" /\ jobs[j].worker = row.worker
             /\ jobs[j].lease = row.lease /\ (jobs[j].cancel => jobs'[j].cancel)
    BY <1>1, <2>1 DEF Tenure
  <2> QED BY <1>1, <2>2, <2>3 DEF CancelOK, Owns
<1> QED BY <1>2, <1>3

\* Every step has an effect, and every worker knows what it must afterwards.
LEMMA StepEffect ==
    ASSUME JobInv, CancelInv, OrderInv, Next
    PROVE  Effect /\ SealStays /\ ClientStep /\ CancelInv'
<1>1. ASSUME Asks PROVE Effect /\ SealStays /\ ClientStep /\ CancelInv'
  <2>1. Tenure(None) /\ UNCHANGED worker
    BY <1>1 DEF Asks
  <2>2. ASSUME NEW v \in Workers PROVE CancelOK(v)'
    BY <2>1, NoneAssumption, TenureCancel
  <2> QED BY <1>1, <2>2 DEF Asks, CancelInv
<1>2. ASSUME NEW w \in Workers, Work(w) \/ Poll(w) \/ Heartbeat(w) \/ Crash(w)
      PROVE  Effect /\ SealStays /\ ClientStep /\ CancelInv'
  <2>1. Acts(w) /\ UNCHANGED client
    BY <1>2, WorkerActs
  <2>2. ASSUME NEW v \in Workers PROVE CancelOK(v)'
    <3>1. CASE v = w
      BY <2>1, <3>1 DEF Acts
    <3>2. CASE v # w
      BY <2>1, <3>2, TenureCancel DEF Acts, OthersIdle
    <3> QED BY <3>1, <3>2
  <2> QED BY <2>1, <2>2 DEF Acts, CancelInv, ClientStep
<1>3. ASSUME NEW c \in Clients, Request(c) PROVE Asks
  BY <1>3, ReadAsks, FindAsks, SubmitInsertAsks, CancelQueuedAsks, CancelRunningAsks,
     ReconcileAsks DEF Request
<1>4. CASE Deploy
  <2>1. /\ UNCHANGED <<jobs, snaps, record>> /\ worker' = [w \in Workers |-> IdleWorker]
        /\ client' = [c \in Clients |-> IdleClient]
    BY <1>4 DEF Deploy
  <2>2. CancelInv'
    BY <2>1 DEF CancelInv, CancelOK, IdleWorker
  <2>3. ClientStep
    BY <2>1 DEF ClientStep, IdleClient
  <2> QED BY <2>1, <2>2, <2>3, LocalEffect, NoSnapWritten
<1> QED BY <1>1, <1>2, <1>3, <1>4, DeleteAsks, TimeAsks DEF Next

\* Rows and records of a repository that the step leaves alone.
Untouched(r) ==
    /\ record'[r] = record[r]
    /\ \A k \in Jobs : /\ jobs'[k].repo = r <=> jobs[k].repo = r
                       /\ jobs[k].repo = r => jobs'[k].status = jobs[k].status

\* RecordAgrees, for one repository.
AgreesAt(r) ==
    \A j \in Jobs :
        /\ jobs[j].repo = r
        /\ \A k \in Jobs : jobs[k].repo = r => k <= j
        /\ jobs[j].status \in Terminal
        => record[r] = RecordStatusOf(jobs[j].status)

LEMMA RecordAgreesAt == RecordAgrees <=> \A r \in Repos : AgreesAt(r)
BY DEF RecordAgrees, AgreesAt, JobsOf

\* What the order of rows and the records have to do with each other.
RowsInv ==
    /\ UsedInOrder /\ EffectiveIsLatest
    /\ \A r \in Repos : AgreesAt(r) /\ (record[r] = "completed" => HasCompleted(r))

LEMMA UntouchedKeeps ==
    ASSUME NEW r \in Repos, Untouched(r), AgreesAt(r),
           record[r] = "completed" => HasCompleted(r)
    PROVE  AgreesAt(r)' /\ (record[r] = "completed" => HasCompleted(r))'
<1>1. AgreesAt(r)'
  BY DEF Untouched, AgreesAt
<1>2. (record[r] = "completed" => HasCompleted(r))'
  BY DEF Untouched, HasCompleted
<1> QED BY <1>1, <1>2

\* The status of one row changes, and its repository row with it.
LEMMA StatusChange ==
    ASSUME JobInv, RowsInv, NEW j \in Jobs, OthersKept(j), jobs'[j].repo = jobs[j].repo,
           jobs[j].status \in Active,
           jobs'[j].status \in {"queued", "running", "completed", "failed", "cancelled"},
           OtherRecords(jobs[j].repo),
           jobs'[j].status \in Terminal => record'[jobs[j].repo] = RecordStatusOf(jobs'[j].status),
           jobs'[j].status \in Active =>
             record'[jobs[j].repo] \in {record[jobs[j].repo], "analysing"}
    PROVE  RowsInv'
<1> DEFINE q == jobs[j].repo
<1>1. /\ \A k \in Jobs : jobs'[k].repo = jobs[k].repo
      /\ \A k \in Jobs : k # j => jobs'[k].status = jobs[k].status
      /\ jobs[j].status \in Effective /\ jobs[j].status # "unused"
  BY DEF OthersKept, Kept, Active, Effective
<1>2. q \in Repos
  BY LiveRepo DEF Active
<1>3. \A k \in Jobs : jobs[k].repo = q => k <= j
  BY <1>1 DEF RowsInv, EffectiveIsLatest
<1>4. UsedInOrder'
  BY <1>1 DEF RowsInv, UsedInOrder
<1>5. EffectiveIsLatest'
  BY <1>1 DEF RowsInv, EffectiveIsLatest
<1>6. ASSUME NEW r \in Repos, r # q
      PROVE  AgreesAt(r)' /\ (record[r] = "completed" => HasCompleted(r))'
  <2>1. Untouched(r)
    BY <1>1, <1>6 DEF Untouched, OtherRecords
  <2> QED BY <2>1, UntouchedKeeps DEF RowsInv
<1>7. AgreesAt(q)'
  <2>1. ASSUME NEW i \in Jobs, jobs'[i].repo = q, \A k \in Jobs : jobs'[k].repo = q => k <= i,
               jobs'[i].status \in Terminal
        PROVE  record'[q] = RecordStatusOf(jobs'[i].status)
    <3>1. i = j
      BY <1>1, <1>3, <2>1 DEF Jobs
    <3> QED BY <2>1, <3>1
  <2> QED BY <2>1 DEF AgreesAt
<1>8. (record[q] = "completed" => HasCompleted(q))'
  <2>1. ~HasCompleted(q)
    <3>1. ASSUME NEW k \in Jobs, jobs[k].repo = q, jobs[k].status = "completed" PROVE FALSE
      BY <1>1, <3>1 DEF JobInv, OneEffective, Effective, Active
    <3> QED BY <3>1 DEF HasCompleted
  <2>2. record[q] # "completed"
    BY <1>2, <2>1 DEF RowsInv
  <2>3. CASE jobs'[j].status \in Active
    BY <2>2, <2>3
  <2>4. CASE jobs'[j].status \in {"failed", "cancelled"}
    BY <2>4 DEF Terminal, RecordStatusOf
  <2>5. CASE jobs'[j].status = "completed"
    BY <2>5 DEF HasCompleted
  <2> QED BY <2>3, <2>4, <2>5 DEF Active
<1> QED BY <1>4, <1>5, <1>6, <1>7, <1>8 DEF RowsInv

\* A step that leaves every status alone.
LEMMA KeptStatuses ==
    ASSUME RowsInv, \A k \in Jobs : Kept(k),
           \A r \in Repos :
             \/ record'[r] = record[r]
             \/ /\ record'[r] = "analysing"
                /\ \E k \in Jobs : jobs[k].repo = r /\ jobs[k].status = "running"
    PROVE  RowsInv'
<1>1. \A k \in Jobs : jobs'[k].repo = jobs[k].repo /\ jobs'[k].status = jobs[k].status
  BY DEF Kept
<1>2. UsedInOrder' /\ EffectiveIsLatest'
  BY <1>1 DEF RowsInv, UsedInOrder, EffectiveIsLatest
<1>3. ASSUME NEW r \in Repos
      PROVE  AgreesAt(r)' /\ (record[r] = "completed" => HasCompleted(r))'
  <2>1. CASE record'[r] = record[r]
    BY <1>1, <2>1, UntouchedKeeps DEF Untouched, RowsInv
  <2>2. CASE /\ record'[r] = "analysing"
             /\ \E k \in Jobs : jobs[k].repo = r /\ jobs[k].status = "running"
    <3>1. PICK k \in Jobs : jobs[k].repo = r /\ jobs[k].status = "running"
      BY <2>2
    <3>2. ASSUME NEW i \in Jobs, jobs'[i].repo = r, \A n \in Jobs : jobs'[n].repo = r => n <= i,
                 jobs'[i].status \in Terminal
          PROVE  FALSE
      <4>1. i <= k /\ k <= i
        BY <1>1, <3>1, <3>2 DEF RowsInv, EffectiveIsLatest, Effective
      <4>2. i = k
        BY <4>1 DEF Jobs
      <4> QED BY <1>1, <3>1, <3>2, <4>2 DEF Terminal
    <3> QED BY <2>2, <3>2 DEF AgreesAt
  <2> QED BY <2>1, <2>2
<1> QED BY <1>2, <1>3 DEF RowsInv

LEMMA SubmittedRows ==
    ASSUME JobInv, RowsInv, NEW j \in Jobs, NEW r \in Repos, Submitted(j, r)
    PROVE  RowsInv'
<1>1. /\ \A k \in Jobs : k # j => jobs'[k].repo = jobs[k].repo /\ jobs'[k].status = jobs[k].status
      /\ jobs'[j].repo = r /\ jobs'[j].status = "queued" /\ jobs[j].status = "unused"
      /\ \A k \in Jobs : k < j => jobs[k].status # "unused"
  BY DEF Submitted, OthersKept, Kept
<1>2. \A k \in Jobs : jobs[k].status = "unused" => jobs[k].repo = None
  BY DEF JobInv, RowOK
<1>3. \A k \in Jobs : jobs[k].repo # None => k < j
  <2>1. ASSUME NEW k \in Jobs, jobs[k].repo # None, k > j PROVE FALSE
    BY <1>1, <1>2, <2>1 DEF RowsInv, UsedInOrder
  <2> QED BY <1>1, <1>2, <2>1 DEF Jobs
<1>4. UsedInOrder'
  BY <1>1 DEF RowsInv, UsedInOrder
<1>5. EffectiveIsLatest'
  <2>1. ASSUME NEW i \in Jobs, NEW k \in Jobs, jobs'[i].status \in Effective,
               jobs'[k].repo = jobs'[i].repo
        PROVE  k <= i
    <3>1. CASE i = j
      BY <1>1, <1>3, <2>1, <3>1, NoneAssumption DEF Jobs
    <3>2. CASE i # j /\ k = j
      <4>1. jobs[i].repo = r /\ jobs[i].status \in Effective
        BY <1>1, <2>1, <3>2
      <4> QED BY <4>1 DEF Submitted, EffectiveJobs, JobsOf
    <3>3. CASE i # j /\ k # j
      BY <1>1, <2>1, <3>3 DEF RowsInv, EffectiveIsLatest
    <3> QED BY <3>1, <3>2, <3>3
  <2> QED BY <2>1 DEF EffectiveIsLatest
<1>6. ASSUME NEW q \in Repos, q # r
      PROVE  AgreesAt(q)' /\ (record[q] = "completed" => HasCompleted(q))'
  <2>1. Untouched(q)
    BY <1>1, <1>2, <1>6, NoneAssumption DEF Untouched, Submitted, OtherRecords
  <2> QED BY <2>1, UntouchedKeeps DEF RowsInv
<1>7. AgreesAt(r)'
  <2>1. ASSUME NEW i \in Jobs, jobs'[i].repo = r, \A k \in Jobs : jobs'[k].repo = r => k <= i,
               jobs'[i].status \in Terminal
        PROVE  FALSE
    <3>1. i # j /\ j <= i
      BY <1>1, <2>1 DEF Terminal
    <3>2. jobs[i].repo = r
      BY <1>1, <2>1, <3>1
    <3> QED BY <1>3, <3>1, <3>2, NoneAssumption DEF Jobs
  <2> QED BY <2>1 DEF AgreesAt
<1>8. record[r] # "completed"
  BY DEF RowsInv, HasCompleted, Submitted, EffectiveJobs, JobsOf, Effective
<1>9. record'[r] # "completed"
  BY <1>8 DEF Submitted
<1> QED BY <1>4, <1>5, <1>6, <1>7, <1>9 DEF RowsInv

LEMMA DeletedRows ==
    ASSUME JobInv, RowsInv, NEW r \in Repos, Deleted(r)
    PROVE  RowsInv'
<1>1. /\ [NoRow EXCEPT !.status = "deleted"].status = "deleted"
      /\ [NoRow EXCEPT !.status = "deleted"].repo = None
  BY DEF NoRow
<1>2. \A k \in Jobs :
        /\ jobs[k].repo = r => jobs'[k].status = "deleted" /\ jobs'[k].repo = None
        /\ jobs[k].repo # r => jobs'[k].status = jobs[k].status /\ jobs'[k].repo = jobs[k].repo
  BY <1>1 DEF Deleted, Kept
<1>3. \A k \in Jobs : jobs[k].status = "unused" => jobs[k].repo = None
  BY DEF JobInv, RowOK
<1>4. UsedInOrder'
  BY <1>2, <1>3, NoneAssumption DEF RowsInv, UsedInOrder
<1>5. \A k \in Jobs : jobs[k].status \in Effective => jobs[k].repo \in Repos
  BY LiveRepo DEF Effective
<1>6. EffectiveIsLatest'
  BY <1>2, <1>5, NoneAssumption DEF RowsInv, EffectiveIsLatest, Effective
<1>7. ASSUME NEW q \in Repos, q # r
      PROVE  AgreesAt(q)' /\ (record[q] = "completed" => HasCompleted(q))'
  <2>1. Untouched(q)
    BY <1>2, <1>7, NoneAssumption DEF Untouched, Deleted, OtherRecords
  <2> QED BY <2>1, UntouchedKeeps DEF RowsInv
<1>8. \A k \in Jobs : jobs'[k].repo # r
  BY <1>2, NoneAssumption
<1>9. AgreesAt(r)' /\ record'[r] # "completed"
  BY <1>8 DEF AgreesAt, Deleted
<1> QED BY <1>4, <1>6, <1>7, <1>9 DEF RowsInv

\* Every effect keeps the order of rows and the records.
LEMMA EffectRows ==
    ASSUME JobInv, RowsInv, Effect
    PROVE  RowsInv'
<1>1. CASE Quiet
  BY <1>1, KeptStatuses DEF Quiet
<1>2. ASSUME NEW j \in Jobs, NEW r \in Repos, Submitted(j, r) PROVE RowsInv'
  BY <1>2, SubmittedRows
<1>3. ASSUME NEW j \in Jobs, SealedNow(j) PROVE RowsInv'
  BY <1>3, KeptStatuses DEF SealedNow
<1>4. ASSUME NEW j \in Jobs, Claimed(j) \/ CancelAsked(j) PROVE RowsInv'
  <2>1. /\ OthersKept(j) /\ jobs'[j].repo = jobs[j].repo /\ record' = record
        /\ jobs[j].status \in Active /\ jobs'[j].status = "running"
    BY <1>4 DEF Claimed, CancelAsked, Active
  <2> QED BY <2>1, StatusChange DEF OtherRecords, Terminal
<1>5. ASSUME NEW j \in Jobs, NEW from \in Active,
             NEW to \in {"completed", "failed", "cancelled"}, Ended(j, from, to)
      PROVE  RowsInv'
  <2>1. /\ OthersKept(j) /\ jobs'[j].repo = jobs[j].repo /\ OtherRecords(jobs[j].repo)
        /\ jobs[j].status = from /\ jobs'[j].status = to
        /\ record'[jobs[j].repo] = RecordStatusOf(to)
    BY <1>5 DEF Ended
  <2>2. to \notin Active
    BY DEF Active
  <2> QED BY <2>1, <2>2, StatusChange
<1>6. ASSUME NEW j \in Jobs, Withdrawn(j) \/ Completed(j) \/ GivenUp(j) PROVE RowsInv'
  BY <1>5, <1>6 DEF Withdrawn, Completed, GivenUp, Active
<1>7. ASSUME NEW j \in Jobs, Requeued(j) PROVE RowsInv'
  <2>1. /\ OthersKept(j) /\ jobs'[j].repo = jobs[j].repo /\ OtherRecords(jobs[j].repo)
        /\ jobs[j].status \in Active /\ jobs'[j].status = "queued"
        /\ record'[jobs[j].repo] \in {record[jobs[j].repo], "analysing"}
    BY <1>7 DEF Requeued, Active
  <2> QED BY <2>1, StatusChange DEF Terminal
<1>8. ASSUME NEW r \in Repos, Deleted(r) PROVE RowsInv'
  BY <1>8, DeletedRows
<1> QED BY <1>1, <1>2, <1>3, <1>4, <1>6, <1>7, <1>8 DEF Effect

\* Completed jobs stay until their repository is gone, and gone is for good.
LEMMA EffectRecords ==
    ASSUME JobInv, Effect
    PROVE  /\ \A r \in Repos : record[r] = "gone" => record'[r] = "gone"
           /\ \A k \in Jobs : jobs[k].status = "completed" /\ record'[jobs[k].repo] # "gone"
                => jobs'[k].status = "completed" /\ jobs'[k].repo = jobs[k].repo
           /\ \A k \in Jobs : jobs'[k].status = "deleted" /\ jobs[k].status # "deleted"
                => record'[jobs[k].repo] = "gone"
<1> DEFINE Goal == /\ \A r \in Repos : record[r] = "gone" => record'[r] = "gone"
                   /\ \A k \in Jobs : jobs[k].status = "completed" /\ record'[jobs[k].repo] # "gone"
                        => jobs'[k].status = "completed" /\ jobs'[k].repo = jobs[k].repo
                   /\ \A k \in Jobs : jobs'[k].status = "deleted" /\ jobs[k].status # "deleted"
                        => record'[jobs[k].repo] = "gone"
<1>1. ASSUME \A k \in Jobs : Kept(k), \A r \in Repos : record[r] = "gone" => record'[r] = "gone"
      PROVE  Goal
  BY <1>1 DEF Kept
<1>2. ASSUME NEW j \in Jobs, OthersKept(j), jobs[j].status \notin {"completed", "deleted"},
             jobs'[j].status # "deleted",
             \A r \in Repos : record[r] = "gone" => record'[r] = "gone"
      PROVE  Goal
  BY <1>2 DEF OthersKept, Kept
<1>3. CASE Quiet
  BY <1>1, <1>3 DEF Quiet
<1>4. ASSUME NEW j \in Jobs, SealedNow(j) PROVE Goal
  BY <1>1, <1>4 DEF SealedNow
<1>5. ASSUME NEW j \in Jobs, NEW r \in Repos, Submitted(j, r) PROVE Goal
  BY <1>2, <1>5 DEF Submitted, OtherRecords
<1>6. ASSUME NEW j \in Jobs, Claimed(j) \/ CancelAsked(j) PROVE Goal
  BY <1>2, <1>6 DEF Claimed, CancelAsked
<1>7. ASSUME NEW j \in Jobs, Withdrawn(j) \/ Completed(j) \/ GivenUp(j) \/ Requeued(j)
      PROVE  Goal
  <2>1. /\ OthersKept(j) /\ jobs[j].status \in {"queued", "running"}
        /\ jobs'[j].status # "deleted" /\ OtherRecords(jobs[j].repo)
    BY <1>7 DEF Withdrawn, Completed, GivenUp, Requeued, Ended
  <2>2. record[jobs[j].repo] # "gone"
    BY <2>1, LiveRepo
  <2> QED BY <1>2, <2>1, <2>2 DEF OtherRecords
<1>8. ASSUME NEW q \in Repos, Deleted(q) PROVE Goal
  <2>1. \A r \in Repos : record[r] = "gone" => record'[r] = "gone"
    BY <1>8 DEF Deleted, OtherRecords
  <2>2. record'[q] = "gone" /\ \A k \in Jobs : jobs[k].repo # q => Kept(k)
    BY <1>8 DEF Deleted
  <2> QED BY <2>1, <2>2 DEF Kept
<1> QED BY <1>3, <1>4, <1>5, <1>6, <1>7, <1>8 DEF Effect

\* The copies that requests hold.
LEMMA ClientsNext ==
    ASSUME JobInv, JobInv', OrderInv, Effect, ClientStep, RowsInv'
    PROVE  OrderInv'
<1>1. ASSUME NEW r \in Repos, HasCompleted(r), record'[r] # "gone" PROVE HasCompleted(r)'
  <2>1. PICK k \in Jobs : jobs[k].repo = r /\ jobs[k].status = "completed"
    BY <1>1 DEF HasCompleted
  <2>2. jobs'[k].status = "completed" /\ jobs'[k].repo = r
    BY <1>1, <2>1, EffectRecords
  <2> QED BY <2>2 DEF HasCompleted
<1>2. ASSUME NEW c \in Clients, client'[c].pc # "idle", client'[c].rec = "completed",
             record'[client'[c].repo] # "gone"
      PROVE  HasCompleted(client[c].repo)'
  <2>1. PICK r \in Repos : r = client'[c].repo
    BY <1>2 DEF JobInv, ClientOK
  <2>2. record[r] # "gone"
    BY <1>2, <2>1, EffectRecords
  <2>3. HasCompleted(r)
    <3>1. CASE client'[c] = client[c]
      BY <1>2, <2>1, <2>2, <3>1 DEF OrderInv, CompletedRecord
    <3>2. CASE client'[c].rec = client[c].rec /\ client'[c].repo = client[c].repo
               /\ client[c].pc # "idle"
      BY <1>2, <2>1, <2>2, <3>2 DEF OrderInv, CompletedRecord
    <3>3. CASE client'[c].rec = record[client'[c].repo]
      BY <1>2, <2>1, <3>3 DEF OrderInv, CompletedRecord
    <3> QED BY <1>2, <3>1, <3>2, <3>3 DEF ClientStep
  <2>4. HasCompleted(r)'
    BY <1>1, <1>2, <2>1, <2>3
  <2> QED BY <2>1, <2>4 DEF HasCompleted
<1>3. ASSUME NEW c \in Clients, client'[c].pc = "reconcile",
             jobs'[client'[c].job].status = "deleted"
      PROVE  record'[client'[c].repo] = "gone"
  <2>1. PICK j \in Jobs : j = client'[c].job
    BY <1>3 DEF JobInv, ClientOK
  <2>2. CASE client'[c] = client[c]
    <3>1. client[c].repo \in Repos /\ ClientOK(c)
      BY <1>3, <2>2, RequestFacts DEF JobInv
    <3>2. CASE jobs[j].status = "deleted"
      BY <1>3, <2>1, <2>2, <3>1, <3>2, EffectRecords DEF OrderInv, DeletedIsGone
    <3>3. CASE jobs[j].status # "deleted"
      <4>1. jobs[j].repo = client[c].repo
        BY <1>3, <2>1, <2>2, <3>1, <3>3 DEF ClientOK
      <4> QED BY <1>3, <2>1, <2>2, <3>3, <4>1, EffectRecords
    <3> QED BY <3>2, <3>3
  <2> QED BY <1>3, <2>1, <2>2 DEF ClientStep
<1>4. CompletedRecord'
  BY <1>2 DEF CompletedRecord, RowsInv
<1>5. DeletedIsGone'
  BY <1>3 DEF DeletedIsGone
<1>6. RecordAgrees'
  <2>1. \A r \in Repos : AgreesAt(r)'
    BY DEF RowsInv
  <2> QED BY <2>1 DEF RecordAgrees, AgreesAt, JobsOf
<1> QED BY <1>4, <1>5, <1>6 DEF OrderInv, RowsInv

LEMMA OrderRows ==
    ASSUME OrderInv
    PROVE  RowsInv
BY RecordAgreesAt DEF OrderInv, RowsInv, CompletedRecord

LEMMA InitOrder == Init => CancelInv /\ OrderInv
<1> SUFFICES ASSUME Init PROVE CancelInv /\ OrderInv
  OBVIOUS
<1>1. /\ \A j \in Jobs : jobs[j].status = "unused" /\ jobs[j].repo = None
      /\ \A w \in Workers : worker[w].pc = "idle" /\ worker[w].hb = "ok"
      /\ \A c \in Clients : client[c].pc = "idle"
      /\ \A r \in Repos : record[r] = "analysing"
  BY DEF Init, NoRow, IdleWorker, IdleClient
<1>2. CancelInv
  BY <1>1 DEF CancelInv, CancelOK
<1>3. UsedInOrder /\ EffectiveIsLatest /\ CompletedRecord /\ DeletedIsGone
  BY <1>1 DEF UsedInOrder, EffectiveIsLatest, CompletedRecord, DeletedIsGone, Effective
<1>4. RecordAgrees
  BY <1>1 DEF RecordAgrees, Terminal
<1> QED BY <1>2, <1>3, <1>4 DEF OrderInv

\* Everything that is invariant.
FullInv == JobInv /\ CancelInv /\ OrderInv

LEMMA FullNext == FullInv /\ [Next]_vars => FullInv'
<1> SUFFICES ASSUME FullInv, [Next]_vars PROVE FullInv'
  OBVIOUS
<1>1. JobInv'
  BY NextInv DEF FullInv
<1>2. CASE Next
  <2>1. Effect /\ ClientStep /\ CancelInv'
    BY <1>2, StepEffect DEF FullInv
  <2>2. RowsInv'
    BY <2>1, OrderRows, EffectRows DEF FullInv
  <2> QED BY <1>1, <2>1, <2>2, ClientsNext DEF FullInv
<1>3. CASE UNCHANGED vars
  <2>1. CancelInv'
    BY <1>3 DEF vars, FullInv, CancelInv, CancelOK, Owns
  <2>2. UsedInOrder' /\ EffectiveIsLatest' /\ CompletedRecord' /\ DeletedIsGone'
    BY <1>3 DEF vars, FullInv, OrderInv, UsedInOrder, EffectiveIsLatest, CompletedRecord,
                DeletedIsGone, HasCompleted
  <2>3. RecordAgrees'
    BY <1>3 DEF vars, FullInv, OrderInv, RecordAgrees, JobsOf
  <2> QED BY <1>1, <2>1, <2>2, <2>3 DEF FullInv, OrderInv
<1> QED BY <1>2, <1>3

LEMMA FullInvariance == Spec => []FullInv
<1>1. Init => FullInv
  BY InitInv, InitOrder DEF FullInv
<1> QED BY <1>1, FullNext, PTL DEF Spec

\* Once the latest job of a repository has settled, the repository row says
\* so, whichever of worker, sweep, cancel and reconciliation settled it.
THEOREM RecordsAgree == Spec => []RecordAgrees
<1>1. FullInv => RecordAgrees
  BY DEF FullInv, OrderInv
<1> QED BY <1>1, FullInvariance, PTL

\* The unguarded flush of a request's reconciliation meets no other effective
\* job while its repository exists.
THEOREM ReconciliationsDoNotRaise == Spec => []ReconcileNeverRaises
<1>1. FullInv => ReconcileNeverRaises
  <2>1. ASSUME FullInv, NEW c \in Clients, client[c].pc = "reconcile",
               record[client[c].repo] # "gone", NEW k \in EffectiveJobs(client[c].repo)
        PROVE  k = client[c].job
    <3>1. PICK j \in Jobs : j = client[c].job /\ ClientOK(c)
      BY <2>1 DEF FullInv, JobInv, ClientOK
    <3>2. jobs[j].status # "deleted"
      BY <2>1, <3>1 DEF FullInv, OrderInv, DeletedIsGone
    <3>3. /\ jobs[j].repo = client[c].repo /\ SnapState(jobs[j].snap) = "completed"
          /\ jobs[j].snap # None
      BY <2>1, <3>1, <3>2 DEF ClientOK, SnapState
    <3>4. PICK a \in Attempts : jobs[j].snap = <<j, a>>
      BY <2>1, <3>3, OwnSnapshot DEF FullInv
    <3>5. snaps[<<j, a>>].state = "completed"
      BY <3>3, <3>4 DEF SnapState
    <3>6. jobs[j].status \in Effective
      BY <2>1, <3>5, LiveSnapshot DEF FullInv, Effective
    <3> QED BY <2>1, <3>1, <3>3, <3>6 DEF FullInv, JobInv, OneEffective, EffectiveJobs, JobsOf
  <2> QED BY <2>1 DEF ReconcileNeverRaises
<1> QED BY <1>1, FullInvariance, PTL

\* A sealed snapshot never changes until its repository is deleted, although
\* facts are stored, released and purged without an ownership guard.
THEOREM SealedNeverChanges == Spec => SealedIsImmutable
<1>1. FullInv /\ [Next]_vars =>
        [\A s \in Snaps : snaps[s].state = "completed" =>
             snaps'[s] \in {snaps[s], NoSnapshot}]_vars
  BY StepEffect DEF FullInv, SealStays
<1> QED BY <1>1, FullInvariance, PTL DEF Spec, SealedIsImmutable

-----------------------------------------------------------------------------
(* The refinement                                                          *)

\* A job's graph is published while the snapshot its row points at is sealed.
LEMMA PublishedJobs ==
    ASSUME JobInv, NEW j \in Jobs
    PROVE  j \in Published <=> SnapState(jobs[j].snap) = "completed"
<1>1. ASSUME j \in Published PROVE SnapState(jobs[j].snap) = "completed"
  <2>1. PICK a \in Attempts : snaps[<<j, a>>].state = "completed"
    BY <1>1 DEF Published
  <2>2. jobs[j].snap = <<j, a>> /\ <<j, a>> \in Snaps
    BY <2>1, LiveSnapshot DEF Snaps
  <2>3. jobs[j].snap # None
    BY <2>2, NoneAssumption DEF Snaps, Jobs, Attempts
  <2> QED BY <2>1, <2>2, <2>3 DEF SnapState
<1>2. ASSUME SnapState(jobs[j].snap) = "completed" PROVE j \in Published
  <2>1. jobs[j].snap # None /\ snaps[jobs[j].snap].state = "completed"
    BY <1>2 DEF SnapState
  <2>2. PICK a \in Attempts : jobs[j].snap = <<j, a>>
    BY <2>1, OwnSnapshot
  <2> QED BY <2>1, <2>2 DEF Published
<1> QED BY <1>1, <1>2

LEMMA SealsKeptPublished == SealsKept => Published' = Published
BY DEF SealsKept, Published, Snaps

\* The row a user sees.
VisibleCancel(k) == jobs[k].status \in Active /\ jobs[k].cancel

LEMMA VisibleRow ==
    ASSUME NEW k \in Jobs
    PROVE  VisibleJob[k] = [repo |-> jobs[k].repo, phase |-> jobs[k].status,
                            tries |-> jobs[k].attempt, cancel |-> VisibleCancel(k)]
BY DEF VisibleJob, VisibleCancel

LEMMA VisibleRowNext ==
    ASSUME NEW k \in Jobs
    PROVE  VisibleJob'[k] = [repo |-> jobs'[k].repo, phase |-> jobs'[k].status,
                             tries |-> jobs'[k].attempt, cancel |-> VisibleCancel(k)']
BY DEF VisibleJob, VisibleCancel

LEMMA KeptVisible ==
    ASSUME NEW k \in Jobs, Kept(k)
    PROVE  VisibleJob'[k] = VisibleJob[k]
<1>1. VisibleCancel(k)' = VisibleCancel(k)
  BY DEF Kept, VisibleCancel
<1> QED BY <1>1, VisibleRow, VisibleRowNext DEF Kept

\* One visible row changes.
LEMMA VisibleChange ==
    ASSUME NEW j \in Jobs, OthersKept(j), NEW new, VisibleJob'[j] = new
    PROVE  VisibleJob' = [VisibleJob EXCEPT ![j] = new]
<1>1. \A k \in Jobs : k # j => VisibleJob'[k] = VisibleJob[k]
  BY KeptVisible DEF OthersKept
<1>2. VisibleJob = [k \in Jobs |-> VisibleJob[k]] /\ VisibleJob' = [k \in Jobs |-> VisibleJob'[k]]
  BY DEF VisibleJob
<1> HIDE DEF VisibleJob
<1> QED BY <1>1, <1>2

LEMMA VisibleFields ==
    ASSUME NEW k \in Jobs
    PROVE  /\ VisibleJob[k].repo = jobs[k].repo /\ VisibleJob[k].phase = jobs[k].status
           /\ VisibleJob[k].tries = jobs[k].attempt /\ VisibleJob[k].cancel = VisibleCancel(k)
<1>1. PICK b : b = VisibleCancel(k)
  OBVIOUS
<1>2. VisibleJob[k] = [repo |-> jobs[k].repo, phase |-> jobs[k].status,
                       tries |-> jobs[k].attempt, cancel |-> b]
  BY <1>1, VisibleRow
<1> QED BY ONLY <1>1, <1>2

LEMMA VisibleFieldsNext ==
    ASSUME NEW k \in Jobs
    PROVE  /\ VisibleJob'[k].repo = jobs'[k].repo /\ VisibleJob'[k].phase = jobs'[k].status
           /\ VisibleJob'[k].tries = jobs'[k].attempt
           /\ VisibleJob'[k].cancel = VisibleCancel(k)'
<1>1. PICK b : b = VisibleCancel(k)'
  OBVIOUS
<1>2. VisibleJob'[k] = [repo |-> jobs'[k].repo, phase |-> jobs'[k].status,
                        tries |-> jobs'[k].attempt, cancel |-> b]
  BY <1>1, VisibleRowNext
<1> QED BY ONLY <1>1, <1>2

\* Two rows are of one set of records.
LEMMA RecordsOf ==
    ASSUME NEW x, NEW y, NEW r, NEW p, NEW u, NEW c, NEW r2, NEW p2, NEW u2, NEW c2,
           x = [repo |-> r, phase |-> p, tries |-> u, cancel |-> c],
           y = [repo |-> r2, phase |-> p2, tries |-> u2, cancel |-> c2]
    PROVE  \E R, P, T, C :
              /\ x \in [repo : R, phase : P, tries : T, cancel : C]
              /\ y \in [repo : R, phase : P, tries : T, cancel : C]
<1>1. /\ x \in [repo : {r, r2}, phase : {p, p2}, tries : {u, u2}, cancel : {c, c2}]
      /\ y \in [repo : {r, r2}, phase : {p, p2}, tries : {u, u2}, cancel : {c, c2}]
  OBVIOUS
<1> QED BY <1>1, Zenon

\* The visible rows before and after a step are records of the same fields.
LEMMA VisibleRecords ==
    ASSUME NEW k \in Jobs
    PROVE  \E R, P, T, C :
              /\ VisibleJob[k] \in [repo : R, phase : P, tries : T, cancel : C]
              /\ VisibleJob'[k] \in [repo : R, phase : P, tries : T, cancel : C]
<1>1. PICK a, b, x, y, r, p, u, r2, p2, u2 :
        /\ a = VisibleCancel(k) /\ b = VisibleCancel(k)'
        /\ x = VisibleJob[k] /\ y = VisibleJob'[k]
        /\ r = jobs[k].repo /\ p = jobs[k].status /\ u = jobs[k].attempt
        /\ r2 = jobs'[k].repo /\ p2 = jobs'[k].status /\ u2 = jobs'[k].attempt
  BY Zenon
<1>2. /\ x = [repo |-> r, phase |-> p, tries |-> u, cancel |-> a]
      /\ y = [repo |-> r2, phase |-> p2, tries |-> u2, cancel |-> b]
  BY <1>1, VisibleRow, VisibleRowNext
<1>3. \E R, P, T, C :
         /\ x \in [repo : R, phase : P, tries : T, cancel : C]
         /\ y \in [repo : R, phase : P, tries : T, cancel : C]
  BY ONLY <1>2, RecordsOf
<1> QED BY ONLY <1>1, <1>3

\* One visible row changes: its flag and phase, or its phase and tries.
LEMMA VisibleNew ==
    ASSUME NEW j \in Jobs, OthersKept(j), jobs'[j].repo = jobs[j].repo
    PROVE  /\ jobs'[j].attempt = jobs[j].attempt /\ jobs'[j].status = jobs[j].status =>
                VisibleJob' = [VisibleJob EXCEPT ![j] =
                                 [VisibleJob[j] EXCEPT !.cancel = VisibleJob'[j].cancel]]
           /\ jobs'[j].attempt = jobs[j].attempt =>
                VisibleJob' = [VisibleJob EXCEPT ![j] =
                                 [VisibleJob[j] EXCEPT !.phase = VisibleJob'[j].phase,
                                                       !.cancel = VisibleJob'[j].cancel]]
           /\ VisibleJob'[j].cancel = VisibleJob[j].cancel =>
                VisibleJob' = [VisibleJob EXCEPT ![j] =
                                 [VisibleJob[j] EXCEPT !.phase = VisibleJob'[j].phase,
                                                       !.tries = VisibleJob'[j].tries]]
<1>1. PICK R, P, T, C : /\ VisibleJob[j] \in [repo : R, phase : P, tries : T, cancel : C]
                        /\ VisibleJob'[j] \in [repo : R, phase : P, tries : T, cancel : C]
  BY VisibleRecords
<1>2. PICK x, y : x = VisibleJob[j] /\ y = VisibleJob'[j]
  OBVIOUS
<1>3. /\ y.repo = x.repo
      /\ jobs'[j].attempt = jobs[j].attempt => y.tries = x.tries
      /\ jobs'[j].status = jobs[j].status => y.phase = x.phase
  BY <1>2, VisibleFields, VisibleFieldsNext
<1>4. /\ x \in [repo : R, phase : P, tries : T, cancel : C]
      /\ y \in [repo : R, phase : P, tries : T, cancel : C]
  BY <1>1, <1>2
<1>5. y.repo = x.repo /\ y.phase = x.phase /\ y.tries = x.tries
        => y = [x EXCEPT !.cancel = y.cancel]
  BY ONLY <1>4
<1>6. y.repo = x.repo /\ y.tries = x.tries => y = [x EXCEPT !.phase = y.phase, !.cancel = y.cancel]
  BY ONLY <1>4
<1>7. y.repo = x.repo /\ y.cancel = x.cancel => y = [x EXCEPT !.phase = y.phase, !.tries = y.tries]
  BY ONLY <1>4
<1>8. VisibleJob' = [VisibleJob EXCEPT ![j] = y]
  BY <1>2, VisibleChange
<1>9. jobs'[j].attempt = jobs[j].attempt /\ jobs'[j].status = jobs[j].status =>
        VisibleJob' = [VisibleJob EXCEPT ![j] = [x EXCEPT !.cancel = y.cancel]]
  BY ONLY <1>3, <1>5, <1>8, Zenon
<1>10. jobs'[j].attempt = jobs[j].attempt =>
        VisibleJob' = [VisibleJob EXCEPT ![j] = [x EXCEPT !.phase = y.phase, !.cancel = y.cancel]]
  BY ONLY <1>3, <1>6, <1>8, Zenon
<1>11. y.cancel = x.cancel =>
        VisibleJob' = [VisibleJob EXCEPT ![j] = [x EXCEPT !.phase = y.phase, !.tries = y.tries]]
  BY ONLY <1>3, <1>7, <1>8, Zenon
<1> QED BY ONLY <1>2, <1>9, <1>10, <1>11, Zenon

LEMMA QuietPromise ==
    ASSUME \A k \in Jobs : Kept(k)
    PROVE  VisibleJob' = VisibleJob
<1>1. \A k \in Jobs : VisibleJob'[k] = VisibleJob[k]
  BY KeptVisible
<1>2. VisibleJob = [k \in Jobs |-> VisibleJob[k]] /\ VisibleJob' = [k \in Jobs |-> VisibleJob'[k]]
  BY DEF VisibleJob
<1> QED BY <1>1, <1>2

\* New and deleted jobs, as the promise writes them.
LEMMA NoJobWith ==
    \A r :
      /\ [[repo |-> None, phase |-> "unused", tries |-> 0, cancel |-> FALSE]
              EXCEPT !.repo = r, !.phase = "queued"]
         = [repo |-> r, phase |-> "queued", tries |-> 0, cancel |-> FALSE]
      /\ [[repo |-> None, phase |-> "unused", tries |-> 0, cancel |-> FALSE]
              EXCEPT !.phase = "deleted"]
         = [repo |-> None, phase |-> "deleted", tries |-> 0, cancel |-> FALSE]
<1> TAKE r
<1> DEFINE S == [repo : {None, r}, phase : {"unused", "queued", "deleted"}, tries : {0},
                 cancel : {FALSE}]
<1>1. PICK x \in S : x = [repo |-> None, phase |-> "unused", tries |-> 0, cancel |-> FALSE]
  OBVIOUS
<1>2. PICK y \in S : y = [repo |-> r, phase |-> "queued", tries |-> 0, cancel |-> FALSE]
  OBVIOUS
<1>3. PICK z \in S : z = [repo |-> None, phase |-> "deleted", tries |-> 0, cancel |-> FALSE]
  OBVIOUS
<1>4. y = [x EXCEPT !.repo = r, !.phase = "queued"] /\ z = [x EXCEPT !.phase = "deleted"]
  <2>1. /\ x.tries = y.tries /\ x.tries = z.tries /\ x.cancel = y.cancel /\ x.cancel = z.cancel
        /\ x.repo = z.repo /\ y.repo = r /\ y.phase = "queued" /\ z.phase = "deleted"
    BY ONLY <1>1, <1>2, <1>3
  <2> QED BY ONLY <2>1, x \in S, y \in S, z \in S
<1> QED BY <1>1, <1>2, <1>3, <1>4, Zenon

LEMMA SubmittedPromise ==
    ASSUME JobInv, NEW j \in Jobs, NEW r \in Repos, Submitted(j, r)
    PROVE  Promise!Submit(j, r)
<1>1. Published' = Published
  BY SealsKeptPublished DEF Submitted
<1>2. VisibleCancel(j) = FALSE /\ VisibleCancel(j)' = FALSE
  BY DEF Submitted, VisibleCancel, Active
<1>3. jobs[j].repo = None /\ jobs[j].attempt = 0 /\ jobs[j].status = "unused"
  BY DEF Submitted, JobInv, RowOK
<1>4. VisibleJob[j] = Promise!NoJob
  BY <1>2, <1>3, VisibleRow DEF Promise!NoJob
<1>5. \A k \in Jobs : VisibleJob[k].repo = r => VisibleJob[k].phase \notin Promise!Counts
  BY VisibleFields DEF Submitted, EffectiveJobs, JobsOf, Promise!Counts, Effective
<1> DEFINE new == [Promise!NoJob EXCEPT !.repo = r, !.phase = "queued"]
<1>6. VisibleJob'[j] = new
  <2>1. VisibleJob'[j] = [repo |-> r, phase |-> "queued", tries |-> 0, cancel |-> FALSE]
    BY <1>2, VisibleRowNext DEF Submitted
  <2> QED BY <2>1, NoJobWith DEF Promise!NoJob
<1> HIDE DEF new
<1>7. VisibleJob' = [VisibleJob EXCEPT ![j] = new]
  BY <1>6, VisibleChange DEF Submitted
<1> QED BY <1>1, <1>4, <1>5, <1>7 DEF Promise!Submit, Promise!Set, new

LEMMA ClaimedPromise ==
    ASSUME JobInv, NEW j \in Jobs, Claimed(j)
    PROVE  Promise!Start(j)
<1>1. Published' = Published
  BY SealsKeptPublished DEF Claimed
<1>2. VisibleCancel(j)' = VisibleCancel(j)
  BY DEF Claimed, VisibleCancel, Active
<1>3. jobs[j].status = "queued" /\ jobs[j].attempt < MaxAttempts
  BY DEF Claimed, JobInv, RowOK
<1>4. /\ VisibleJob[j].phase = "queued" /\ VisibleJob[j].tries = jobs[j].attempt
      /\ VisibleJob[j].tries < MaxAttempts
  BY <1>3, VisibleFields
<1>5. VisibleJob' = [VisibleJob EXCEPT ![j] =
                       [VisibleJob[j] EXCEPT !.phase = "running",
                                             !.tries = VisibleJob[j].tries + 1]]
  <2>1. /\ OthersKept(j) /\ jobs'[j].repo = jobs[j].repo /\ jobs'[j].status = "running"
        /\ jobs'[j].attempt = VisibleJob[j].tries + 1
    BY <1>4 DEF Claimed
  <2>2. /\ VisibleJob'[j].phase = "running" /\ VisibleJob'[j].tries = VisibleJob[j].tries + 1
        /\ VisibleJob'[j].cancel = VisibleJob[j].cancel
    BY <1>2, <2>1, VisibleFields, VisibleFieldsNext
  <2>3. VisibleJob' = [VisibleJob EXCEPT ![j] =
                         [VisibleJob[j] EXCEPT !.phase = VisibleJob'[j].phase,
                                               !.tries = VisibleJob'[j].tries]]
    BY <2>1, <2>2, VisibleNew
  <2> QED BY ONLY <2>2, <2>3, Zenon
<1> QED BY <1>1, <1>4, <1>5 DEF Promise!Start, Promise!Set

LEMMA SealedNowPromise ==
    ASSUME JobInv, NEW j \in Jobs, SealedNow(j)
    PROVE  Promise!Publish(j)
<1>1. PICK a \in Attempts :
        /\ snaps[<<j, a>>].state = "building"
        /\ \A s \in Snaps : snaps'[s].state = "completed" <=>
                                snaps[s].state = "completed" \/ s = <<j, a>>
  BY DEF SealedNow
<1>2. VisibleJob' = VisibleJob
  BY QuietPromise DEF SealedNow
<1>3. j \notin Published
  <2>1. jobs[j].snap = <<j, a>>
    BY <1>1, LiveSnapshot
  <2>2. SnapState(jobs[j].snap) # "completed"
    BY <1>1, <2>1 DEF SnapState
  <2> QED BY <2>2, PublishedJobs
<1>4. \A k \in Jobs, b \in Attempts : <<k, b>> = <<j, a>> <=> k = j /\ b = a
  OBVIOUS
<1>5. \A k \in Jobs, b \in Attempts :
        snaps'[<<k, b>>].state = "completed" <=>
            snaps[<<k, b>>].state = "completed" \/ (k = j /\ b = a)
  BY <1>1, <1>4 DEF Snaps
<1>6. Published' = Published \cup {j}
  BY <1>5 DEF Published
<1>7. ~VisibleCancel(j) /\ jobs[j].status = "running"
  BY DEF SealedNow, VisibleCancel
<1>8. VisibleJob[j].phase = "running" /\ ~VisibleJob[j].cancel
  BY <1>7, VisibleFields
<1> QED BY <1>2, <1>3, <1>6, <1>8 DEF Promise!Publish

LEMMA CancelAskedPromise ==
    ASSUME JobInv, NEW j \in Jobs, CancelAsked(j)
    PROVE  Promise!AskCancel(j)
<1>1. Published' = Published
  BY SealsKeptPublished DEF CancelAsked
<1>2. VisibleCancel(j)' = TRUE
  BY DEF CancelAsked, VisibleCancel, Active
<1>3. VisibleJob[j].phase = "running"
  BY VisibleFields DEF CancelAsked
<1>4. VisibleJob' = [VisibleJob EXCEPT ![j] = [VisibleJob[j] EXCEPT !.cancel = TRUE]]
  <2>1. VisibleJob'[j].cancel = TRUE
    BY <1>2, VisibleFieldsNext
  <2>2. VisibleJob' = [VisibleJob EXCEPT ![j] =
                         [VisibleJob[j] EXCEPT !.cancel = VisibleJob'[j].cancel]]
    BY VisibleNew DEF CancelAsked
  <2> QED BY ONLY <2>1, <2>2, Zenon
<1> QED BY <1>1, <1>3, <1>4 DEF Promise!AskCancel, Promise!Set

\* A job that has ended: its visible row.
LEMMA EndedVisible ==
    ASSUME NEW j \in Jobs, NEW from, NEW to \in {"completed", "failed", "cancelled"},
           Ended(j, from, to)
    PROVE  /\ VisibleJob' = [VisibleJob EXCEPT ![j] =
                               [VisibleJob[j] EXCEPT !.phase = to, !.cancel = FALSE]]
           /\ VisibleJob[j].phase = from /\ Published' = Published
<1>1. Published' = Published
  BY SealsKeptPublished DEF Ended
<1>2. VisibleCancel(j)' = FALSE
  BY DEF Ended, VisibleCancel, Active
<1>3. VisibleJob[j].phase = from
  BY VisibleFields DEF Ended
<1>4. VisibleJob' = [VisibleJob EXCEPT ![j] =
                       [VisibleJob[j] EXCEPT !.phase = to, !.cancel = FALSE]]
  <2>1. /\ OthersKept(j) /\ jobs'[j].repo = jobs[j].repo /\ jobs'[j].status = to
        /\ jobs'[j].attempt = jobs[j].attempt
    BY DEF Ended
  <2>2. VisibleJob'[j].phase = to /\ VisibleJob'[j].cancel = FALSE
    BY <1>2, <2>1, VisibleFieldsNext
  <2>3. VisibleJob' = [VisibleJob EXCEPT ![j] =
                         [VisibleJob[j] EXCEPT !.phase = VisibleJob'[j].phase,
                                               !.cancel = VisibleJob'[j].cancel]]
    BY <2>1, VisibleNew
  <2> QED BY ONLY <2>2, <2>3, Zenon
<1> QED BY <1>1, <1>3, <1>4

LEMMA EndedPromise ==
    ASSUME JobInv, NEW j \in Jobs, Withdrawn(j) \/ Completed(j) \/ GivenUp(j)
    PROVE  \/ Promise!Withdraw(j) \/ Promise!Complete(j)
           \/ \E phase \in {"queued", "failed", "cancelled"} : Promise!GiveUp(j, phase)
<1>1. CASE Withdrawn(j)
  BY <1>1, EndedVisible DEF Withdrawn, Promise!Withdraw, Promise!Set
<1>2. CASE Completed(j)
  BY <1>2, EndedVisible, PublishedJobs DEF Completed, Promise!Complete, Promise!Set
<1>3. CASE GivenUp(j)
  <2>1. j \notin Published
    BY <1>3, PublishedJobs DEF GivenUp
  <2>2. PICK to \in {"failed", "cancelled"} :
          Ended(j, "running", to) /\ (to = "cancelled" => jobs[j].cancel)
    BY <1>3 DEF GivenUp
  <2>3. /\ VisibleJob' = [VisibleJob EXCEPT ![j] =
                            [VisibleJob[j] EXCEPT !.phase = to, !.cancel = FALSE]]
        /\ VisibleJob[j].phase = "running" /\ Published' = Published
    BY <2>2, EndedVisible
  <2>4. to = "cancelled" => VisibleJob[j].cancel
    <3>1. to = "cancelled" => VisibleCancel(j)
      BY <2>2 DEF VisibleCancel, Ended, Active
    <3> QED BY <3>1, VisibleFields
  <2>5. [VisibleJob[j] EXCEPT !.phase = to, !.cancel = FALSE]
          = [VisibleJob[j] EXCEPT !.phase = to, !.cancel = @ /\ to = "queued"]
    <3>1. (VisibleJob[j].cancel /\ to = "queued") = FALSE
      BY <2>2
    <3> QED BY <3>1
  <2>6. Promise!GiveUp(j, to)
    BY <2>1, <2>2, <2>3, <2>4, <2>5 DEF Promise!GiveUp, Promise!Set
  <2> QED BY <2>6
<1> QED BY <1>1, <1>2, <1>3

LEMMA RequeuedPromise ==
    ASSUME JobInv, NEW j \in Jobs, Requeued(j)
    PROVE  Promise!GiveUp(j, "queued")
<1>1. Published' = Published /\ j \notin Published
  BY SealsKeptPublished, PublishedJobs DEF Requeued
<1>2. VisibleCancel(j)' = VisibleCancel(j)
  BY DEF Requeued, VisibleCancel, Active
<1>3. /\ VisibleJob[j].phase = "running" /\ VisibleJob[j].tries < MaxAttempts
      /\ VisibleJob[j].cancel = VisibleCancel(j)
  BY VisibleFields DEF Requeued
<1>4. VisibleJob' = [VisibleJob EXCEPT ![j] =
                       [VisibleJob[j] EXCEPT !.phase = "queued", !.cancel = VisibleJob[j].cancel]]
  <2>1. /\ OthersKept(j) /\ jobs'[j].repo = jobs[j].repo /\ jobs'[j].status = "queued"
        /\ jobs'[j].attempt = jobs[j].attempt
    BY DEF Requeued
  <2>2. VisibleJob'[j].phase = "queued" /\ VisibleJob'[j].cancel = VisibleJob[j].cancel
    BY <1>2, <1>3, <2>1, VisibleFieldsNext
  <2>3. VisibleJob' = [VisibleJob EXCEPT ![j] =
                         [VisibleJob[j] EXCEPT !.phase = VisibleJob'[j].phase,
                                               !.cancel = VisibleJob'[j].cancel]]
    BY <2>1, VisibleNew
  <2> QED BY ONLY <2>2, <2>3, Zenon
<1>5. VisibleJob[j].cancel = (VisibleJob[j].cancel /\ "queued" = "queued")
  BY <1>3 DEF VisibleCancel
<1> QED BY <1>1, <1>3, <1>4, <1>5 DEF Promise!GiveUp, Promise!Set

LEMMA DeletedPromise ==
    ASSUME JobInv, NEW r \in Repos, Deleted(r)
    PROVE  Promise!Delete(r)
<1> DEFINE of == {j \in Jobs : VisibleJob[j].repo = r}
           gone == [Promise!NoJob EXCEPT !.phase = "deleted"]
<1>1. \A j \in Jobs : j \in of <=> jobs[j].repo = r
  BY VisibleFields
<1>2. ASSUME NEW j \in Jobs, jobs[j].repo = r PROVE VisibleJob'[j] = gone
  <2>1. /\ jobs'[j].repo = None /\ jobs'[j].status = "deleted" /\ jobs'[j].attempt = 0
    BY <1>2 DEF Deleted, NoRow
  <2>2. VisibleCancel(j)' = FALSE
    BY <2>1 DEF VisibleCancel, Active
  <2>3. VisibleJob'[j] = [repo |-> None, phase |-> "deleted", tries |-> 0, cancel |-> FALSE]
    BY <2>1, <2>2, VisibleRowNext
  <2> QED BY <2>3, NoJobWith DEF Promise!NoJob
<1>3. \A j \in Jobs : jobs[j].repo # r => VisibleJob'[j] = VisibleJob[j]
  BY KeptVisible DEF Deleted
<1>4. VisibleJob' = [k \in Jobs |-> VisibleJob'[k]]
  BY DEF VisibleJob
<1> HIDE DEF gone, of
<1>5. VisibleJob' = [j \in Jobs |-> IF j \in of THEN gone ELSE VisibleJob[j]]
  BY <1>1, <1>2, <1>3, <1>4
<1>6. \A k \in Jobs, b \in Attempts :
        snaps'[<<k, b>>].state = "completed" <=>
            snaps[<<k, b>>].state = "completed" /\ jobs[k].repo # r
  BY DEF Deleted, Snaps
<1>7. Published' = Published \ of
  BY <1>1, <1>6 DEF Published
<1> QED BY <1>5, <1>7 DEF Promise!Delete, of, gone

\* Every step of the detailed specification is one of the promise, or none.
LEMMA StepPromise ==
    ASSUME JobInv, Effect
    PROVE  Promise!Next \/ UNCHANGED <<VisibleJob, Published>>
<1>1. CASE Quiet
  BY <1>1, QuietPromise, SealsKeptPublished DEF Quiet
<1>2. CASE \E j \in Jobs :
             \/ \E r \in Repos : Submitted(j, r)
             \/ Claimed(j) \/ SealedNow(j) \/ CancelAsked(j) \/ Withdrawn(j)
             \/ Completed(j) \/ GivenUp(j) \/ Requeued(j)
  BY <1>2, SubmittedPromise, ClaimedPromise, SealedNowPromise, CancelAskedPromise,
     EndedPromise, RequeuedPromise DEF Promise!Next
<1>3. CASE \E r \in Repos : Deleted(r)
  BY <1>3, DeletedPromise DEF Promise!Next
<1> QED BY <1>1, <1>2, <1>3 DEF Effect

LEMMA InitPromise == Init => Promise!Init
<1> SUFFICES ASSUME Init PROVE Promise!Init
  OBVIOUS
<1>1. \A j \in Jobs : /\ jobs[j].repo = None /\ jobs[j].status = "unused"
                      /\ jobs[j].attempt = 0 /\ VisibleCancel(j) = FALSE
  BY DEF Init, NoRow, VisibleCancel, Active
<1>2. \A j \in Jobs : VisibleJob[j] = Promise!NoJob
  BY <1>1, VisibleRow DEF Promise!NoJob
<1>3. VisibleJob = [k \in Jobs |-> VisibleJob[k]]
  BY DEF VisibleJob
<1>4. Published = {}
  BY DEF Init, Published, NoSnapshot, Snaps
<1> QED BY <1>2, <1>3, <1>4 DEF Promise!Init

\* The jobs of requests, workers, sweeps, crashes and deployments live the life
\* that AnalysisPromise describes, for any number of each.
THEOREM PromiseKept == Spec => KeepsPromise
<1>1. FullInv /\ [Next]_vars => [Promise!Next]_Promise!vars
  <2> SUFFICES ASSUME FullInv, [Next]_vars PROVE [Promise!Next]_Promise!vars
    OBVIOUS
  <2>1. CASE Next
    <3>1. Effect
      BY <2>1, StepEffect DEF FullInv
    <3> QED BY <3>1, StepPromise DEF FullInv, Promise!vars
  <2>2. CASE UNCHANGED vars
    <3>1. VisibleJob' = VisibleJob /\ Published' = Published
      BY <2>2 DEF vars, VisibleJob, Published
    <3> QED BY <3>1 DEF Promise!vars
  <2> QED BY <2>1, <2>2
<1> QED BY <1>1, InitPromise, FullInvariance, PTL DEF Spec, KeepsPromise, Promise!Spec

=============================================================================
