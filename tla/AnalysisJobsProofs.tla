------------------------ MODULE AnalysisJobsProofs ------------------------
(***************************************************************************)
(* Proofs about AnalysisJobs for every number of repositories, workers,    *)
(* requests, jobs, attempts and releases.                                  *)
(***************************************************************************)
EXTENDS AnalysisJobs, TLAPS

-----------------------------------------------------------------------------
(* Rows                                                                    *)

\* NULL columns: the empty row is a row.
LEMMA NoRowType == NoRow \in JobRow
  BY MaxAttemptsAssumption DEF NoRow, JobRow, JobStatus

\* There is always a lease instant that no sweeper remembers.
LEMMA FreshInstantType ==
  ASSUME TypeOK
  PROVE  /\ FreshInstant \in LeaseInstants
         /\ \A w \in Workers : worker[w].row.lease # FreshInstant
<1> DEFINE f == [w \in Workers |-> worker[w].row.lease]
<1>1. f \in [Workers -> LeaseInstants \cup {None}]
  BY DEF TypeOK, WorkerState, JobRow
<1>2. \E t \in LeaseInstants : \A w \in Workers : f[w] # t
  BY <1>1, LeaseInstantsAssumption
<1>3. QED
  BY <1>2 DEF FreshInstant

\* Renewing a lease keeps a row a row.
LEMMA RenewedType ==
  ASSUME TypeOK, NEW row \in JobRow
  PROVE  Renewed(row) \in JobRow
  BY FreshInstantType DEF Renewed, JobRow

\* Giving up the lease keeps a row a row.
LEMMA ReleasedType ==
  ASSUME NEW row \in JobRow, NEW status \in JobStatus
  PROVE  Released(row, status) \in JobRow
  BY DEF Released, JobRow

\* Completing a row keeps it a row.
LEMMA CompletedRowType ==
  ASSUME NEW row \in JobRow
  PROVE  CompletedRow(row) \in JobRow
<1>1. Released(row, "completed") \in JobRow
  BY ReleasedType DEF JobStatus
<1>2. QED
  BY <1>1 DEF CompletedRow, JobRow

\* Cancelling, failing or requeueing a row keeps it a row.
LEMMA ConcludedRowType ==
  ASSUME NEW row \in JobRow, NEW status \in JobStatus
  PROVE  ConcludedRow(row, status) \in JobRow
<1>1. Released(row, "queued") \in JobRow /\ Released(row, status) \in JobRow
  BY ReleasedType DEF JobStatus
<1>2. QED
  BY <1>1 DEF ConcludedRow, RequeuedRow, JobRow

\* Idle processes are well-typed.
LEMMA IdleTypes == IdleWorker \in WorkerState /\ IdleClient \in ClientState
  BY NoRowType DEF IdleWorker, IdleClient, WorkerState, ClientState, RecordStatus, JobStatus


-----------------------------------------------------------------------------
(* Steps that change one process's local state only                        *)

\* A step of one worker that writes nothing keeps the invariant when the
\* worker's own part of it holds afterwards.
LEMMA WorkerFrame ==
  ASSUME JobInv, NEW w \in Workers, NEW st \in WorkerState,
         worker' = [worker EXCEPT ![w] = st],
         UNCHANGED <<jobs, snaps, record, client, release>>,
         WorkerOK(w)'
  PROVE  JobInv'
<1>1. TypeOK'
  BY DEF JobInv, TypeOK
<1>2. (\A j \in Jobs : RowOK(j))' /\ OneEffective' /\ (\A s \in Snaps : SnapOK(s))'
      /\ CompletedIsSealed' /\ (\A c \in Clients : ClientOK(c))'
  BY DEF JobInv, RowOK, OneEffective, SnapOK, CompletedIsSealed, ClientOK, SnapState
<1>3. ASSUME NEW v \in Workers PROVE WorkerOK(v)'
  <2>1. CASE v = w
    BY <2>1
  <2>2. CASE v # w
    <3>1. worker'[v] = worker[v]
      BY <2>2 DEF JobInv, TypeOK
    <3>2. WorkerOK(v)
      BY DEF JobInv
    <3>3. QED
      BY <3>1, <3>2 DEF WorkerOK, Executing, Owns, SnapState
  <2>3. QED
    BY <2>1, <2>2
<1>4. QED
  BY <1>1, <1>2, <1>3 DEF JobInv

\* Giving up, or leaving the stages, writes nothing and claims nothing.
LEMMA AbandonInv ==
  ASSUME JobInv, NEW w \in Workers, Abandon(w),
         UNCHANGED <<jobs, snaps, record, client, release>>
  PROVE  JobInv'
<1>1. worker' = [worker EXCEPT ![w] = IdleWorker] /\ worker'[w] = IdleWorker
  BY DEF Abandon, JobInv, TypeOK
<1>2. WorkerOK(w)'
  BY <1>1 DEF WorkerOK, IdleWorker, Executing
<1>3. QED
  BY <1>1, <1>2, IdleTypes, WorkerFrame

\* Leaving the stages to close the attempt writes nothing.
LEMMA CloseInv ==
  ASSUME JobInv, NEW w \in Workers, NEW verdict \in {"cancel", "retry", "exceeded"},
         Close(w, verdict), worker[w].job \in Jobs,
         UNCHANGED <<jobs, snaps, record, client, release>>
  PROVE  JobInv'
<1> DEFINE st == [IdleWorker EXCEPT !.pc = "settle", !.verdict = verdict,
                                    !.job = worker[w].job]
<1>1. worker' = [worker EXCEPT ![w] = st] /\ worker'[w] = st
  BY DEF Close, JobInv, TypeOK
<1>2. st \in WorkerState
  BY IdleTypes DEF WorkerState
<1>3. st.pc = "settle" /\ st.job \in Jobs /\ st.row = NoRow
  BY DEF IdleWorker
<1>4. WorkerOK(w)'
  BY <1>1, <1>3 DEF WorkerOK, Executing
<1>5. QED
  BY <1>1, <1>2, <1>4, WorkerFrame

\* A step of one worker that changes only its place in the program.
LEMMA GotoInv ==
  ASSUME JobInv, NEW w \in Workers,
         NEW pc \in {"gate", "pulse", "stage"}, Goto(w, pc),
         Executing(w),
         UNCHANGED <<jobs, snaps, record, client, release>>
  PROVE  JobInv'
<1> DEFINE st == [worker[w] EXCEPT !.pc = pc]
<1>0. worker[w] \in WorkerState
  BY DEF JobInv, TypeOK
<1>1. worker' = [worker EXCEPT ![w] = st] /\ worker'[w] = st
  BY <1>0 DEF Goto, JobInv, TypeOK
<1>2. st \in WorkerState
  BY <1>0 DEF WorkerState
<1>3. WorkerOK(w)
  BY DEF JobInv
<1>4. WorkerOK(w)'
  BY <1>0, <1>1, <1>3 DEF WorkerOK, Executing, Owns, SnapState, WorkerState
<1>5. QED
  BY <1>1, <1>2, <1>4, WorkerFrame

\* Reading the head of the queue claims nothing yet.
LEMMA ClaimReadInv ==
  ASSUME JobInv, NEW w \in Workers, ClaimRead(w)
  PROVE  JobInv'
<1>0. worker[w] \in WorkerState /\ WorkerOK(w)
  BY DEF JobInv, TypeOK
<1>1. PICK j \in Jobs : worker' = [worker EXCEPT ![w].pc = "claim", ![w].job = j]
  BY DEF ClaimRead, Eligible
<1> DEFINE st == [worker[w] EXCEPT !.pc = "claim", !.job = j]
<1>2. worker' = [worker EXCEPT ![w] = st] /\ worker'[w] = st
  BY <1>1 DEF JobInv, TypeOK
<1>3. st \in WorkerState
  BY <1>0 DEF WorkerState
<1>4. st.pc = "claim" /\ st.job = j /\ st.row = worker[w].row
  BY <1>0 DEF WorkerState
<1>5. worker[w].pc = "idle"
  BY DEF ClaimRead
<1>6. WorkerOK(w)'
  BY <1>0, <1>2, <1>4, <1>5 DEF WorkerOK, Executing
<1>7. QED
  BY <1>2, <1>3, <1>6, WorkerFrame DEF ClaimRead

\* Loading a lapsed row: the copy is the row.
LEMMA SweepLoadInv ==
  ASSUME JobInv, NEW w \in Workers, SweepLoad(w)
  PROVE  JobInv'
<1>0. worker[w] \in WorkerState /\ WorkerOK(w)
  BY DEF JobInv, TypeOK
<1>1. PICK j \in Jobs : /\ jobs[j].status = "running"
                        /\ worker' = [worker EXCEPT ![w].pc = "reclaim",
                                          ![w].job = j, ![w].row = jobs[j]]
  BY DEF SweepLoad
<1> DEFINE st == [worker[w] EXCEPT !.pc = "reclaim", !.job = j, !.row = jobs[j]]
<1>2. worker' = [worker EXCEPT ![w] = st] /\ worker'[w] = st
  BY <1>1 DEF JobInv, TypeOK
<1>3. st \in WorkerState
  BY <1>0 DEF WorkerState, JobInv, TypeOK
<1>4. st.pc = "reclaim" /\ st.job = j /\ st.row = jobs[j]
  BY <1>0 DEF WorkerState
<1>5. jobs[j].worker # None /\ jobs[j].lease # None
  BY <1>1 DEF JobInv, RowOK
<1>6. UNCHANGED <<jobs, snaps, record, client, release>>
  BY DEF SweepLoad
<1>7. WorkerOK(w)'
  BY <1>2, <1>4, <1>5, <1>6 DEF WorkerOK, Executing
<1>8. QED
  BY <1>2, <1>3, <1>6, <1>7, WorkerFrame

\* The cancel check writes nothing.
LEMMA GateInv ==
  ASSUME JobInv, NEW w \in Workers, Gate(w)
  PROVE  JobInv'
<1>1. Executing(w) /\ worker[w].job \in Jobs
  BY DEF Gate, Executing, JobInv, WorkerOK
<1>2. CASE Close(w, "cancel")
  BY <1>1, <1>2, CloseInv DEF Gate
<1>3. CASE Goto(w, IF worker[w].stage = "complete" THEN "stage" ELSE "pulse")
  <2>1. PICK pc \in {"gate", "pulse", "stage"} : Goto(w, pc)
    BY <1>3 DEF Goto
  <2>2. UNCHANGED <<jobs, snaps, record, client, release>>
    BY DEF Gate
  <2>3. QED
    BY <1>1, <2>1, <2>2, GotoInv
<1>4. QED
  BY <1>2, <1>3 DEF Gate

\* The steps that leave a stage without having written anything.
LEMMA LeaveInv ==
  ASSUME JobInv, NEW w \in Workers,
         \/ FirstPulseDeferred(w) \/ HeartbeatRaises(w) \/ SealRefused(w)
         \/ StageError(w) \/ ResourceExceeded(w) \/ Crash(w)
  PROVE  JobInv'
<1>0. worker[w].pc # "idle" => worker[w].job \in Jobs
  BY DEF JobInv, WorkerOK
<1>1. CASE FirstPulseDeferred(w)
  <2>1. Executing(w) /\ Goto(w, "stage")
    BY <1>1 DEF FirstPulseDeferred, Executing
  <2>2. UNCHANGED <<jobs, snaps, record, client, release>>
    BY <1>1 DEF FirstPulseDeferred
  <2>3. QED
    BY <2>1, <2>2, GotoInv
<1>2. CASE HeartbeatRaises(w)
  BY <1>0, <1>2, CloseInv, AbandonInv DEF HeartbeatRaises, Beating
<1>3. CASE SealRefused(w)
  BY <1>0, <1>3, CloseInv, AbandonInv DEF SealRefused, InStage
<1>4. CASE StageError(w)
  BY <1>0, <1>4, CloseInv DEF StageError
<1>5. CASE ResourceExceeded(w)
  BY <1>0, <1>5, CloseInv DEF ResourceExceeded, Beating
<1>6. CASE Crash(w)
  BY <1>6, AbandonInv DEF Crash
<1>7. QED
  BY <1>1, <1>2, <1>3, <1>4, <1>5, <1>6

-----------------------------------------------------------------------------
(* Interference: what a step may do to a row under the eyes of the others  *)

SameCore(k) == /\ jobs'[k].status = jobs[k].status
               /\ jobs'[k].worker = jobs[k].worker
               /\ jobs'[k].lease = jobs[k].lease
               /\ jobs'[k].attempt = jobs[k].attempt
               /\ jobs'[k].snap = jobs[k].snap

\* A build that has not failed loses none of its facts.
FactsKept(old, new) ==
    old.state # "failed" =>
        old.facts \subseteq new.facts /\ (old.facts = Facts => new.facts = Facts)

SnapsKept(k) == \A a \in Attempts :
                  /\ snaps'[<<k, a>>].state = snaps[<<k, a>>].state
                  /\ FactsKept(snaps[<<k, a>>], snaps'[<<k, a>>])

\* After the step the row is w's, under a lease instant that no sweeper
\* remembers or under the row's own, or it is nobody's.
Taken(w, k) == jobs'[k].status = "running" =>
                 /\ jobs'[k].worker = w
                 /\ jobs'[k].lease = FreshInstant \/ SameCore(k)

SealedStable(k) ==
    /\ jobs[k].status = "deleted" => jobs'[k].status = "deleted"
    /\ jobs'[k].status # "deleted" =>
         /\ jobs[k].repo # None => jobs'[k].repo = jobs[k].repo
         /\ SnapState(jobs[k].snap) = "completed" =>
              jobs'[k].snap = jobs[k].snap /\ snaps'[jobs[k].snap].state = "completed"
         /\ jobs[k].status = "completed" => jobs'[k].status = "completed"

\* A worker that took no part in the step keeps its part of the invariant.
LEMMA Bystander ==
  ASSUME JobInv, NEW w, NEW v \in Workers, v # w, worker'[v] = worker[v],
         \A k \in Jobs : (SameCore(k) /\ SnapsKept(k)) \/ Taken(w, k)
  PROVE  WorkerOK(v)'
<1> DEFINE j == worker[v].job
           s == worker[v].snap
<1>0. WorkerOK(v) /\ worker[v] \in WorkerState
  BY DEF JobInv, TypeOK
<1>1. worker[v].pc # "idle" => j \in Jobs
  BY <1>0 DEF WorkerOK
<1>2. ASSUME j \in Jobs, Owns(v, j)' PROVE SameCore(j) /\ SnapsKept(j) /\ Owns(v, j)
  <2>1. jobs'[j].status = "running" /\ jobs'[j].worker = v
    BY <1>2 DEF Owns
  <2>2. SameCore(j) /\ SnapsKept(j)
    BY <1>2, <2>1 DEF Taken
  <2>3. QED
    BY <2>1, <2>2 DEF SameCore, Owns
<1>3. ASSUME Executing(v)', Owns(v, j)'
      PROVE  /\ worker[v].stage = "open" => snaps'[<<j, jobs'[j].attempt>>].state = "none"
             /\ worker[v].stage # "open" => s = jobs'[j].snap
             /\ worker[v].stage \in {"extract", "seal"} => snaps'[s].state = "building"
             /\ worker[v].stage = "extract" => worker[v].written \subseteq snaps'[s].facts
             /\ worker[v].stage = "seal" => snaps'[s].facts = Facts
             /\ worker[v].stage \in {"checkpoint", "complete"} =>
                  snaps'[s].state = "completed"
  <2>1. Executing(v) /\ j \in Jobs
    BY <1>1, <1>3 DEF Executing
  <2>2. SameCore(j) /\ SnapsKept(j) /\ Owns(v, j)
    BY <1>2, <1>3, <2>1
  <2>3. jobs[j].attempt \in Attempts
    BY <2>1, <2>2 DEF JobInv, RowOK, Owns, TypeOK, JobRow, Attempts
  <2>4. CASE worker[v].stage = "open"
    BY <1>0, <2>1, <2>2, <2>3, <2>4 DEF WorkerOK, SameCore, SnapsKept, FactsKept
  <2>5. CASE worker[v].stage # "open"
    <3>1. s \in Snaps /\ s[1] = j
      BY <1>0, <2>1, <2>5 DEF WorkerOK
    <3>2. s = <<j, s[2]>> /\ s[2] \in Attempts
      BY <3>1 DEF Snaps
    <3>3. snaps'[s].state = snaps[s].state
          /\ FactsKept(snaps[s], snaps'[s])
      BY <2>2, <3>2 DEF SnapsKept, FactsKept
    <3>4. s = jobs'[j].snap
      BY <1>0, <2>1, <2>2, <2>5 DEF WorkerOK, SameCore
    <3>5. QED
      BY <1>0, <2>1, <2>2, <2>5, <3>3, <3>4 DEF WorkerOK, FactsKept
  <2>6. QED
    BY <2>4, <2>5
<1>4. ASSUME worker[v].pc \in {"purge", "finish"}, Owns(v, j)'
      PROVE  SnapState(jobs[j].snap)' \in {"none", "failed"}
  <2>1. j \in Jobs
    BY <1>1, <1>4
  <2>2. SameCore(j) /\ SnapsKept(j) /\ Owns(v, j)
    BY <1>2, <1>4, <2>1
  <2>3. SnapState(jobs[j].snap) \in {"none", "failed"}
    BY <1>0, <1>4, <2>2 DEF WorkerOK
  <2>4. jobs[j].snap # None => jobs[j].snap \in Snaps /\ jobs[j].snap[1] = j
    BY <2>1 DEF JobInv, RowOK, TypeOK, JobRow
  <2>5. jobs[j].snap # None => jobs[j].snap = <<j, jobs[j].snap[2]>>
                               /\ jobs[j].snap[2] \in Attempts
    BY <2>4 DEF Snaps
  <2>6. jobs[j].snap # None => snaps'[jobs[j].snap].state = snaps[jobs[j].snap].state
    BY <2>2, <2>5 DEF SnapsKept, FactsKept
  <2>7. QED
    BY <2>2, <2>3, <2>6 DEF SameCore, SnapState
<1>5. ASSUME worker[v].pc = "reclaim", jobs'[j].status = "running",
             jobs'[j].worker = worker[v].row.worker,
             jobs'[j].lease = worker[v].row.lease
      PROVE  /\ worker[v].row.attempt = jobs'[j].attempt
             /\ worker[v].row.snap = jobs'[j].snap
  <2>1. j \in Jobs /\ worker[v].row.lease # FreshInstant
    BY <1>1, <1>5, FreshInstantType DEF JobInv
  <2>2. SameCore(j)
    BY <1>5, <2>1 DEF Taken
  <2>3. QED
    BY <1>0, <1>5, <2>2 DEF WorkerOK, SameCore
<1>6. QED
  <2>1. /\ worker[v].pc # "idle" => j \in Jobs
        /\ worker[v].pc # "reclaim" => worker[v].row = NoRow
        /\ Executing(v)' => worker[v].stage # "none"
        /\ Executing(v)' /\ worker[v].stage # "open" => s \in Snaps /\ s[1] = j
        /\ worker[v].pc \in {"purge", "finish"} => s \in Snaps
        /\ worker[v].pc = "reclaim" =>
              worker[v].row.worker # None /\ worker[v].row.lease # None
    BY <1>0 DEF WorkerOK, Executing
  <2>2. QED
    BY <1>3, <1>4, <1>5, <2>1 DEF WorkerOK

\* A request that took no part in the step keeps its part of the invariant.
LEMMA BystandingRequest ==
  ASSUME JobInv, NEW c \in Clients, client'[c] = client[c],
         \A k \in Jobs : SealedStable(k)
  PROVE  ClientOK(c)'
<1> DEFINE j == client[c].job
           r == client[c].repo
<1>0. ClientOK(c)
  BY DEF JobInv
<1>1. client[c].pc # "idle" => r \in Repos /\ r # None
  BY <1>0, NoneAssumption DEF ClientOK
<1>2. ASSUME client[c].pc \in {"cancelQueued", "reloadQueued", "cancelRunning", "refuse"}
      PROVE  j \in Jobs /\ (jobs'[j].repo = r \/ jobs'[j].status = "deleted")
  BY <1>0, <1>1, <1>2 DEF ClientOK, SealedStable
<1>3. ASSUME client[c].pc = "reconcile", jobs'[j].status # "deleted"
      PROVE  /\ jobs'[j].repo = r
             /\ jobs'[j].snap = client[c].snap
             /\ SnapState(client[c].snap)' = "completed"
             /\ client[c].row.snap = client[c].snap
             /\ client[c].row.status = "running" =>
                   client[c].row.worker # None /\ client[c].row.lease # None
             /\ client[c].row.status # "running" =>
                   client[c].row.status = "completed" /\ jobs'[j].status = "completed"
  <2>1. j \in Jobs /\ jobs[j].status # "deleted" /\ SealedStable(j)
    BY <1>0, <1>3 DEF ClientOK, SealedStable
  <2>2. /\ jobs[j].repo = r
        /\ jobs[j].snap = client[c].snap
        /\ SnapState(client[c].snap) = "completed"
        /\ client[c].row.snap = client[c].snap
        /\ client[c].row.status = "running" =>
              client[c].row.worker # None /\ client[c].row.lease # None
        /\ client[c].row.status # "running" =>
              client[c].row.status = "completed" /\ jobs[j].status = "completed"
    BY <1>0, <1>3, <2>1 DEF ClientOK
  <2>3. client[c].snap # None
    BY <2>2 DEF SnapState
  <2>4. QED
    BY <1>1, <1>3, <2>1, <2>2, <2>3 DEF SealedStable, SnapState
<1>4. QED
  BY <1>0, <1>1, <1>2, <1>3 DEF ClientOK

\* A step that writes one job row, its snapshots and record statuses keeps
\* the invariant when the row, the snapshots and the acting process do.
LEMMA JobStep ==
  ASSUME JobInv, TypeOK', NEW w, NEW j \in Jobs,
         \A k \in Jobs : k # j => jobs'[k] = jobs[k],
         \A s \in Snaps : s[1] # j => snaps'[s] = snaps[s],
         \A r \in Repos : record[r] # "gone" => record'[r] # "gone",
         \A v \in Workers : (v # w /\ worker'[v] = worker[v]) \/ WorkerOK(v)',
         \A c \in Clients : client'[c] = client[c] \/ ClientOK(c)',
         jobs'[j].status \in Effective =>
             \A k \in Jobs : k # j /\ jobs[k].status \in Effective =>
                                 jobs[k].repo # jobs'[j].repo,
         RowOK(j)', \A a \in Attempts : SnapOK(<<j, a>>)',
         jobs'[j].status = "completed" => SnapState(jobs[j].snap)' = "completed",
         (SameCore(j) /\ SnapsKept(j)) \/ Taken(w, j),
         SealedStable(j)
  PROVE  JobInv'
<1>1. ASSUME NEW k \in Jobs PROVE RowOK(k)'
  <2>1. CASE k = j
    BY <2>1
  <2>2. CASE k # j
    <3>1. RowOK(k) /\ jobs'[k] = jobs[k] /\ jobs[k] \in JobRow
      BY <2>2 DEF JobInv, TypeOK
    <3>2. jobs[k].repo # None => record'[jobs[k].repo] # "gone"
      BY <3>1 DEF RowOK, JobRow
    <3>3. QED
      BY <3>1, <3>2 DEF RowOK
  <2>3. QED
    BY <2>1, <2>2
<1>2. OneEffective'
  <2>1. SUFFICES ASSUME NEW k \in Jobs, NEW l \in Jobs, jobs'[k].repo = jobs'[l].repo,
                        jobs'[k].status \in Effective, jobs'[l].status \in Effective
                 PROVE  k = l
    BY DEF OneEffective
  <2>2. CASE k # j /\ l # j
    BY <2>1, <2>2 DEF JobInv, OneEffective
  <2>3. CASE k = j \/ l = j
    BY <2>1, <2>3
  <2>4. QED
    BY <2>2, <2>3
<1>3. ASSUME NEW s \in Snaps PROVE SnapOK(s)'
  <2>1. CASE s[1] = j
    <3>1. s = <<j, s[2]>> /\ s[2] \in Attempts
      BY <2>1 DEF Snaps
    <3>2. QED
      BY <3>1
  <2>2. CASE s[1] # j
    <3>1. SnapOK(s) /\ snaps'[s] = snaps[s] /\ s[1] \in Jobs
      BY <2>2 DEF JobInv, Snaps
    <3>2. jobs'[s[1]] = jobs[s[1]]
      BY <2>2, <3>1
    <3>3. QED
      BY <3>1, <3>2 DEF SnapOK
  <2>3. QED
    BY <2>1, <2>2
<1>4. CompletedIsSealed'
  <2>1. SUFFICES ASSUME NEW k \in Jobs, jobs'[k].status = "completed"
                 PROVE  SnapState(jobs[k].snap)' = "completed"
    BY DEF CompletedIsSealed
  <2>2. CASE k = j
    BY <2>1, <2>2
  <2>3. CASE k # j
    <3>1. jobs'[k] = jobs[k] /\ SnapState(jobs[k].snap) = "completed"
      BY <2>1, <2>3 DEF JobInv, CompletedIsSealed
    <3>2. jobs[k].snap # None /\ jobs[k].snap \in Snaps /\ jobs[k].snap[1] = k
      BY <3>1 DEF SnapState, JobInv, TypeOK, JobRow, RowOK
    <3>3. QED
      BY <2>3, <3>1, <3>2 DEF SnapState
  <2>4. QED
    BY <2>2, <2>3
<1>5. ASSUME NEW k \in Jobs PROVE (SameCore(k) /\ SnapsKept(k)) \/ Taken(w, k)
  <2>1. CASE k # j
    <3>1. jobs'[k] = jobs[k]
      BY <2>1
    <3>2. ASSUME NEW a \in Attempts PROVE snaps'[<<k, a>>] = snaps[<<k, a>>]
      BY <2>1 DEF Snaps
    <3>3. QED
      BY <3>1, <3>2 DEF SameCore, SnapsKept, FactsKept
  <2>2. QED
    BY <2>1
<1>6. ASSUME NEW k \in Jobs PROVE SealedStable(k)
  <2>1. CASE k # j
    <3>1. jobs'[k] = jobs[k]
      BY <2>1
    <3>2. ASSUME SnapState(jobs[k].snap) = "completed"
          PROVE  snaps'[jobs[k].snap].state = "completed"
      <4>1. jobs[k].snap # None /\ jobs[k].snap \in Snaps /\ jobs[k].snap[1] = k
        BY <3>2 DEF SnapState, JobInv, TypeOK, JobRow, RowOK
      <4>2. QED
        BY <2>1, <3>2, <4>1 DEF SnapState
    <3>3. QED
      BY <3>1, <3>2 DEF SealedStable
  <2>2. QED
    BY <2>1
<1>7. ASSUME NEW v \in Workers PROVE WorkerOK(v)'
  BY <1>5, Bystander
<1>8. ASSUME NEW c \in Clients PROVE ClientOK(c)'
  BY <1>6, BystandingRequest
<1>9. QED
  BY <1>1, <1>2, <1>3, <1>4, <1>7, <1>8 DEF JobInv

-----------------------------------------------------------------------------
(* One row, one snapshot                                                   *)

\* What renewing changes and what it keeps.
LEMMA RenewedFields ==
  ASSUME TypeOK, NEW row \in JobRow
  PROVE  /\ Renewed(row).status = row.status /\ Renewed(row).repo = row.repo
         /\ Renewed(row).attempt = row.attempt /\ Renewed(row).snap = row.snap
         /\ Renewed(row).worker = row.worker /\ Renewed(row).cancel = row.cancel
         /\ Renewed(row).backoff = row.backoff
         /\ Renewed(row).lease = FreshInstant /\ FreshInstant # None
  BY FreshInstantType, NoneAssumption DEF Renewed, JobRow

\* What releasing changes and what it keeps.
LEMMA ReleasedFields ==
  ASSUME NEW row \in JobRow, NEW status \in JobStatus
  PROVE  /\ Released(row, status).status = status
         /\ Released(row, status).repo = row.repo
         /\ Released(row, status).attempt = row.attempt
         /\ Released(row, status).snap = row.snap
         /\ Released(row, status).worker = None
         /\ Released(row, status).lease = None
  BY DEF Released, JobRow

\* A worker that owns its row may renew it, whatever else it does locally.
LEMMA RenewStep ==
  ASSUME JobInv, NEW w \in Workers, NEW j \in Jobs, Owns(w, j),
         jobs' = [jobs EXCEPT ![j] = Renewed(jobs[j])],
         UNCHANGED <<snaps, record, client, release>>,
         NEW st \in WorkerState, worker' = [worker EXCEPT ![w] = st],
         WorkerOK(w)'
  PROVE  JobInv'
<1>1. TypeOK /\ jobs[j] \in JobRow /\ RowOK(j) /\ jobs[j].status = "running"
      /\ jobs[j].worker = w
  BY DEF JobInv, TypeOK, Owns
<1> DEFINE new == Renewed(jobs[j])
<1>2. new \in JobRow
  BY <1>1, RenewedType
<1>3. TypeOK'
  BY <1>2 DEF JobInv, TypeOK
<1>4. jobs'[j] = new /\ \A k \in Jobs : k # j => jobs'[k] = jobs[k]
  BY <1>1 DEF TypeOK
<1>5. /\ new.status = "running" /\ new.repo = jobs[j].repo
      /\ new.attempt = jobs[j].attempt /\ new.snap = jobs[j].snap
      /\ new.worker = w /\ new.lease = FreshInstant /\ FreshInstant # None
  BY <1>1, RenewedFields
<1> HIDE DEF new
<1>6. RowOK(j)'
  BY <1>1, <1>4, <1>5 DEF RowOK
<1>7. ASSUME NEW a \in Attempts PROVE SnapOK(<<j, a>>)'
  <2>1. SnapOK(<<j, a>>)
    BY DEF JobInv, Snaps
  <2>2. QED
    BY <1>1, <1>4, <1>5, <2>1 DEF SnapOK
<1>8. Taken(w, j) /\ SealedStable(j)
  BY <1>1, <1>4, <1>5 DEF Taken, SealedStable, SnapState
<1>9. jobs'[j].status \in Effective => \A k \in Jobs :
         k # j /\ jobs[k].status \in Effective => jobs[k].repo # jobs'[j].repo
  BY <1>1, <1>4, <1>5 DEF JobInv, OneEffective, Effective
<1>10. \A v \in Workers : (v # w /\ worker'[v] = worker[v]) \/ WorkerOK(v)'
  BY DEF JobInv, TypeOK
<1>11. jobs'[j].status # "completed"
  BY <1>4, <1>5
<1>12. QED
  BY <1>3, <1>4, <1>6, <1>7, <1>8, <1>9, <1>10, <1>11, JobStep

\* A step that changes no column other than the cancel flag, the delay and
\* the lapse of one row, and record statuses, and a request that its own part allows.
LEMMA FlagStep ==
  ASSUME JobInv, NEW j \in Jobs, NEW row \in JobRow,
         jobs' = [jobs EXCEPT ![j] = row],
         row.status = jobs[j].status, row.repo = jobs[j].repo,
         row.attempt = jobs[j].attempt, row.snap = jobs[j].snap,
         row.worker = jobs[j].worker, row.lease = jobs[j].lease,
         UNCHANGED <<snaps, worker, release>>,
         record' \in [Repos -> RecordStatus],
         \A r \in Repos : record[r] # "gone" => record'[r] # "gone",
         client' \in [Clients -> ClientState],
         \A c \in Clients : client'[c] = client[c] \/ ClientOK(c)'
  PROVE  JobInv'
<1>1. jobs'[j] = row /\ \A k \in Jobs : k # j => jobs'[k] = jobs[k]
  BY DEF JobInv, TypeOK
<1>2. TypeOK'
  BY DEF JobInv, TypeOK
<1>3. RowOK(j)'
  <2>1. RowOK(j) /\ (jobs[j].repo # None => jobs[j].repo \in Repos)
    BY DEF JobInv, TypeOK, JobRow
  <2>2. QED
    BY <1>1, <2>1 DEF RowOK
<1>4. ASSUME NEW a \in Attempts PROVE SnapOK(<<j, a>>)'
  <2>1. SnapOK(<<j, a>>)
    BY DEF JobInv, Snaps
  <2>2. QED
    BY <1>1, <2>1 DEF SnapOK
<1>5. SameCore(j) /\ SnapsKept(j) /\ SealedStable(j)
  BY <1>1 DEF SameCore, SnapsKept, FactsKept, SealedStable, SnapState
<1>6. jobs'[j].status \in Effective => \A k \in Jobs :
         k # j /\ jobs[k].status \in Effective => jobs[k].repo # jobs'[j].repo
  BY <1>1 DEF JobInv, OneEffective
<1>7. jobs'[j].status = "completed" => SnapState(jobs[j].snap)' = "completed"
  BY <1>1 DEF JobInv, CompletedIsSealed, SnapState
<1>8. \A v \in Workers : v # None /\ worker'[v] = worker[v]
  BY NoneAssumption
<1>9. QED
  BY <1>1, <1>2, <1>3, <1>4, <1>5, <1>6, <1>7, <1>8, JobStep

\* A step that writes one snapshot: either nobody can tell, or the snapshot
\* belongs to the row that the acting worker owns or that is not running.
LEMMA SnapStep ==
  ASSUME JobInv, NEW s \in Snaps, NEW sn \in Snapshot,
         snaps' = [snaps EXCEPT ![s] = sn],
         UNCHANGED <<jobs, record, client, release>>,
         NEW w \in Workers, NEW st \in WorkerState,
         worker' = [worker EXCEPT ![w] = st], WorkerOK(w)', SnapOK(s)',
         snaps[s].state = "completed" => sn.state = "completed",
         \/ sn.state = snaps[s].state /\ FactsKept(snaps[s], sn)
         \/ jobs[s[1]].status = "running" => jobs[s[1]].worker = w
  PROVE  JobInv'
<1> DEFINE j == s[1]
<1>0. j \in Jobs /\ s = <<j, s[2]>>
  BY DEF Snaps
<1>1. snaps'[s] = sn /\ \A t \in Snaps : t # s => snaps'[t] = snaps[t]
  BY DEF JobInv, TypeOK
<1>2. TypeOK'
  BY DEF JobInv, TypeOK
<1>3. RowOK(j)'
  BY <1>0 DEF JobInv, RowOK
<1>4. ASSUME NEW a \in Attempts PROVE SnapOK(<<j, a>>)'
  <2>1. SnapOK(<<j, a>>) /\ <<j, a>> \in Snaps
    BY <1>0 DEF JobInv, Snaps
  <2>2. CASE <<j, a>> = s
    BY <2>2
  <2>3. CASE <<j, a>> # s
    BY <1>1, <2>1, <2>3 DEF SnapOK
  <2>4. QED
    BY <2>2, <2>3
<1>5. SealedStable(j)
  <2>1. ASSUME SnapState(jobs[j].snap) = "completed"
        PROVE  snaps'[jobs[j].snap].state = "completed"
    <3>1. jobs[j].snap \in Snaps
      BY <1>0, <2>1 DEF SnapState, JobInv, TypeOK, JobRow
    <3>2. QED
      BY <1>1, <2>1, <3>1, NoneAssumption DEF SnapState, Snaps, Jobs, Attempts
  <2>2. QED
    BY <2>1 DEF SealedStable
<1>6. (SameCore(j) /\ SnapsKept(j)) \/ Taken(w, j)
  <2>1. SameCore(j)
    BY DEF SameCore
  <2>2. CASE sn.state = snaps[s].state /\ FactsKept(snaps[s], sn)
    <3>1. SnapsKept(j)
      BY <1>0, <1>1, <2>2 DEF SnapsKept, FactsKept, Snaps
    <3>2. QED
      BY <2>1, <3>1
  <2>3. CASE jobs[s[1]].status = "running" => jobs[s[1]].worker = w
    BY <2>1, <2>3 DEF Taken
  <2>4. QED
    BY <2>2, <2>3
<1>7. jobs'[j].status = "completed" => SnapState(jobs[j].snap)' = "completed"
  <2>1. SUFFICES ASSUME jobs[j].status = "completed"
                 PROVE  SnapState(jobs[j].snap)' = "completed"
    OBVIOUS
  <2>2. SnapState(jobs[j].snap) = "completed"
    BY <1>0, <2>1 DEF JobInv, CompletedIsSealed
  <2>3. jobs[j].status # "deleted"
    BY <2>1
  <2>4. QED
    BY <1>5, <2>2, <2>3 DEF SealedStable, SnapState
<1>8. jobs'[j].status \in Effective => \A k \in Jobs :
         k # j /\ jobs[k].status \in Effective => jobs[k].repo # jobs'[j].repo
  BY <1>0 DEF JobInv, OneEffective
<1>9. \A v \in Workers : (v # w /\ worker'[v] = worker[v]) \/ WorkerOK(v)'
  BY DEF JobInv, TypeOK
<1>10. \A t \in Snaps : t[1] # j => snaps'[t] = snaps[t]
  BY <1>1
<1>11. QED
  BY <1>0, <1>2, <1>3, <1>4, <1>5, <1>6, <1>7, <1>8, <1>9, <1>10, JobStep

-----------------------------------------------------------------------------
(* The steps of an executing worker                                        *)

\* Renewing the lease and going on within the stages.
LEMMA RenewOn ==
  ASSUME JobInv, NEW w \in Workers, NEW j, j = worker[w].job, Executing(w), Owns(w, j),
         jobs' = [jobs EXCEPT ![j] = Renewed(jobs[j])],
         UNCHANGED <<snaps, record, client, release>>,
         NEW st \in WorkerState, worker' = [worker EXCEPT ![w] = st],
         st.job = j, st.snap = worker[w].snap, st.row = worker[w].row,
         st.pc \in {"gate", "pulse", "stage"},
         st.stage = worker[w].stage
             \/ (worker[w].stage = "checkpoint" /\ st.stage = "complete"),
         st.written = worker[w].written
  PROVE  JobInv'
<1>1. j \in Jobs /\ WorkerOK(w) /\ TypeOK /\ jobs[j] \in JobRow /\ worker'[w] = st
  BY DEF JobInv, TypeOK, WorkerOK, Executing
<1>2. jobs'[j].attempt = jobs[j].attempt /\ jobs'[j].snap = jobs[j].snap
  BY <1>1, RenewedFields DEF TypeOK
<1>3. worker[w].row = NoRow /\ worker[w].stage # "none"
  BY <1>1 DEF WorkerOK, Executing
<1>4. WorkerOK(w)'
  BY <1>1, <1>2, <1>3 DEF WorkerOK, Executing, Owns
<1>5. QED
  BY <1>1, <1>4, RenewStep

\* Renewing the lease and leaving the stages: the pulse that sees a cancel.
LEMMA FirstPulseInv ==
  ASSUME JobInv, NEW w \in Workers, FirstPulse(w)
  PROVE  JobInv'
<1> DEFINE j == worker[w].job
<1>0. Executing(w) /\ j \in Jobs /\ worker[w] \in WorkerState
  BY DEF FirstPulse, Executing, JobInv, WorkerOK, TypeOK
<1>1. UNCHANGED <<snaps, record, client, release>>
  BY DEF FirstPulse
<1>2. CASE ~Owns(w, j)
  BY <1>1, <1>2, AbandonInv DEF FirstPulse
<1>3. CASE Owns(w, j) /\ jobs[j].cancel
  <2> DEFINE st == [IdleWorker EXCEPT !.pc = "settle", !.verdict = "cancel", !.job = j]
  <2>1. worker' = [worker EXCEPT ![w] = st] /\ worker'[w] = st
    BY <1>3 DEF FirstPulse, Close, JobInv, TypeOK
  <2>2. st \in WorkerState
    BY <1>0, IdleTypes DEF WorkerState
  <2>3. st.pc = "settle" /\ st.job \in Jobs /\ st.row = NoRow
    BY <1>0 DEF IdleWorker
  <2>4. WorkerOK(w)'
    BY <2>1, <2>3 DEF WorkerOK, Executing
  <2>5. jobs' = [jobs EXCEPT ![j] = Renewed(jobs[j])]
    BY <1>3 DEF FirstPulse
  <2>6. QED
    BY <1>0, <1>1, <1>3, <2>1, <2>2, <2>4, <2>5, RenewStep
<1>4. CASE Owns(w, j) /\ ~jobs[j].cancel
  <2> DEFINE st == [worker[w] EXCEPT !.pc = "stage"]
  <2>1. worker' = [worker EXCEPT ![w] = st]
    BY <1>4 DEF FirstPulse, Goto, JobInv, TypeOK
  <2>2. /\ st \in WorkerState /\ st.job = j /\ st.snap = worker[w].snap
        /\ st.row = worker[w].row /\ st.pc = "stage" /\ st.stage = worker[w].stage
        /\ st.written = worker[w].written
    BY <1>0 DEF WorkerState
  <2>3. jobs' = [jobs EXCEPT ![j] = Renewed(jobs[j])]
    BY <1>4 DEF FirstPulse
  <2> HIDE DEF st
  <2>4. QED
    BY <1>0, <1>1, <1>4, <2>1, <2>2, <2>3, RenewOn
<1>5. QED
  BY <1>2, <1>3, <1>4

\* The heartbeat thread renews the lease or raises a signal.
LEMMA HeartbeatInv ==
  ASSUME JobInv, NEW w \in Workers, Heartbeat(w)
  PROVE  JobInv'
<1> DEFINE j == worker[w].job
<1>0. Executing(w) /\ j \in Jobs /\ worker[w] \in WorkerState /\ WorkerOK(w)
  BY DEF Heartbeat, Beating, Executing, JobInv, WorkerOK, TypeOK
<1>1. UNCHANGED <<snaps, record, client, release>>
  BY DEF Heartbeat
<1>2. PICK hb \in {"ok", "cancel", "lost"} : worker' = [worker EXCEPT ![w].hb = hb]
  BY DEF Heartbeat
<1> DEFINE st == [worker[w] EXCEPT !.hb = hb]
<1>3. worker' = [worker EXCEPT ![w] = st] /\ worker'[w] = st
  BY <1>2 DEF JobInv, TypeOK
<1>4. /\ st \in WorkerState /\ st.job = j /\ st.snap = worker[w].snap
      /\ st.row = worker[w].row /\ st.pc = worker[w].pc /\ st.stage = worker[w].stage
      /\ st.written = worker[w].written
  BY <1>0 DEF WorkerState
<1> HIDE DEF st
<1>5. CASE Owns(w, j)
  <2>1. jobs' = [jobs EXCEPT ![j] = Renewed(jobs[j])]
    BY <1>5 DEF Heartbeat
  <2>2. st.pc \in {"gate", "pulse", "stage"}
    BY <1>0, <1>4 DEF Executing
  <2>3. QED
    BY <1>0, <1>1, <1>3, <1>4, <1>5, <2>1, <2>2, RenewOn
<1>6. CASE ~Owns(w, j)
  <2>1. jobs' = jobs
    BY <1>6 DEF Heartbeat
  <2>2. WorkerOK(w)'
    BY <1>0, <1>1, <1>3, <1>4, <2>1 DEF WorkerOK, Executing, Owns, SnapState
  <2>3. QED
    BY <1>1, <1>3, <1>4, <2>1, <2>2, WorkerFrame
<1>7. QED
  BY <1>5, <1>6

\* The checkpoint of the seal stage.
LEMMA SealCheckpointInv ==
  ASSUME JobInv, NEW w \in Workers, SealCheckpoint(w)
  PROVE  JobInv'
<1> DEFINE j == worker[w].job
<1>0. Executing(w) /\ j \in Jobs /\ worker[w] \in WorkerState
      /\ worker[w].stage = "checkpoint"
  BY DEF SealCheckpoint, InStage, Executing, JobInv, WorkerOK, TypeOK
<1>1. UNCHANGED <<snaps, record, client, release>>
  BY DEF SealCheckpoint
<1>2. CASE ~Owns(w, j)
  BY <1>1, <1>2, AbandonInv DEF SealCheckpoint
<1>3. CASE Owns(w, j)
  <2> DEFINE st == [worker[w] EXCEPT !.pc = "gate", !.stage = "complete"]
  <2>1. worker' = [worker EXCEPT ![w] = st]
    BY <1>3 DEF SealCheckpoint, NextStage
  <2>2. /\ st \in WorkerState /\ st.job = j /\ st.snap = worker[w].snap
        /\ st.row = worker[w].row /\ st.pc = "gate" /\ st.stage = "complete"
        /\ st.written = worker[w].written
    BY <1>0 DEF WorkerState
  <2>3. jobs' = [jobs EXCEPT ![j] = Renewed(jobs[j])]
    BY <1>3 DEF SealCheckpoint
  <2> HIDE DEF st
  <2>4. QED
    BY <1>0, <1>1, <1>3, <2>1, <2>2, <2>3, RenewOn
<1>4. QED
  BY <1>2, <1>3

\* Time: a lease lapses, a delay elapses.
LEMMA TimeInv ==
  ASSUME JobInv, NEW j \in Jobs, LeaseLapse(j) \/ BackoffElapse(j)
  PROVE  JobInv'
<1>0. jobs[j] \in JobRow
  BY DEF JobInv, TypeOK
<1>1. PICK row \in JobRow : /\ jobs' = [jobs EXCEPT ![j] = row]
                            /\ row.status = jobs[j].status /\ row.repo = jobs[j].repo
                            /\ row.attempt = jobs[j].attempt /\ row.snap = jobs[j].snap
                            /\ row.worker = jobs[j].worker /\ row.lease = jobs[j].lease
  <2>1. CASE LeaseLapse(j)
    <3> DEFINE row == [jobs[j] EXCEPT !.lapsed = TRUE]
    <3>1. row \in JobRow /\ jobs' = [jobs EXCEPT ![j] = row]
      BY <1>0, <2>1 DEF LeaseLapse, JobRow
    <3>2. QED
      BY <1>0, <3>1 DEF JobRow
  <2>2. CASE BackoffElapse(j)
    <3> DEFINE row == [jobs[j] EXCEPT !.backoff = FALSE]
    <3>1. row \in JobRow /\ jobs' = [jobs EXCEPT ![j] = row]
      BY <1>0, <2>2 DEF BackoffElapse, JobRow
    <3>2. QED
      BY <1>0, <3>1 DEF JobRow
  <2>3. QED
    BY <2>1, <2>2
<1>2. UNCHANGED <<snaps, record, worker, client, release>>
  BY DEF LeaseLapse, BackoffElapse
<1>3. client' \in [Clients -> ClientState] /\ record' \in [Repos -> RecordStatus]
  BY <1>2 DEF JobInv, TypeOK
<1>4. QED
  BY <1>1, <1>2, <1>3, FlagStep

-----------------------------------------------------------------------------
(* The steps that write a snapshot                                         *)

\* What a worker in the extract or seal stage knows of its snapshot.
LEMMA StageSnap ==
  ASSUME JobInv, NEW w \in Workers, worker[w].pc = "stage", worker[w].stage # "open"
  PROVE  /\ worker[w] \in WorkerState /\ worker[w].job \in Jobs
         /\ worker[w].snap \in Snaps /\ worker[w].snap[1] = worker[w].job
         /\ worker[w].row = NoRow /\ SnapOK(worker[w].snap)
         /\ snaps[worker[w].snap] \in Snapshot
  BY DEF JobInv, TypeOK, WorkerOK, Executing

\* Facts committed in the middle of the extract stage.
LEMMA ReleaseFactsInv ==
  ASSUME JobInv, NEW w \in Workers, ReleaseFacts(w)
  PROVE  JobInv'
<1> DEFINE j == worker[w].job
           b == NextFacts(w)
<1>0. worker[w].pc = "stage" /\ worker[w].stage = "extract"
  BY DEF ReleaseFacts, InStage
<1>1. PICK s \in Snaps :
        /\ s = worker[w].snap /\ worker[w] \in WorkerState /\ j \in Jobs /\ s[1] = j
        /\ worker[w].row = NoRow /\ SnapOK(s) /\ snaps[s] \in Snapshot
  BY <1>0, StageSnap
<1>2. UNCHANGED <<jobs, record, client, release>>
  BY DEF ReleaseFacts
<1>3. CASE ~Storable(s, b)
  BY <1>1, <1>2, <1>3, CloseInv DEF ReleaseFacts
<1>4. CASE Storable(s, b)
  <2> DEFINE sn == [snaps[s] EXCEPT !.facts = @ \cup b]
  <2>1. b \subseteq Facts
    BY DEF NextFacts, Facts
  <2>2. sn \in Snapshot /\ sn.state = snaps[s].state
        /\ FactsKept(snaps[s], sn)
    BY <1>1, <2>1 DEF Snapshot, FactsKept
  <2>3. snaps' = [snaps EXCEPT ![s] = sn] /\ snaps'[s] = sn
    BY <1>1, <1>4 DEF ReleaseFacts, JobInv, TypeOK
  <2>4. snaps[s].state # "completed"
    BY <1>4 DEF Storable
  <2>9. sn.facts = snaps[s].facts \cup b
    BY <1>1 DEF Snapshot
  <2> HIDE DEF sn
  <2>5. SnapOK(s)'
    BY <1>1, <1>2, <2>2, <2>3, <2>4 DEF SnapOK
  <2>6. CASE jobs[j].cancel
    <3> DEFINE st == [IdleWorker EXCEPT !.pc = "settle", !.verdict = "cancel", !.job = j]
    <3>1. worker' = [worker EXCEPT ![w] = st] /\ worker'[w] = st
      BY <1>1, <1>4, <2>6 DEF ReleaseFacts, Close, JobInv, TypeOK
    <3>2. st \in WorkerState /\ st.pc = "settle" /\ st.job \in Jobs /\ st.row = NoRow
      BY <1>1, IdleTypes DEF WorkerState, IdleWorker
    <3> HIDE DEF st
    <3>3. WorkerOK(w)'
      BY <3>1, <3>2 DEF WorkerOK, Executing
    <3>4. QED
      BY <1>1, <1>2, <2>2, <2>3, <2>4, <2>5, <3>1, <3>2, <3>3, SnapStep
  <2>7. CASE ~jobs[j].cancel
    <3> DEFINE st == [worker[w] EXCEPT !.written = @ \cup b]
    <3>1. worker' = [worker EXCEPT ![w] = st] /\ worker'[w] = st
      BY <1>1, <1>4, <2>7 DEF ReleaseFacts, JobInv, TypeOK
    <3>2. /\ st \in WorkerState /\ st.job = j /\ st.snap = s /\ st.row = NoRow
          /\ st.pc = "stage" /\ st.stage = "extract"
          /\ st.written = worker[w].written \cup b
      BY <1>0, <1>1, <2>1 DEF WorkerState
    <3> HIDE DEF st
    <3>3. Owns(w, j) => /\ s = jobs[j].snap /\ snaps[s].state = "building"
                        /\ worker[w].written \cup b \subseteq sn.facts
      BY <1>0, <1>1, <2>9 DEF JobInv, WorkerOK, Executing
    <3>4. WorkerOK(w)'
      BY <1>1, <1>2, <2>2, <2>3, <3>1, <3>2, <3>3 DEF WorkerOK, Executing, Owns
    <3>5. QED
      BY <1>1, <1>2, <2>2, <2>3, <2>4, <2>5, <3>1, <3>2, <3>4, SnapStep
  <2>8. QED
    BY <2>6, <2>7
<1>5. QED
  BY <1>3, <1>4

\* The guarded seal: the row is the worker's, so the build is open and whole.
LEMMA SealInv ==
  ASSUME JobInv, NEW w \in Workers, Seal(w)
  PROVE  JobInv'
<1> DEFINE j == worker[w].job
<1>0. worker[w].pc = "stage" /\ worker[w].stage = "seal" /\ Owns(w, j)
  BY DEF Seal, InStage, OwnsUncancelled
<1>1. PICK s \in Snaps :
        /\ s = worker[w].snap /\ worker[w] \in WorkerState /\ j \in Jobs /\ s[1] = j
        /\ worker[w].row = NoRow /\ SnapOK(s) /\ snaps[s] \in Snapshot
  BY <1>0, StageSnap
<1>2. UNCHANGED <<jobs, record, client, release>>
  BY DEF Seal
<1>3. s = jobs[j].snap /\ snaps[s].state = "building" /\ snaps[s].facts = Facts
  BY <1>0, <1>1 DEF JobInv, WorkerOK, Executing
<1>4. CASE SealConflicts(s)
  BY <1>1, <1>2, <1>4, CloseInv DEF Seal
<1>5. CASE ~SealConflicts(s)
  <2> DEFINE sn == [snaps[s] EXCEPT !.state = "completed"]
             st == [worker[w] EXCEPT !.stage = "checkpoint"]
  <2>1. sn \in Snapshot /\ sn.state = "completed" /\ sn.facts = Facts
    BY <1>1, <1>3 DEF Snapshot
  <2>2. snaps' = [snaps EXCEPT ![s] = sn] /\ snaps'[s] = sn
    BY <1>1, <1>5 DEF Seal, JobInv, TypeOK
  <2>3. worker' = [worker EXCEPT ![w] = st] /\ worker'[w] = st
    BY <1>1, <1>5 DEF Seal, JobInv, TypeOK
  <2>4. /\ st \in WorkerState /\ st.job = j /\ st.snap = s /\ st.row = NoRow
        /\ st.pc = "stage" /\ st.stage = "checkpoint"
    BY <1>0, <1>1 DEF WorkerState
  <2> HIDE DEF sn, st
  <2>5. SnapOK(s)'
    BY <1>1, <1>2, <1>3, <2>1, <2>2 DEF SnapOK
  <2>6. WorkerOK(w)'
    BY <1>1, <1>2, <1>3, <2>1, <2>2, <2>3, <2>4 DEF WorkerOK, Executing, Owns
  <2>7. jobs[s[1]].worker = w
    BY <1>0, <1>1 DEF Owns
  <2>8. QED
    BY <1>1, <1>2, <2>1, <2>2, <2>3, <2>4, <2>5, <2>6, <2>7, SnapStep
<1>6. QED
  BY <1>4, <1>5

\* A build that validation refuses is failed by its owner.
LEMMA SealRejectedInv ==
  ASSUME JobInv, NEW w \in Workers, SealRejected(w)
  PROVE  JobInv'
<1> DEFINE j == worker[w].job
<1>0. worker[w].pc = "stage" /\ worker[w].stage = "seal" /\ Owns(w, j)
  BY DEF SealRejected, InStage, OwnsUncancelled
<1>1. PICK s \in Snaps :
        /\ s = worker[w].snap /\ worker[w] \in WorkerState /\ j \in Jobs /\ s[1] = j
        /\ worker[w].row = NoRow /\ SnapOK(s) /\ snaps[s] \in Snapshot
  BY <1>0, StageSnap
<1>2. UNCHANGED <<jobs, record, client, release>>
  BY DEF SealRejected
<1>3. s = jobs[j].snap /\ snaps[s].state = "building"
  BY <1>0, <1>1 DEF JobInv, WorkerOK, Executing
<1> DEFINE sn == [snaps[s] EXCEPT !.state = "failed"]
           st == [IdleWorker EXCEPT !.pc = "settle", !.verdict = "retry", !.job = j]
<1>4. sn \in Snapshot /\ sn.state = "failed"
  BY <1>1 DEF Snapshot
<1>5. snaps' = [snaps EXCEPT ![s] = sn] /\ snaps'[s] = sn
  BY <1>1 DEF SealRejected, JobInv, TypeOK
<1>6. worker' = [worker EXCEPT ![w] = st] /\ worker'[w] = st
  BY <1>1 DEF SealRejected, Close, JobInv, TypeOK
<1>7. st \in WorkerState /\ st.pc = "settle" /\ st.job \in Jobs /\ st.row = NoRow
  BY <1>1, IdleTypes DEF WorkerState, IdleWorker
<1> HIDE DEF sn, st
<1>8. SnapOK(s)'
  <2>1. jobs[s[1]].attempt = s[2] /\ s[2] \in Nat
    BY <1>1, <1>3, MaxAttemptsAssumption DEF SnapOK, Snaps, Attempts
  <2>2. QED
    BY <1>2, <1>4, <1>5, <2>1 DEF SnapOK
<1>9. WorkerOK(w)'
  BY <1>6, <1>7 DEF WorkerOK, Executing
<1>10. jobs[s[1]].worker = w
  BY <1>0, <1>1 DEF Owns
<1>11. QED
  BY <1>1, <1>2, <1>3, <1>4, <1>5, <1>6, <1>7, <1>8, <1>9, <1>10, SnapStep

\* Purging changes the facts of failed snapshots only.
LEMMA PurgedFields ==
  ASSUME NEW sn \in Snapshot
  PROVE  /\ Purged(sn) \in Snapshot /\ Purged(sn).state = sn.state
         /\ sn.state # "failed" => Purged(sn) = sn
  BY DEF Purged, Snapshot

\* Purging keeps what is known of the snapshot.
LEMMA PurgedOK ==
  ASSUME JobInv, NEW s \in Snaps, UNCHANGED jobs,
         snaps' = [snaps EXCEPT ![s] = Purged(snaps[s])]
  PROVE  SnapOK(s)'
<1>1. SnapOK(s) /\ snaps[s] \in Snapshot /\ snaps'[s] = Purged(snaps[s])
  BY DEF JobInv, TypeOK
<1>2. QED
  BY <1>1, PurgedFields DEF SnapOK

\* mark_failed's second transaction: the failed snapshot loses its facts.
LEMMA PurgeInv ==
  ASSUME JobInv, NEW w \in Workers, Purge(w)
  PROVE  JobInv'
<1>0. /\ worker[w] \in WorkerState /\ WorkerOK(w) /\ worker[w].pc = "purge"
      /\ UNCHANGED <<jobs, record, client, release>>
  BY DEF Purge, JobInv, TypeOK
<1>1. PICK s \in Snaps : s = worker[w].snap
  BY <1>0 DEF WorkerOK
<1>2. snaps' = [snaps EXCEPT ![s] = Purged(snaps[s])]
  BY <1>1 DEF Purge
<1> DEFINE st == [worker[w] EXCEPT !.pc = "finish"]
           sn == Purged(snaps[s])
<1>3. worker' = [worker EXCEPT ![w] = st] /\ worker'[w] = st
  BY DEF Purge, Goto, JobInv, TypeOK
<1>4. /\ st \in WorkerState /\ st.job = worker[w].job /\ st.snap = s
      /\ st.pc = "finish" /\ st.row = worker[w].row
  BY <1>0, <1>1 DEF WorkerState
<1>5. /\ sn \in Snapshot /\ sn.state = snaps[s].state
      /\ FactsKept(snaps[s], sn)
  BY PurgedFields DEF JobInv, TypeOK, FactsKept
<1>6. \A t \in Snaps : snaps'[t].state = snaps[t].state
  BY <1>2, <1>5 DEF JobInv, TypeOK
<1> HIDE DEF st
<1>7. WorkerOK(w)'
  <2>1. worker[w].job \in Jobs /\ jobs[worker[w].job] \in JobRow
    BY <1>0 DEF WorkerOK, JobInv, TypeOK
  <2>2. SnapState(jobs[worker[w].job].snap) \in {"none", "failed"}
          => (IF jobs[worker[w].job].snap = None THEN "none"
              ELSE snaps'[jobs[worker[w].job].snap].state) \in {"none", "failed"}
    BY <1>6, <2>1 DEF SnapState, JobRow
  <2>3. QED
    BY <1>0, <1>3, <1>4, <2>1, <2>2 DEF WorkerOK, Executing, Owns, SnapState
<1>8. SnapOK(s)'
  BY <1>0, <1>2, PurgedOK
<1>9. QED
  BY <1>0, <1>2, <1>3, <1>4, <1>5, <1>7, <1>8, SnapStep

\* A sweep purges the facts of a failed snapshot.
LEMMA SweepPurgeInv ==
  ASSUME JobInv, NEW w \in Workers, SweepPurge(w)
  PROVE  JobInv'
<1>0. /\ worker[w] \in WorkerState /\ WorkerOK(w) /\ worker[w].pc = "idle"
      /\ UNCHANGED <<jobs, record, worker, client, release>>
  BY DEF SweepPurge, JobInv, TypeOK
<1>1. PICK s \in Snaps : snaps' = [snaps EXCEPT ![s] = Purged(snaps[s])]
  BY DEF SweepPurge
<1> DEFINE sn == Purged(snaps[s])
<1>2. /\ sn \in Snapshot /\ sn.state = snaps[s].state
      /\ FactsKept(snaps[s], sn)
  BY PurgedFields DEF JobInv, TypeOK, FactsKept
<1>3. WorkerOK(w)'
  BY <1>0 DEF WorkerOK, Executing
<1>4. SnapOK(s)'
  BY <1>0, <1>1, PurgedOK
<1>5. worker' = [worker EXCEPT ![w] = worker[w]]
  BY <1>0 DEF JobInv, TypeOK
<1>6. QED
  BY <1>0, <1>1, <1>2, <1>3, <1>4, <1>5, SnapStep

-----------------------------------------------------------------------------
(* The steps that end an attempt                                           *)

\* An active row may be completed, requeued, cancelled or failed when its
\* snapshot is not open, and completed exactly when its snapshot is sealed.
LEMMA ReleaseStep ==
  ASSUME JobInv, NEW j \in Jobs, NEW new \in JobRow,
         jobs' = [jobs EXCEPT ![j] = new], jobs[j].status \in Active,
         new.status \in {"completed", "queued", "cancelled", "failed"},
         new.repo = jobs[j].repo, new.attempt = jobs[j].attempt,
         new.snap = jobs[j].snap, new.worker = None, new.lease = None,
         SnapState(jobs[j].snap) # "building",
         new.status = "completed" <=> SnapState(jobs[j].snap) = "completed",
         new.status = "queued" => jobs[j].attempt < MaxAttempts,
         UNCHANGED <<snaps, release>>,
         NEW rs \in RecordStatus, rs # "gone",
         record' = [record EXCEPT ![jobs[j].repo] = rs],
         worker' \in [Workers -> WorkerState],
         \A v \in Workers : worker'[v] = worker[v] \/ WorkerOK(v)',
         client' \in [Clients -> ClientState],
         \A c \in Clients : client'[c] = client[c] \/ ClientOK(c)'
  PROVE  JobInv'
<1>1. jobs'[j] = new /\ \A k \in Jobs : k # j => jobs'[k] = jobs[k]
  BY DEF JobInv, TypeOK
<1>2. jobs[j] \in JobRow /\ RowOK(j)
  BY DEF JobInv, TypeOK
<1>3. TypeOK'
  BY DEF JobInv, TypeOK
<1>4. \A r \in Repos : record[r] # "gone" => record'[r] # "gone"
  BY DEF JobInv, TypeOK
<1>5. RowOK(j)'
  <2>1. jobs[j].repo # None /\ jobs[j].repo \in Repos /\ record[jobs[j].repo] # "gone"
    BY <1>2 DEF RowOK, JobRow, Active
  <2>2. QED
    BY <1>1, <1>2, <1>4, <2>1 DEF RowOK
<1>6. ASSUME NEW a \in Attempts PROVE SnapOK(<<j, a>>)'
  <2>1. SnapOK(<<j, a>>)
    BY DEF JobInv, Snaps
  <2>2. snaps[<<j, a>>].state # "building"
    <3>1. SUFFICES ASSUME snaps[<<j, a>>].state = "building" PROVE FALSE
      OBVIOUS
    <3>2. jobs[j].snap = <<j, a>>
      BY <2>1, <3>1 DEF SnapOK
    <3>3. <<j, a>> # None
      BY NoneAssumption DEF Jobs, Attempts
    <3>4. QED
      BY <3>1, <3>2, <3>3 DEF SnapState
  <2>3. snaps[<<j, a>>].state = "completed" => new.status = "completed"
    <3>1. SUFFICES ASSUME snaps[<<j, a>>].state = "completed"
                   PROVE  new.status = "completed"
      OBVIOUS
    <3>2. jobs[j].snap = <<j, a>>
      BY <2>1, <3>1 DEF SnapOK
    <3>3. <<j, a>> # None
      BY NoneAssumption DEF Jobs, Attempts
    <3>4. QED
      BY <3>1, <3>2, <3>3 DEF SnapState
  <2>4. QED
    BY <1>1, <2>1, <2>2, <2>3 DEF SnapOK
<1>7. Taken(None, j)
  BY <1>1 DEF Taken
<1>8. SealedStable(j)
  BY <1>1 DEF SealedStable, SnapState, Active
<1>9. jobs'[j].status \in Effective => \A k \in Jobs :
         k # j /\ jobs[k].status \in Effective => jobs[k].repo # jobs'[j].repo
  BY <1>1 DEF JobInv, OneEffective, Effective, Active
<1>10. jobs'[j].status = "completed" => SnapState(jobs[j].snap)' = "completed"
  BY <1>1 DEF SnapState
<1>11. \A v \in Workers : (v # None /\ worker'[v] = worker[v]) \/ WorkerOK(v)'
  BY NoneAssumption
<1>12. QED
  BY <1>1, <1>3, <1>4, <1>5, <1>6, <1>7, <1>8, <1>9, <1>10, <1>11, JobStep

\* Giving up, seen from a step that also writes.
LEMMA AbandonLocal ==
  ASSUME JobInv, NEW w \in Workers, Abandon(w)
  PROVE  /\ worker' \in [Workers -> WorkerState]
         /\ \A v \in Workers : worker'[v] = worker[v] \/ WorkerOK(v)'
<1>1. worker' = [worker EXCEPT ![w] = IdleWorker] /\ worker'[w] = IdleWorker
  BY DEF Abandon, JobInv, TypeOK
<1>2. WorkerOK(w)'
  BY <1>1 DEF WorkerOK, IdleWorker, Executing
<1>3. QED
  BY <1>1, <1>2, IdleTypes DEF JobInv, TypeOK

\* A cancelled, failed or requeued attempt.
LEMMA ConcludeInv ==
  ASSUME JobInv, NEW w \in Workers, NEW j \in Jobs, NEW row \in JobRow,
         NEW attempt, NEW verdict, jobs[j].status = "running",
         row.repo = jobs[j].repo, row.attempt = jobs[j].attempt,
         row.snap = jobs[j].snap, attempt = jobs[j].attempt,
         SnapState(jobs[j].snap) \in {"none", "failed"},
         Conclude(w, j, row, attempt, verdict), UNCHANGED <<snaps, client, release>>
  PROVE  JobInv'
<1> DEFINE status == Outcome(attempt, verdict)
           new == ConcludedRow(row, status)
           rs == ConcludedRecord(record[jobs[j].repo], status, verdict)
<1>1. jobs[j] \in JobRow /\ RowOK(j)
  BY DEF JobInv, TypeOK
<1>2. status \in {"cancelled", "failed", "queued"}
      /\ (status = "queued" => jobs[j].attempt < MaxAttempts)
  BY <1>1, MaxAttemptsAssumption DEF Outcome, JobRow
<1>3. jobs' = [jobs EXCEPT ![j] = new]
      /\ record' = [record EXCEPT ![jobs[j].repo] = rs] /\ Abandon(w)
  BY DEF Conclude
<1> HIDE DEF status
<1>4. status \in JobStatus /\ "queued" \in JobStatus
  BY <1>2 DEF JobStatus
<1>5. new \in JobRow
  BY <1>4, ConcludedRowType
<1>6. /\ new.status = status /\ new.repo = row.repo /\ new.attempt = row.attempt
      /\ new.snap = row.snap /\ new.worker = None /\ new.lease = None
  <2>1. CASE status = "queued"
    <3>1. Released(row, "queued") \in JobRow
      BY <1>4, ReleasedType
    <3>2. new = [Released(row, "queued") EXCEPT !.backoff = TRUE]
      BY <2>1 DEF ConcludedRow, RequeuedRow
    <3>3. QED
      BY <1>4, <2>1, <3>1, <3>2, ReleasedFields DEF JobRow
  <2>2. CASE status # "queued"
    BY <1>4, <2>2, ReleasedFields DEF ConcludedRow
  <2>3. QED
    BY <2>1, <2>2
<1>7. record[jobs[j].repo] \in RecordStatus /\ record[jobs[j].repo] # "gone"
  BY <1>1 DEF RowOK, JobRow, JobInv, TypeOK
<1>8. rs \in RecordStatus /\ rs # "gone"
  BY <1>2, <1>7 DEF ConcludedRecord, RecordStatus
<1> HIDE DEF new, rs
<1>9. client' \in [Clients -> ClientState] /\ \A c \in Clients : client'[c] = client[c]
  BY DEF JobInv, TypeOK
<1>10. jobs[j].status \in Active
  BY DEF Active
<1>11. new.status \in {"completed", "queued", "cancelled", "failed"}
       /\ new.status # "completed" /\ SnapState(jobs[j].snap) # "completed"
       /\ SnapState(jobs[j].snap) # "building"
       /\ (new.status = "queued" => jobs[j].attempt < MaxAttempts)
       /\ new.repo = jobs[j].repo /\ new.attempt = jobs[j].attempt
       /\ new.snap = jobs[j].snap
  BY <1>2, <1>6
<1>12. QED
  BY <1>3, <1>5, <1>6, <1>8, <1>9, <1>10, <1>11, AbandonLocal, ReleaseStep

\* A completed attempt: its snapshot is sealed.
LEMMA CompleteRowInv ==
  ASSUME JobInv, NEW w \in Workers, NEW j \in Jobs, NEW row \in JobRow,
         jobs[j].status = "running",
         row.repo = jobs[j].repo, row.attempt = jobs[j].attempt,
         row.snap = jobs[j].snap, SnapState(jobs[j].snap) = "completed",
         jobs' = [jobs EXCEPT ![j] = CompletedRow(row)],
         record' = [record EXCEPT ![jobs[j].repo] = "completed"],
         Abandon(w), UNCHANGED <<snaps, client, release>>
  PROVE  JobInv'
<1> DEFINE new == CompletedRow(row)
<1>1. new \in JobRow
  BY CompletedRowType
<1>2. /\ new.status = "completed" /\ new.repo = row.repo /\ new.attempt = row.attempt
      /\ new.snap = row.snap /\ new.worker = None /\ new.lease = None
  <2>1. "completed" \in JobStatus
    BY DEF JobStatus
  <2>2. Released(row, "completed") \in JobRow
    BY <2>1, ReleasedType
  <2>3. QED
    BY <2>1, <2>2, ReleasedFields DEF CompletedRow, JobRow
<1>3. client' \in [Clients -> ClientState] /\ \A c \in Clients : client'[c] = client[c]
  BY DEF JobInv, TypeOK
<1>4. jobs[j].status \in Active
  BY DEF Active
<1>5. "completed" \in RecordStatus
  BY DEF RecordStatus
<1> HIDE DEF new
<1>6. jobs' = [jobs EXCEPT ![j] = new]
  BY DEF new
<1>7. QED
  BY <1>1, <1>2, <1>3, <1>4, <1>5, <1>6, AbandonLocal, ReleaseStep

\* A failed build: the row stays the worker's until the facts are purged.
LEMMA FailBuildInv ==
  ASSUME JobInv, NEW w \in Workers, NEW j \in Jobs, NEW row \in JobRow,
         NEW verdict \in {"none", "cancel", "retry", "exceeded", "stale"},
         jobs[j].status = "running", row.status = "running",
         row.repo = jobs[j].repo, row.attempt = jobs[j].attempt,
         row.snap = jobs[j].snap, row.worker = w,
         \/ row.lease = FreshInstant
         \/ row.lease = jobs[j].lease /\ jobs[j].worker = w,
         SnapState(jobs[j].snap) = "building",
         jobs' = [jobs EXCEPT ![j] = row],
         snaps' = [snaps EXCEPT ![jobs[j].snap].state = "failed"],
         worker' = [worker EXCEPT ![w] =
            [IdleWorker EXCEPT !.pc = "purge", !.verdict = verdict,
                               !.job = j, !.snap = jobs[j].snap]],
         UNCHANGED <<record, client, release>>
  PROVE  JobInv'
<1>1. jobs[j] \in JobRow /\ RowOK(j) /\ jobs[j].snap # None
  BY DEF JobInv, TypeOK, SnapState
<1>2. PICK s \in Snaps : s = jobs[j].snap /\ s[1] = j /\ SnapOK(s)
                         /\ snaps[s] \in Snapshot /\ snaps[s].state = "building"
  BY <1>1 DEF JobRow, RowOK, JobInv, TypeOK, SnapState
<1> DEFINE st == [IdleWorker EXCEPT !.pc = "purge", !.verdict = verdict,
                                    !.job = j, !.snap = s]
           sn == [snaps[s] EXCEPT !.state = "failed"]
<1>3. worker' = [worker EXCEPT ![w] = st] /\ worker'[w] = st
  BY <1>2 DEF JobInv, TypeOK
<1>4. /\ st \in WorkerState /\ st.pc = "purge" /\ st.job = j /\ st.snap = s
      /\ st.row = NoRow
  BY IdleTypes DEF WorkerState, IdleWorker
<1>5. sn \in Snapshot /\ sn.state = "failed"
  BY <1>2 DEF Snapshot
<1>6. snaps' = [snaps EXCEPT ![s] = sn] /\ snaps'[s] = sn
      /\ \A t \in Snaps : t # s => snaps'[t] = snaps[t]
  BY <1>2 DEF JobInv, TypeOK
<1> HIDE DEF st, sn
<1>7. jobs'[j] = row /\ \A k \in Jobs : k # j => jobs'[k] = jobs[k]
  BY DEF JobInv, TypeOK
<1>8. TypeOK'
  BY <1>3, <1>4, <1>5, <1>6 DEF JobInv, TypeOK
<1>9. row.lease # None
  BY <1>1, FreshInstantType, NoneAssumption DEF RowOK, JobInv
<1>10. RowOK(j)'
  BY <1>1, <1>7, <1>9, NoneAssumption DEF RowOK
<1>11. ASSUME NEW a \in Attempts PROVE SnapOK(<<j, a>>)'
  <2>1. SnapOK(<<j, a>>) /\ <<j, a>> \in Snaps
    BY DEF JobInv, Snaps
  <2>2. CASE <<j, a>> = s
    <3>1. jobs[j].attempt = a /\ a \in Nat
      BY <1>2, <2>1, <2>2, MaxAttemptsAssumption DEF SnapOK, Attempts
    <3>2. QED
      BY <1>5, <1>6, <1>7, <2>2, <3>1 DEF SnapOK
  <2>3. CASE <<j, a>> # s
    BY <1>6, <1>7, <2>1, <2>3 DEF SnapOK
  <2>4. QED
    BY <2>2, <2>3
<1>12. WorkerOK(w)'
  <2>1. jobs'[j].snap = s /\ snaps'[s].state = "failed"
    BY <1>2, <1>5, <1>6, <1>7
  <2>2. SnapState(jobs[j].snap)' = "failed"
    BY <1>1, <1>2, <2>1 DEF SnapState
  <2>3. QED
    BY <1>3, <1>4, <2>2 DEF WorkerOK, Executing
<1>13. Taken(w, j)
  BY <1>7 DEF Taken, SameCore
<1>14. SealedStable(j)
  BY <1>7 DEF SealedStable
<1>15. jobs'[j].status \in Effective => \A k \in Jobs :
         k # j /\ jobs[k].status \in Effective => jobs[k].repo # jobs'[j].repo
  BY <1>7 DEF JobInv, OneEffective, Effective
<1>16. \A v \in Workers : (v # w /\ worker'[v] = worker[v]) \/ WorkerOK(v)'
  BY <1>3, <1>12 DEF JobInv, TypeOK
<1>17. \A t \in Snaps : t[1] # j => snaps'[t] = snaps[t]
  BY <1>2, <1>6
<1>18. jobs'[j].status # "completed"
  BY <1>7
<1>19. QED
  BY <1>7, <1>8, <1>10, <1>11, <1>13, <1>14, <1>15, <1>16, <1>17, <1>18, JobStep

\* What the closing handlers and the sweep share once the row is theirs.
LEMMA ResolveInv ==
  ASSUME JobInv, NEW w \in Workers, NEW j \in Jobs, NEW row \in JobRow, NEW seen,
         NEW verdict \in {"none", "cancel", "retry", "exceeded", "stale"},
         jobs[j].status = "running", row.status = "running",
         row.repo = jobs[j].repo, row.attempt = jobs[j].attempt,
         row.snap = jobs[j].snap, row.worker = w,
         \/ row.lease = FreshInstant
         \/ row.lease = jobs[j].lease /\ jobs[j].worker = w,
         seen.snap = jobs[j].snap, seen.attempt = jobs[j].attempt,
         Resolve(w, j, row, seen, verdict), UNCHANGED <<client, release>>
  PROVE  JobInv'
<1>1. CASE SnapState(jobs[j].snap) = "completed"
  <2>1. /\ jobs' = [jobs EXCEPT ![j] = CompletedRow(row)]
        /\ record' = [record EXCEPT ![jobs[j].repo] = "completed"]
        /\ Abandon(w) /\ UNCHANGED snaps
    BY <1>1 DEF Resolve
  <2>2. QED
    BY <1>1, <2>1, CompleteRowInv
<1>2. CASE SnapState(jobs[j].snap) = "building"
  <2>1. /\ jobs' = [jobs EXCEPT ![j] = row]
        /\ snaps' = [snaps EXCEPT ![jobs[j].snap].state = "failed"]
        /\ worker' = [worker EXCEPT ![w] =
            [IdleWorker EXCEPT !.pc = "purge", !.verdict = verdict,
                               !.job = j, !.snap = jobs[j].snap]]
        /\ UNCHANGED record
    BY <1>2 DEF Resolve
  <2>2. QED
    BY <1>2, <2>1, FailBuildInv
<1>3. CASE SnapState(jobs[j].snap) \in {"none", "failed"}
  <2>1. Conclude(w, j, row, seen.attempt, verdict) /\ UNCHANGED snaps
    BY <1>3 DEF Resolve
  <2>2. QED
    BY <1>3, <2>1, ConcludeInv
<1>4. SnapState(jobs[j].snap) \in {"none", "building", "completed", "failed"}
  BY DEF SnapState, JobInv, TypeOK, JobRow, Snapshot
<1>5. QED
  BY <1>1, <1>2, <1>3, <1>4

\* Closing one's own attempt.
LEMMA SettleInv ==
  ASSUME JobInv, NEW w \in Workers, Settle(w)
  PROVE  JobInv'
<1>0. worker[w] \in WorkerState /\ WorkerOK(w) /\ worker[w].pc = "settle"
      /\ UNCHANGED <<client, release>>
  BY DEF Settle, JobInv, TypeOK
<1>1. PICK j \in Jobs : j = worker[w].job
  BY <1>0 DEF WorkerOK
<1>2. PICK verdict \in {"none", "cancel", "retry", "exceeded", "stale"} :
         verdict = worker[w].verdict
  BY <1>0 DEF WorkerState
<1>3. CASE Abandon(w) /\ UNCHANGED <<jobs, snaps, record>>
  BY <1>0, <1>3, AbandonInv
<1>4. CASE Close(w, "cancel") /\ UNCHANGED <<jobs, snaps, record>>
  BY <1>0, <1>1, <1>4, CloseInv
<1>5. CASE Owns(w, j) /\ Resolve(w, j, jobs[j], jobs[j], verdict)
  <2>1. jobs[j].status = "running" /\ jobs[j].worker = w /\ jobs[j] \in JobRow
    BY <1>5 DEF Owns, JobInv, TypeOK
  <2>2. QED
    BY <1>0, <1>5, <2>1, ResolveInv
<1>6. QED
  BY <1>1, <1>2, <1>3, <1>4, <1>5 DEF Settle

\* The sweep: the copy it decides on is current when the guard holds.
LEMMA ReclaimInv ==
  ASSUME JobInv, NEW w \in Workers, Reclaim(w)
  PROVE  JobInv'
<1>0. worker[w] \in WorkerState /\ WorkerOK(w) /\ worker[w].pc = "reclaim"
      /\ UNCHANGED <<client, release>>
  BY DEF Reclaim, JobInv, TypeOK
<1>1. PICK j \in Jobs : j = worker[w].job
  BY <1>0 DEF WorkerOK
<1> DEFINE seen == worker[w].row
           row == [Renewed(jobs[j]) EXCEPT !.worker = w]
<1>2. CASE ~Reclaimable(j, seen)
  BY <1>0, <1>1, <1>2, AbandonInv DEF Reclaim
<1>3. CASE Reclaimable(j, seen)
  <2>1. PICK verdict \in {"none", "cancel", "retry", "exceeded", "stale"} :
           Resolve(w, j, row, seen, verdict)
    BY <1>1, <1>3 DEF Reclaim
  <2>2. jobs[j] \in JobRow /\ TypeOK /\ jobs[j].status = "running"
    BY <1>3 DEF Reclaimable, JobInv, TypeOK
  <2>3. seen.attempt = jobs[j].attempt /\ seen.snap = jobs[j].snap
    BY <1>0, <1>1, <1>3 DEF WorkerOK, Reclaimable
  <2>4. Renewed(jobs[j]) \in JobRow
    BY <2>2, RenewedType
  <2>5. row \in JobRow
    BY <2>4 DEF JobRow
  <2>6. /\ row.status = jobs[j].status /\ row.repo = jobs[j].repo
        /\ row.attempt = jobs[j].attempt /\ row.snap = jobs[j].snap
        /\ row.lease = FreshInstant /\ row.worker = w
    <3>1. /\ row.status = Renewed(jobs[j]).status /\ row.repo = Renewed(jobs[j]).repo
          /\ row.attempt = Renewed(jobs[j]).attempt /\ row.snap = Renewed(jobs[j]).snap
          /\ row.lease = Renewed(jobs[j]).lease /\ row.worker = w
      BY <2>4 DEF JobRow
    <3>2. QED
      BY <2>2, <3>1, RenewedFields
  <2> HIDE DEF row, seen
  <2>7. QED
    BY <1>0, <2>1, <2>2, <2>3, <2>5, <2>6, ResolveInv
<1>4. QED
  BY <1>2, <1>3

\* The last step of closing an attempt whose build was failed.
LEMMA FinishInv ==
  ASSUME JobInv, NEW w \in Workers, Finish(w)
  PROVE  JobInv'
<1>0. worker[w] \in WorkerState /\ WorkerOK(w) /\ worker[w].pc = "finish"
      /\ UNCHANGED <<snaps, client, release>>
  BY DEF Finish, JobInv, TypeOK
<1>1. PICK j \in Jobs : j = worker[w].job
  BY <1>0 DEF WorkerOK
<1>2. CASE ~Owns(w, j)
  BY <1>0, <1>1, <1>2, AbandonInv DEF Finish
<1>3. CASE Owns(w, j)
  <2>1. Conclude(w, j, jobs[j], jobs[j].attempt, worker[w].verdict)
    BY <1>1, <1>3 DEF Finish
  <2>2. SnapState(jobs[j].snap) \in {"none", "failed"}
    BY <1>0, <1>1, <1>3 DEF WorkerOK
  <2>3. jobs[j] \in JobRow /\ jobs[j].status = "running"
    BY <1>3 DEF JobInv, TypeOK, Owns
  <2>4. QED
    BY <1>0, <2>1, <2>2, <2>3, ConcludeInv
<1>4. QED
  BY <1>2, <1>3

\* Completing one's own attempt.
LEMMA CompleteInv ==
  ASSUME JobInv, NEW w \in Workers, Complete(w)
  PROVE  JobInv'
<1>0. /\ worker[w].pc = "stage" /\ worker[w].stage = "complete"
      /\ UNCHANGED <<snaps, client, release>>
  BY DEF Complete, InStage
<1>1. PICK j \in Jobs : j = worker[w].job
  BY <1>0, StageSnap
<1>2. CASE ~OwnsUncancelled(w, j)
  BY <1>0, <1>1, <1>2, AbandonInv, CloseInv DEF Complete
<1>3. CASE OwnsUncancelled(w, j)
  <2>1. /\ jobs' = [jobs EXCEPT ![j] = CompletedRow(jobs[j])]
        /\ record' = [record EXCEPT ![jobs[j].repo] = "completed"]
        /\ Abandon(w)
    BY <1>1, <1>3 DEF Complete
  <2>2. jobs[j] \in JobRow /\ jobs[j].status = "running"
    BY <1>3 DEF JobInv, TypeOK, OwnsUncancelled, Owns
  <2>3. /\ worker[w].snap = jobs[j].snap /\ snaps[jobs[j].snap].state = "completed"
        /\ worker[w].snap \in Snaps
    BY <1>0, <1>1, <1>3 DEF JobInv, WorkerOK, Executing, OwnsUncancelled
  <2>4. SnapState(jobs[j].snap) = "completed"
    BY <2>3, NoneAssumption DEF SnapState, Snaps, Jobs, Attempts
  <2>5. QED
    BY <1>0, <2>1, <2>2, <2>4, CompleteRowInv
<1>4. QED
  BY <1>2, <1>3

-----------------------------------------------------------------------------
(* Claiming, opening and extracting                                        *)

\* A row that is taken or kept by a worker under a new lease instant, with
\* its snapshots.
LEMMA TakeStep ==
  ASSUME JobInv, NEW w \in Workers, NEW j \in Jobs, NEW new \in JobRow,
         jobs' = [jobs EXCEPT ![j] = new], jobs[j].status \in Active,
         new.status = "running", new.repo = jobs[j].repo, new.worker = w,
         new.lease = FreshInstant, new.attempt > 0,
         new.snap # None => new.snap[1] = j /\ new.snap[2] <= new.attempt,
         SnapState(jobs[j].snap) # "completed",
         snaps' \in [Snaps -> Snapshot],
         \A t \in Snaps : t[1] # j => snaps'[t] = snaps[t],
         \A a \in Attempts : SnapOK(<<j, a>>)',
         record' \in [Repos -> RecordStatus],
         \A r \in Repos : record[r] # "gone" => record'[r] # "gone",
         NEW st \in WorkerState, worker' = [worker EXCEPT ![w] = st],
         WorkerOK(w)', UNCHANGED <<client, release>>
  PROVE  JobInv'
<1>1. jobs'[j] = new /\ \A k \in Jobs : k # j => jobs'[k] = jobs[k]
  BY DEF JobInv, TypeOK
<1>2. jobs[j] \in JobRow /\ RowOK(j)
  BY DEF JobInv, TypeOK
<1>3. TypeOK'
  BY DEF JobInv, TypeOK
<1>4. new.lease # None /\ w # None
  BY FreshInstantType, NoneAssumption DEF JobInv
<1>5. RowOK(j)'
  <2>1. jobs[j].repo # None /\ jobs[j].repo \in Repos /\ record[jobs[j].repo] # "gone"
    BY <1>2 DEF RowOK, JobRow, Active
  <2>2. QED
    BY <1>1, <1>4, <2>1 DEF RowOK
<1>6. Taken(w, j)
  BY <1>1 DEF Taken
<1>7. SealedStable(j)
  BY <1>1 DEF SealedStable, Active
<1>8. jobs'[j].status \in Effective => \A k \in Jobs :
         k # j /\ jobs[k].status \in Effective => jobs[k].repo # jobs'[j].repo
  BY <1>1 DEF JobInv, OneEffective, Effective, Active
<1>9. \A v \in Workers : (v # w /\ worker'[v] = worker[v]) \/ WorkerOK(v)'
  BY DEF JobInv, TypeOK
<1>10. jobs'[j].status # "completed"
  BY <1>1
<1>11. QED
  BY <1>1, <1>3, <1>5, <1>6, <1>7, <1>8, <1>9, <1>10, JobStep

\* Only the current attempt of a running or completed job has a live snapshot.
LEMMA LiveSnapshot ==
  ASSUME JobInv, NEW j \in Jobs, NEW a \in Attempts,
         snaps[<<j, a>>].state \in {"building", "completed"}
  PROVE  /\ jobs[j].snap = <<j, a>> /\ jobs[j].attempt = a
         /\ jobs[j].status \in {"running", "completed"}
<1>1. SnapOK(<<j, a>>)
  BY DEF JobInv, Snaps
<1>2. QED
  BY <1>1 DEF SnapOK

\* The snapshot a row points at is one of its own.
LEMMA OwnSnapshot ==
  ASSUME JobInv, NEW j \in Jobs, jobs[j].snap # None
  PROVE  \E a \in Attempts : jobs[j].snap = <<j, a>> /\ a <= jobs[j].attempt
<1>1. jobs[j].snap \in Snaps /\ jobs[j].snap[1] = j /\ jobs[j].snap[2] <= jobs[j].attempt
  BY DEF JobInv, TypeOK, JobRow, RowOK
<1>2. QED
  BY <1>1 DEF Snaps

\* The claim opens a new attempt, which has no snapshot yet.
LEMMA ClaimInv ==
  ASSUME JobInv, NEW w \in Workers, Claim(w)
  PROVE  JobInv'
<1>0. worker[w] \in WorkerState /\ WorkerOK(w) /\ worker[w].pc = "claim"
      /\ UNCHANGED <<snaps, record, client, release>>
  BY DEF Claim, JobInv, TypeOK
<1>1. PICK j \in Jobs : j = worker[w].job
  BY <1>0 DEF WorkerOK
<1>2. CASE ~Claimable(j)
  BY <1>0, <1>1, <1>2, AbandonInv DEF Claim
<1>3. CASE Claimable(j)
  <2> DEFINE new == [Renewed(jobs[j]) EXCEPT !.status = "running", !.worker = w,
                                             !.attempt = @ + 1, !.backoff = FALSE]
             st == [worker[w] EXCEPT !.pc = "gate", !.stage = "open"]
  <2>1. jobs[j].status = "queued" /\ jobs[j] \in JobRow /\ RowOK(j) /\ TypeOK
    BY <1>3 DEF Claimable, JobInv, TypeOK
  <2>2. Renewed(jobs[j]) \in JobRow
    BY <2>1, RenewedType
  <2>3. jobs[j].attempt \in 0..MaxAttempts /\ jobs[j].attempt < MaxAttempts
        /\ Renewed(jobs[j]).attempt = jobs[j].attempt
    BY <2>1, RenewedFields DEF RowOK, JobRow
  <2>4. jobs[j].attempt + 1 \in Attempts /\ jobs[j].attempt + 1 \in 0..MaxAttempts
        /\ jobs[j].attempt \in Nat /\ MaxAttempts \in Nat
    BY <2>3, MaxAttemptsAssumption DEF Attempts
  <2>5. new \in JobRow
    BY <2>2, <2>3, <2>4 DEF JobRow, JobStatus
  <2>6. /\ new.status = "running" /\ new.repo = jobs[j].repo /\ new.worker = w
        /\ new.lease = FreshInstant /\ new.attempt = jobs[j].attempt + 1
        /\ new.snap = jobs[j].snap
    <3>1. /\ new.status = "running" /\ new.repo = Renewed(jobs[j]).repo
          /\ new.worker = w /\ new.lease = Renewed(jobs[j]).lease
          /\ new.attempt = Renewed(jobs[j]).attempt + 1
          /\ new.snap = Renewed(jobs[j]).snap
      BY <2>2 DEF JobRow
    <3>2. QED
      BY <2>1, <3>1, RenewedFields
  <2>7. jobs' = [jobs EXCEPT ![j] = new]
    BY <1>1, <1>3 DEF Claim
  <2>8. worker' = [worker EXCEPT ![w] = st] /\ worker'[w] = st
    BY <1>1, <1>3 DEF Claim, JobInv, TypeOK
  <2>9. /\ st \in WorkerState /\ st.pc = "gate" /\ st.stage = "open" /\ st.job = j
        /\ st.row = worker[w].row
    BY <1>0, <1>1 DEF WorkerState
  <2> HIDE DEF new, st
  <2>10. jobs'[j] = new
    BY <2>7 DEF JobInv, TypeOK
  <2>11. ASSUME NEW a \in Attempts
         PROVE  /\ snaps[<<j, a>>].state \notin {"building", "completed"}
                /\ a > jobs[j].attempt => snaps[<<j, a>>].state = "none"
    <3>1. SnapOK(<<j, a>>)
      BY DEF JobInv, Snaps
    <3>2. QED
      BY <2>1, <3>1, LiveSnapshot DEF SnapOK
  <2>12. ASSUME NEW a \in Attempts PROVE SnapOK(<<j, a>>)'
    <3>1. a > jobs[j].attempt + 1 => a > jobs[j].attempt
      BY <2>4, MaxAttemptsAssumption DEF Attempts
    <3>2. QED
      BY <1>0, <2>6, <2>10, <2>11, <3>1 DEF SnapOK
  <2>13. WorkerOK(w)'
    <3>1. snaps'[<<j, jobs'[j].attempt>>].state = "none"
      BY <1>0, <2>4, <2>6, <2>10, <2>11
    <3>2. worker[w].row = NoRow
      BY <1>0 DEF WorkerOK
    <3>3. QED
      BY <2>8, <2>9, <3>1, <3>2 DEF WorkerOK, Executing
  <2>14. SnapState(jobs[j].snap) # "completed"
    BY <2>11, OwnSnapshot DEF SnapState
  <2>15. new.snap # None => new.snap[1] = j /\ new.snap[2] <= new.attempt
    <3>1. SUFFICES ASSUME jobs[j].snap # None
                   PROVE  jobs[j].snap[1] = j /\ jobs[j].snap[2] <= jobs[j].attempt + 1
      BY <2>6
    <3>2. PICK a \in Attempts : jobs[j].snap = <<j, a>> /\ a <= jobs[j].attempt
      BY <3>1, OwnSnapshot
    <3>3. QED
      BY <2>4, <3>2 DEF Attempts
  <2>16. /\ new.attempt > 0 /\ jobs[j].status \in Active
         /\ snaps' \in [Snaps -> Snapshot] /\ record' \in [Repos -> RecordStatus]
         /\ \A t \in Snaps : snaps'[t] = snaps[t]
    BY <1>0, <2>1, <2>4, <2>6 DEF Active, TypeOK
  <2>17. QED
    BY <1>0, <2>5, <2>6, <2>7, <2>8, <2>9, <2>12, <2>13, <2>14, <2>15, <2>16, TakeStep
<1>4. QED
  BY <1>2, <1>3

\* While a worker is about to open the snapshot of an attempt it owns, the
\* identity has no sealed snapshot to reuse.
LEMMA NothingToReuse ==
  ASSUME JobInv, NEW w \in Workers, NEW j \in Jobs, j = worker[w].job,
         Executing(w), worker[w].stage = "open", Owns(w, j)
  PROVE  /\ Sealed(jobs[j].repo) = {}
         /\ jobs[j].attempt \in Attempts
         /\ snaps[<<j, jobs[j].attempt>>].state = "none"
<1>1. snaps[<<j, jobs[j].attempt>>].state = "none" /\ jobs[j].status = "running"
  BY DEF JobInv, WorkerOK, Owns
<1>2. jobs[j].attempt \in Attempts
  BY <1>1 DEF JobInv, RowOK, TypeOK, JobRow, Attempts
<1>3. ASSUME NEW s \in Sealed(jobs[j].repo) PROVE FALSE
  <2>1. s \in Snaps /\ snaps[s].state = "completed" /\ jobs[s[1]].repo = jobs[j].repo
    BY <1>3 DEF Sealed
  <2>2. PICK k \in Jobs, a \in Attempts : s = <<k, a>>
    BY <2>1 DEF Snaps
  <2>3. jobs[k].status \in {"running", "completed"} /\ jobs[k].attempt = a
    BY <2>1, <2>2, LiveSnapshot
  <2>4. k = j
    BY <1>1, <2>1, <2>2, <2>3 DEF JobInv, OneEffective, Effective
  <2>5. QED
    BY <1>1, <2>1, <2>2, <2>3, <2>4
<1>4. QED
  BY <1>1, <1>2, <1>3

\* Opening: a building snapshot for the attempt, in the row's transaction.
LEMMA OpenSnapshotInv ==
  ASSUME JobInv, NEW w \in Workers, OpenSnapshot(w)
  PROVE  JobInv'
<1>0. /\ worker[w] \in WorkerState /\ WorkerOK(w) /\ Executing(w)
      /\ worker[w].stage = "open" /\ UNCHANGED <<client, release>>
  BY DEF OpenSnapshot, InStage, Executing, JobInv, TypeOK
<1>1. PICK j \in Jobs : j = worker[w].job
  BY <1>0 DEF WorkerOK, Executing
<1>2. CASE ~Owns(w, j)
  BY <1>0, <1>1, <1>2, AbandonInv DEF OpenSnapshot
<1>3. CASE Owns(w, j)
  <2>1. /\ Sealed(jobs[j].repo) = {} /\ jobs[j].attempt \in Attempts
        /\ snaps[<<j, jobs[j].attempt>>].state = "none"
    BY <1>0, <1>1, <1>3, NothingToReuse
  <2>2. PICK s \in Snaps : s = <<j, jobs[j].attempt>>
    BY <2>1 DEF Snaps
  <2>3. Opened(w, j) = s
    BY <2>1, <2>2 DEF Opened
  <2> DEFINE new == [Renewed(jobs[j]) EXCEPT !.snap = s]
             sn == [state |-> "building", facts |-> {}, release |-> release]
             st == [worker[w] EXCEPT !.pc = "gate", !.stage = "extract", !.snap = s,
                                     !.written = {}]
  <2>4. /\ jobs' = [jobs EXCEPT ![j] = new]
        /\ snaps' = [snaps EXCEPT ![s] = sn]
        /\ record' = [record EXCEPT ![jobs[j].repo] = "analysing"]
    BY <1>1, <1>3, <2>1, <2>3 DEF OpenSnapshot
  <2>5. worker' = [worker EXCEPT ![w] = [NextStage(w, "extract") EXCEPT !.snap = s, !.written = {}]]
    BY <1>1, <1>3, <2>1, <2>3 DEF OpenSnapshot
  <2>6. [NextStage(w, "extract") EXCEPT !.snap = s, !.written = {}] = st
    BY <1>0 DEF NextStage, WorkerState
  <2>7. worker' = [worker EXCEPT ![w] = st] /\ worker'[w] = st
    BY <2>5, <2>6 DEF JobInv, TypeOK
  <2>8. /\ st \in WorkerState /\ st.pc = "gate" /\ st.stage = "extract" /\ st.job = j
        /\ st.snap = s /\ st.row = worker[w].row /\ st.written = {}
    BY <1>0, <1>1 DEF WorkerState
  <2>9. jobs[j].status = "running" /\ jobs[j] \in JobRow /\ RowOK(j) /\ TypeOK
    BY <1>3 DEF Owns, JobInv, TypeOK
  <2>10. Renewed(jobs[j]) \in JobRow
    BY <2>9, RenewedType
  <2>11. new \in JobRow
    BY <2>10 DEF JobRow
  <2>12. /\ new.status = "running" /\ new.repo = jobs[j].repo /\ new.worker = w
         /\ new.lease = FreshInstant /\ new.attempt = jobs[j].attempt
         /\ new.snap = s
    <3>1. /\ new.status = Renewed(jobs[j]).status /\ new.repo = Renewed(jobs[j]).repo
          /\ new.worker = Renewed(jobs[j]).worker /\ new.lease = Renewed(jobs[j]).lease
          /\ new.attempt = Renewed(jobs[j]).attempt /\ new.snap = s
      BY <2>10 DEF JobRow
    <3>2. QED
      BY <1>3, <2>9, <3>1, RenewedFields DEF Owns
  <2>13. sn \in Snapshot /\ sn.state = "building"
    BY <2>9 DEF Snapshot, TypeOK, Facts
  <2> HIDE DEF new, sn, st
  <2>14. /\ jobs'[j] = new /\ snaps'[s] = sn
         /\ \A t \in Snaps : t # s => snaps'[t] = snaps[t]
    BY <2>4 DEF JobInv, TypeOK
  <2>15. jobs[j].attempt \in Nat /\ jobs[j].attempt > 0
    BY <2>1, MaxAttemptsAssumption DEF Attempts
  <2>16. ASSUME NEW a \in Attempts PROVE SnapOK(<<j, a>>)'
    <3>1. SnapOK(<<j, a>>) /\ <<j, a>> \in Snaps
      BY DEF JobInv, Snaps
    <3>2. CASE a = jobs[j].attempt
      BY <2>2, <2>12, <2>13, <2>14, <2>15, <3>2 DEF SnapOK
    <3>3. CASE a # jobs[j].attempt
      <4>1. snaps'[<<j, a>>] = snaps[<<j, a>>]
        BY <2>2, <2>14, <3>1, <3>3
      <4>2. snaps[<<j, a>>].state \notin {"building", "completed"}
        BY <3>3, LiveSnapshot
      <4>3. QED
        BY <2>12, <2>14, <3>1, <4>1, <4>2 DEF SnapOK
    <3>4. QED
      BY <3>2, <3>3
  <2>17. WorkerOK(w)'
    <3>1. worker[w].row = NoRow /\ s[1] = j
      BY <1>0, <2>2 DEF WorkerOK, Executing
    <3>2. QED
      BY <2>7, <2>8, <2>12, <2>13, <2>14, <3>1 DEF WorkerOK, Executing, Owns
  <2>18. SnapState(jobs[j].snap) # "completed"
    <3>1. SUFFICES ASSUME jobs[j].snap # None, snaps[jobs[j].snap].state = "completed"
                   PROVE  FALSE
      BY DEF SnapState
    <3>2. PICK a \in Attempts : jobs[j].snap = <<j, a>>
      BY <3>1, OwnSnapshot
    <3>3. a = jobs[j].attempt
      BY <3>1, <3>2, LiveSnapshot
    <3>4. QED
      BY <2>1, <3>1, <3>2, <3>3
  <2>19. snaps' \in [Snaps -> Snapshot] /\ record' \in [Repos -> RecordStatus]
         /\ (\A r \in Repos : record[r] # "gone" => record'[r] # "gone")
    BY <2>4, <2>9, <2>13 DEF TypeOK, RecordStatus
  <2>20. \A t \in Snaps : t[1] # j => snaps'[t] = snaps[t]
    BY <2>2, <2>14
  <2>21. new.snap[1] = j /\ new.snap[2] <= new.attempt /\ new.attempt > 0
         /\ jobs[j].status \in Active
    BY <2>2, <2>9, <2>12, <2>15 DEF Active
  <2>22. QED
    BY <1>0, <2>4, <2>7, <2>8, <2>11, <2>12, <2>16, <2>17, <2>18, <2>19, <2>20, <2>21,
       TakeStep
<1>4. QED
  BY <1>2, <1>3

\* The end of the extract stage: every fact, with the guarded checkpoint.
LEMMA FinishExtractInv ==
  ASSUME JobInv, NEW w \in Workers, FinishExtract(w)
  PROVE  JobInv'
<1>0. /\ worker[w].pc = "stage" /\ worker[w].stage = "extract"
      /\ UNCHANGED <<record, client, release>>
  BY DEF FinishExtract, InStage
<1>1. PICK s \in Snaps :
        /\ s = worker[w].snap /\ worker[w] \in WorkerState /\ s[1] = worker[w].job
        /\ worker[w].row = NoRow /\ SnapOK(s) /\ snaps[s] \in Snapshot
  BY <1>0, StageSnap
<1>2. PICK j \in Jobs : j = worker[w].job
  BY <1>0, StageSnap
<1>3. CASE ~Owns(w, j)
  BY <1>0, <1>2, <1>3, AbandonInv DEF FinishExtract
<1>4. CASE Owns(w, j)
  <2> DEFINE new == Renewed(jobs[j])
             sn == [snaps[s] EXCEPT !.facts = @ \cup (Facts \ worker[w].written)]
             st == [worker[w] EXCEPT !.pc = "gate", !.stage = "seal"]
  <2>1. /\ jobs' = [jobs EXCEPT ![j] = new]
        /\ snaps' = [snaps EXCEPT ![s] = sn]
        /\ worker' = [worker EXCEPT ![w] = st]
    BY <1>1, <1>2, <1>4 DEF FinishExtract, NextStage
  <2>2. /\ s = jobs[j].snap /\ snaps[s].state = "building"
        /\ worker[w].written \subseteq snaps[s].facts
    BY <1>0, <1>1, <1>2, <1>4 DEF JobInv, WorkerOK, Executing
  <2>3. jobs[j].status = "running" /\ jobs[j] \in JobRow /\ RowOK(j) /\ TypeOK
    BY <1>4 DEF Owns, JobInv, TypeOK
  <2>4. new \in JobRow
    BY <2>3, RenewedType
  <2>5. /\ new.status = "running" /\ new.repo = jobs[j].repo /\ new.worker = w
        /\ new.lease = FreshInstant /\ new.attempt = jobs[j].attempt
        /\ new.snap = s
    BY <1>4, <2>2, <2>3, RenewedFields DEF Owns
  <2>6. sn \in Snapshot /\ sn.state = "building" /\ sn.facts = Facts
    BY <1>1, <2>2 DEF Snapshot
  <2>7. /\ st \in WorkerState /\ st.pc = "gate" /\ st.stage = "seal" /\ st.job = j
        /\ st.snap = s /\ st.row = NoRow
    BY <1>1, <1>2 DEF WorkerState
  <2> HIDE DEF new, sn, st
  <2>8. /\ jobs'[j] = new /\ snaps'[s] = sn /\ worker'[w] = st
        /\ \A t \in Snaps : t # s => snaps'[t] = snaps[t]
    BY <2>1 DEF JobInv, TypeOK
  <2>9. ASSUME NEW a \in Attempts PROVE SnapOK(<<j, a>>)'
    <3>1. SnapOK(<<j, a>>) /\ <<j, a>> \in Snaps
      BY DEF JobInv, Snaps
    <3>2. snaps'[<<j, a>>].state = snaps[<<j, a>>].state
      BY <2>2, <2>6, <2>8, <3>1
    <3>3. snaps'[<<j, a>>].state = "completed" => snaps'[<<j, a>>].facts = Facts
      BY <2>6, <2>8, <3>1 DEF SnapOK
    <3>4. QED
      BY <2>2, <2>3, <2>5, <2>8, <3>1, <3>2, <3>3 DEF SnapOK
  <2>10. WorkerOK(w)'
    BY <1>1, <1>2, <2>5, <2>6, <2>7, <2>8 DEF WorkerOK, Executing, Owns
  <2>11. SnapState(jobs[j].snap) # "completed"
    BY <2>2 DEF SnapState
  <2>12. snaps' \in [Snaps -> Snapshot] /\ record' \in [Repos -> RecordStatus]
         /\ (\A r \in Repos : record[r] # "gone" => record'[r] # "gone")
    BY <1>0, <2>1, <2>3, <2>6 DEF TypeOK
  <2>13. \A t \in Snaps : t[1] # j => snaps'[t] = snaps[t]
    BY <1>1, <1>2, <2>8
  <2>14. jobs[j].status \in Active /\ jobs[j].attempt > 0 /\ s # None
         /\ s[1] = j /\ s[2] <= jobs[j].attempt
    BY <1>1, <1>2, <2>2, <2>3, NoneAssumption DEF Active, RowOK, Snaps, Jobs, Attempts
  <2>15. QED
    BY <1>0, <2>1, <2>4, <2>5, <2>7, <2>9, <2>10, <2>11, <2>12, <2>13, <2>14, TakeStep
<1>5. QED
  BY <1>3, <1>4

-----------------------------------------------------------------------------
(* Requests                                                                *)

\* A step of one request that writes nothing keeps the invariant when the
\* request's own part of it holds afterwards.
LEMMA ClientFrame ==
  ASSUME JobInv, NEW c \in Clients, NEW st \in ClientState,
         client' = [client EXCEPT ![c] = st],
         UNCHANGED <<jobs, snaps, record, worker, release>>,
         ClientOK(c)'
  PROVE  JobInv'
<1>1. TypeOK'
  BY DEF JobInv, TypeOK
<1>2. (\A j \in Jobs : RowOK(j))' /\ OneEffective' /\ (\A s \in Snaps : SnapOK(s))'
      /\ CompletedIsSealed'
  BY DEF JobInv, RowOK, OneEffective, SnapOK, CompletedIsSealed, SnapState
<1>3. ASSUME NEW v \in Workers PROVE WorkerOK(v)'
  BY DEF JobInv, WorkerOK, Executing, Owns, SnapState
<1>4. ASSUME NEW d \in Clients PROVE ClientOK(d)'
  <2>1. CASE d = c
    BY <2>1
  <2>2. CASE d # c
    <3>1. client'[d] = client[d] /\ ClientOK(d)
      BY <2>2 DEF JobInv, TypeOK
    <3>2. QED
      BY <3>1 DEF ClientOK, SnapState
  <2>3. QED
    BY <2>1, <2>2
<1>5. QED
  BY <1>1, <1>2, <1>3, <1>4 DEF JobInv

\* Answering, seen from a step that may also write.
LEMMA AnswerLocal ==
  ASSUME JobInv, NEW c \in Clients, client[c].repo \in Repos,
         NEW result \in {"none", "ok", "conflict", "raised"},
         NEW status \in JobStatus, Answer(c, result, status)
  PROVE  /\ client' \in [Clients -> ClientState]
         /\ \A d \in Clients : client'[d] = client[d] \/ ClientOK(d)'
         /\ \E st \in ClientState : client' = [client EXCEPT ![c] = st]
         /\ ClientOK(c)'
<1> DEFINE st == [IdleClient EXCEPT !.pc = "reply", !.result = result,
                           !.status = status, !.op = client[c].op,
                           !.repo = client[c].repo]
<1>0. client[c] \in ClientState
  BY DEF JobInv, TypeOK
<1>1. st \in ClientState /\ st.pc = "reply" /\ st.repo \in Repos
  BY <1>0, IdleTypes DEF ClientState, IdleClient
<1>2. client' = [client EXCEPT ![c] = st] /\ client'[c] = st
  BY DEF Answer, JobInv, TypeOK
<1> HIDE DEF st
<1>3. ClientOK(c)'
  BY <1>1, <1>2 DEF ClientOK
<1>4. QED
  BY <1>1, <1>2, <1>3 DEF JobInv, TypeOK

\* Answering without writing anything.
LEMMA AnswerInv ==
  ASSUME JobInv, NEW c \in Clients, client[c].repo \in Repos,
         NEW result \in {"none", "ok", "conflict", "raised"},
         NEW status \in JobStatus, Answer(c, result, status),
         UNCHANGED <<jobs, snaps, record, worker, release>>
  PROVE  JobInv'
  BY AnswerLocal, ClientFrame

\* Going on to a step that needs no job.
LEMMA RequestOn ==
  ASSUME JobInv, NEW c \in Clients, NEW st \in ClientState,
         client' = [client EXCEPT ![c] = st],
         st.pc \in {"find", "active", "insert", "reread", "reply"}, st.repo \in Repos,
         UNCHANGED <<jobs, snaps, record, worker, release>>
  PROVE  JobInv'
<1>1. client'[c] = st
  BY DEF JobInv, TypeOK
<1>2. ClientOK(c)'
  BY <1>1 DEF ClientOK
<1>3. QED
  BY <1>2, ClientFrame

\* A request that has found the sealed snapshot of its job.
LEMMA ReconcileOn ==
  ASSUME JobInv, NEW c \in Clients, NEW st \in ClientState,
         client' = [client EXCEPT ![c] = st], st.pc = "reconcile", st.repo \in Repos,
         NEW j \in Jobs, st.job = j, st.row = jobs[j], st.snap \in Snaps,
         snaps[st.snap].state = "completed", jobs[j].snap = st.snap,
         jobs[j].repo = st.repo,
         UNCHANGED <<jobs, snaps, record, worker, release>>
  PROVE  JobInv'
<1>1. client'[c] = st
  BY DEF JobInv, TypeOK
<1>2. st.snap # None
  BY NoneAssumption DEF Snaps, Jobs, Attempts
<1>3. PICK a \in Attempts : st.snap = <<j, a>>
  BY <1>2, OwnSnapshot
<1>4. jobs[j].status \in {"running", "completed"}
  BY <1>3, LiveSnapshot
<1>5. jobs[j].status = "running" => jobs[j].worker # None /\ jobs[j].lease # None
  BY DEF JobInv, RowOK
<1>6. ClientOK(c)'
  BY <1>1, <1>2, <1>4, <1>5 DEF ClientOK, SnapState
<1>7. QED
  BY <1>6, ClientFrame

\* A repository whose row exists is one of the repositories; so is the one of
\* any request under way.
LEMMA RequestFacts ==
  ASSUME JobInv, NEW c \in Clients, client[c].pc # "idle"
  PROVE  client[c] \in ClientState /\ client[c].repo \in Repos
  BY DEF JobInv, TypeOK, ClientOK

\* The first reads of submit and status.
LEMMA RequestStartInv ==
  ASSUME JobInv, NEW c \in Clients, NEW r \in Repos, NEW op, RequestStart(c, r, op)
  PROVE  JobInv'
<1> DEFINE st == [client[c] EXCEPT !.pc = "find", !.op = op, !.repo = r,
                                   !.rec = record[r]]
<1>0. client[c] \in ClientState /\ record[r] \in RecordStatus
  BY DEF JobInv, TypeOK
<1>1. client' = [client EXCEPT ![c] = st]
  BY DEF RequestStart
<1>2. st \in ClientState /\ st.pc = "find" /\ st.repo \in Repos
  BY <1>0 DEF RequestStart, ClientState
<1> HIDE DEF st
<1>3. QED
  BY <1>1, <1>2, RequestOn DEF RequestStart

\* The lookup of a sealed snapshot.
LEMMA RequestFindInv ==
  ASSUME JobInv, NEW c \in Clients, RequestFind(c)
  PROVE  JobInv'
<1>0. client[c] \in ClientState /\ client[c].repo \in Repos
      /\ UNCHANGED <<jobs, snaps, record, worker, release>>
  BY RequestFacts DEF RequestFind
<1>1. CASE \E s \in Sealed(client[c].repo), j \in Jobs :
            /\ jobs[j].snap = s
            /\ client' = [client EXCEPT ![c].pc = "reconcile", ![c].job = j,
                                        ![c].snap = s, ![c].row = jobs[j]]
  <2>1. PICK s \in Sealed(client[c].repo), j \in Jobs :
            /\ jobs[j].snap = s
            /\ client' = [client EXCEPT ![c].pc = "reconcile", ![c].job = j,
                                        ![c].snap = s, ![c].row = jobs[j]]
    BY <1>1
  <2> DEFINE st == [client[c] EXCEPT !.pc = "reconcile", !.job = j,
                                     !.snap = s, !.row = jobs[j]]
  <2>2. client' = [client EXCEPT ![c] = st]
    BY <2>1
  <2>3. s \in Snaps /\ snaps[s].state = "completed" /\ jobs[s[1]].repo = client[c].repo
    BY <2>1 DEF Sealed
  <2>4. jobs[j] \in JobRow /\ RowOK(j) /\ s # None
    BY <2>3, NoneAssumption DEF JobInv, TypeOK, Snaps, Jobs, Attempts
  <2>5. s[1] = j
    BY <2>1, <2>4 DEF RowOK
  <2>6. /\ st \in ClientState /\ st.pc = "reconcile" /\ st.repo = client[c].repo
        /\ st.job = j /\ st.row = jobs[j] /\ st.snap = s
    BY <1>0, <2>3, <2>4 DEF ClientState
  <2> HIDE DEF st
  <2>7. jobs[j].repo = st.repo /\ st.repo \in Repos /\ jobs[j].snap = st.snap
        /\ st.snap \in Snaps /\ snaps[st.snap].state = "completed"
    BY <1>0, <2>1, <2>3, <2>5, <2>6
  <2>8. QED
    BY <1>0, <2>2, <2>6, <2>7, ReconcileOn
<1>2. CASE client' = [client EXCEPT ![c].pc = "active"]
  <2> DEFINE st == [client[c] EXCEPT !.pc = "active"]
  <2>1. client' = [client EXCEPT ![c] = st]
    BY <1>2
  <2>2. st \in ClientState /\ st.pc = "active" /\ st.repo \in Repos
    BY <1>0 DEF ClientState
  <2> HIDE DEF st
  <2>3. QED
    BY <1>0, <2>1, <2>2, RequestOn
<1>3. CASE Answer(c, "ok", "unused")
  <2>1. "unused" \in JobStatus
    BY DEF JobStatus
  <2>2. QED
    BY <1>0, <1>3, <2>1, AnswerInv
<1>4. QED
  BY <1>1, <1>2, <1>3 DEF RequestFind

\* The lookup of an active job.
LEMMA SubmitActiveInv ==
  ASSUME JobInv, NEW c \in Clients, SubmitActive(c)
  PROVE  JobInv'
<1>0. client[c] \in ClientState /\ client[c].repo \in Repos
      /\ UNCHANGED <<jobs, snaps, record, worker, release>>
  BY RequestFacts DEF SubmitActive
<1>1. CASE \E j \in ActiveJobs(client[c].repo) : Answer(c, "ok", jobs[j].status)
  <2>1. PICK status \in JobStatus : Answer(c, "ok", status)
    BY <1>1 DEF ActiveJobs, JobsOf, JobInv, TypeOK, JobRow
  <2>2. QED
    BY <1>0, <2>1, AnswerInv
<1>2. CASE client' = [client EXCEPT ![c].pc = "insert"]
  <2> DEFINE st == [client[c] EXCEPT !.pc = "insert"]
  <2>1. client' = [client EXCEPT ![c] = st]
    BY <1>2
  <2>2. st \in ClientState /\ st.pc = "insert" /\ st.repo \in Repos
    BY <1>0 DEF ClientState
  <2> HIDE DEF st
  <2>3. QED
    BY <1>0, <2>1, <2>2, RequestOn
<1>3. QED
  BY <1>1, <1>2 DEF SubmitActive

\* The insert that lost.
LEMMA SubmitConflictInv ==
  ASSUME JobInv, NEW c \in Clients, SubmitConflict(c)
  PROVE  JobInv'
<1>0. client[c] \in ClientState /\ client[c].repo \in Repos
      /\ UNCHANGED <<jobs, snaps, record, worker, release>>
  BY RequestFacts DEF SubmitConflict
<1> DEFINE st == [client[c] EXCEPT !.pc = "reread"]
<1>1. client' = [client EXCEPT ![c] = st]
  BY DEF SubmitConflict
<1>2. st \in ClientState /\ st.pc = "reread" /\ st.repo \in Repos
  BY <1>0 DEF ClientState
<1> HIDE DEF st
<1>3. QED
  BY <1>0, <1>1, <1>2, RequestOn

\* The read after the rollback: the effective job owns the sealed snapshot.
LEMMA SubmitRereadInv ==
  ASSUME JobInv, NEW c \in Clients, SubmitReread(c)
  PROVE  JobInv'
<1> DEFINE r == client[c].repo
<1>0. client[c] \in ClientState /\ r \in Repos
      /\ UNCHANGED <<jobs, snaps, record, worker, release>>
  BY RequestFacts DEF SubmitReread
<1>1. CASE Answer(c, "raised", "unused")
  <2>1. "unused" \in JobStatus
    BY DEF JobStatus
  <2>2. QED
    BY <1>0, <1>1, <2>1, AnswerInv
<1>2. CASE \E j \in EffectiveJobs(r) : Answer(c, "ok", jobs[j].status)
  <2>1. PICK status \in JobStatus : Answer(c, "ok", status)
    BY <1>2 DEF EffectiveJobs, JobsOf, JobInv, TypeOK, JobRow
  <2>2. QED
    BY <1>0, <2>1, AnswerInv
<1>3. CASE \E j \in EffectiveJobs(r), s \in Sealed(r) :
            client' = [client EXCEPT ![c].pc = "reconcile", ![c].job = j,
                                     ![c].snap = s, ![c].row = jobs[j],
                                     ![c].rec = record[r]]
  <2>1. PICK j \in EffectiveJobs(r), s \in Sealed(r) :
            client' = [client EXCEPT ![c].pc = "reconcile", ![c].job = j,
                                     ![c].snap = s, ![c].row = jobs[j],
                                     ![c].rec = record[r]]
    BY <1>3
  <2> DEFINE st == [client[c] EXCEPT !.pc = "reconcile", !.job = j,
                                     !.snap = s, !.row = jobs[j], !.rec = record[r]]
  <2>2. client' = [client EXCEPT ![c] = st]
    BY <2>1
  <2>3. s \in Snaps /\ snaps[s].state = "completed" /\ jobs[s[1]].repo = r
    BY DEF Sealed
  <2>4. j \in Jobs /\ jobs[j].repo = r /\ jobs[j].status \in Effective
        /\ jobs[j] \in JobRow /\ record[r] \in RecordStatus
    BY <1>0 DEF EffectiveJobs, JobsOf, JobInv, TypeOK
  <2>5. PICK k \in Jobs, a \in Attempts : s = <<k, a>>
    BY <2>3 DEF Snaps
  <2>6. jobs[k].status \in {"running", "completed"} /\ jobs[k].snap = s
    BY <2>3, <2>5, LiveSnapshot
  <2>7. k = j
    BY <2>3, <2>4, <2>5, <2>6 DEF JobInv, OneEffective, Effective
  <2>8. /\ st \in ClientState /\ st.pc = "reconcile" /\ st.repo = r
        /\ st.job = j /\ st.row = jobs[j] /\ st.snap = s
    BY <1>0, <2>3, <2>4 DEF ClientState
  <2> HIDE DEF st
  <2>9. QED
    BY <1>0, <2>2, <2>3, <2>4, <2>6, <2>7, <2>8, ReconcileOn
<1>4. QED
  BY <1>1, <1>2, <1>3 DEF SubmitReread

\* The read of cancel.
LEMMA CancelStartInv ==
  ASSUME JobInv, NEW c \in Clients, NEW r \in Repos, CancelStart(c, r)
  PROVE  JobInv'
<1>0. UNCHANGED <<jobs, snaps, record, worker, release>>
  BY DEF CancelStart
<1>1. CASE client' = [client EXCEPT ![c] =
                 [IdleClient EXCEPT !.pc = "reply", !.op = "cancel",
                                    !.repo = r, !.result = "conflict"]]
  <2> DEFINE st == [IdleClient EXCEPT !.pc = "reply", !.op = "cancel",
                                    !.repo = r, !.result = "conflict"]
  <2>1. st \in ClientState /\ st.pc = "reply" /\ st.repo = r
    BY IdleTypes DEF ClientState, IdleClient
  <2>2. client' = [client EXCEPT ![c] = st]
    BY <1>1
  <2> HIDE DEF st
  <2>3. QED
    BY <1>0, <2>1, <2>2, RequestOn
<1>2. CASE \E j \in JobsOf(r), pc \in {"cancelQueued", "cancelRunning", "refuse"} :
             client' = [client EXCEPT ![c] =
                 [IdleClient EXCEPT !.op = "cancel", !.repo = r, !.job = j, !.pc = pc]]
  <2>1. PICK j \in JobsOf(r), pc \in {"cancelQueued", "cancelRunning", "refuse"} :
             client' = [client EXCEPT ![c] =
                 [IdleClient EXCEPT !.op = "cancel", !.repo = r, !.job = j, !.pc = pc]]
    BY <1>2
  <2> DEFINE st == [IdleClient EXCEPT !.op = "cancel", !.repo = r, !.job = j, !.pc = pc]
  <2>2. j \in Jobs /\ jobs[j].repo = r
    BY DEF JobsOf
  <2>3. st \in ClientState /\ st.pc = pc /\ st.repo = r /\ st.job = j
    BY <2>2, IdleTypes DEF ClientState, IdleClient
  <2>4. client' = [client EXCEPT ![c] = st] /\ client'[c] = st
    BY <2>1 DEF JobInv, TypeOK
  <2> HIDE DEF st
  <2>5. ClientOK(c)'
    BY <1>0, <2>1, <2>2, <2>3, <2>4 DEF ClientOK
  <2>6. QED
    BY <1>0, <2>3, <2>4, <2>5, ClientFrame
<1>3. QED
  BY <1>1, <1>2 DEF CancelStart

\* The reads of cancel that follow a missed update, and the end of a request.
LEMMA CancelReadInv ==
  ASSUME JobInv, NEW c \in Clients,
         CancelReloadQueued(c) \/ CancelRefuse(c) \/ Reply(c)
  PROVE  JobInv'
<1>0. client[c] \in ClientState /\ client[c].repo \in Repos /\ ClientOK(c)
      /\ UNCHANGED <<jobs, snaps, record, worker, release>>
  BY RequestFacts DEF CancelReloadQueued, CancelRefuse, Reply, JobInv
<1>1. ASSUME CancelReloadQueued(c) \/ CancelRefuse(c)
      PROVE  client[c].job \in Jobs /\ jobs[client[c].job].status \in JobStatus
             /\ (jobs[client[c].job].repo = client[c].repo
                   \/ jobs[client[c].job].status = "deleted")
  BY <1>0, <1>1 DEF CancelReloadQueued, CancelRefuse, ClientOK, JobInv, TypeOK, JobRow
<1>2. CASE CancelReloadQueued(c) /\ client' = [client EXCEPT ![c].pc = "cancelRunning"]
  <2> DEFINE st == [client[c] EXCEPT !.pc = "cancelRunning"]
  <2>1. client' = [client EXCEPT ![c] = st] /\ client'[c] = st
    BY <1>2 DEF JobInv, TypeOK
  <2>2. /\ st \in ClientState /\ st.pc = "cancelRunning" /\ st.repo = client[c].repo
        /\ st.job = client[c].job
    BY <1>0 DEF ClientState
  <2> HIDE DEF st
  <2>3. ClientOK(c)'
    BY <1>0, <1>1, <1>2, <2>1, <2>2 DEF ClientOK
  <2>4. QED
    BY <1>0, <2>1, <2>2, <2>3, ClientFrame
<1>3. CASE /\ CancelReloadQueued(c) \/ CancelRefuse(c)
           /\ Answer(c, "conflict", jobs[client[c].job].status)
  BY <1>0, <1>1, <1>3, AnswerInv
<1>4. CASE Reply(c)
  <2>1. client' = [client EXCEPT ![c] = IdleClient] /\ client'[c] = IdleClient
    BY <1>4 DEF Reply, JobInv, TypeOK
  <2>2. ClientOK(c)'
    BY <2>1 DEF ClientOK, IdleClient
  <2>3. QED
    BY <1>0, <2>1, <2>2, IdleTypes, ClientFrame
<1>5. QED
  BY <1>2, <1>3, <1>4 DEF CancelReloadQueued, CancelRefuse

-----------------------------------------------------------------------------
(* Requests that write                                                     *)

\* Writing a repository row that exists keeps it in existence.
LEMMA FlushedRecord ==
  ASSUME JobInv, NEW r \in Repos, record[r] # "gone", NEW old, NEW rs \in RecordStatus,
         rs # "gone", record' = [record EXCEPT ![r] = Flushed(record[r], old, rs)]
  PROVE  /\ record' \in [Repos -> RecordStatus]
         /\ \A q \in Repos : record[q] # "gone" => record'[q] # "gone"
  BY DEF Flushed, JobInv, TypeOK

\* The insert: the index left no effective job beside it.
LEMMA SubmitInsertInv ==
  ASSUME JobInv, NEW c \in Clients, SubmitInsert(c)
  PROVE  JobInv'
<1>0. client[c] \in ClientState /\ client[c].repo \in Repos
      /\ UNCHANGED <<snaps, worker, release>>
  BY RequestFacts DEF SubmitInsert
<1>1. PICK r \in Repos : r = client[c].repo
  BY <1>0
<1>2. /\ record[r] # "gone" /\ EffectiveJobs(r) = {} /\ Answer(c, "ok", "queued")
      /\ record' = [record EXCEPT ![r] = Flushed(record[r], client[c].rec, "analysing")]
  BY <1>1 DEF SubmitInsert
<1>3. PICK j \in Jobs : NextJob(j) /\ jobs' = [jobs EXCEPT ![j] = QueuedRow(r)]
  BY <1>1 DEF SubmitInsert
<1> DEFINE new == QueuedRow(r)
<1>4. new \in JobRow
  BY NoRowType DEF QueuedRow, JobRow, JobStatus
<1>5. /\ new.status = "queued" /\ new.repo = r /\ new.attempt = 0 /\ new.snap = None
      /\ new.worker = None /\ new.lease = None
  BY DEF QueuedRow, NoRow
<1> HIDE DEF new
<1>6. jobs'[j] = new /\ \A k \in Jobs : k # j => jobs'[k] = jobs[k]
  BY <1>3 DEF JobInv, TypeOK, new
<1>7. jobs[j].status = "unused" /\ jobs[j].attempt = 0 /\ jobs[j].repo = None
      /\ jobs[j].snap = None
  BY <1>3 DEF NextJob, JobInv, RowOK
<1>8. "queued" \in JobStatus /\ "analysing" \in RecordStatus
  BY DEF JobStatus, RecordStatus
<1>9. /\ client' \in [Clients -> ClientState]
      /\ \A d \in Clients : client'[d] = client[d] \/ ClientOK(d)'
  BY <1>0, <1>2, <1>8, AnswerLocal
<1>10. /\ record' \in [Repos -> RecordStatus]
       /\ \A q \in Repos : record[q] # "gone" => record'[q] # "gone"
  BY <1>2, <1>8, FlushedRecord
<1>11. TypeOK'
  BY <1>0, <1>3, <1>4, <1>9, <1>10 DEF JobInv, TypeOK, new
<1>12. RowOK(j)'
  BY <1>2, <1>5, <1>6, <1>10, NoneAssumption, MaxAttemptsAssumption DEF RowOK
<1>13. ASSUME NEW a \in Attempts PROVE SnapOK(<<j, a>>)'
  <2>1. SnapOK(<<j, a>>) /\ a > 0
    BY DEF JobInv, Snaps, Attempts
  <2>2. snaps[<<j, a>>].state = "none"
    BY <1>7, <2>1 DEF SnapOK
  <2>3. QED
    BY <1>0, <2>2 DEF SnapOK
<1>14. jobs'[j].status \in Effective => \A k \in Jobs :
         k # j /\ jobs[k].status \in Effective => jobs[k].repo # jobs'[j].repo
  BY <1>2, <1>5, <1>6 DEF EffectiveJobs, JobsOf
<1>15. Taken(None, j) /\ SealedStable(j) /\ jobs'[j].status # "completed"
  BY <1>5, <1>6, <1>7 DEF Taken, SealedStable, SnapState
<1>16. \A v \in Workers : v # None /\ worker'[v] = worker[v]
  BY <1>0, NoneAssumption
<1>17. QED
  BY <1>0, <1>6, <1>9, <1>10, <1>11, <1>12, <1>13, <1>14, <1>15, <1>16, JobStep

\* The guarded update of a queued row.
LEMMA CancelQueuedInv ==
  ASSUME JobInv, NEW c \in Clients, CancelQueued(c)
  PROVE  JobInv'
<1>0. client[c] \in ClientState /\ client[c].repo \in Repos /\ ClientOK(c)
      /\ UNCHANGED <<snaps, worker, release>> /\ client[c].pc = "cancelQueued"
  BY RequestFacts DEF CancelQueued, JobInv
<1>1. PICK j \in Jobs : /\ j = client[c].job
                        /\ jobs[j].repo = client[c].repo \/ jobs[j].status = "deleted"
  BY <1>0 DEF ClientOK
<1>2. CASE jobs[j].status # "queued"
  <2> DEFINE st == [client[c] EXCEPT !.pc = "reloadQueued"]
  <2>1. client' = [client EXCEPT ![c] = st] /\ client'[c] = st /\ UNCHANGED <<jobs, record>>
    BY <1>1, <1>2 DEF CancelQueued, JobInv, TypeOK
  <2>2. /\ st \in ClientState /\ st.pc = "reloadQueued" /\ st.repo = client[c].repo
        /\ st.job = j
    BY <1>0, <1>1 DEF ClientState
  <2> HIDE DEF st
  <2>3. ClientOK(c)'
    BY <1>0, <1>1, <2>1, <2>2 DEF ClientOK
  <2>4. QED
    BY <1>0, <2>1, <2>2, <2>3, ClientFrame
<1>3. CASE jobs[j].status = "queued"
  <2> DEFINE new == WithdrawnRow(jobs[j])
  <2>1. /\ jobs' = [jobs EXCEPT ![j] = new] /\ Answer(c, "ok", "cancelled")
        /\ record' = [record EXCEPT ![jobs[j].repo] = "cancelled"]
    BY <1>1, <1>3 DEF CancelQueued
  <2>2. jobs[j] \in JobRow /\ "cancelled" \in JobStatus /\ "cancelled" \in RecordStatus
    BY DEF JobInv, TypeOK, JobStatus, RecordStatus
  <2>3. Released(jobs[j], "cancelled") \in JobRow
    BY <2>2, ReleasedType
  <2>4. new \in JobRow
    BY <2>3 DEF WithdrawnRow, JobRow
  <2>5. /\ new.status = "cancelled" /\ new.repo = jobs[j].repo
        /\ new.attempt = jobs[j].attempt /\ new.snap = jobs[j].snap
        /\ new.worker = None /\ new.lease = None
    BY <2>2, <2>3, ReleasedFields DEF WithdrawnRow, JobRow
  <2> HIDE DEF new
  <2>6. SnapState(jobs[j].snap) \notin {"building", "completed"}
    BY <1>3, OwnSnapshot, LiveSnapshot DEF SnapState
  <2>7. /\ client' \in [Clients -> ClientState]
        /\ \A d \in Clients : client'[d] = client[d] \/ ClientOK(d)'
    BY <1>0, <2>1, <2>2, AnswerLocal
  <2>8. worker' \in [Workers -> WorkerState] /\ jobs[j].status \in Active
    BY <1>0, <1>3 DEF JobInv, TypeOK, Active
  <2>9. QED
    BY <1>0, <2>1, <2>2, <2>4, <2>5, <2>6, <2>7, <2>8, ReleaseStep
<1>4. QED
  BY <1>2, <1>3

\* The guarded cancel flag of a running row.
LEMMA CancelRunningInv ==
  ASSUME JobInv, NEW c \in Clients, CancelRunning(c)
  PROVE  JobInv'
<1>0. client[c] \in ClientState /\ client[c].repo \in Repos /\ ClientOK(c)
      /\ UNCHANGED <<snaps, record, worker, release>> /\ client[c].pc = "cancelRunning"
  BY RequestFacts DEF CancelRunning, JobInv
<1>1. PICK j \in Jobs : /\ j = client[c].job
                        /\ jobs[j].repo = client[c].repo \/ jobs[j].status = "deleted"
  BY <1>0 DEF ClientOK
<1>2. CASE jobs[j].status # "running"
  <2> DEFINE st == [client[c] EXCEPT !.pc = "refuse"]
  <2>1. client' = [client EXCEPT ![c] = st] /\ client'[c] = st /\ UNCHANGED jobs
    BY <1>1, <1>2 DEF CancelRunning, JobInv, TypeOK
  <2>2. /\ st \in ClientState /\ st.pc = "refuse" /\ st.repo = client[c].repo
        /\ st.job = j
    BY <1>0, <1>1 DEF ClientState
  <2> HIDE DEF st
  <2>3. ClientOK(c)'
    BY <1>0, <1>1, <2>1, <2>2 DEF ClientOK
  <2>4. QED
    BY <1>0, <2>1, <2>2, <2>3, ClientFrame
<1>3. CASE jobs[j].status = "running"
  <2> DEFINE new == [jobs[j] EXCEPT !.cancel = TRUE]
  <2>1. jobs' = [jobs EXCEPT ![j] = new] /\ Answer(c, "ok", "running")
    BY <1>1, <1>3 DEF CancelRunning
  <2>2. jobs[j] \in JobRow /\ "running" \in JobStatus
    BY DEF JobInv, TypeOK, JobStatus
  <2>3. /\ new \in JobRow /\ new.status = jobs[j].status /\ new.repo = jobs[j].repo
        /\ new.attempt = jobs[j].attempt /\ new.snap = jobs[j].snap
        /\ new.worker = jobs[j].worker /\ new.lease = jobs[j].lease
    BY <2>2 DEF JobRow
  <2> HIDE DEF new
  <2>4. /\ client' \in [Clients -> ClientState]
        /\ \A d \in Clients : client'[d] = client[d] \/ ClientOK(d)'
    BY <1>0, <2>1, <2>2, AnswerLocal
  <2>5. record' \in [Repos -> RecordStatus]
    BY <1>0 DEF JobInv, TypeOK
  <2>6. QED
    BY <1>0, <2>1, <2>3, <2>4, <2>5, FlagStep
<1>4. QED
  BY <1>2, <1>3

\* The unguarded flush: the row it completes has the sealed snapshot, and no
\* column of the loaded copy brings an older value back.
LEMMA ReconcileInv ==
  ASSUME JobInv, NEW c \in Clients, Reconcile(c)
  PROVE  JobInv'
<1>0. client[c] \in ClientState /\ client[c].repo \in Repos /\ ClientOK(c)
      /\ UNCHANGED <<snaps, worker, release>> /\ client[c].pc = "reconcile"
  BY RequestFacts DEF Reconcile, JobInv
<1>1. PICK j \in Jobs : j = client[c].job
  BY <1>0 DEF ClientOK
<1>2. PICK r \in Repos : r = client[c].repo
  BY <1>0
<1> DEFINE old == client[c].row
           s == client[c].snap
           new == ReconciledRow(jobs[j], old, s)
           rs == Flushed(record[r], client[c].rec, "completed")
<1>3. CASE Answer(c, "raised", "unused") /\ UNCHANGED <<jobs, record>>
  <2>1. "unused" \in JobStatus
    BY DEF JobStatus
  <2>2. QED
    BY <1>0, <1>3, <2>1, AnswerInv
<1>3a. CASE Answer(c, "ok", "completed") /\ UNCHANGED <<jobs, record>>
  <2>1. "completed" \in JobStatus
    BY DEF JobStatus
  <2>2. QED
    BY <1>0, <1>3a, <2>1, AnswerInv
<1>4. CASE /\ jobs[j].status # "deleted" /\ jobs' = [jobs EXCEPT ![j] = new]
           /\ record' = [record EXCEPT ![r] = rs] /\ Answer(c, "ok", new.status)
  <2>1. /\ jobs[j].repo = r /\ jobs[j].snap = s /\ SnapState(s) = "completed"
        /\ old.snap = s
        /\ old.status = "running" => old.worker # None /\ old.lease # None
        /\ old.status # "running" =>
             old.status = "completed" /\ jobs[j].status = "completed"
    BY <1>0, <1>1, <1>2, <1>4 DEF ClientOK
  <2>2. jobs[j] \in JobRow /\ old \in JobRow /\ RowOK(j) /\ s # None
    BY <1>0, <2>1 DEF JobInv, TypeOK, ClientState, SnapState
  <2>3. jobs[j].status \in {"running", "completed"}
    <3>1. PICK a \in Attempts : jobs[j].snap = <<j, a>>
      BY <2>1, <2>2, OwnSnapshot
    <3>2. snaps[<<j, a>>].state = "completed"
      BY <2>1, <2>2, <3>1 DEF SnapState
    <3>3. QED
      BY <3>2, LiveSnapshot
  <2>4. new \in JobRow
    <3>1. /\ Flushed(jobs[j].status, old.status, "completed") \in JobStatus
          /\ Flushed(jobs[j].snap, old.snap, s) \in Snaps \cup {None}
          /\ Flushed(jobs[j].worker, old.worker, None) \in Workers \cup {None}
          /\ Flushed(jobs[j].lease, old.lease, None) \in LeaseInstants \cup {None}
      BY <2>1, <2>2 DEF Flushed, JobRow, JobStatus
    <3>2. /\ Flushed(jobs[j].cancel, old.cancel, FALSE) \in BOOLEAN
          /\ Flushed(jobs[j].backoff, old.backoff, FALSE) \in BOOLEAN
      BY <2>2 DEF Flushed, JobRow
    <3>3. (jobs[j].lapsed /\ old.lease = None) \in BOOLEAN
      OBVIOUS
    <3>4. PICK status \in JobStatus, snap \in Snaps \cup {None}, cancel \in BOOLEAN,
               w \in Workers \cup {None}, lease \in LeaseInstants \cup {None},
               lapsed \in BOOLEAN, backoff \in BOOLEAN :
             /\ status = Flushed(jobs[j].status, old.status, "completed")
             /\ snap = Flushed(jobs[j].snap, old.snap, s)
             /\ cancel = Flushed(jobs[j].cancel, old.cancel, FALSE)
             /\ w = Flushed(jobs[j].worker, old.worker, None)
             /\ lease = Flushed(jobs[j].lease, old.lease, None)
             /\ lapsed = (jobs[j].lapsed /\ old.lease = None)
             /\ backoff = Flushed(jobs[j].backoff, old.backoff, FALSE)
      BY <3>1, <3>2, <3>3, Zenon
    <3>5. new = [jobs[j] EXCEPT !.status = status, !.snap = snap, !.cancel = cancel,
                                !.worker = w, !.lease = lease, !.lapsed = lapsed,
                                !.backoff = backoff]
      BY <3>4, Zenon DEF ReconciledRow
    <3>6. PICK row \in JobRow : row = jobs[j]
      BY <2>2
    <3>7. [row EXCEPT !.status = status, !.snap = snap, !.cancel = cancel,
                      !.worker = w, !.lease = lease, !.lapsed = lapsed,
                      !.backoff = backoff] \in JobRow
      BY DEF JobRow
    <3>8. QED
      BY <3>5, <3>6, <3>7, Zenon
  <2>5. /\ new.repo = jobs[j].repo /\ new.attempt = jobs[j].attempt
        /\ new.snap = jobs[j].snap /\ new.status = "completed"
        /\ new.worker = None /\ new.lease = None
    <3>1. /\ new.repo = jobs[j].repo /\ new.attempt = jobs[j].attempt
          /\ new.snap = Flushed(jobs[j].snap, old.snap, s)
          /\ new.status = Flushed(jobs[j].status, old.status, "completed")
          /\ new.worker = Flushed(jobs[j].worker, old.worker, None)
          /\ new.lease = Flushed(jobs[j].lease, old.lease, None)
      BY <2>2 DEF ReconciledRow, JobRow
    <3>2. CASE old.status = "running"
      BY <2>1, <3>1, <3>2 DEF Flushed
    <3>3. CASE old.status # "running"
      <4>1. jobs[j].worker = None /\ jobs[j].lease = None /\ jobs[j].status = "completed"
        BY <2>1, <2>2, <3>3 DEF RowOK
      <4>2. QED
        BY <2>1, <3>1, <4>1 DEF Flushed
    <3>4. QED
      BY <3>2, <3>3
  <2>6. record[r] # "gone" /\ record[r] \in RecordStatus /\ "completed" \in RecordStatus
        /\ new.status \in JobStatus
    BY <2>1, <2>2, <2>5, <1>2, NoneAssumption DEF RowOK, JobInv, TypeOK, RecordStatus, JobStatus
  <2>7. rs \in RecordStatus /\ rs # "gone"
    BY <2>6 DEF Flushed
  <2> HIDE DEF new, rs
  <2>8. /\ client' \in [Clients -> ClientState]
        /\ \A d \in Clients : client'[d] = client[d] \/ ClientOK(d)'
    BY <1>0, <1>4, <2>6, AnswerLocal
  <2>9. CASE jobs[j].status = "running"
    <3>1. worker' \in [Workers -> WorkerState] /\ jobs[j].status \in Active
      BY <1>0, <2>9 DEF JobInv, TypeOK, Active
    <3>2. SnapState(jobs[j].snap) = "completed"
      BY <2>1
    <3>3. QED
      BY <1>0, <1>4, <2>1, <2>4, <2>5, <2>7, <2>8, <3>1, <3>2, ReleaseStep
  <2>10. CASE jobs[j].status = "completed"
    <3>1. jobs[j].worker = None /\ jobs[j].lease = None
      BY <2>2, <2>10 DEF RowOK
    <3>2. /\ record' \in [Repos -> RecordStatus]
          /\ \A q \in Repos : record[q] # "gone" => record'[q] # "gone"
      BY <1>4, <2>7 DEF JobInv, TypeOK
    <3>3. QED
      BY <1>0, <1>4, <2>4, <2>5, <2>8, <2>10, <3>1, <3>2, FlagStep
  <2>11. QED
    BY <2>3, <2>9, <2>10
<1>5. QED
  BY <1>1, <1>2, <1>3, <1>3a, <1>4 DEF Reconcile

\* Deletion takes the repository's rows and snapshots together.
LEMMA DeleteRepositoryInv ==
  ASSUME JobInv, NEW r \in Repos, DeleteRepository(r)
  PROVE  JobInv'
<1> DEFINE gone == [NoRow EXCEPT !.status = "deleted"]
<1>0. UNCHANGED <<worker, client, release>>
  BY DEF DeleteRepository
<1>1. gone \in JobRow /\ NoSnapshot \in Snapshot /\ NoSnapshot.state = "none"
  BY NoRowType DEF JobRow, JobStatus, NoSnapshot, Snapshot, Facts
<1>2. /\ gone.status = "deleted" /\ gone.repo = None /\ gone.snap = None
      /\ gone.attempt = 0 /\ gone.worker = None /\ gone.lease = None
  BY DEF NoRow
<1>3. \A j \in Jobs : jobs'[j] = IF jobs[j].repo = r THEN gone ELSE jobs[j]
  BY DEF DeleteRepository
<1>4. \A s \in Snaps : snaps'[s] = IF jobs[s[1]].repo = r THEN NoSnapshot ELSE snaps[s]
  BY DEF DeleteRepository
<1>5. TypeOK'
  <2>1. jobs' \in [Jobs -> JobRow]
    BY <1>1 DEF DeleteRepository, JobInv, TypeOK
  <2>2. snaps' \in [Snaps -> Snapshot]
    BY <1>1 DEF DeleteRepository, JobInv, TypeOK
  <2>3. record' \in [Repos -> RecordStatus]
    BY DEF DeleteRepository, JobInv, TypeOK, RecordStatus
  <2>4. QED
    BY <1>0, <2>1, <2>2, <2>3 DEF JobInv, TypeOK
<1>6. \A q \in Repos : q # r => record'[q] = record[q]
  BY DEF DeleteRepository, JobInv, TypeOK
<1> HIDE DEF gone
<1>7. ASSUME NEW j \in Jobs PROVE RowOK(j)'
  <2>1. CASE jobs[j].repo = r
    <3>1. jobs'[j] = gone
      BY <1>3, <2>1
    <3>2. QED
      BY <1>2, <3>1 DEF RowOK
  <2>2. CASE jobs[j].repo # r
    <3>1. jobs'[j] = jobs[j] /\ RowOK(j) /\ jobs[j] \in JobRow
      BY <1>3, <2>2 DEF JobInv, TypeOK
    <3>2. jobs[j].repo # None => jobs[j].repo \in Repos
      BY <3>1 DEF JobRow
    <3>3. jobs[j].repo # None => record'[jobs[j].repo] = record[jobs[j].repo]
      BY <1>6, <2>2, <3>2
    <3>4. QED
      BY <3>1, <3>3 DEF RowOK
  <2>3. QED
    BY <2>1, <2>2
<1>8. OneEffective'
  BY <1>2, <1>3 DEF JobInv, OneEffective, Effective
<1>9. ASSUME NEW s \in Snaps PROVE SnapOK(s)'
  <2>1. SnapOK(s) /\ s[1] \in Jobs
    BY DEF JobInv, Snaps
  <2>2. CASE jobs[s[1]].repo = r
    <3>1. snaps'[s] = NoSnapshot
      BY <1>4, <2>2
    <3>2. QED
      BY <1>1, <3>1 DEF SnapOK
  <2>3. CASE jobs[s[1]].repo # r
    <3>1. snaps'[s] = snaps[s] /\ jobs'[s[1]] = jobs[s[1]]
      BY <1>3, <1>4, <2>1, <2>3
    <3>2. QED
      BY <2>1, <3>1 DEF SnapOK
  <2>4. QED
    BY <2>2, <2>3
<1>10. ASSUME NEW j \in Jobs, jobs[j].repo # r, jobs[j].snap # None
       PROVE  snaps'[jobs[j].snap] = snaps[jobs[j].snap]
  <2>1. PICK a \in Attempts : jobs[j].snap = <<j, a>>
    BY <1>10, OwnSnapshot
  <2>2. <<j, a>> \in Snaps
    BY DEF Snaps
  <2>3. QED
    BY <1>4, <1>10, <2>1, <2>2
<1>11. CompletedIsSealed'
  <2>1. SUFFICES ASSUME NEW j \in Jobs, jobs'[j].status = "completed"
                 PROVE  SnapState(jobs[j].snap)' = "completed"
    BY DEF CompletedIsSealed
  <2>2. jobs[j].repo # r /\ jobs'[j] = jobs[j]
    BY <1>2, <1>3, <2>1
  <2>3. SnapState(jobs[j].snap) = "completed"
    BY <2>1, <2>2 DEF JobInv, CompletedIsSealed
  <2>4. QED
    BY <1>10, <2>2, <2>3 DEF SnapState
<1>12. ASSUME NEW k \in Jobs PROVE (SameCore(k) /\ SnapsKept(k)) \/ Taken(None, k)
  <2>1. CASE jobs[k].repo = r
    BY <1>2, <1>3, <2>1 DEF Taken
  <2>2. CASE jobs[k].repo # r
    <3>1. jobs'[k] = jobs[k] /\ \A a \in Attempts : snaps'[<<k, a>>] = snaps[<<k, a>>]
      BY <1>3, <1>4, <2>2 DEF Snaps
    <3>2. QED
      BY <3>1 DEF SameCore, SnapsKept, FactsKept
  <2>3. QED
    BY <2>1, <2>2
<1>13. ASSUME NEW k \in Jobs PROVE SealedStable(k)
  <2>1. CASE jobs[k].repo = r
    BY <1>2, <1>3, <2>1 DEF SealedStable
  <2>2. CASE jobs[k].repo # r
    BY <1>3, <1>10, <2>2 DEF SealedStable, SnapState
  <2>3. QED
    BY <2>1, <2>2
<1>14. ASSUME NEW v \in Workers PROVE WorkerOK(v)'
  BY <1>0, <1>12, Bystander, NoneAssumption
<1>15. ASSUME NEW c \in Clients PROVE ClientOK(c)'
  BY <1>0, <1>13, BystandingRequest
<1>16. QED
  BY <1>5, <1>7, <1>8, <1>9, <1>11, <1>14, <1>15 DEF JobInv

\* A deployment restarts every process.
LEMMA DeployInv ==
  ASSUME JobInv, Deploy
  PROVE  JobInv'
<1>0. UNCHANGED <<jobs, snaps, record>>
  BY DEF Deploy
<1>1. TypeOK'
  BY IdleTypes, MaxReleasesAssumption DEF Deploy, JobInv, TypeOK, Releases
<1>2. (\A j \in Jobs : RowOK(j))' /\ OneEffective' /\ (\A s \in Snaps : SnapOK(s))'
      /\ CompletedIsSealed'
  BY <1>0 DEF JobInv, RowOK, OneEffective, SnapOK, CompletedIsSealed, SnapState
<1>3. ASSUME NEW v \in Workers PROVE WorkerOK(v)'
  <2>1. worker'[v] = IdleWorker
    BY DEF Deploy
  <2>2. QED
    BY <2>1 DEF WorkerOK, IdleWorker, Executing
<1>4. ASSUME NEW c \in Clients PROVE ClientOK(c)'
  <2>1. client'[c] = IdleClient
    BY DEF Deploy
  <2>2. QED
    BY <2>1 DEF ClientOK, IdleClient
<1>5. QED
  BY <1>1, <1>2, <1>3, <1>4 DEF JobInv

-----------------------------------------------------------------------------
(* The invariant and what follows from it                                  *)

\* Every behaviour starts in the invariant.
LEMMA InitInv == Init => JobInv
<1> SUFFICES ASSUME Init PROVE JobInv
  OBVIOUS
<1>1. TypeOK
  BY NoRowType, IdleTypes, MaxReleasesAssumption
     DEF Init, TypeOK, RecordStatus, NoSnapshot, Snapshot, Facts, Releases
<1>2. \A j \in Jobs : jobs[j] = NoRow
  BY DEF Init
<1>3. \A s \in Snaps : snaps[s].state = "none"
  BY DEF Init, NoSnapshot
<1>4. (\A j \in Jobs : RowOK(j)) /\ OneEffective /\ CompletedIsSealed
  BY <1>2 DEF RowOK, OneEffective, CompletedIsSealed, NoRow, Effective
<1>5. \A s \in Snaps : SnapOK(s)
  BY <1>3 DEF SnapOK
<1>6. ASSUME NEW w \in Workers PROVE WorkerOK(w)
  <2>1. worker[w] = IdleWorker
    BY DEF Init
  <2>2. QED
    BY <2>1 DEF WorkerOK, IdleWorker, Executing
<1>7. ASSUME NEW c \in Clients PROVE ClientOK(c)
  <2>1. client[c] = IdleClient
    BY DEF Init
  <2>2. QED
    BY <2>1 DEF ClientOK, IdleClient
<1>8. QED
  BY <1>1, <1>4, <1>5, <1>6, <1>7 DEF JobInv

\* Every step keeps the invariant.
LEMMA NextInv == JobInv /\ [Next]_vars => JobInv'
<1> SUFFICES ASSUME JobInv, [Next]_vars PROVE JobInv'
  OBVIOUS
<1>1. CASE UNCHANGED vars
  <2>1. TypeOK' /\ (\A j \in Jobs : RowOK(j))' /\ OneEffective'
        /\ (\A s \in Snaps : SnapOK(s))' /\ CompletedIsSealed'
    BY <1>1 DEF vars, JobInv, TypeOK, RowOK, OneEffective, SnapOK, CompletedIsSealed,
                SnapState
  <2>2. (\A w \in Workers : WorkerOK(w))'
    BY <1>1 DEF vars, JobInv, WorkerOK, Executing, Owns, SnapState
  <2>3. (\A c \in Clients : ClientOK(c))'
    BY <1>1 DEF vars, JobInv, ClientOK, SnapState
  <2>4. QED
    BY <2>1, <2>2, <2>3 DEF JobInv
<1>2. ASSUME NEW c \in Clients, Request(c) PROVE JobInv'
  <2>1. CASE \E r \in Repos, op \in {"submit", "status"} : RequestStart(c, r, op)
    BY <2>1, RequestStartInv
  <2>2. CASE RequestFind(c)
    BY <2>2, RequestFindInv
  <2>3. CASE SubmitActive(c)
    BY <2>3, SubmitActiveInv
  <2>4. CASE SubmitInsert(c)
    BY <2>4, SubmitInsertInv
  <2>5. CASE SubmitConflict(c)
    BY <2>5, SubmitConflictInv
  <2>6. CASE SubmitReread(c)
    BY <2>6, SubmitRereadInv
  <2>7. CASE Reconcile(c)
    BY <2>7, ReconcileInv
  <2>8. CASE \E r \in Repos : CancelStart(c, r)
    BY <2>8, CancelStartInv
  <2>9. CASE CancelQueued(c)
    BY <2>9, CancelQueuedInv
  <2>10. CASE CancelRunning(c)
    BY <2>10, CancelRunningInv
  <2>11. CASE CancelReloadQueued(c) \/ CancelRefuse(c) \/ Reply(c)
    BY <2>11, CancelReadInv
  <2>12. QED
    BY <1>2, <2>1, <2>2, <2>3, <2>4, <2>5, <2>6, <2>7, <2>8, <2>9, <2>10, <2>11
       DEF Request
<1>3. ASSUME NEW w \in Workers, Work(w) PROVE JobInv'
  <2>1. CASE Claim(w)
    BY <2>1, ClaimInv
  <2>2. CASE Gate(w)
    BY <2>2, GateInv
  <2>3. CASE FirstPulse(w)
    BY <2>3, FirstPulseInv
  <2>4. CASE \/ FirstPulseDeferred(w) \/ HeartbeatRaises(w) \/ SealRefused(w)
             \/ StageError(w) \/ ResourceExceeded(w)
    BY <2>4, LeaveInv
  <2>5. CASE OpenSnapshot(w)
    BY <2>5, OpenSnapshotInv
  <2>6. CASE ReleaseFacts(w)
    BY <2>6, ReleaseFactsInv
  <2>7. CASE FinishExtract(w)
    BY <2>7, FinishExtractInv
  <2>8. CASE Seal(w)
    BY <2>8, SealInv
  <2>9. CASE SealRejected(w)
    BY <2>9, SealRejectedInv
  <2>10. CASE SealCheckpoint(w)
    BY <2>10, SealCheckpointInv
  <2>11. CASE Complete(w)
    BY <2>11, CompleteInv
  <2>12. CASE Settle(w)
    BY <2>12, SettleInv
  <2>13. CASE Purge(w)
    BY <2>13, PurgeInv
  <2>14. CASE Finish(w)
    BY <2>14, FinishInv
  <2>15. CASE Reclaim(w)
    BY <2>15, ReclaimInv
  <2>16. QED
    BY <1>3, <2>1, <2>2, <2>3, <2>4, <2>5, <2>6, <2>7, <2>8, <2>9, <2>10, <2>11,
       <2>12, <2>13, <2>14, <2>15 DEF Work
<1>4. ASSUME NEW w \in Workers, Poll(w) PROVE JobInv'
  BY <1>4, ClaimReadInv, SweepLoadInv, SweepPurgeInv DEF Poll
<1>5. QED
  BY <1>1, <1>2, <1>3, <1>4, DeleteRepositoryInv, HeartbeatInv, LeaveInv, TimeInv,
     DeployInv DEF Next

\* The inductive invariant holds in every reachable state.
THEOREM Invariance == Spec => []JobInv
  BY InitInv, NextInv, PTL DEF Spec

\* Every column and every local variable keeps its type.
THEOREM TypeCorrect == Spec => []TypeOK
<1>1. JobInv => TypeOK
  BY DEF JobInv
<1>2. QED
  BY <1>1, Invariance, PTL

\* A completed job always points at a sealed snapshot (_complete, the closing
\* handlers, the sweep and _reconcile_completed_job all included).
THEOREM CompletedImpliesSealed == Spec => []CompletedIsSealed
<1>1. JobInv => CompletedIsSealed
  BY DEF JobInv
<1>2. QED
  BY <1>1, Invariance, PTL

\* A sealed snapshot never stands behind a cancelled, failed or requeued job.
THEOREM SealedImpliesEffective == Spec => []SealedIsEffective
<1>1. JobInv => SealedIsEffective
  BY DEF JobInv, SnapOK, SealedIsEffective
<1>2. QED
  BY <1>1, Invariance, PTL

\* A building snapshot is always the current attempt of a running job.
THEOREM BuildsAreOwned == Spec => []NoOrphanBuild
<1>1. JobInv => NoOrphanBuild
  BY DEF JobInv, SnapOK, NoOrphanBuild
<1>2. QED
  BY <1>1, Invariance, PTL

\* A sealed snapshot holds every fact, whatever was purged or released.
THEOREM SealedAreWhole == Spec => []SealedIsWhole
<1>1. JobInv => SealedIsWhole
  BY DEF JobInv, SnapOK, SealedIsWhole
<1>2. QED
  BY <1>1, Invariance, PTL

\* A sweeper that wins the compare-and-swap decides on current columns.
THEOREM ReclaimIsCurrent == Spec => []ReclaimSeesCurrent
<1>1. JobInv => ReclaimSeesCurrent
  BY DEF JobInv, WorkerOK, ReclaimSeesCurrent, Reclaimable
<1>2. QED
  BY <1>1, Invariance, PTL

\* A worker that owns its row works on the row's own, open snapshot.
THEOREM OwnerIsCurrent == Spec => []OwnerBuildsCurrent
<1>1. JobInv => OwnerBuildsCurrent
  BY DEF JobInv, WorkerOK, OwnerBuildsCurrent, Executing
<1>2. QED
  BY <1>1, Invariance, PTL

\* The unique index on sealed snapshots never refuses a guarded seal.
THEOREM SealsDoNotConflict == Spec => []SealNeverConflicts
<1>1. ASSUME JobInv, NEW w \in Workers, InStage(w, "seal"),
             OwnsUncancelled(w, worker[w].job), SealConflicts(worker[w].snap)
      PROVE  FALSE
  <2>1. worker[w].pc = "stage" /\ worker[w].stage = "seal" /\ Owns(w, worker[w].job)
    BY <1>1 DEF InStage, OwnsUncancelled
  <2>2. PICK j \in Jobs : j = worker[w].job
    BY <1>1, <2>1, StageSnap
  <2>3. PICK s \in Snaps : s = worker[w].snap /\ s[1] = j
    BY <1>1, <2>1, <2>2, StageSnap
  <2>4. PICK t \in Snaps \ {s} : /\ snaps[t].state = "completed"
                                 /\ jobs[t[1]].repo = jobs[s[1]].repo
    BY <1>1, <2>3 DEF SealConflicts
  <2>5. PICK k \in Jobs, a \in Attempts : t = <<k, a>>
    BY <2>4 DEF Snaps
  <2>6. jobs[k].status \in {"running", "completed"} /\ jobs[k].snap = t
    BY <1>1, <2>4, <2>5, LiveSnapshot
  <2>7. k = j
    BY <1>1, <2>1, <2>2, <2>3, <2>4, <2>5, <2>6
       DEF JobInv, OneEffective, Effective, Owns
  <2>8. jobs[j].snap = s
    BY <1>1, <2>1, <2>2, <2>3 DEF JobInv, WorkerOK, Executing
  <2>9. QED
    BY <2>4, <2>6, <2>7, <2>8
<1>2. JobInv => SealNeverConflicts
  BY <1>1 DEF SealNeverConflicts
<1>3. QED
  BY <1>2, Invariance, PTL

===========================================================================
