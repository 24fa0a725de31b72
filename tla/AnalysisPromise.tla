-------------------------- MODULE AnalysisPromise --------------------------
(***************************************************************************)
(* What the analysis of repositories promises to a user, without workers,  *)
(* leases, copies of rows, snapshots in progress or crashes: a repository  *)
(* has at most one job that counts, a job publishes at most one graph, and *)
(* how a job ends agrees with whether its graph was published.             *)
(* AnalysisJobsRefinement shows that the code's steps are steps of this    *)
(* specification, or change nothing of it.                                 *)
(***************************************************************************)
EXTENDS Integers

CONSTANTS
    Jobs,           \* jobs that may ever be submitted
    Repos,          \* repositories
    None,           \* a job of no repository
    MaxAttempts     \* times a job is started

VARIABLES
    job,            \* the jobs
    published       \* jobs whose graph can be read

vars == <<job, published>>

NoJob == [repo |-> None, phase |-> "unused", tries |-> 0, cancel |-> FALSE]

Counts == {"queued", "running", "completed"}

Init ==
    /\ job = [j \in Jobs |-> NoJob]
    /\ published = {}

Set(j, new) == job' = [job EXCEPT ![j] = new]

\* A new job is queued where no other counts.
Submit(j, r) ==
    /\ job[j] = NoJob
    /\ \A k \in Jobs : job[k].repo = r => job[k].phase \notin Counts
    /\ Set(j, [NoJob EXCEPT !.repo = r, !.phase = "queued"])
    /\ UNCHANGED published

Start(j) ==
    /\ job[j].phase = "queued"
    /\ job[j].tries < MaxAttempts
    /\ Set(j, [job[j] EXCEPT !.phase = "running", !.tries = @ + 1])
    /\ UNCHANGED published

\* Only a running job nobody has asked to cancel, and only once.
Publish(j) ==
    /\ job[j].phase = "running"
    /\ ~job[j].cancel
    /\ j \notin published
    /\ published' = published \cup {j}
    /\ UNCHANGED job

\* A cancel is accepted while the job runs; before that it ends the job.
AskCancel(j) ==
    /\ job[j].phase = "running"
    /\ Set(j, [job[j] EXCEPT !.cancel = TRUE])
    /\ UNCHANGED published

Withdraw(j) ==
    /\ job[j].phase = "queued"
    /\ Set(j, [job[j] EXCEPT !.phase = "cancelled", !.cancel = FALSE])
    /\ UNCHANGED published

\* A published job completes, also when a cancel came after the publication.
Complete(j) ==
    /\ job[j].phase = "running"
    /\ j \in published
    /\ Set(j, [job[j] EXCEPT !.phase = "completed", !.cancel = FALSE])
    /\ UNCHANGED published

\* An unpublished one is tried again while it may, the cancel still pending;
\* fails; or is cancelled if that was asked.
GiveUp(j, phase) ==
    /\ job[j].phase = "running"
    /\ j \notin published
    /\ \/ phase = "queued" /\ job[j].tries < MaxAttempts
       \/ phase = "failed"
       \/ phase = "cancelled" /\ job[j].cancel
    /\ Set(j, [job[j] EXCEPT !.phase = phase, !.cancel = @ /\ phase = "queued"])
    /\ UNCHANGED published

\* A repository is deleted with its jobs and its graph.
Delete(r) ==
    LET of == {j \in Jobs : job[j].repo = r} IN
    /\ job' = [j \in Jobs |-> IF j \in of THEN [NoJob EXCEPT !.phase = "deleted"]
                              ELSE job[j]]
    /\ published' = published \ of

Next ==
    \/ \E j \in Jobs :
        \/ \E r \in Repos : Submit(j, r)
        \/ Start(j)
        \/ Publish(j)
        \/ AskCancel(j)
        \/ Withdraw(j)
        \/ Complete(j)
        \/ \E phase \in {"queued", "failed", "cancelled"} : GiveUp(j, phase)
    \/ \E r \in Repos : Delete(r)

Spec == Init /\ [][Next]_vars
=============================================================================
