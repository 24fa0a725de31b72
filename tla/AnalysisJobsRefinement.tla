----------------------- MODULE AnalysisJobsRefinement -----------------------
(***************************************************************************)
(* AnalysisJobs implements AnalysisPromise.  A job is mapped to the columns*)
(* a user can see, and its graph is published while a snapshot of one of   *)
(* its attempts is sealed.  The cancel flag speaks of an active job only:  *)
(* a completion that read the row before the cancel leaves the flag set on *)
(* the completed job, and a later one clears it.                           *)
(***************************************************************************)
EXTENDS AnalysisJobs

VisibleJob ==
    [j \in Jobs |-> [repo |-> jobs[j].repo, phase |-> jobs[j].status,
                     tries |-> jobs[j].attempt,
                     cancel |-> jobs[j].status \in Active /\ jobs[j].cancel]]

Published == {j \in Jobs : \E a \in Attempts : snaps[<<j, a>>].state = "completed"}

Promise == INSTANCE AnalysisPromise WITH job <- VisibleJob, published <- Published

\* Every step of requests, workers, sweeps, crashes and deployments is, to a
\* user, a step of the promised life of a job, or nothing at all: claim,
\* cancel, seal, retry, sweep and reconciliation of analysis_job_service.py,
\* control_plane.py and analysis_worker.py together.
KeepsPromise == Promise!Spec
=============================================================================
