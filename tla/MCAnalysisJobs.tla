--------------------------- MODULE MCAnalysisJobs ---------------------------
(* Model-checking instances of AnalysisJobs. *)
EXTENDS AnalysisJobsRefinement, TLC

Symmetry == Permutations(Workers) \cup Permutations(Clients)
=============================================================================
