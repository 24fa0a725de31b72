------------------------ MODULE MCRepositoryLineage ------------------------
EXTENDS RepositoryLineage, TLC

\* Requests are interchangeable, and so are commits.
Symmetry == Permutations(Requests) \cup Permutations(Revisions)

=============================================================================
