--------------------------- MODULE MCAnalysisJobs ---------------------------
(* Small instances of AnalysisJobs for TLC.                                *)
EXTENDS AnalysisJobs, TLC

\* Processes of a kind are interchangeable: no step orders them.
Symmetry == Permutations(Workers) \union Permutations(Recoverers)
            \union Permutations(Uploads)
=============================================================================
