--------------------------- MODULE MCAnalysisList ---------------------------
(* Symmetry for the runs of AnalysisList: jobs and requests are alike.      *)
EXTENDS AnalysisList, TLC

ListSymmetry == Permutations(Jobs) \cup Permutations(Listers)
============================================================================
