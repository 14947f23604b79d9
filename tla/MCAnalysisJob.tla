--------------------------- MODULE MCAnalysisJob ---------------------------
(* Values for the constants of AnalysisJob.                                 *)
EXTENDS AnalysisJob

AllConfigs == [s3 : {TRUE}, rm : BOOLEAN] \cup {[s3 |-> FALSE, rm |-> FALSE]}
============================================================================
