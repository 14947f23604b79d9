-------------------------- MODULE AnalysisPromise --------------------------
(***************************************************************************)
(* What GET /status/<id> promises a client about an analysis, without      *)
(* queues, workers or files: before the verdict is known it answers        *)
(* pending, then how the analysis ended, and this for ever.  An analysis   *)
(* that never came to an end is not found or of unknown status.            *)
(***************************************************************************)
CONSTANT Jobs

VARIABLES
  answer,   (* the status of each analysis as the API tells it              *)
  verdict   (* how the analysis itself ended                                *)

vars == <<answer, verdict>>

Answers  == {"not_found", "pending", "unknown", "finished", "failed"}
Verdicts == {"none", "ok", "raised"}

Init ==
  /\ answer = [j \in Jobs |-> "not_found"]
  /\ verdict = [j \in Jobs |-> "none"]

Accept(j) ==
  /\ answer[j] = "not_found" /\ verdict[j] = "none"
  /\ answer' = [answer EXCEPT ![j] = "pending"]
  /\ UNCHANGED verdict

Conclude(j) ==
  /\ answer[j] = "pending" /\ verdict[j] = "none"
  /\ \E v \in {"ok", "raised"} : verdict' = [verdict EXCEPT ![j] = v]
  /\ UNCHANGED answer

Told(j) ==
  {"unknown", "not_found"}
    \cup (IF verdict[j] = "ok" THEN {"finished"} ELSE {})
    \cup (IF verdict[j] = "raised" THEN {"failed"} ELSE {})

Report(j) ==
  /\ answer[j] = "pending"
  /\ \E a \in Told(j) : answer' = [answer EXCEPT ![j] = a]
  /\ UNCHANGED verdict

Next == \E j \in Jobs : Accept(j) \/ Conclude(j) \/ Report(j)

Spec == Init /\ [][Next]_vars
============================================================================
