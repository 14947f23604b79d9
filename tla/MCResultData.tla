------------------------------ MODULE MCResultData ------------------------------
(* The parts that make the result files and read them.  They share no state *)
(* and no step: each behaviour is one of one of them, the subject.          *)
EXTENDS LogIndex, SeekableStream, ProcessDumps, HandleLog, Postprocessing, TLC

VARIABLE subject

ResultSymmetry ==
  Permutations(Pids) \cup Permutations(Methods) \cup Permutations(Programs)
    \cup Permutations(Handles)

(* A small file, one that is shared by two regions or not, one too large.   *)
MCDumpFiles == {<<1, 1>>, <<2, 3>>, <<3, 9>>}

MCLogSets == {Logs, Logs \ {"procmon.log", "inject.log", "sysret.log"}}

MCConfigs ==
  {[gzipSyscalls |-> TRUE, capaLogs |-> TRUE, capaMemdumps |-> TRUE, capaMalwareOnly |-> FALSE],
   [gzipSyscalls |-> FALSE, capaLogs |-> TRUE, capaMemdumps |-> FALSE, capaMalwareOnly |-> TRUE]}

logVars    == <<treeVars, lines, indexVars>>
streamVars == <<file, stream>>

Init ==
  /\ subject \in {"log", "stream", "dumps", "handles", "plugins"}
  /\ InitLog /\ InitStream /\ InitDumps /\ InitHandles /\ InitPost
  /\ subject # "stream" => length = 0
  /\ subject # "plugins" =>
       /\ config = CHOOSE c \in Configs : TRUE
       /\ drakmon = Logs
       /\ \A f \in Files \ {"drakmon.log"} : files[f] = "absent"

Next ==
  /\ UNCHANGED subject
  /\ \/ /\ subject = "log" /\ NextLog
        /\ UNCHANGED <<streamVars, dumpVars, handleVars, postVars>>
     \/ /\ subject = "stream" /\ NextStream
        /\ UNCHANGED <<logVars, dumpVars, handleVars, postVars>>
     \/ /\ subject = "dumps" /\ NextDumps
        /\ UNCHANGED <<logVars, streamVars, handleVars, postVars>>
     \/ /\ subject = "handles" /\ NextHandles
        /\ UNCHANGED <<logVars, streamVars, dumpVars, postVars>>
     \/ /\ subject = "plugins" /\ NextPost
        /\ UNCHANGED <<logVars, streamVars, dumpVars, handleVars>>

vars == <<subject, logVars, streamVars, dumpVars, handleVars, postVars>>

Spec == Init /\ [][Next]_vars

(* Every variable of the five parts has a value of its type.                *)
ResultTypeOK ==
  TreeTypeOK /\ LogTypeOK /\ StreamTypeOK /\ DumpsTypeOK /\ HandlesTypeOK /\ PostTypeOK
==============================================================================
