------------------------- MODULE AnalysisRunProofs -------------------------
(***************************************************************************)
(* Proofs about AnalysisRun: for any number of exceptions from outside,    *)
(* any of the options, and every way the processes hang or end.            *)
(***************************************************************************)
EXTENDS AnalysisRun, TLAPS

(* The places on the way down, where no exception is under way.             *)
Forward == {"prepare", "restore", "enter_vm", "guest", "script", "sample", "enter_injector",
            "inject", "inject_late", "extract", "command", "start_tcpdump", "enter_tcpdump",
            "start_shots", "start_drakvuf", "enter_drakvuf", "wait", "hang"}

BeforeInject == {"prepare", "restore", "enter_vm", "guest", "script", "sample"}
BeforeTcpdump == BeforeInject \cup {"enter_injector", "inject", "inject_late", "reap_injector",
                                    "extract", "command", "start_tcpdump"}
BeforeDrakvuf == BeforeTcpdump \cup {"enter_tcpdump", "start_shots", "start_drakvuf"}

PastTcpdump == {"caught", "destroy", "postprocess"} \cup Ending
PastDrakvuf == PastTcpdump \cup
  {"stop_shots", "cancel_shots", "join_shots", "stop_tcpdump", "join_tcpdump", "reap_tcpdump"}

(* Left behind: ended, or killed and then not waited for any longer, which  *)
(* fails the analysis; or missed by its clean-up.                           *)
Left(t) == \/ tool[t] \in {"none", "dead"}
           \/ tool[t] = "killed" /\ fatal
           \/ t \in slipped

(* Which process may run at which step.                                     *)
InjectorState ==
  /\ pc \in BeforeInject => tool["injector"] = "none"
  /\ pc \in {"enter_injector", "inject", "inject_late", "reap_injector"} \/ Left("injector")

TcpdumpState ==
  /\ pc \in BeforeTcpdump => tool["tcpdump"] = "none"
  /\ pc = "reap_tcpdump" => tool["tcpdump"] \in {"killed", "dead"}
  /\ pc \in PastTcpdump => Left("tcpdump")

DrakvufState ==
  /\ pc \in BeforeDrakvuf => tool["drakvuf"] = "none"
  /\ pc = "reap_drakvuf" => tool["drakvuf"] \in {"killed", "dead"}
  /\ pc \in PastDrakvuf => Left("drakvuf")

(* The exception under way tells whether the analysis has to fail.          *)
ExceptionTells ==
  /\ exc \in {"timeout", "error"} => fatal
  /\ fatal /\ pc # "failed" => exc # "none"
  /\ pc \in CleaningUp \cup {"caught"} /\ exc = "interrupt" =>
       (fatal <=> pc \in {"reap_injector", "destroy"})
  /\ pc = "failed" => fatal

(* A process is missed on the way down, and only one.                       *)
SlippedState ==
  /\ pc \in Forward => slipped = {}
  /\ \A t, u \in slipped : t = u

IInv ==
  /\ TypeOK
  /\ SlippedState
  /\ pc \in Forward \cup {"postprocess", "done"} => exc = "none"
  /\ ~cut => InjectorState /\ TcpdumpState /\ DrakvufState /\ ExceptionTells

----------------------------------------------------------------------------
(* The names of the steps that stop the processes.                          *)
LEMMA Names ==
  /\ StopOf("drakvuf") = "stop_drakvuf" /\ StopOf("tcpdump") = "stop_tcpdump"
  /\ JoinOf("drakvuf") = "join_drakvuf" /\ JoinOf("tcpdump") = "join_tcpdump"
  /\ ReapOf("drakvuf") = "reap_drakvuf" /\ ReapOf("tcpdump") = "reap_tcpdump"
  /\ ReapOf("injector") = "reap_injector" /\ EnterOf("injector") = "enter_injector"
  /\ EnterOf("drakvuf") = "enter_drakvuf" /\ EnterOf("tcpdump") = "enter_tcpdump"
  BY DEF StopOf, JoinOf, ReapOf, EnterOf

LEMMA Enterings ==
  /\ Entering = {"enter_vm", "enter_injector", "enter_drakvuf", "enter_tcpdump"}
  /\ pc = "enter_injector" => {t \in Tools : pc = EnterOf(t)} = {"injector"}
  /\ pc = "enter_drakvuf" => {t \in Tools : pc = EnterOf(t)} = {"drakvuf"}
  /\ pc = "enter_tcpdump" => {t \in Tools : pc = EnterOf(t)} = {"tcpdump"}
  /\ pc \notin {"enter_injector", "enter_drakvuf", "enter_tcpdump"} =>
       {t \in Tools : pc = EnterOf(t)} = {}
<1>1. {EnterOf(t) : t \in Tools} = {"enter_injector", "enter_drakvuf", "enter_tcpdump"}
  BY Names DEF Tools
<1>2. \A t \in Tools : t \in {"injector", "drakvuf", "tcpdump"}
  BY DEF Tools
<1> QED  BY <1>1, <1>2, Names DEF Entering, Tools

LEMMA Cleanings ==
  CleaningUp = {"stop_drakvuf", "stop_tcpdump", "join_drakvuf", "join_tcpdump", "reap_drakvuf",
                "reap_tcpdump", "reap_injector", "stop_shots", "cancel_shots", "join_shots",
                "destroy"}
<1>1. {StopOf(t) : t \in Collected} = {"stop_drakvuf", "stop_tcpdump"}
  BY Names DEF Collected
<1>2. {JoinOf(t) : t \in Collected} = {"join_drakvuf", "join_tcpdump"}
  BY Names DEF Collected
<1>3. {ReapOf(t) : t \in Tools} = {"reap_drakvuf", "reap_tcpdump", "reap_injector"}
  BY Names DEF Tools
<1> QED  BY <1>1, <1>2, <1>3 DEF CleaningUp, Stopping

(* Where an exception goes.                                                 *)
LEMMA Landing ==
  /\ pc \in {"prepare", "restore", "enter_vm", "destroy", "postprocess"} => Lands(pc) = "failed"
  /\ pc \in {"inject", "inject_late"} => Lands(pc) = "reap_injector"
  /\ pc \in {"guest", "script", "sample", "enter_injector", "extract", "reap_injector"} =>
       Lands(pc) = "destroy"
  /\ pc \in {"command", "start_tcpdump", "enter_tcpdump", "stop_tcpdump", "join_tcpdump",
            "reap_tcpdump"} => Lands(pc) = "caught"
  /\ pc \in {"start_shots", "stop_shots", "cancel_shots", "join_shots"} =>
       Lands(pc) = "stop_tcpdump"
  /\ pc \in {"start_drakvuf", "enter_drakvuf", "stop_drakvuf", "join_drakvuf", "reap_drakvuf"} =>
       Lands(pc) = AfterDrakvuf
  /\ pc \in {"wait", "hang"} => Lands(pc) = "stop_drakvuf"
  BY Names DEF Lands

LEMMA NextPlace == AfterDrakvuf \in {"stop_shots", "stop_tcpdump"}
  BY DEF AfterDrakvuf

----------------------------------------------------------------------------
(* The steps at which only an exception from outside is raised.             *)
Quiet == {"stop_drakvuf", "stop_tcpdump", "join_drakvuf", "join_tcpdump", "reap_injector",
          "enter_vm", "enter_injector", "enter_drakvuf", "enter_tcpdump"}

LEMMA Raising ==
  ASSUME TypeOK, pc \notin Ending \cup {"caught"}
  PROVE  pc \in Forward \cup {"postprocess"} \cup CleaningUp
BY Cleanings, Enterings DEF TypeOK, Ending, Forward

(* An exception, of a step of the program or from outside, keeps the        *)
(* invariant: it leaves no process behind but one killed, and it fails the  *)
(* analysis unless it is Ctrl-C between the two.                            *)
LEMMA Raised ==
  ASSUME IInv, NEW e \in {"interrupt", "timeout", "error"}, Raise(e), UNCHANGED tool,
         pc \notin Ending \cup {"caught"},
         cut \/ (e # "error" /\ pc \in CleaningUp) => cut',
         e = "error" => pc \notin Quiet,
         slipped' = IF e = "error" THEN slipped
                    ELSE slipped \cup {t \in Tools : pc = EnterOf(t)},
         cut' \in BOOLEAN, vm' \in BOOLEAN, strikes' \in 0..MaxStrikes, shots' = shots
  PROVE  IInv'
<1> USE DEF Ending
<1>p. pc' \in {"failed", "reap_injector", "destroy", "caught", "stop_tcpdump", "stop_shots",
               "stop_drakvuf"}
  <2>1. pc \in Forward \cup {"postprocess"} \cup CleaningUp
    BY Raising DEF IInv
  <2> QED  BY <2>1, Landing, NextPlace, Cleanings DEF Raise, Forward
<1>1. TypeOK'
  <2>1. pc' \in CleaningUp \cup {"caught"} \cup Ending
    BY <1>p, Cleanings
  <2>2. slipped \subseteq Tools
    BY DEF IInv, TypeOK
  <2>3. slipped' \subseteq Tools
    BY <2>2
  <2>4. exc' \in {"none", "interrupt", "timeout", "error"}
    BY DEF Raise
  <2>5. fatal' \in BOOLEAN
    BY DEF Raise, IInv, TypeOK
  <2>6. tool' \in [Tools -> {"none", "running", "told", "killed", "dead"}]
    BY DEF IInv, TypeOK
  <2>7. shots' \in {"none", "starting", "running", "cancelled", "finishing", "closed", "ended"}
    BY DEF IInv, TypeOK
  <2> QED  BY <2>1, <2>3, <2>4, <2>5, <2>6, <2>7 DEF TypeOK
<1>s. SlippedState'
  <2>1. pc' \notin Forward
    BY <1>p DEF Forward
  <2>2. CASE pc \in {"enter_injector", "enter_drakvuf", "enter_tcpdump"}
    <3>1. slipped = {}
      BY <2>2 DEF IInv, SlippedState, Forward
    <3> QED  BY <2>1, <2>2, <3>1, Enterings DEF SlippedState
  <2>3. CASE pc \notin {"enter_injector", "enter_drakvuf", "enter_tcpdump"}
    <3>1. slipped' = slipped
      BY <2>3, Enterings
    <3> QED  BY <2>1, <3>1 DEF IInv, SlippedState
  <2> QED  BY <2>2, <2>3
<1>2. (pc \in Forward \cup {"postprocess", "done"} => exc = "none")'
  BY <1>p DEF Forward
<1>3. ASSUME ~cut' PROVE InjectorState' /\ TcpdumpState' /\ DrakvufState' /\ ExceptionTells'
  <2>1. ~cut /\ (pc \in CleaningUp => e = "error")
    BY <1>3 DEF IInv, TypeOK
  <2>2. InjectorState /\ TcpdumpState /\ DrakvufState /\ ExceptionTells
    BY <2>1 DEF IInv
  <2>3. tool \in [Tools -> {"none", "running", "told", "killed", "dead"}] /\ fatal \in BOOLEAN
    BY DEF IInv, TypeOK
  <2>4. /\ pc = "enter_injector" => "injector" \in slipped'
        /\ pc = "enter_drakvuf" => "drakvuf" \in slipped'
        /\ pc = "enter_tcpdump" => "tcpdump" \in slipped'
        /\ slipped \subseteq slipped'
    BY Enterings DEF Quiet
  <2> USE <2>2, Landing, NextPlace, Cleanings DEF Raise
  <2>5. pc \in {"prepare", "restore", "enter_vm", "guest", "script", "sample", "enter_injector",
             "inject", "inject_late", "extract", "command", "start_tcpdump", "enter_tcpdump",
             "start_shots", "start_drakvuf", "enter_drakvuf", "wait", "hang", "postprocess",
             "stop_shots", "cancel_shots", "join_shots", "reap_drakvuf", "reap_tcpdump",
             "destroy"}
    <3>1. pc \in Forward \cup {"postprocess"} \cup CleaningUp
      BY Raising DEF IInv
    <3> QED  BY <2>1, <3>1, Cleanings DEF Quiet, Forward
  <2>6. fatal' \/ pc' \notin {"failed", "destroy", "reap_injector"}
    BY <2>5 DEF Interruptible, IInv
  <2>7. InjectorState'
    BY <2>3, <2>4, <2>5 DEF InjectorState, BeforeInject, Left
  <2>8. TcpdumpState'
    BY <2>1, <2>3, <2>4, <2>5 DEF TcpdumpState, BeforeTcpdump, BeforeInject, PastTcpdump, Left
  <2>9. DrakvufState'
    BY <2>1, <2>3, <2>4, <2>5
       DEF DrakvufState, BeforeDrakvuf, BeforeTcpdump, BeforeInject, PastDrakvuf, PastTcpdump, Left
  <2>10. ExceptionTells'
    BY <2>1, <2>3, <2>5, <2>6 DEF ExceptionTells, Interruptible, IInv, Forward
  <2> QED  BY <2>7, <2>8, <2>9, <2>10
<1> QED  BY <1>1, <1>s, <1>2, <1>3 DEF IInv

(* A step of the program that fails.                                        *)
LEMMA StepFailed ==
  ASSUME IInv, Raise("error"), pc \notin Quiet \cup Ending \cup {"caught"},
         UNCHANGED <<tool, shots, outside>>, vm' \in BOOLEAN
  PROVE  IInv'
  BY Raised DEF IInv, TypeOK, outside

LEMMA InitInv == InitRun => IInv
<1> SUFFICES ASSUME InitRun PROVE IInv
  OBVIOUS
<1>1. vm \in BOOLEAN
  BY DEF InitRun
<1>2. /\ pc = "prepare" /\ exc = "none" /\ fatal = FALSE /\ cut = FALSE /\ slipped = {}
      /\ tool = [t \in Tools |-> "none"] /\ shots = "none" /\ strikes = 0
  BY DEF InitRun
<1>3. TypeOK
  <2>1. strikes \in 0..MaxStrikes
    BY <1>2, MaxStrikesAssumption
  <2>2. cut \in BOOLEAN /\ fatal \in BOOLEAN
    BY <1>2
  <2>3. tool \in [Tools -> {"none", "running", "told", "killed", "dead"}]
    BY <1>2
  <2> QED  BY <1>1, <1>2, <2>1, <2>2, <2>3 DEF TypeOK
<1> QED
  BY <1>2, <1>3, Cleanings
     DEF IInv, Tools, Ending, Forward, SlippedState, InjectorState, BeforeInject, TcpdumpState,
         BeforeTcpdump, PastTcpdump, DrakvufState, BeforeDrakvuf, PastDrakvuf, Left, ExceptionTells

(* Every step of the program keeps the invariant.                           *)
LEMMA StepInv == IInv /\ Step => IInv'
<1> SUFFICES ASSUME IInv, Step PROVE IInv'
  OBVIOUS
<1> USE Names, Cleanings, NextPlace, Enterings
    DEF TypeOK, Tools, Collected, Ending, Forward, Goto, options, outside, Quiet, SlippedState,
        InjectorState, BeforeInject, TcpdumpState, BeforeTcpdump, PastTcpdump,
        DrakvufState, BeforeDrakvuf, PastDrakvuf, Left, ExceptionTells
<1>1. CASE Prepare
  BY <1>1, StepFailed DEF Prepare, Proceed, IInv
<1>2. CASE Restore
  <2>1. /\ pc = "restore" /\ vm' \in BOOLEAN
        /\ UNCHANGED <<tool, shots, outside>>
    BY <1>2 DEF Restore, IInv
  <2>2. Goto("enter_vm") \/ Goto("guest") \/ Raise("error")
    BY <1>2 DEF Restore, Proceed
  <2> QED  BY <2>1, <2>2, StepFailed DEF IInv
<1>3. CASE ConnectGuest
  BY <1>3, StepFailed DEF ConnectGuest, Proceed, IInv
<1>24. CASE RunScript
  BY <1>24, StepFailed DEF RunScript, Proceed, IInv
<1>25. CASE Extract
  BY <1>25, StepFailed DEF Extract, Proceed, IInv
<1>22. CASE DropSample
  BY <1>22, StepFailed DEF DropSample, Proceed, IInv
<1>23. CASE Enter
  <2>1. /\ pc \in Forward /\ pc' \in Forward /\ UNCHANGED <<exc, fatal, vm, tool, shots, outside>>
    BY <1>23 DEF Enter
  <2>2. \/ pc = "enter_vm" /\ pc' = "guest"
        \/ pc = "enter_injector" /\ pc' = "inject"
        \/ pc = "enter_tcpdump" /\ pc' = "start_shots"
        \/ pc = "enter_drakvuf" /\ pc' = "wait"
    BY <1>23 DEF Enter
  <2> QED  BY <2>1, <2>2 DEF IInv
<1>4. CASE Inject
  BY <1>4, StepFailed DEF Inject, Proceed, IInv
<1>5. CASE InjectLate
  BY <1>5, StepFailed DEF InjectLate, IInv
<1>6. CASE ReapInjector
  BY <1>6, StepFailed DEF ReapInjector, IInv
<1>7. CASE PrepareCommand
  BY <1>7, StepFailed DEF PrepareCommand, Proceed, IInv
<1>8. CASE StartTcpdump
  BY <1>8, StepFailed DEF StartTcpdump, StartTool, IInv
<1>9. CASE StartShots
  BY <1>9 DEF StartShots, IInv
<1>10. CASE StartDrakvuf
  BY <1>10, StepFailed DEF StartDrakvuf, StartTool, IInv
<1>11. CASE Wait
  BY <1>11 DEF Wait, IInv
<1>12. CASE Hang
  BY <1>12, StepFailed DEF Hang, IInv
<1>13. ASSUME NEW t \in Collected, Terminate(t) PROVE IInv'
  BY <1>13 DEF Terminate, IInv
<1>14. ASSUME NEW t \in Collected, Join(t) PROVE IInv'
  BY <1>14 DEF Join, After, IInv
<1>15. ASSUME NEW t \in Collected, Reap(t) PROVE IInv'
  BY <1>15, StepFailed DEF Reap, After, IInv
<1>16. CASE StopShots
  BY <1>16 DEF StopShots, IInv
<1>17. CASE CancelShots
  BY <1>17, StepFailed DEF CancelShots, IInv
<1>18. CASE JoinShots
  BY <1>18 DEF JoinShots, IInv
<1>19. CASE Caught
  BY <1>19 DEF Caught, IInv
<1>20. CASE Destroy
  <2>1. /\ pc = "destroy" /\ vm' \in BOOLEAN /\ UNCHANGED <<tool, shots, outside>>
    BY <1>20 DEF Destroy, IInv
  <2>2. \/ Raise("error")
        \/ exc = "none" /\ Goto("postprocess")
        \/ exc # "none" /\ Goto("failed")
    BY <1>20 DEF Destroy
  <2>3. CASE Raise("error")
    BY <2>1, <2>3, StepFailed
  <2>4. CASE exc = "none" /\ Goto("postprocess")
    BY <2>1, <2>4 DEF IInv
  <2>5. CASE exc # "none" /\ Goto("failed")
    BY <2>1, <2>5 DEF IInv
  <2> QED  BY <2>2, <2>3, <2>4, <2>5
<1>21. CASE Postprocess
  BY <1>21 DEF Postprocess, IInv
<1> QED
  BY <1>1, <1>2, <1>3, <1>4, <1>5, <1>6, <1>7, <1>8, <1>9, <1>10, <1>11, <1>12, <1>13, <1>14,
     <1>15, <1>16, <1>17, <1>18, <1>19, <1>20, <1>21, <1>22, <1>23, <1>24,
     <1>25 DEF Step

(* So does every exception from outside, and what the processes and the     *)
(* thread of the Screenshotter do.                                          *)
LEMMA OutsideInv ==
  IInv /\ (Strike \/ (\E t \in Tools : ToolEnds(t)) \/ ShotsGoOn \/ UNCHANGED runVars) => IInv'
<1>1. ASSUME IInv, Strike PROVE IInv'
  <2>1. /\ pc \notin Ending \cup {"caught"} /\ UNCHANGED <<tool, shots, vm>>
        /\ cut' = (cut \/ pc \in CleaningUp)
        /\ slipped' = slipped \cup {t \in Tools : pc = EnterOf(t)}
    BY <1>1 DEF Strike, Struck
  <2>2. strikes \in 0..MaxStrikes /\ cut \in BOOLEAN /\ vm \in BOOLEAN
    BY <1>1 DEF IInv, TypeOK
  <2>3. strikes' \in 0..MaxStrikes
    BY <1>1, <2>2, MaxStrikesAssumption DEF Strike, Struck, StrikeLimit
  <2>4. cut' \in BOOLEAN /\ vm' \in BOOLEAN
    BY <2>1, <2>2
  <2>5. CASE Raise("interrupt") \/ Raise("timeout")
    BY <1>1, <2>1, <2>3, <2>4, <2>5, Raised
  <2>6. CASE pc \in GuestCalls \cup {"postprocess"} /\ Goto(pc)
    <3>1. slipped' = slipped /\ cut' = cut
      BY <2>1, <2>2, <2>6, Enterings, Cleanings DEF GuestCalls
    <3>2. UNCHANGED <<pc, exc, fatal>>
      BY <2>6 DEF Goto
    <3> QED
      BY <1>1, <2>1, <2>3, <3>1, <3>2
         DEF IInv, TypeOK, SlippedState, InjectorState, TcpdumpState, DrakvufState, Left,
             ExceptionTells
  <2> QED  BY <1>1, <2>5, <2>6 DEF Strike
<1>2. ASSUME IInv, NEW t \in Tools, ToolEnds(t) PROVE IInv'
  <2> USE <1>2 DEF ToolEnds, IInv, outside
  <2>1. TypeOK' /\ SlippedState'
    BY DEF TypeOK, SlippedState
  <2>2. \A u \in Tools : tool'[u] = tool[u] \/ (tool[u] # "none" /\ tool'[u] = "dead")
    BY DEF TypeOK
  <2>3. ASSUME ~cut PROVE InjectorState' /\ TcpdumpState' /\ DrakvufState' /\ ExceptionTells'
    BY <2>2, <2>3 DEF Tools, InjectorState, TcpdumpState, DrakvufState, Left, ExceptionTells
  <2> QED  BY <2>1, <2>3
<1>3. ASSUME IInv, ShotsGoOn PROVE IInv'
  BY <1>3 DEF ShotsGoOn, outside, IInv, TypeOK, SlippedState, InjectorState, TcpdumpState, DrakvufState, Left,
              ExceptionTells
<1>4. ASSUME IInv, UNCHANGED runVars PROVE IInv'
  BY <1>4 DEF runVars, outside, IInv, TypeOK, SlippedState, InjectorState, TcpdumpState, DrakvufState, Left,
              ExceptionTells
<1> QED  BY <1>1, <1>2, <1>3, <1>4

LEMMA Inductive == Spec => []IInv
<1>1. IInv /\ [NextRun]_runVars => IInv'
  BY StepInv, OutsideInv DEF NextRun
<1> QED  BY InitInv, <1>1, PTL DEF Spec

----------------------------------------------------------------------------
(* Type correctness: the steps of analyze_file, the exception under way,    *)
(* the processes and the exceptions counted stay in their ranges.           *)
THEOREM Types == Spec => []TypeOK
<1>1. IInv => TypeOK
  BY DEF IInv
<1> QED  BY Inductive, <1>1, PTL

(* When the results are made no process of the analysis runs, and when      *)
(* analyze_file has ended whatever it started has ended or has been killed, *)
(* whatever failed or hung, unless a clean-up was itself interrupted; but   *)
(* for one process at most, that had just been started when an exception    *)
(* from outside was raised.                                                 *)
THEOREM NothingRunsOn == Spec => []ToolsAreStopped
<1>1. IInv => ToolsAreStopped
  <2> SUFFICES ASSUME IInv, ~cut PROVE ToolsAreStopped
    BY DEF ToolsAreStopped
  <2>1. tool \in [Tools -> {"none", "running", "told", "killed", "dead"}]
    BY DEF IInv, TypeOK
  <2>2. InjectorState /\ TcpdumpState /\ DrakvufState /\ ExceptionTells
    BY DEF IInv
  <2>3. /\ pc \in {"postprocess", "done"} => ~fatal
        /\ \A t, u \in slipped : t = u
    BY <2>2 DEF IInv, ExceptionTells, SlippedState
  <2> QED
    BY <2>1, <2>2, <2>3
       DEF ToolsAreStopped, Tools, InjectorState, BeforeInject, TcpdumpState, DrakvufState, Left,
           PastTcpdump, PastDrakvuf, Ending
<1> QED  BY Inductive, <1>1, PTL

(* Ctrl-C while the sample runs ends the analysis as a success; every other *)
(* exception, before it or after it, ends it as a failure.                  *)
THEOREM VerdictOfRun == Spec => []VerdictIsRight
<1>1. IInv => VerdictIsRight
  BY DEF IInv, VerdictIsRight, ExceptionTells
<1> QED  BY Inductive, <1>1, PTL
=============================================================================
