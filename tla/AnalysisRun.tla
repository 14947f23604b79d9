------------------------------ MODULE AnalysisRun ------------------------------
(***************************************************************************)
(* One call of analyze_file (analyzer/analyzer.py): the contexts it enters *)
(* and leaves (run_tools.py), the processes it starts and has to stop, the *)
(* thread of the Screenshotter, and the exceptions that end it anywhere: a *)
(* step that fails, Ctrl-C at the command line, the job timeout of rq in a *)
(* worker.  An exception is raised between two steps; `Lands' is where it  *)
(* goes, the clean-up of the innermost context.                            *)
(***************************************************************************)
EXTENDS Integers

CONSTANT
  MaxStrikes   (* exceptions that come from outside *)

(* A worker's job has a timeout, which is one of them.                      *)
ASSUME MaxStrikesAssumption == MaxStrikes \in Nat \ {0}

Tools == {"injector", "drakvuf", "tcpdump"}

VARIABLES
  runner,     (* "cli" or "worker"                                            *)
  timed,      (* options.timeout is given                                     *)
  restores,   (* not options.no_vm_restore                                    *)
  shooting,   (* not options.no_screenshotter                                 *)
  pc,         (* the next step                                                *)
  exc,        (* the exception under way                                      *)
  vm,         (* the VM runs                                                  *)
  tool,       (* each process: "none", "running", "told", "killed" or "dead"  *)
  shots,      (* the Screenshotter's thread                                   *)
  strikes,    (* exceptions from outside so far                               *)
  cut,        (* ghost: one of them was raised in a clean-up                  *)
  slipped,    (* ghost: the tools one of them kept from getting a clean-up    *)
  fatal       (* ghost: an exception that has to fail the analysis was raised *)

options == <<runner, timed, restores, shooting>>
outside == <<strikes, cut, slipped>>
runVars == <<options, pc, exc, vm, tool, shots, outside, fatal>>

InitRun ==
  /\ runner \in {"cli", "worker"} /\ timed \in BOOLEAN
  /\ restores \in BOOLEAN /\ shooting \in BOOLEAN
  /\ runner = "worker" => timed
  /\ pc = "prepare" /\ exc = "none"
  /\ vm = ~restores
  /\ tool = [t \in Tools |-> "none"]
  /\ shots = "none" /\ strikes = 0 /\ cut = FALSE /\ slipped = {} /\ fatal = FALSE

Ending == {"done", "failed"}

(* A process runs a moment before the context is entered that stops it: the *)
(* result of Popen, or of vm.restore, on the way to `with' or `try'.        *)
EnterOf(t) == [drakvuf |-> "enter_drakvuf", tcpdump |-> "enter_tcpdump",
               injector |-> "enter_injector"][t]
Entering == {EnterOf(t) : t \in Tools} \cup {"enter_vm"}

(* What is done with each process when the context of it is left.           *)
StopOf(t) == [drakvuf |-> "stop_drakvuf", tcpdump |-> "stop_tcpdump"][t]
JoinOf(t) == [drakvuf |-> "join_drakvuf", tcpdump |-> "join_tcpdump"][t]
ReapOf(t) == [drakvuf |-> "reap_drakvuf", tcpdump |-> "reap_tcpdump",
              injector |-> "reap_injector"][t]

Collected == {"drakvuf", "tcpdump"}

Stopping ==
  {StopOf(t) : t \in Collected} \cup {JoinOf(t) : t \in Collected} \cup {ReapOf(t) : t \in Tools}

AfterDrakvuf == IF shooting THEN "stop_shots" ELSE "stop_tcpdump"

Lands(at) ==
  CASE at \in {"prepare", "restore", "enter_vm", "destroy"} -> "failed"
    [] at \in {"inject", "inject_late"}           -> ReapOf("injector")
    [] at \in {"guest", "script", "sample", "enter_injector", "extract", ReapOf("injector")}
                                                  -> "destroy"
    [] at \in {"command", "start_tcpdump", "enter_tcpdump"} -> "caught"
    [] at = "start_shots"                         -> StopOf("tcpdump")
    [] at \in {"start_drakvuf", "enter_drakvuf"}  -> AfterDrakvuf
    [] at \in {"wait", "hang"}                    -> StopOf("drakvuf")
    [] at \in {StopOf("drakvuf"), JoinOf("drakvuf"), ReapOf("drakvuf")} -> AfterDrakvuf
    [] at \in {"stop_shots", "cancel_shots", "join_shots"} -> StopOf("tcpdump")
    [] at \in {StopOf("tcpdump"), JoinOf("tcpdump"), ReapOf("tcpdump")} -> "caught"
    [] OTHER                                      -> "failed"

CleaningUp == Stopping \cup {"stop_shots", "cancel_shots", "join_shots", "destroy"}

(* The steps between lines 256 and 299, where Ctrl-C ends the analysis.     *)
Interruptible ==
  {"command", "start_tcpdump", "enter_tcpdump", "start_shots", "start_drakvuf",
   "enter_drakvuf", "wait", "hang"}
    \cup (CleaningUp \ {"destroy", ReapOf("injector")})

Raise(e) ==
  /\ exc' = e
  /\ pc' = Lands(pc)
  /\ fatal' = (fatal \/ ~(e = "interrupt" /\ pc \in Interruptible))

Goto(next) == pc' = next /\ UNCHANGED <<exc, fatal>>

Proceed(next) == Goto(next) \/ Raise("error")

----------------------------------------------------------------------------
(* Lines 168-189                                                            *)
Prepare ==
  /\ pc = "prepare"
  /\ Proceed("restore")
  /\ UNCHANGED <<options, vm, tool, shots, outside>>

(* run_vm: a restore that fails is not undone.                              *)
Restore ==
  /\ pc = "restore"
  /\ \/ restores /\ vm' = TRUE /\ Goto("enter_vm")
     \/ restores /\ vm' \in BOOLEAN /\ Raise("error")
     \/ ~restores /\ UNCHANGED vm /\ Proceed("guest")
  /\ UNCHANGED <<options, tool, shots, outside>>

(* Drakshell answers within its time limits; there is a post-restore script *)
(* to run, or not.                                                          *)
ConnectGuest ==
  /\ pc = "guest"
  /\ Proceed("script") \/ Proceed("sample")
  /\ UNCHANGED <<options, vm, tool, shots, outside>>

(* drakshell.check_call, which waits without a limit for the process in the *)
(* guest to exit.                                                           *)
GuestCalls == {"script", "extract"}

RunScript ==
  /\ pc = "script"
  /\ Proceed("sample")
  /\ UNCHANGED <<options, vm, tool, shots, outside>>

(* The sample or an archive, if there is one, is dropped by the injector.   *)
DropSample ==
  /\ pc = "sample"
  /\ \/ Proceed("command") /\ UNCHANGED tool
     \/ tool' = [tool EXCEPT !["injector"] = "running"] /\ Goto(EnterOf("injector"))
  /\ UNCHANGED <<options, vm, shots, outside>>

(* The context of what was started is entered.                              *)
Enter ==
  /\ pc \in Entering
  /\ Goto([enter_vm |-> "guest", enter_injector |-> "inject",
           enter_tcpdump |-> "start_shots", enter_drakvuf |-> "wait"][pc])
  /\ UNCHANGED <<options, vm, tool, shots, outside>>

(* Injector._run_with_timeout: one that does not end in time is terminated, *)
(* given the same time to end, and killed when it has not; its context then *)
(* waits for its end, but not after Ctrl-C.                                 *)
Inject ==
  /\ pc = "inject"
  /\ \/ /\ tool["injector"] = "dead" /\ UNCHANGED tool
        /\ Proceed("extract") \/ Proceed("command")
     \/ /\ tool["injector"] = "running"
        /\ tool' = [tool EXCEPT !["injector"] = "told"]
        /\ Goto("inject_late")
  /\ UNCHANGED <<options, vm, shots, outside>>

InjectLate ==
  /\ pc = "inject_late"
  /\ Raise("error")
  /\ UNCHANGED <<options, vm, tool, shots, outside>>

ReapInjector ==
  /\ pc = ReapOf("injector")
  /\ \/ /\ tool["injector"] \in {"running", "told"}
        /\ tool' = [tool EXCEPT !["injector"] = "killed"] /\ Goto(pc)
     \/ /\ tool["injector"] = "dead" \/ (tool["injector"] = "killed" /\ exc = "interrupt")
        /\ UNCHANGED tool /\ Goto("destroy")
  /\ UNCHANGED <<options, vm, shots, outside>>

(* A dropped archive is extracted.                                          *)
Extract ==
  /\ pc = "extract"
  /\ Proceed("command")
  /\ UNCHANGED <<options, vm, tool, shots, outside>>

(* Lines 256-275: the command to run, or drakshell is told to finish.       *)
PrepareCommand ==
  /\ pc = "command"
  /\ Proceed("start_tcpdump")
  /\ UNCHANGED <<options, vm, tool, shots, outside>>

StartTool(t, at) ==
  /\ pc = at
  /\ \/ tool' = [tool EXCEPT ![t] = "running"] /\ Goto(EnterOf(t))
     \/ Raise("error") /\ UNCHANGED tool
  /\ UNCHANGED <<options, vm, shots, outside>>

StartTcpdump == StartTool("tcpdump", "start_tcpdump")

StartShots ==
  /\ pc = "start_shots"
  /\ shots' = IF shooting THEN "starting" ELSE "none"
  /\ Goto("start_drakvuf")
  /\ UNCHANGED <<options, vm, tool, outside>>

StartDrakvuf == StartTool("drakvuf", "start_drakvuf")

(* Mutant of Wait: drakvuf is trusted to end.                               *)
WaitForever ==
  /\ pc = "wait"
  /\ tool["drakvuf"] = "dead"
  /\ Goto(StopOf("drakvuf"))
  /\ UNCHANGED <<options, vm, tool, shots, outside>>

(* Lines 289-298: drakvuf is given 30 seconds more than its own timeout and *)
(* then 10 seconds to end.                                                  *)
Wait ==
  /\ pc = "wait"
  /\ \/ tool["drakvuf"] = "dead" /\ Goto(StopOf("drakvuf")) /\ UNCHANGED tool
     \/ /\ timed /\ tool["drakvuf"] = "running"
        /\ tool' = [tool EXCEPT !["drakvuf"] = "told"]
        /\ Goto("hang")
  /\ UNCHANGED <<options, vm, shots, outside>>

Hang ==
  /\ pc = "hang"
  /\ IF tool["drakvuf"] = "dead" THEN Goto(StopOf("drakvuf")) ELSE Raise("error")
  /\ UNCHANGED <<options, vm, tool, shots, outside>>

----------------------------------------------------------------------------
(* process_graceful_exit of drakvuf and tcpdump                             *)

After(t) == IF t = "drakvuf" THEN AfterDrakvuf ELSE "caught"

Terminate(t) ==
  /\ pc = StopOf(t)
  /\ tool' = [tool EXCEPT ![t] = IF @ \in {"running", "told"} THEN "told" ELSE @]
  /\ Goto(JoinOf(t))
  /\ UNCHANGED <<options, vm, shots, outside>>

(* Mutant of Join: one that has not ended is left alone.                    *)
JoinOnly(t) ==
  /\ pc = JoinOf(t)
  /\ Goto(After(t))
  /\ UNCHANGED <<options, vm, tool, shots, outside>>

(* wait(5), and a kill when it has not ended.                               *)
Join(t) ==
  /\ pc = JoinOf(t)
  /\ IF tool[t] = "dead"
     THEN Goto(After(t)) /\ UNCHANGED tool
     ELSE Goto(ReapOf(t)) /\ tool' = [tool EXCEPT ![t] = "killed"]
  /\ UNCHANGED <<options, vm, shots, outside>>

(* wait(5) again: it raises when even a kill takes longer.                  *)
Reap(t) ==
  /\ pc = ReapOf(t)
  /\ \/ tool[t] = "dead" /\ Goto(After(t))
     \/ tool[t] # "dead" /\ Raise("error")
  /\ UNCHANGED <<options, vm, tool, shots, outside>>

(* Screenshotter.stop: a task that is there, on a loop that is not closed,  *)
(* is cancelled; the loop may be closed in between.                         *)
StopShots ==
  /\ pc = "stop_shots"
  /\ Goto(IF shots \in {"running", "finishing"} THEN "cancel_shots" ELSE "join_shots")
  /\ UNCHANGED <<options, vm, tool, shots, outside>>

CancelShots ==
  /\ pc = "cancel_shots"
  /\ IF shots \in {"closed", "ended"}
     THEN Raise("error") /\ UNCHANGED shots
     ELSE shots' = (IF shots = "running" THEN "cancelled" ELSE shots) /\ Goto("join_shots")
  /\ UNCHANGED <<options, vm, tool, outside>>

(* join(15): a thread that has not ended is only complained of.             *)
JoinShots ==
  /\ pc = "join_shots"
  /\ Goto(StopOf("tcpdump"))
  /\ UNCHANGED <<options, vm, tool, shots, outside>>

(* Mutant of Caught: any exception ends the analysis only.                  *)
CaughtAll ==
  /\ pc = "caught"
  /\ exc' = "none"
  /\ pc' = "destroy"
  /\ UNCHANGED <<options, vm, tool, shots, outside, fatal>>

(* "Interrupted with CTRL-C, analysis finished."                            *)
Caught ==
  /\ pc = "caught"
  /\ exc' = IF exc = "interrupt" THEN "none" ELSE exc
  /\ pc' = "destroy"
  /\ UNCHANGED <<options, vm, tool, shots, outside, fatal>>

(* The end of run_vm.                                                       *)
Destroy ==
  /\ pc = "destroy"
  /\ LET next == IF exc = "none" THEN "postprocess" ELSE "failed" IN
     IF restores
     THEN \/ vm' = FALSE /\ Goto(next)
          \/ UNCHANGED vm /\ Raise("error")
     ELSE UNCHANGED vm /\ Goto(next)
  /\ UNCHANGED <<options, tool, shots, outside>>

Postprocess ==
  /\ pc = "postprocess"
  /\ Goto("done")
  /\ UNCHANGED <<options, vm, tool, shots, outside>>

----------------------------------------------------------------------------
(* What happens to it.  The timeout of rq is an Exception, which            *)
(* run_postprocessing passes over like one of a plugin; Ctrl-C is not.      *)
(* While drakshell's join waits, Ctrl-C only terminates the process in the  *)
(* guest.                                                                   *)
StrikeLimit == IF runner = "worker" THEN 1 ELSE MaxStrikes

Struck ==
  /\ pc \notin Ending \cup {"caught"}
  /\ strikes' = strikes + 1
  /\ cut' = (cut \/ pc \in CleaningUp)
  /\ slipped' = slipped \cup {t \in Tools : pc = EnterOf(t)}
  /\ UNCHANGED <<options, vm, tool, shots>>

(* Mutant of Strike: the timeout does not stop when it has struck.          *)
StrikeAgain == Struck /\ Raise("timeout")

Strike ==
  /\ strikes < StrikeLimit
  /\ Struck
  /\ \/ runner = "cli" /\ Raise("interrupt")
     \/ runner = "cli" /\ pc \in GuestCalls /\ Goto(pc)
     \/ runner = "worker" /\ pc # "postprocess" /\ Raise("timeout")
     \/ runner = "worker" /\ pc = "postprocess" /\ Goto(pc)

ToolEnds(t) ==
  /\ tool[t] \in {"running", "told", "killed"}
  /\ tool' = [tool EXCEPT ![t] = "dead"]
  /\ UNCHANGED <<options, pc, exc, vm, shots, outside, fatal>>

(* The thread: it makes its task, which ends by itself or is cancelled, and *)
(* closes the loop.                                                         *)
ShotsGoOn ==
  /\ \/ shots = "starting"  /\ shots' = "running"
     \/ shots \in {"running", "cancelled"} /\ shots' = "finishing"
     \/ shots = "finishing" /\ shots' = "closed"
     \/ shots = "closed"    /\ shots' = "ended"
  /\ UNCHANGED <<options, pc, exc, vm, tool, outside, fatal>>

Step ==
  \/ Prepare \/ Restore \/ Enter \/ ConnectGuest \/ RunScript \/ DropSample
  \/ Inject \/ InjectLate \/ ReapInjector \/ Extract \/ PrepareCommand
  \/ StartTcpdump \/ StartShots \/ StartDrakvuf \/ Wait \/ Hang
  \/ \E t \in Collected : Terminate(t) \/ Join(t) \/ Reap(t)
  \/ StopShots \/ CancelShots \/ JoinShots
  \/ Caught \/ Destroy \/ Postprocess

NextRun == Step \/ Strike \/ (\E t \in Tools : ToolEnds(t)) \/ ShotsGoOn

Spec == InitRun /\ [][NextRun]_runVars

(* The steps that may wait for ever: xl and the network's commands, and the *)
(* calls of drakshell that wait for a process in the guest.                 *)
Unlimited == {"restore", "destroy"} \cup GuestCalls

(* Every other step is taken: its wait has a limit, but for the one for     *)
(* drakvuf without options.timeout, and for an injector that was killed.    *)
(* What is killed ends.  The job timeout comes, which every job has         *)
(* (worker.py:189); Ctrl-C need not.                                        *)
FairSpec ==
  /\ Spec
  /\ WF_runVars(pc \notin Unlimited /\ Step)
  /\ WF_runVars(runner = "worker" /\ Strike)
  /\ \A t \in Tools : WF_runVars(tool[t] = "killed" /\ ToolEnds(t))

----------------------------------------------------------------------------
(* Properties                                                               *)

TypeOK ==
  /\ pc \in {"prepare", "restore", "guest", "script", "sample", "inject", "inject_late",
             "extract", "command", "start_tcpdump", "start_shots", "start_drakvuf", "wait",
             "hang", "caught", "postprocess"}
            \cup Entering \cup CleaningUp \cup Ending
  /\ exc \in {"none", "interrupt", "timeout", "error"}
  /\ tool \in [Tools -> {"none", "running", "told", "killed", "dead"}]
  /\ shots \in {"none", "starting", "running", "cancelled", "finishing", "closed", "ended"}
  /\ vm \in BOOLEAN /\ cut \in BOOLEAN /\ fatal \in BOOLEAN /\ strikes \in 0..MaxStrikes
  /\ slipped \subseteq Tools

(* When the results are made nothing writes to them any more (the thread of *)
(* the Screenshotter excepted, which nobody waits for longer than 15        *)
(* seconds), and when the analysis has ended nothing of it runs on that has *)
(* not been killed, whatever hung or failed on the way; unless a clean-up   *)
(* was itself interrupted, and but for the one process that had just been   *)
(* started when Ctrl-C or the job timeout struck (run_tools.py:54, :31).    *)
ToolsAreStopped ==
  ~cut =>
    /\ pc \in {"postprocess", "done"} =>
         \A t \in Tools \ slipped : tool[t] \in {"none", "dead"}
    /\ pc = "failed" =>
         \A t \in Tools \ slipped : tool[t] \in {"none", "dead", "killed"}
    /\ \A t, u \in slipped : t = u

(* Ctrl-C during the analysis ends it and is no failure, alone or with      *)
(* anything else that is none; everything else is one, also when Ctrl-C     *)
(* came first and stopping the tools failed then.                           *)
VerdictIsRight ==
  ~cut => (pc = "done" => ~fatal) /\ (pc = "failed" => fatal)

(* An analysis with a timeout ends, however drakvuf, the injector, tcpdump  *)
(* and the Screenshotter hang and whatever exceptions are raised; unless    *)
(* one of the calls that have no limit never returns.  A worker's job       *)
(* timeout ends those too, all but the destruction of the VM.               *)
RunEnds ==
  timed => \/ <>(pc \in Ending)
           \/ runner = "cli" /\ <>[](pc \in Unlimited)
           \/ runner = "worker" /\ <>[](pc = "destroy")
============================================================================
