---------------------------- MODULE Postprocessing ----------------------------
(***************************************************************************)
(* The plugins that make the results of what drakvuf left in the output    *)
(* directory (analyzer/postprocessing).  They run one after the other; one *)
(* that raises is passed over, and "drakrun postprocess" runs them all     *)
(* once more over what is there, with a new context.  A plugin may raise   *)
(* before it writes or in the midst of it, and the process may be killed.  *)
(***************************************************************************)
EXTENDS Integers, Sequences, FiniteSets

CONSTANTS
  LogSets,    (* what may be in drakmon.log: sets of logs       *)
  Configs,    (* the configurations considered                  *)
  MaxRuns,    (* runs over one directory                        *)
  MaxFaults   (* exceptions and kills that no plugin provides for *)

Logs == {"procmon.log", "tlsmon.log", "inject.log", "memdump.log", "apimon.log",
         "filetracer.log", "socketmon.log", "syscall.log", "sysret.log"}

(* Of the configuration: gzip_syscalls, and of [capa] whether it looks at   *)
(* the logs, at the dumps, and at the malware's processes only.             *)
ASSUME PostAssumption ==
  /\ LogSets \subseteq SUBSET Logs
  /\ Configs \subseteq [gzipSyscalls : BOOLEAN, capaLogs : BOOLEAN,
                        capaMemdumps : BOOLEAN, capaMalwareOnly : BOOLEAN]
  /\ MaxRuns \in Nat /\ MaxFaults \in Nat

Files == Logs \cup {"drakmon.log", "screenshots.json", "dumps", "dumps.zip", "ipt", "ipt.zip",
  "wireshark_key_file.txt", "process_tree.json", "ttps.json", "syscall.log.gz",
  "sysret.log.gz", "metadata.json", "report.json", "log_index"}

Directories == {"dumps", "ipt"}

VARIABLES
  config,    (* gzip_syscalls and the [capa] section                          *)
  drakmon,   (* the logs that drakmon.log holds                               *)
  files,     (* each file: "absent", "partial" or "whole"                     *)
  run,       (* runs so far                                                   *)
  step,      (* the next plugin in the list                                   *)
  phase,     (* "check", "write", "remove" of a plugin, and of sysret.log;    *)
             (* "append", "metadata" after them; "ended": no run is under way *)
  hasTree,   (* PostprocessContext.process_tree is set                        *)
  sections,  (* PostprocessContext.report: its parts                          *)
  report,    (* the parts of report.json                                      *)
  before,    (* ghost: those it had when the run began                        *)
  faults,    (* faults so far                                                 *)
  clean      (* ghost: nothing has gone wrong in this run                     *)

context  == <<hasTree, sections>>
postVars == <<config, drakmon, files, run, step, phase, context, report, before, faults, clean>>

----------------------------------------------------------------------------
(* The plugins: what plugins/__init__.py says each requires and generates,  *)
(* and what its function writes, removes and puts into the report.          *)
(* `empties': directories whose files it removes while it writes; `reads':  *)
(* files it only finds out itself that it cannot read; `raises': it fails   *)
(* "first", before it writes, or may do so, or "last", when it has written. *)

Idle == [requires |-> {}, generates |-> {}, writes |-> {}, removes |-> {}, empties |-> {},
         section |-> {}, needsTree |-> FALSE, reads |-> {}, raises |-> "never"]

SplitDrakmonLog ==
  [Idle EXCEPT !.requires = {"drakmon.log"}, !.writes = drakmon, !.removes = {"drakmon.log"}]

GenerateWiresharkKeyFile ==
  [Idle EXCEPT !.requires = {"tlsmon.log"}, !.generates = {"wireshark_key_file.txt"},
               !.writes = {"wireshark_key_file.txt"}]

(* Mutant of BuildProcessTree: what has been built is not built again.      *)
BuildProcessTreeOnce ==
  [Idle EXCEPT !.requires = {"procmon.log"}, !.generates = {"process_tree.json"},
               !.writes = {"process_tree.json"}, !.section = {"processes"}]

BuildProcessTree ==
  [Idle EXCEPT !.requires = {"procmon.log"}, !.writes = {"process_tree.json"},
               !.section = {"processes"}]

(* get_malware_processes raises for any inject.log that has an entry; the   *)
(* dumps are looked for in dumps.zip, which process_dumps makes only later, *)
(* and for malware_pids, which nothing has set then.                        *)
CapaAnalysis ==
  [Idle EXCEPT !.requires = {"process_tree.json", "inject.log"}, !.generates = {"ttps.json"},
               !.writes = IF config.capaLogs THEN {"ttps.json"} ELSE {},
               !.raises = IF config.capaMalwareOnly THEN "first"
                          ELSE IF config.capaMemdumps THEN "last" ELSE "never"]

ScreenshotMetadata == [Idle EXCEPT !.requires = {"screenshots.json"}]

(* Mutant of ProcessDumps: a dump is removed once it is in the archive.     *)
ProcessDumpsMoving ==
  [Idle EXCEPT !.requires = {"dumps", "memdump.log", "process_tree.json"},
               !.generates = {"dumps.zip"}, !.writes = {"dumps.zip"}, !.removes = {"dumps"},
               !.empties = {"dumps"}, !.section = {"memdumps"}, !.needsTree = TRUE]

ProcessDumps ==
  [Idle EXCEPT !.requires = {"dumps", "memdump.log", "process_tree.json"},
               !.generates = {"dumps.zip"}, !.writes = {"dumps.zip"}, !.removes = {"dumps"},
               !.section = {"memdumps"}, !.needsTree = TRUE]

(* The directory itself stays.                                              *)
CompressIpt ==
  [Idle EXCEPT !.requires = {"ipt"}, !.generates = {"ipt.zip"}, !.writes = {"ipt.zip"},
               !.empties = {"ipt"}]

(* syscall.log; sysret.log comes after it (StartSysret).                    *)
GzipSyscalls ==
  LET log(f) == IF config.gzipSyscalls THEN {f} ELSE {} IN
  [Idle EXCEPT !.requires = {"syscall.log"}, !.generates = {"syscall.log.gz", "sysret.log.gz"},
               !.writes = log("syscall.log.gz"), !.removes = log("syscall.log")]

(* get_http_info, get_modified_files_info, get_socket_info, get_ttps_info.  *)
InfoFrom(log, section) ==
  [Idle EXCEPT !.requires = {"process_tree.json", log}, !.section = {section},
               !.needsTree = TRUE]

(* An inject.log that has not exactly one line cannot be read either.       *)
GenerateReport ==
  [Idle EXCEPT !.writes = {"report.json"}, !.reads = {"metadata.json"},
               !.raises = IF "inject.log" \in drakmon THEN "may" ELSE "never"]

IndexLogs ==
  [Idle EXCEPT !.requires = {"process_tree.json"}, !.generates = {"log_index"},
               !.writes = {"log_index"}, !.needsTree = TRUE]

Plugins ==
  <<SplitDrakmonLog, GenerateWiresharkKeyFile, BuildProcessTree, CapaAnalysis,
    ScreenshotMetadata, ProcessDumps, CompressIpt, GzipSyscalls,
    InfoFrom("apimon.log", "http_requests"), InfoFrom("filetracer.log", "modified_files"),
    InfoFrom("socketmon.log", "connections"), InfoFrom("ttps.json", "ttps"),
    GenerateReport, IndexLogs>>

----------------------------------------------------------------------------
InitPost ==
  /\ config \in Configs /\ drakmon \in LogSets
  /\ \E made \in SUBSET {"screenshots.json", "dumps", "ipt", "metadata.json"} :
       files = [f \in Files |-> IF f \in {"drakmon.log"} \cup made THEN "whole" ELSE "absent"]
  /\ run = 0 /\ step = 1 /\ phase = "ended" /\ hasTree = FALSE
  /\ sections = {} /\ report = {} /\ before = {} /\ faults = 0 /\ clean = TRUE

plugin == Plugins[step]

Become(state, S) == files' = [f \in Files |-> IF f \in S THEN state ELSE files[f]]

(* postprocess_analysis_dir                                                 *)
StartRun ==
  /\ phase = "ended" /\ run < MaxRuns
  /\ run' = run + 1 /\ step' = 1 /\ phase' = "check"
  /\ hasTree' = FALSE /\ sections' = {} /\ before' = report /\ clean' = TRUE
  /\ UNCHANGED <<config, drakmon, files, report, faults>>

NextPlugin ==
  IF step < Len(Plugins) THEN step' = step + 1 /\ phase' = "check"
                         ELSE step' = step /\ phase' = "append"

(* check_plugin_requirements                                                *)
Required ==
  /\ \A f \in plugin.requires : files[f] # "absent"
  /\ \A f \in plugin.generates : files[f] = "absent"

(* A plugin that is not to run, or raises before it has written anything.   *)
Skip ==
  /\ phase = "check"
  /\ \/ ~Required
     \/ plugin.needsTree /\ ~hasTree
     \/ \E f \in plugin.reads : files[f] # "whole"
     \/ plugin.raises \in {"first", "may"}
  /\ NextPlugin
  /\ UNCHANGED <<config, drakmon, files, run, before, context, report, faults, clean>>

Start ==
  /\ phase = "check"
  /\ Required
  /\ plugin.needsTree => hasTree
  /\ \A f \in plugin.reads : files[f] = "whole"
  /\ plugin.raises # "first"
  /\ Become("partial", plugin.writes \cup plugin.empties)
  /\ phase' = "write"
  /\ report' = IF "report.json" \in plugin.writes THEN {} ELSE report
  /\ UNCHANGED <<config, drakmon, run, before, step, context, faults, clean>>

Write ==
  /\ phase = "write"
  /\ files' = [f \in Files |-> IF f \in plugin.writes THEN "whole"
                               ELSE IF f \in plugin.removes \cap Directories THEN "partial"
                               ELSE files[f]]
  /\ report' = IF "report.json" \in plugin.writes THEN sections ELSE report
  /\ hasTree' = (hasTree \/ "process_tree.json" \in plugin.writes)
  /\ phase' = "remove"
  /\ UNCHANGED <<config, drakmon, run, before, step, sections, faults, clean>>

Complete ==
  /\ phase = "remove"
  /\ Become("absent", plugin.removes)
  /\ sections' = sections \cup (IF plugin.raises = "last" THEN {} ELSE plugin.section)
  /\ IF "syscall.log" \in plugin.removes THEN step' = step /\ phase' = "sysret" ELSE NextPlugin
  /\ UNCHANGED <<config, drakmon, run, before, hasTree, report, faults, clean>>

(* The second round of gzip_syscalls, which also unlinks a sysret.log that  *)
(* is not there, and raises then.                                           *)
StartSysret ==
  /\ phase = "sysret"
  /\ IF files["sysret.log"] = "absent"
     THEN NextPlugin /\ UNCHANGED files
     ELSE Become("partial", {"sysret.log.gz"}) /\ phase' = "sysret_write" /\ UNCHANGED step
  /\ UNCHANGED <<config, drakmon, run, before, context, report, faults, clean>>

WriteSysret ==
  /\ phase = "sysret_write"
  /\ Become("whole", {"sysret.log.gz"})
  /\ phase' = "sysret_remove"
  /\ UNCHANGED <<config, drakmon, run, before, step, context, report, faults, clean>>

RemoveSysret ==
  /\ phase = "sysret_remove"
  /\ Become("absent", {"sysret.log"})
  /\ NextPlugin
  /\ UNCHANGED <<config, drakmon, run, before, context, report, faults, clean>>

(* append_metadata_to_analysis, at the command line after every run.  What  *)
(* a kill has left of metadata.json it cannot read.                         *)
AppendMetadata ==
  /\ \/ phase = "append" /\ files["metadata.json"] = "partial"
        /\ phase' = "ended" /\ UNCHANGED files
     \/ phase = "append" /\ files["metadata.json"] # "partial"
        /\ phase' = "metadata" /\ Become("partial", {"metadata.json"})
     \/ phase = "metadata"
        /\ phase' = "ended" /\ Become("whole", {"metadata.json"})
  /\ UNCHANGED <<config, drakmon, run, before, step, context, report, faults, clean>>

Fault == phase # "ended" /\ faults < MaxFaults /\ faults' = faults + 1 /\ clean' = FALSE

(* run_postprocessing logs the exception and goes on.                       *)
PluginRaises ==
  /\ Fault /\ phase \notin {"append", "metadata"}
  /\ NextPlugin
  /\ UNCHANGED <<config, drakmon, files, run, before, context, report>>

Kill ==
  /\ Fault
  /\ phase' = "ended"
  /\ UNCHANGED <<config, drakmon, files, run, before, step, context, report>>

NextPost ==
  \/ StartRun \/ Skip \/ Start \/ Write \/ Complete
  \/ StartSysret \/ WriteSysret \/ RemoveSysret \/ AppendMetadata
  \/ PluginRaises \/ Kill

----------------------------------------------------------------------------
(* Properties                                                               *)

PostTypeOK ==
  /\ files \in [Files -> {"absent", "partial", "whole"}]
  /\ run \in 0..MaxRuns /\ step \in DOMAIN Plugins /\ faults \in 0..MaxFaults
  /\ phase \in {"check", "write", "remove", "sysret", "sysret_write", "sysret_remove",
                "append", "metadata", "ended"}
  /\ hasTree \in BOOLEAN /\ clean \in BOOLEAN
  /\ report \subseteq UNION {Plugins[i].section : i \in DOMAIN Plugins}

(* What is replaced by a product is whole until the product is, wherever    *)
(* plugins raise or are killed and whenever they are run again.  (The       *)
(* traces in "ipt" are not: compress_ipt removes them one by one while the  *)
(* archive has no directory yet.)                                           *)
NothingIsLost ==
  /\ \/ files["drakmon.log"] = "whole"
     \/ \A log \in drakmon :
          \/ files[log] = "whole"
          \/ log = "syscall.log" /\ files["syscall.log.gz"] = "whole"
          \/ log = "sysret.log" /\ files["sysret.log.gz"] = "whole"
  /\ files["dumps.zip"] # "absent" => files["dumps"] = "whole" \/ files["dumps.zip"] = "whole"

(* Running the plugins again loses no part of the report, the list of dumps *)
(* excepted, unless a plugin fails that did not fail before.                *)
RerunKeepsSections ==
  step = Len(Plugins) /\ clean => before \ {"memdumps"} \subseteq report
============================================================================
