# TLA+ verification of drakvuf-sandbox

DRAKVUF Sandbox runs a sample in a Windows guest under Xen, watches it with
drakvuf, and serves the results through a web API. This directory holds
specifications of its parts, the model-checking runs that examine them with TLC,
and theorems about them checked with TLAPS. `PROJECT.json` lists components,
runs, mutants, findings, hazards and theorems, and maps every definition to the
lines of `src/` it stands for. Paths below are relative to `src/drakrun/` unless
they begin with `src/`.

    tlc -workers 2 -config VmNetworkWarm.cfg MCVmNetwork.tla
    tlapm VmNetworkProofs.tla

## The system

```
 client --HTTP--> web/api.py --enqueue--> Redis (rq) --pop--> analyzer/worker.py
                    |  ^                                          |
             sample |  | metadata.json, logs                      | analyze_file
                    v  |                                          v
            UPLOADS_DIR, ANALYSES_DIR, S3 <----- results ---- analyzer.py
                                                  |        |           |
                                   VM: restore    |  tools: tcpdump,   | drakshell
                                   network,storage|  drakvuf, shots    | over a socket
                                                  v        v           v
                               Xen, iptables, ZFS/QCOW2/LVM       agent in the guest
 operator --draksetup--> install, postinstall, modify-vm0, snapshot (vm-0, the base image)
```

| Component | State | Operations | Talks to | Hard parts | What makes it correct |
|---|---|---|---|---|---|
| VM network (`lib/networking.py`, `lib/vm.py`, `run_vm`) | `vmnet-<id>.json`, bridge, dnsmasq and its pid file, rules in three shared iptables chains | set up chains, start, stop, roll back | shell commands; other workers through the chains | one process per VM, no lock; any command fails, any process is killed | a running VM has its bridge and the rules of its mode and its DROP rule is reached; nothing is left behind |
| Analysis job (`web/api.py`, `analyzer/worker.py`, `lib/s3_storage.py`) | sample, `metadata.json`, result files on disk and S3, the job in Redis | upload, run, finalise, upload to S3, `/status` | Redis, S3, file system | each call may fail half-way; a worker dies with its job; readers in between | the status is true and final, no result is lost, every job ends |
| Analysis list (`get_analyses_list`, `truncate_analysis_list`) | rq queue and registries | list, truncate | Redis, in several calls | jobs move between the calls, listings overlap | no job is missed, none is deleted while the list is within its limit |
| vm-0 and snapshots (`cli/*.py`, `lib/storage.py`) | volumes, ZFS snapshots, `snapshot.sav`, `install.json` | install, postinstall, modify-vm0 begin/commit/rollback, export, import, restore of VMs | zfs, qemu-img, LVM tools, xl | memory and disk are separate objects published one after the other, on three backends; failures in between | memory and disk of a guest belong together; VMs start from the last published image; rollback restores it |
| Drakshell (`lib/drakshell.py`, `tools/drakshell/drakshell.c`) | socket, the agent's loop, overlapped reads, its process and pipes | connect, get_info, run, run_interactive, terminate, finish, injection | one serial line | requests cross answers, clients die, bytes are swallowed, the agent outlives its clients | output is not mixed up, a session starts in step, the agent can always be reached again |
| Analysis of one sample (`analyzer/analyzer.py`, `run_tools.py`) | the step, tool processes, the exception under way | the steps of `analyze_file`, time limits, Ctrl-C, the job timeout | VM, drakshell, drakvuf, tcpdump, injector | clean-up after a failure or an exception in any step, also in the clean-up | a tool whose clean-up was reached does not outlive it, it fails exactly when it has to, it ends |
| Screenshotter (`analyzer/screenshotter.py`) | a thread with an event loop and a task | start, stop | VNC | stop races with the thread making or closing its loop | the analysis is not held up |
| Postprocessing (`analyzer/postprocessing/`, `cli/postprocess.py`) | output files, report | plugins in order, reruns | files only | plugins that fail half-way or lack input; a rerun over old output | no input is gone before its product is whole; a rerun loses no part of the report |
| Process tree, log index (`process_tree.py`, `indexer.py`, `web/api.py`, `LogViewer.jsx`) | tree and cache in memory; `log_index` files | build, index, scattered read, loading in chunks | drakmon logs | PIDs used again, lines lost, offsets within blocks and lines | the tree is consistent; a line belongs to its process; a slice is one of the filtered log |
| Memory dumps, handles (`plugins/process_dumps.py`, `get_http_info.py`, `get_modified_files_info.py`) | in memory | filter, sort, pack; resolve handles | drakmon logs | files shared by dumps; handles used again | early copies are kept, and their documented maximum is exceeded by one file at most; a call is put down to its object |
| Result files (`web/storage.py`) | stream position and read-ahead | read, seek | S3 | reads at the end, seek after read-ahead | equals the file |
| Configuration, options | TOML, defaults, presets | merge | - | `None` against missing | the more specific value wins |
| VM profiles, injection, Intel PT, nt_loader, frontend | files / none | external tools, decoding, rendering | - | - | - |

The hazards of this code, each at its line and with the properties aimed at it,
are in `PROJECT.json` (`hazards`).

## What is modelled

### VmNetwork

One process acts for each VM (the worker `drakrun-worker@<id>`, or a command with
that id). Every shell command is an action: looking for each of the three jumps
and creating chain and jump (`setup_iptables_chains`) or undoing it, `brctl`,
each rule in the order the code appends it, dnsmasq, the record, `xl restore`;
then the same way down, driven by what the record says. `BeginRestore`, `Save`
and `BeginDestroy` are `VirtualMachine.restore/save/destroy`, `EndAnalysis` is
the `finally` of `run_vm`. `Abandon` is a command that raises or a kill, at every
busy place, and leaves what was done. dnsmasq is started in the background and its
exit is never looked at: `DnsmasqBoots` comes later than `StartDnsmasq`, so a stop
may find no pid file, `DnsmasqExits` comes before or after it, and a server that a
stop missed makes the next one fail. So a VM may run without DHCP, and no property
says otherwise. Abstracted: addresses,
the text of rules (a rule is its role: dhcp, dns, drop, masq, out, in), logging,
storage (a step of its own that has no other effect here).

### JobRegistry, AnalysisList, AnalysisJob, AnalysisPromise

`JobRegistry` is the external part, rq over Redis as `worker.py` and `api.py` use
it: a job is absent, queued, popped, started, finished or failed.

`AnalysisJob` composes it with the upload request (save, put on S3, enqueue,
which may take effect and still raise, and the removal afterwards), the
work-horse `worker_analyze` step by step with its `finally` block, both storage
configurations, and what `/status` answers from Redis and from `metadata.json`.
Workers are killed, calls fail, Redis forgets. `analyze_file` is one step that
succeeds or raises. `AnalysisPromise` is the abstract specification, what a client
may rely on: pending, then a verdict that is the outcome and never changes.
`AnalysisJob` implements it with `answer <- Answer(j), verdict <- outcome`.

`AnalysisList` adds requests that read the queue and the registries one after the
other, and delete by what they read. A listing is a bag: a job is read up to three
times, and its `Entries` count as often against the limit. Truncation walks down
this list, asks for the state of each entry in turn and deletes it, while jobs go on:
a job that ends after it was looked at stays until the next upload.

### Vm0Snapshot, BaseImage

One operator goes through install, postinstall, modify-vm0 and snapshot import,
as the documentation orders them, while workers restore clones. A guest's memory and its
disk each carry the version of the guest that wrote them last; a guest is sound
while they agree. Each tool called is a step; the three backends differ in the
steps (`zfs snapshot/clone/rollback`, `qemu-img create/commit`, LVM snapshots and
merges; a modification deletes the volume of a former one before it makes its own,
except on ZFS; an import removes the old image first, and `zfs create` refuses a tank that
exists, `dd` a logical volume that does not). Versions are reused once nothing carries them, so modification can be
repeated for ever within `MaxVersion`. `BaseImage` is the abstract specification:
one image, a draft that becomes the image as a whole, guests that start from it.

### Drakshell

The client on the host (`get_drakshell` with its injection and second attempt,
the three ways to start a process, the stream handler, `terminate`, `finish`,
time limits) and the agent (`drakshell_loop`, `process_execute`) joined by the
line. The client is one of a series; when one closes its socket, what it sent
stays in the line and the agent goes on. The agent's wait takes the first
signalled of process, control byte, stdout, stderr, as WaitForMultipleObjects
does; the control byte is read by an overlapped read that may complete after the
loop was left. Blocks above the agent's limits end it. Processes outlive the
agent's interest in them (`orphan`) and keep the named pipes.
Abstracted: a control byte with its code or block is one message (but REQ_DATA,
whose data are read separately); input text holds no request codes; errors of the
serial port and the creation of pipes are left out; an injection succeeds.

### AnalysisRun

One `analyze_file`: each step of it and of the contexts it enters is an action,
`Lands` says which clean-up an exception raised there leads to. Starting a process
and entering the context that stops it are two steps (`EnterOf`), as in the code; an
exception from outside between them puts the tool into `slipped`. Steps fail, a tool
may hang or end at any time, Ctrl-C comes up to `MaxStrikes` times at the command
line, the job timeout of rq once in a worker, anywhere between two steps. The
waits are those of the code: the injector is told to end and killed, drakvuf is
waited for with its own time limit, told, killed and reaped, tcpdump the same; the
calls of drakshell and of xl have no limit (`Unlimited`).
The Screenshotter's thread makes its loop and task, ends and closes by itself
beside `stop`, which may find a loop closed in between. `cut` records that an
exception hit a clean-up, `fatal` that one was raised which must fail the analysis.
Abstracted: drakshell, the network and the plugins, which have modules of their
own; the command lines; the substatus callback.

### MCResultData and the parts it runs

The rest works on files in one process. Each part is a module with the events it
may meet as actions and its algorithm as operators over what has happened; they
share no state, so one run takes each behaviour from one of them (`subject`).

`ProcessTree`: a guest that starts with running processes, creates, ends and
terminates them, gives a process another parent than its creator, and uses PIDs
again; each event is a line of procmon.log which is read or lost, and does what
`tree_from_log` does with it, raising where that raises.

`LogIndex` adds a log of another plugin about the same guest. `IndexLine` is one
turn of the loop of `index_log_file` (`Lookup` with what it found before, `Extend`
of the blocks), `ScatteredRead` and `RangeLength` the API, `Load`/`Viewed` the
loader of the viewer. The two loops are functions of the number of turns made
(`ReadBlocks`, `Views`). The reference knows no blocks: `FilteredLog` is the set of
the bytes of the lines that pass, and a slice (`IsSlice`) has at each place the
byte that as many bytes of this set precede.

`ProcessDumps`: which dumps are kept. A turn of either loop of the plugin is an
action: `FilterDump` counts the dumps of a region, `PackDump` takes the next one in
the order of `sorted` until the limit is exceeded.
`HandleLog`: sessions, connections, requests and files behind handles that are
closed and used again, with opens that were not logged.

`Postprocessing`: the plugins as records of what each requires, generates, writes,
removes and reports, run in order with `check_plugin_requirements`, with
exceptions half-way, kills, and runs once more over what is there; then
`append_metadata_to_analysis`, after which a second run finds the metadata that the
report wants. `gzip_syscalls` goes on with sysret.log in steps of its own, and
`compress_ipt` empties its directory and leaves it.

`PlainFile` is the abstract specification of a file that is read; `SeekableStream`
is `SeekableStreamingBody` over S3 with its buffer, its position in it, and the
response it goes on reading. It implements `PlainFile` on the same `length`,
`current`, `want` and `got`.

## The runs

| Run | Module | Expected | Properties | What it shows |
|---|---|---|---|---|
| `VmNetworkWarm` | `MCVmNetwork` | pass | `TypeOK`, `RunningVmIsConfigured`, `RunningVmIsFiltered`, `NoRuleOutlivesBridge`, `DownMeansForgotten`, `NothingAddedBehindDrop` | Two VMs on a host whose chains are set up, with failing commands and killed processes: a VM that runs keeps its whole network and its traffic stays filtered, and what an interrupted start or stop leaves behind is never a rule without its bridge or a rule in the wrong place. |
| `VmNetworkCold` | `MCVmNetwork` | pass | `AnalysisGivesBack` | Two VMs started on a host without chains, without failures: the setups race, yet an analysis that got its VM always ends with VM, bridge and rules gone. |
| `VmNetworkRace` | `MCVmNetwork` | violation | `RunningVmIsFiltered` | The same race opens the host: the second setup is refused, its rollback deletes the jumps the first one made, and the first VM runs with its INPUT traffic unfiltered. |
| `AnalysisJob` | `MCAnalysisJob` | pass | `TypeOK`, `FinishedIsServed`, `AnswerIsTrue`, `ResultsAreKept`, `ImplementsPromise`, `QueuedJobEnds` | Two uploads, two workers, every configuration of the storage, with failing calls and killed workers: what /status tells is true and final, results are never lost, a finished job can be served, and every queued job ends. |
| `AnalysisList` | `MCAnalysisList` | pass | `TypeOK`, `ListMissesNothing`, `TruncationBounds`, `NewestThirdKept` | Three jobs moving through Redis while two requests list and truncate: a listing misses no job that stays, truncation bounds the list, and the races cost at most the older two thirds of it. |
| `AnalysisJobVerdict` | `MCAnalysisJob` | violation | `EndedJobHasVerdict` | A job that fails before analyze_file, or whose upload to S3 fails, ends without the documented status: /status says unknown or 404. |
| `Vm0Snapshot` | `MCVm0Snapshot` | pass | `TypeOK`, `RunningGuestIsSound`, `ImageIsWhole`, `ImplementsBaseImage` | All three storage backends under installations, imports, modifications and restores, any step failing or killed but those between the storage's commit and the move of the memory: every guest that runs has the disk its memory belongs to and starts from the image published last. |
| `Vm0Rollback` | `MCVm0Snapshot` | violation | `RollbackRestoresBase` | A commit that stops after the storage was committed cannot be rolled back: the rollback returns normally and leaves a new disk under the old memory. |
| `Drakshell` | `Drakshell` | pass | `TypeOK`, `OutputIsPrefix`, `SessionInSync`, `AgentComesBack` | A series of clients and one agent over the serial line, with processes, input, termination, blocks that are too long, a client that gives up anywhere and one that connects too early: output is never mixed up, a session starts in step, and clients that keep trying get one. |
| `DrakshellKill` | `Drakshell` | violation | `ReportedProcessHasEnded` | The agent reports the exit of a process that still runs: the branch that should terminate it cannot be reached. |
| `AnalysisRun` | `AnalysisRun` | pass | `TypeOK`, `ToolsAreStopped`, `VerdictIsRight`, `RunEnds` | One analyze_file under every combination of options, steps that fail, tools that hang, Ctrl-C (twice) or a job timeout between any two steps, also between the start of a tool and the entry of the context that stops it, and the Screenshotter's thread: its tools are stopped but for one that had only just been started, it fails exactly when it has to, and it ends unless a call without a limit hangs. |
| `ResultData` | `MCResultData` | pass | `ResultTypeOK`, `TreeIsConsistent`, `LinesAreAttributed`, `SlicesAreExact`, `ViewerShowsTheLog`, `EarlyCopiesAreKept`, `ArchiveIsTight`, `HandlesAreResolved`, `NothingIsLost`, `RerunKeepsSections`, `ImplementsPlainFile` | What is made of the logs and how it is read, part by part: the process tree under reuse of PIDs and lost lines, the index and what API and viewer read through it, the choice of memory dumps, handles that are used again, plugins that fail or are killed and run again, and S3 streams against plain files. |

Every property of a passing run has a mutant in `PROJECT.json`: a plausible bug
put into one definition that makes TLC refute the property.

**Bounds, and why they are enough.** Two VMs, workers or requests: the code
relates processes only through the shared chains, the queue and the image, and a
race needs two; the proofs remove the bound where there are some. Two jobs:
ordering in the queue and a retry beside a newer job. Three jobs for the list,
because a limit of two must be exceeded while one job is read twice; two listings
overlap at both limits. Five
versions of a guest suffice for the image, the former one, the draft, a saved
memory and one more. A process writes two blocks per stream, so that order,
repetition and loss differ. `MaxHasty = 1` is a real limit: two clients that each
connect before the agent has answered the former one can get a session in which
every answer is that of the request before (`SessionInSync` says `hasty <= 1`).

`AnalysisRun` has no bound but `MaxStrikes = 2`: the second Ctrl-C is the one that
hits a clean-up. `ResultData`: with three PIDs a process can be bound to a parent
that is not its creator while another takes over a PID; three processes, four
events and one lost line let a PID be used again unseen. Three lines of a log of
two methods make blocks that merge and blocks that do not; lines of two bytes and
chunks as small cut every response within a line (`ChunkSize >= LineWidth` is a
real limit, see the hazards). Files of 0, 3 and 5 bytes under a read-ahead of 2
are empty, end within a buffer and span several. Three dumps in files of which one
is too large and the other two exceed the limit together, shared or not. Two handles and
four objects close a session, a connection and a request and use a handle again.
Two runs over a directory with two faults reach every plugin in a directory a
killed run has left. Symmetry is used only for sets
whose members nothing distinguishes, never with a liveness property.

**Fairness, and why the code justifies it.**
`VmNetwork`: a process that has begun goes on (no command waits for another
process; drakvuf's time limit ends an analysis). Nothing is assumed of dnsmasq.
`AnalysisJob`: workers take jobs and work-horses go on (`job_timeout` bounds
them); rq's maintenance runs. Nothing makes a client upload or a fault happen.
`Drakshell`: clients keep trying, read what has arrived, and give up what nothing
can answer; the agent's thread and the serial driver run. A process that is
written to reads its input or ends: this is the guest's, and without it agent and
process may wait for each other. No fairness for processes ending or writing, nor
for `terminate`.
`AnalysisRun`: the program takes its steps, but for those that wait without a limit
(`Unlimited`: the commands of xl and what the guest is asked through drakshell,
analyzer.py:158 and :209); a process that was killed ends; in a worker rq's timer
ends the job. Nothing else need end by itself. So `RunEnds` speaks of analyses with a
timeout (`timed`), and says where one may stay for ever: at the command line in a
call without a limit, in a worker in the destruction of the VM, after the timeout.
Runs without liveness use the specification without fairness.

**Deadlock** is checked except for AnalysisJob, where all jobs may have ended,
AnalysisRun, whose analysis ends, and ResultData, whose inputs are finite.

## Findings

- `VmNetworkRace` (code bug, src/drakrun/lib/networking.py:152): Two processes that start VMs on a host without the DRAKRUN chains both pass the checks of setup_iptables_chains (src/drakrun/lib/networking.py:147 "If above checks pass, we're free to setup everything"). The first sets the chains up; the second's -N DRAKRUN_INP is refused and its rollback runs -D INPUT -j DRAKRUN_INP, which removes the jump the first one made. The first VM then runs while the INPUT chain no longer leads to its rules, although src/docs/usage/optional_features.rst:203 says "`drakrun` will drop any INPUT traffic originating from `drak<vm_id>` bridge, except DHCP traffic". The run shows the interleaving without any failing command.
- `AnalysisJobVerdict` (doc code divergence, src/drakrun/analyzer/worker.py:107): The first metadata.json has no status and the final one is written only after analyze_file. A job that raises before the try block, or whose worker is killed, ends as failed in Redis while /status answers "unknown" or 404; on S3 the same happens when the upload fails or the sample is gone. src/docs/usage/basic_usage.rst:78 lists "**failed** - Analysis is finished but something went wrong during analysis process" and no other status of an ended analysis.
- `Vm0Rollback` (code bug, src/drakrun/cli/modify_vm0.py:72): commit_modify_vm0 first commits the disk (line 72) and then moves the saved memory into place (line 73). When it stops between the two, or in the profile generation that follows, modify-vm0 rollback deletes the modify volume, or reverts to the new vm-0@booted, and returns normally, with the new disk committed; after the former snapshot.sav still holds the old memory, from which every VM is then restored. src/docs/usage/managing_snapshots.rst:21-22 says "If modification doesn't go well and you want to rollback vm-0 to the state before modifications, run draksetup modify-vm0 rollback". The run shows it on QCOW2; the same happens on ZFS.
- `DrakshellKill` (code bug, src/drakrun/tools/drakshell/drakshell.c:683): After the message loop process_execute terminates the process only if GetExitCodeProcess fails (line 683, under the comment at src/drakrun/tools/drakshell/drakshell.c:685 "Process is not yet closed, needs to be terminated"). For a process that still runs the call succeeds and yields STILL_ACTIVE, so TerminateProcess is never reached: after a termination request (lines 533-537, "Terminate gracefully"), a bad request or a closed pipe the agent sends "Report process exit" (src/drakrun/tools/drakshell/drakshell.c:720) with STILL_ACTIVE for a process that goes on running. That process keeps the named pipes drakshell-stdin/out/err, of which one instance may exist, so the next interactive process cannot be created. In the trace a process that closed its output is reported as ended.

Met while modelling and left without a run of their own, because a passing run
already says exactly what holds instead, or nothing in the repository claims the
contrary in so many words:

- The archive of memory dumps may be larger than `max_total_dumps_size`:
  `process_dumps` compares the size before it adds a dump (process_dumps.py:102), so
  the dump that exceeds the value is packed. lib/config.py:73 calls the value
  "Maximum total size of collected, uncompressed dumps", and so does
  src/docs/usage/advanced_configuration.rst:183. `ArchiveIsTight` says by how much: by
  the file of the dump that comes last in the order of packing.
- A `start_vm_network` that fails after `brctl addbr` and before the record is
  written leaves a bridge that `stop_vm_network` does not find
  (lib/networking.py:339). `NoRuleOutlivesBridge` states what holds.
- A job that moves while the lists are read is counted twice against the limit of
  `truncate_analysis_list` (analyzer/worker.py:214). `NewestThirdKept` bounds the loss.
- After a PID was used again, a process can be bound to its own child
  (process_tree.py:298); the two have no root and are left out of the tree.
- `compress_ipt` unlinks traces before the archive has a directory.
- `snapshot import` on ZFS fails if the tank exists, which
  src/docs/usage/optional_features.rst:51 has one create, and on LVM does not make
  the volume it writes to.
- Ctrl-C or the job timeout between the start of drakvuf or tcpdump and the entry of
  the context that stops it (run_tools.py:54 and :31) leaves the tool running. The
  code claims nothing for this moment; `ToolsAreStopped` says that it is one at most.
- A script in the guest that hangs holds a command line analysis for ever, whatever
  its timeout (analyzer.py:158); `RunEnds` names the calls.
- dnsmasq is never looked at after it was started (lib/networking.py:191).
- `gzip_syscalls` raises when there is no sysret.log (gzip_syscalls.py:26), and
  `generate_report` in a first run at the command line, where metadata.json comes
  later.
- `capa_analysis` looks for dumps in an archive that a later plugin makes.

## The theorems

Proved for every value of the constants that meets the named assumptions.

`VmNetworkProofs`: `RunningIsConfigured` (of which the DHCP server is no part), `RulesGoWithBridge`, `DownForgets`,
`DropComesLast`, and, under `Warm`, `RunningIsFiltered`; any set of VMs, any
subset of the modes, with or without failures. None of these is inductive.
`IInv` adds to the types one predicate `Sound(v)` per VM: what mode, record,
bridge and rules are at each place of the process. Its heart is `RulesInPlace`:
while rules are added the present ones are those before the current rule, while
they are deleted those at or after it, so an interruption anywhere leaves a
prefix or suffix under a record or a bridge that the next start or stop sees.
A step of another VM touches only chains and jumps, so each action needs a proof
for its own VM only. `RunningIsFiltered` needs `WarmInv` besides: once the chains
are there nobody ends in the path that undoes them. Without `Warm` it is false
(VmNetworkRace). `Warm` is the state after any one start has completed.

`AnalysisJobProofs`: `FinishedJobIsServed`, `StatusIsTrue`, `ResultsAreNotLost`,
and `PromiseKept`, that `AnalysisJob` implements `AnalysisPromise`. `IInv` says
that a work-horse owns the job Redis thinks it runs, no two the same, that a job
is enqueued once, and, place by place, what has been stored (`Progress`,
`Recorded`): metadata never hold a verdict other than the outcome. The refinement
shows that each step changes the answer of at most one job, in a way the promise
allows, or none. Assumptions: `NoJob` is no job; the configurations are records of
two flags.

`SeekableStreamProofs`: `StreamIsPlainFile`, that `SeekableStream` implements
`PlainFile`, for files of any length and any size of the read-ahead. A step of the
stream is one of the file only while `Aligned(n)` holds: the buffer has the n bytes
around the position, all of them of the file, and the response goes on where it
ends. Assumptions: lengths, seeks and sizes are natural numbers, the read-ahead at
least one byte.

`AnalysisListProofs`: `Types`, `NothingIsMissed`, `TruncationIsBounded` and
`NewestAreKept`, for any number of jobs and of requests that list at the same time. A job moves from the queue to started to
finished or failed; `get_analyses_list` reads the registries in this order. The
invariant says of every job and every listing that the job was seen, or has left
Redis, or is where the listing still has to look, and how often it can have been
seen by then (`ReadAtMost`), which a truncating request relies on. The other two
count entries. While a request truncates (`Truncating`), of the jobs that had ended
when it began no more than the limit are spared (`Spared`), since each has an entry
among the first of the list, and a job it may delete has as many newer entries, of
which a job has three at most. The loop that asks and deletes one by one keeps both,
for what has ended stays so until it is deleted.

`Vm0SnapshotProofs`: `Types`, and, under `Failing \cap CommitSteps = {}`,
`GuestsAreSound`, `WholeImage` and `Refinement`, that `Vm0Snapshot` implements
`BaseImage`; any number of VMs and versions, each backend. The condition excludes a
failure between the storage's commit and the move of the saved memory, during
which disk and memory of the image are apart; without it the three are false
(Vm0Rollback shows it). It is met by `SafeFailing`, with which the run is made.
`IInv` says for each step of a command what vm-0, the image and the draft hold
(`OperatorInv`, `ImageInv`), that VMs are restored only while nothing is changed
(`VmInv`), and that a ZFS clone goes back to the image or was never completed
(`CloneInv`). Assumptions: names and contents that differ, versions counted from 1.

`DrakshellProofs`: `Types`, `OutputInOrder` and `InSync`, for output and input of
any length and any number of clients that give up or connect too early. Both
follow from one invariant. `LineInv`: the messages in the two lines are whole, and
nothing is in the line to a client that is not there. `OrderInv`: of each stream, the
blocks in the line follow one another (`Numbered`), the first one what the client
has read (`NextToRead`), and the last one is the last that the agent took from the
pipe (`LastSent`). `SessionInv`: for each place at which a client waits, which
request and which answers are under way (`Pinging`, `AskingInfo`, `Starting`,
`Launching`, `Streaming`), as long as not two clients came too early, and what a
client that goes leaves to the agent (`Leftover`). Assumptions: the
streams are stdout and stderr, the bounds natural numbers.

`AnalysisRunProofs`: `Types`, `NothingRunsOn` and `VerdictOfRun`, for any number of
exceptions from outside. The invariant says for each place of `analyze_file`, on
the way down or in a clean-up, which processes can be running (`InjectorState`,
`TcpdumpState`, `DrakvufState`) and which exception is under way. A process is
covered by the clean-up that is reached next, or it is the one that had been started
when the exception struck before the context was entered: that is on the way down,
on which no exception has come before, so that there is one at most (`SlippedState`). Assumption: one exception at least may strike,
as rq's job timeout does.

`ResultDataProofs`: `Types`, `TreeConsistent`, `LinesAttributed`, `BlocksHold`,
`SlicesExact`, `ViewerShows`, `EarlyCopiesKept`, `ArchiveTight`, `HandlesResolved`,
`NothingLost`, `RerunKeeps`; the parts do not interact, so that each has an invariant
of its own.
- `TreeInv`: parents and children agree and the last process of a PID is the only
  one that may not have ended. Each line changes the tree by `AddProcess`,
  `ChangeParent` or an end, in a tree of any shape; a new process ends the last of
  its PID, by the lemma `SupersededIs`, and all others have ended already.
- `LogInv`, while the guest runs: the tree has the processes of the guest that were
  seen, in the order of their births (`TreeFollowsGuest`); those of one PID last one
  after the other (`LivesAreApart`), and a line was written in the life of the one
  it is about (`LinesAreCovered`). So one process at most can be found for a line,
  and if its creation was seen, it is. While the log is indexed: what was found for
  a PID began before every line to come (`FoundIsRight`), so that it can be taken
  again until it ended.
- `BlocksHoldTheLines`: the blocks of a process follow one another, hold every line
  put down to it with its method, and have no byte of another line. The last block
  ends at or before the line that is read (`BlocksEnd`).
- `SlicesExact` and `ViewerShows` follow from `LogInv` at the end of the index. The
  blocks that pass have the bytes of the filtered log (`LogIsChosen`), and a block
  adds its bytes behind those of the blocks before (`ChosenGrows`), so that after
  each turn of `scattered_read_file` the bytes scanned and read are those the
  offset and the length say (`ReadUpTo`, `Clip`). Before a line of the filtered log
  there are the bytes of whole lines (`UptoIs`), so that a byte ends a line exactly
  if it is the last of whole lines in the slice (`EndOfLine`): each request shows
  one line more at least, or all is shown (`ShownUpTo`). That the functions which
  stand for the loops exist, and each of these inductions over the turns, is shown
  by the least number of turns that would refute it (`LeastIs`, from `WFMin` of the
  library), since the induction theorems cannot be instantiated here.
- `DumpsInv`: occurrences are counted as `CopiesUpTo` defines them
  (`CopiesAreCounted`), and what was packed comes before what was not
  (`FirstArePacked`); the size counted is the cardinality of the set of the bytes of
  the files packed, which a file that is shared enters once. The one that is packed
  last may take it beyond the maximum, and without its file the others are within.
- `HandlesInv`: a handle that is open, on an object that was seen opened, leads to
  this object (`OpenIsSeen`), because an open replaces what the handle led to; and
  an object that was seen leads to its parent, if this was (`ParentIsSeen`), since
  the parent was open at the time.
- `PostInv`: what a plugin has written is whole before it removes anything
  (`WrittenIsWhole`), and nothing is removed while it is written but the dumps,
  whose archive is whole by then (`SourcesAreWhole`). For reruns, `PartsAreFound`:
  every part of a former report has the file it was made of, which nothing removes,
  and the process tree; a clean run makes the tree (`TreeIsFound`) and the parts
  again. The table of the plugins is used through the lemma `PluginsAre`.
- `StreamInv` is the invariant of `SeekableStreamProofs` with types.

Assumptions: logs are those the plugins know, the options flags, bounds natural
numbers, a line has a byte at least and a chunk of the viewer room for a line.

Only model-checked:
- `AnalysisGivesBack`, `QueuedJobEnds`, `AgentComesBack`, `RunEnds`: liveness under
  fairness is beyond the prover.

## What is not modelled

`stop_all_vm_networks` and `delete_legacy_iptables` (called by nobody); the
contents of logs, samples and images; expiry of jobs in Redis (drakrun sets none).
Snapshot export only reads what `ImageIsWhole` speaks of. The lists of result files
and `send_analysis_file` are single calls. What capa finds, the reshaping of
socketmon and tlsmon logs, which screenshots are kept, and how defaults, presets
and options combine, are computations without a state. VM profiles, injector
command lines, Intel PT decoding, the PE loader and most of the frontend keep no
state or depend on third-party formats.

## Plan

What is modelled is what this code lets one check, and every invariant and action
property of the runs is proved for every value of the constants; liveness is not.
What is left are the hazards that no property covers, each with its reason.

Composing worker, network and base image (a job analysed on a sound guest behind a
complete network) adds no interaction that the modules leave out: a worker uses
each of them in sequence. It is not planned.
