------------------------------ MODULE ProcessTree ------------------------------
(***************************************************************************)
(* procmon.log and the process tree made of it                             *)
(* (analyzer/postprocessing/process_tree.py).  The guest creates and ends  *)
(* processes and uses PIDs again; procmon reports it line by line, and     *)
(* tree_from_log does what the line asks for.  A line may be lost: drakvuf *)
(* writes some that are no JSON, and split_drakmon_log sets them aside.    *)
(***************************************************************************)
EXTENDS Integers, Sequences, SequencesExt, FiniteSets

CONSTANTS
  Pids,
  MaxRunning,    (* processes that run when the analysis starts *)
  MaxProcesses,  (* processes in all                            *)
  MaxEvents,     (* events of the guest                         *)
  MaxLost        (* lines lost                                  *)

ASSUME TreeAssumption == MaxProcesses \in Nat /\ MaxEvents \in Nat /\ MaxLost \in Nat

VARIABLES
  guest,      (* ghost: the processes in the order they were born         *)
  owner,      (* ghost: which of them has the PID, 0 if none              *)
  uid,        (* EventUID of the last event                               *)
  lost,       (* the number of lines lost                                 *)
  processes,  (* ProcessTree.processes, by seqid (from 1)                 *)
  children,   (* Process.children                                         *)
  failed      (* tree_from_log has raised: there is no tree               *)

guestVars == <<guest, owner, uid, lost>>
tree      == <<processes, children, failed>>
treeVars  == <<guestVars, tree>>

InitTree ==
  /\ guest = <<>>
  /\ owner = [pid \in Pids |-> 0]
  /\ uid = 0
  /\ lost = 0
  /\ processes = <<>>
  /\ children = <<>>
  /\ failed = FALSE

(* get_process: the process last seen with the PID, 0 if none.              *)
GetProcess(pid) == SelectLastInSeq(processes, LAMBDA p : p.pid = pid)

(* A process that has not been seen to end has no evtid_to; get_process_for_*)
(* evtid takes an evtid_to of zero for the same.                            *)
Covers(p, evtid) == p.from <= evtid /\ (p.to = 0 \/ evtid <= p.to)

(* get_process_for_evtid: the first process that had the PID then.          *)
GetProcessForEvtid(pid, evtid) ==
  SelectInSeq(processes, LAMBDA p : p.pid = pid /\ Covers(p, evtid))

(* add_process: a process that still has the PID is taken to have ended.    *)
Superseded(pid, from) ==
  LET old == GetProcess(pid) IN
  IF old # 0 /\ ~processes[old].ended
  THEN [processes EXCEPT ![old].to = from - 1, ![old].ended = TRUE]
  ELSE processes

AddProcess(pid, ppid, from) ==
  LET parent == GetProcess(ppid)
      seqid  == Len(processes) + 1
      siblings == IF parent = 0 THEN children
                  ELSE [children EXCEPT ![parent] = @ \cup {seqid}]
  IN
  /\ processes' = Append(Superseded(pid, from),
                    [pid |-> pid, ppid |-> ppid, parent |-> parent, from |-> from,
                     to |-> 0, ended |-> FALSE, born |-> Len(guest) + 1])
  /\ children' = Append(siblings, {})
  /\ UNCHANGED failed

(* Mutant of ChangeParent: the former parent keeps the process.             *)
KeepAsChild(p, new) ==
  /\ children' = [children EXCEPT ![new] = @ \cup {p}]
  /\ processes' = [processes EXCEPT ![p].parent = new, ![p].ppid = processes[new].ppid]
  /\ UNCHANGED failed

(* change_parent: ppid becomes the PPID of the new parent, not its PID.     *)
ChangeParent(p, new) ==
  LET old == processes[p].parent
      without == IF old = 0 THEN children ELSE [children EXCEPT ![old] = @ \ {p}]
  IN
  /\ children' = [without EXCEPT ![new] = @ \cup {p}]
  /\ processes' = [processes EXCEPT ![p].parent = new, ![p].ppid = processes[new].ppid]
  /\ UNCHANGED failed

Raise == failed' = TRUE /\ UNCHANGED <<processes, children>>

----------------------------------------------------------------------------
(* The guest, and the line that reports what it does                        *)

Birth(pid, ppid) ==
  /\ Len(guest) < MaxProcesses
  /\ guest' = Append(guest, [pid |-> pid, ppid |-> ppid, logged |-> lost' = lost])
  /\ owner' = [owner EXCEPT ![pid] = Len(guest) + 1]

Event == uid < MaxEvents /\ uid' = uid + 1

(* The line is read, or it is lost.                                         *)
Reported(line) ==
  \/ line /\ UNCHANGED lost
  \/ lost < MaxLost /\ lost' = lost + 1 /\ UNCHANGED tree

(* Processes that run already are listed first, those that ended lately may *)
(* be among them; their parents need not be there.                          *)
RunningProcess(pid, ppid) ==
  /\ uid = 0 /\ Len(guest) < MaxRunning
  /\ pid # ppid
  /\ UNCHANGED <<uid, lost>>
  /\ Birth(pid, ppid)
  /\ AddProcess(pid, ppid, 0)

(* NtCreateUserProcess, NtCreateProcessEx: the line names the creator, but  *)
(* the guest may record another parent (an elevated process).               *)
CreateProcess(creator, pid, ppid) ==
  /\ owner[creator] # 0 /\ owner[ppid] # 0 /\ owner[pid] = 0
  /\ Event
  /\ Reported(AddProcess(pid, creator, uid'))
  /\ Birth(pid, ppid)

(* MmCleanProcessAddressSpace.                                              *)
MmClean(pid) ==
  LET p == GetProcess(pid) IN
  IF p = 0 THEN UNCHANGED tree
  ELSE /\ processes' = [processes EXCEPT ![p].to = uid', ![p].ended = TRUE]
       /\ UNCHANGED <<children, failed>>

ExitProcess(pid) ==
  /\ owner[pid] # 0
  /\ Event
  /\ owner' = [owner EXCEPT ![pid] = 0]
  /\ Reported(MmClean(pid))
  /\ UNCHANGED guest

(* NtTerminateProcess: who killed a process is noted, which raises if the   *)
(* killer is not in the tree.                                               *)
Terminate(killer, pid) ==
  IF GetProcess(pid) # 0 /\ GetProcess(killer) = 0 THEN Raise ELSE UNCHANGED tree

TerminateProcess(killer, pid) ==
  /\ killer # pid /\ owner[killer] # 0 /\ owner[pid] # 0
  /\ Event
  /\ Reported(Terminate(killer, pid))
  /\ UNCHANGED <<guest, owner>>

(* Any other line gives PID and PPID: a process that has another parent now *)
(* is bound to it, one that is not in the tree raises.                      *)
OtherMethod(pid, ppid) ==
  LET p == GetProcess(pid) new == GetProcess(ppid) IN
  IF p = 0 THEN Raise
  ELSE IF ~processes[p].ended /\ processes[p].ppid # ppid /\ new # 0
       THEN ChangeParent(p, new)
       ELSE UNCHANGED tree

CallMethod(pid) ==
  /\ owner[pid] # 0
  /\ Event
  /\ Reported(OtherMethod(pid, guest[owner[pid]].ppid))
  /\ UNCHANGED <<guest, owner>>

NextTree ==
  /\ ~failed
  /\ \E pid \in Pids :
       \/ ExitProcess(pid) \/ CallMethod(pid)
       \/ \E other \in Pids :
            \/ RunningProcess(pid, other) \/ TerminateProcess(other, pid)
            \/ \E ppid \in Pids : CreateProcess(other, pid, ppid)

----------------------------------------------------------------------------
(* Properties                                                               *)

TreeTypeOK ==
  /\ guest \in Seq([pid : Pids, ppid : Pids, logged : BOOLEAN])
  /\ owner \in [Pids -> 0..Len(guest)]
  /\ uid \in 0..MaxEvents /\ lost \in 0..MaxLost
  /\ processes \in Seq([pid : Pids, ppid : Pids, parent : 0..Len(guest), from : Nat,
                        to : Int, ended : BOOLEAN, born : 1..Len(guest)])
  /\ children \in Seq(SUBSET DOMAIN processes)
  /\ Len(children) = Len(processes)
  /\ failed \in BOOLEAN

(* Parents and children agree, and at most one process of a PID is taken to *)
(* run, the last: however processes are bound to other parents, end, and    *)
(* lose their PIDs to others.                                               *)
TreeIsConsistent ==
  /\ \A p, q \in DOMAIN processes : q \in children[p] <=> processes[q].parent = p
  /\ \A p, q \in DOMAIN processes :
       processes[p].pid = processes[q].pid /\ p < q => processes[p].ended

============================================================================
