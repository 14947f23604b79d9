----------------------------- MODULE VmNetwork -----------------------------
(***************************************************************************)
(* The network of every analysis VM and the iptables chains they share:    *)
(* drakrun/lib/networking.py, driven by VirtualMachine.restore, save and   *)
(* destroy (drakrun/lib/vm.py) and run_vm (drakrun/analyzer/run_tools.py). *)
(*                                                                         *)
(* One process acts for each VM: the worker drakrun-worker@<vm_id>, or the *)
(* command line tool started with that vm_id.  Processes of different VMs  *)
(* interleave at every shell command; nothing in the code locks them out   *)
(* of each other.  Any command may fail and any process may be killed.     *)
(***************************************************************************)
EXTENDS Naturals, FiniteSets, Sequences

CONSTANTS
  Vms,      (* the VMs, each with the process that acts for it              *)
  Modes,    (* the kinds of network a job asks for, a subset of AllModes    *)
  NoInfo,   (* vmnet-<id>.json does not exist                               *)
  Warm,     (* TRUE: the three chains are already set up when we look       *)
  Faulty    (* TRUE: commands and servers may fail, processes may be killed *)

(* net_enable off; net_enable on; net_enable on with dns_server set to      *)
(* use-gateway-address                                                      *)
AllModes == {"isolated", "nat", "natdns"}

ASSUME ModesAssumption == Modes \subseteq AllModes
ASSUME NoInfoAssumption == NoInfo \notin AllModes
ASSUME FlagsAssumption == Warm \in BOOLEAN /\ Faulty \in BOOLEAN

VARIABLES
  pc,       (* where the process of each VM is                              *)
  ret,      (* where stop_vm_network returns to                             *)
  cmd,      (* index into the command list being run                        *)
  seen,     (* the jumps found by setup_iptables_chains so far              *)
  mode,     (* the network_conf of the current job                          *)
  rule,     (* the rule being added or deleted                              *)
  running,  (* the Xen domain exists                                        *)
  json,     (* vmnet-<id>.json: the mode it records, or NoInfo              *)
  bridge,   (* the bridge drak<id> exists                                   *)
  rules,    (* the rules of each VM present in the three chains             *)
  dnsmasq,  (* the DHCP server of each VM: without a pidfile none or one    *)
            (* booting, with a pidfile up or dead                           *)
  chains,   (* the DRAKRUN chains that exist                                *)
  jumps     (* how many jumps lead to each chain from its builtin chain     *)

local == <<pc, ret, cmd, seen, mode, rule>>
net   == <<json, bridge, rules, dnsmasq>>
tables == <<chains, jumps>>
vars  == <<local, running, net, tables>>

----------------------------------------------------------------------------
(* Chains and rules                                                         *)

Chains == {"INP", "FWD", "PRT"}

(* The order in which the jumps are looked for.                             *)
ChainAt(i) == CASE i = 1 -> "INP" [] i = 2 -> "FWD" [] OTHER -> "PRT"

(* DHCP and DNS are accepted, everything else from the bridge is dropped;   *)
(* masq, out and in forward it to the outer interface.                      *)
Rules == {"dhcp", "dns", "drop", "masq", "out", "in"}

ChainOf(k) == CASE k \in {"dhcp", "dns", "drop"} -> "INP"
                [] k \in {"out", "in"} -> "FWD"
                [] OTHER -> "PRT"

RulesOf(m) == {"dhcp", "drop"}
              \cup (IF m = "natdns" THEN {"dns"} ELSE {})
              \cup (IF m = "isolated" THEN {} ELSE {"masq", "out", "in"})

(* Mutants of AfterAdding: the DROP before the DNS rule; a step too many.   *)
DropFirst(k, m) ==
  CASE k = "dhcp" -> "drop"
    [] k = "drop" -> IF m = "natdns" THEN "dns" ELSE IF m = "nat" THEN "masq" ELSE "done"
    [] k = "dns"  -> "masq"
    [] k = "masq" -> "out"
    [] k = "out"  -> "in"
    [] OTHER      -> "done"

OneTooMany(k, m) == IF k = "drop" /\ m = "isolated" THEN "none" ELSE DropFirst(k, m)

(* start_vm_network appends the rules in this order.                        *)
AfterAdding(k, m) ==
  CASE k = "dhcp" -> IF m = "natdns" THEN "dns" ELSE "drop"
    [] k = "dns"  -> "drop"
    [] k = "drop" -> IF m = "isolated" THEN "done" ELSE "masq"
    [] k = "masq" -> "out"
    [] k = "out"  -> "in"
    [] OTHER      -> "done"

(* Mutant of AfterDeleting: the forwarding rules are forgotten.             *)
InputOnly(k, m) ==
  CASE k = "dhcp" -> "dns"
    [] k = "dns"  -> "drop"
    [] OTHER      -> "done"

(* stop_vm_network always looks for the DNS rule, and for the forwarding    *)
(* rules only when the recorded network had net_enable.                     *)
AfterDeleting(k, m) ==
  CASE k = "dhcp" -> "dns"
    [] k = "dns"  -> "drop"
    [] k = "drop" -> IF m = "isolated" THEN "done" ELSE "masq"
    [] k = "masq" -> "out"
    [] k = "out"  -> "in"
    [] OTHER      -> "done"

Unused(c) == \A v \in Vms : \A k \in rules[v] : ChainOf(k) # c

----------------------------------------------------------------------------
(* The iptables commands setup_iptables_chains and delete_iptables_chains   *)
(* run, and when the kernel accepts each.                                   *)

Create(c) == [op |-> "N", chain |-> c]
Jump(c)   == [op |-> "A", chain |-> c]
Unjump(c) == [op |-> "D", chain |-> c]
Drop(c)   == [op |-> "X", chain |-> c]

SetupCommands == <<Create("INP"), Jump("INP"), Create("FWD"), Jump("FWD"),
                   Create("PRT"), Jump("PRT")>>

DeleteCommands == <<Unjump("INP"), Unjump("FWD"), Unjump("PRT"),
                    Drop("INP"), Drop("FWD"), Drop("PRT")>>

Accepted(o) ==
  CASE o.op = "N" -> o.chain \notin chains
    [] o.op = "A" -> o.chain \in chains
    [] o.op = "D" -> jumps[o.chain] > 0
    [] OTHER      -> o.chain \in chains /\ jumps[o.chain] = 0 /\ Unused(o.chain)

Iptables(o) ==
  /\ Accepted(o)
  /\ chains' = CASE o.op = "N" -> chains \cup {o.chain}
                 [] o.op = "X" -> chains \ {o.chain}
                 [] OTHER      -> chains
  /\ jumps' = CASE o.op = "A" -> [jumps EXCEPT ![o.chain] = @ + 1]
                [] o.op = "D" -> [jumps EXCEPT ![o.chain] = @ - 1]
                [] OTHER      -> jumps

Refused(o) ==
  /\ Accepted(o) => Faulty
  /\ UNCHANGED tables

----------------------------------------------------------------------------
(* At rest a process is idle, or down after a destroy or a save that        *)
(* returned normally.                                                       *)

Resting == {"idle", "down"}
Busy == {"destroy", "stop", "delbr", "del", "unlink", "rollback", "check",
         "setup", "undo", "net", "addbr", "add", "dnsmasq", "record", "xl",
         "analyzing"}

Goto(v, l) == pc' = [pc EXCEPT ![v] = l]

(* Returning to rest forgets the local variables of the call.               *)
Rest(v, l) ==
  /\ Goto(v, l)
  /\ ret'  = [ret EXCEPT ![v] = "down"]
  /\ cmd'  = [cmd EXCEPT ![v] = 1]
  /\ seen' = [seen EXCEPT ![v] = {}]
  /\ mode' = [mode EXCEPT ![v] = NoInfo]
  /\ rule' = [rule EXCEPT ![v] = "dhcp"]

At(v, l) == pc[v] = l

(* The call raises here and no caller handles it.                           *)
Raise(v) == Rest(v, "idle") /\ UNCHANGED <<running, net, tables>>

(* stop_vm_network returns to its caller.                                   *)
Return(v) == IF ret[v] = "down"
             THEN Rest(v, "down")
             ELSE /\ Goto(v, ret[v])
                  /\ UNCHANGED <<ret, cmd, seen, mode, rule>>

Init ==
  /\ pc = [v \in Vms |-> "idle"]
  /\ ret = [v \in Vms |-> "down"]
  /\ cmd = [v \in Vms |-> 1]
  /\ seen = [v \in Vms |-> {}]
  /\ mode = [v \in Vms |-> NoInfo]
  /\ rule = [v \in Vms |-> "dhcp"]
  /\ running = [v \in Vms |-> FALSE]
  /\ json = [v \in Vms |-> NoInfo]
  /\ bridge = [v \in Vms |-> FALSE]
  /\ rules = [v \in Vms |-> {}]
  /\ dnsmasq = [v \in Vms |-> "none"]
  /\ chains = IF Warm THEN Chains ELSE {}
  /\ jumps = [c \in Chains |-> IF Warm THEN 1 ELSE 0]

----------------------------------------------------------------------------
(* What starts a process: a job, vm-start or an installation restores or    *)
(* creates the VM, after destroying what is left of it; vm-stop destroys    *)
(* it; a snapshot saves it, which ends the domain.                          *)

BeginRestore(v, m) ==
  /\ pc[v] \in Resting
  /\ Goto(v, "destroy")
  /\ ret' = [ret EXCEPT ![v] = "rollback"]
  /\ mode' = [mode EXCEPT ![v] = m]
  /\ UNCHANGED <<cmd, seen, rule, running, net, tables>>

BeginDestroy(v) ==
  /\ pc[v] \in Resting
  /\ Goto(v, "destroy")
  /\ ret' = [ret EXCEPT ![v] = "down"]
  /\ UNCHANGED <<cmd, seen, mode, rule, running, net, tables>>

Save(v) ==
  /\ pc[v] \in Resting
  /\ running[v]
  /\ running' = [running EXCEPT ![v] = FALSE]
  /\ Goto(v, "stop")
  /\ ret' = [ret EXCEPT ![v] = "down"]
  /\ UNCHANGED <<cmd, seen, mode, rule, net, tables>>

(* Mutant of DestroyDomain: the domain is left running.                     *)
LeaveDomain(v) ==
  /\ At(v, "destroy")
  /\ Goto(v, "stop")
  /\ UNCHANGED <<ret, cmd, seen, mode, rule, running, net, tables>>

(* VirtualMachine.destroy: xl destroy if the domain runs, then the network. *)
DestroyDomain(v) ==
  /\ At(v, "destroy")
  /\ running' = [running EXCEPT ![v] = FALSE]
  /\ Goto(v, "stop")
  /\ UNCHANGED <<ret, cmd, seen, mode, rule, net, tables>>

----------------------------------------------------------------------------
(* stop_vm_network                                                          *)

(* stop_dnsmasq: without a pidfile nothing is stopped.  The pidfile of a    *)
(* daemon that died is removed; a daemon that has not exited after five     *)
(* seconds stays, with its pidfile.                                         *)
StoppedDnsmasq(d) ==
  CASE d = "up"   -> {"none"} \cup (IF Faulty THEN {"up"} ELSE {})
    [] d = "dead" -> {"none"}
    [] OTHER      -> {d}

StopVmNetwork(v) ==
  /\ At(v, "stop")
  /\ IF json[v] = NoInfo
     THEN Return(v) /\ UNCHANGED dnsmasq
     ELSE /\ \E d \in StoppedDnsmasq(dnsmasq[v]) : dnsmasq' = [dnsmasq EXCEPT ![v] = d]
          /\ Goto(v, "delbr")
          /\ UNCHANGED <<ret, cmd, seen, mode, rule>>
  /\ UNCHANGED <<running, json, bridge, rules, tables>>

(* delete_vm_bridge: a bridge that is gone is fine; the result of brctl     *)
(* delbr is not looked at.                                                  *)
DeleteVmBridge(v) ==
  /\ At(v, "delbr")
  /\ \E left \in (IF Faulty THEN {FALSE, bridge[v]} ELSE {FALSE}) :
       bridge' = [bridge EXCEPT ![v] = left]
  /\ Goto(v, "del")
  /\ rule' = [rule EXCEPT ![v] = "dhcp"]
  /\ UNCHANGED <<ret, cmd, seen, mode, running, json, rules, dnsmasq, tables>>

(* del_iptable_rule: loops until no copy is left.                           *)
DelIptableRule(v) ==
  /\ At(v, "del")
  /\ rules' = [rules EXCEPT ![v] = @ \ {rule[v]}]
  /\ LET k == AfterDeleting(rule[v], json[v])
     IN IF k = "done"
        THEN Goto(v, "unlink") /\ rule' = [rule EXCEPT ![v] = "dhcp"]
        ELSE rule' = [rule EXCEPT ![v] = k] /\ UNCHANGED pc
  /\ UNCHANGED <<ret, cmd, seen, mode, running, json, bridge, dnsmasq, tables>>

(* The record goes last, so that an interrupted stop can be repeated.       *)
UnlinkInfo(v) ==
  /\ At(v, "unlink")
  /\ json' = [json EXCEPT ![v] = NoInfo]
  /\ Return(v)
  /\ UNCHANGED <<running, bridge, rules, dnsmasq, tables>>

----------------------------------------------------------------------------
(* VirtualMachine.restore up to the chains                                  *)

RollbackStorage(v) ==
  /\ At(v, "rollback")
  /\ Goto(v, "check")
  /\ UNCHANGED <<ret, cmd, seen, mode, rule, running, net, tables>>

(* Mutant of CheckJump: no early return when all the jumps are there.       *)
CheckAndSetUp(v) ==
  /\ At(v, "check")
  /\ IF cmd[v] < 3
     THEN cmd' = [cmd EXCEPT ![v] = @ + 1] /\ UNCHANGED pc
     ELSE cmd' = [cmd EXCEPT ![v] = 1] /\ Goto(v, "setup")
  /\ UNCHANGED <<ret, seen, mode, rule, running, net, tables>>

(* setup_iptables_chains looks for the three jumps one iptables -C at a     *)
(* time, and decides when it has looked for the last.                       *)
CheckJump(v) ==
  /\ At(v, "check")
  /\ LET c == ChainAt(cmd[v])
         found == IF jumps[c] > 0 THEN seen[v] \cup {c} ELSE seen[v]
     IN IF cmd[v] < 3
        THEN /\ cmd' = [cmd EXCEPT ![v] = @ + 1]
             /\ seen' = [seen EXCEPT ![v] = found]
             /\ UNCHANGED <<pc, ret, mode, rule>>
        ELSE IF found \in {{}, Chains}
        THEN /\ Goto(v, IF found = {} THEN "setup" ELSE "net")
             /\ cmd' = [cmd EXCEPT ![v] = 1]
             /\ seen' = [seen EXCEPT ![v] = {}]
             /\ UNCHANGED <<ret, mode, rule>>
        ELSE Rest(v, "idle")   (* "Some iptables chains are missing" *)
  /\ UNCHANGED <<running, net, tables>>

(* The next command of a list, or the place to go after the last.           *)
Following(v, l) ==
  /\ IF cmd[v] < 6
     THEN cmd' = [cmd EXCEPT ![v] = @ + 1] /\ UNCHANGED pc
     ELSE cmd' = [cmd EXCEPT ![v] = 1] /\ Goto(v, l)
  /\ UNCHANGED <<ret, seen, mode, rule>>

SetupChain(v) ==
  /\ At(v, "setup")
  /\ Iptables(SetupCommands[cmd[v]])
  /\ Following(v, "net")
  /\ UNCHANGED <<running, net>>

(* A refused command starts the rollback, whoever owns what it deletes.     *)
SetupFails(v) ==
  /\ At(v, "setup")
  /\ Refused(SetupCommands[cmd[v]])
  /\ Goto(v, "undo")
  /\ cmd' = [cmd EXCEPT ![v] = 1]
  /\ UNCHANGED <<ret, seen, mode, rule, running, net>>

(* delete_iptables_chains ignores every failure, and setup_iptables_chains  *)
(* then returns as if the chains were there.                                *)
DeleteChain(v) ==
  /\ At(v, "undo")
  /\ \/ Iptables(DeleteCommands[cmd[v]])
     \/ Refused(DeleteCommands[cmd[v]])
  /\ Following(v, "net")
  /\ UNCHANGED <<running, net>>

----------------------------------------------------------------------------
(* start_vm_network after the chains                                        *)

EnterNetwork(v) ==
  /\ At(v, "net")
  /\ Goto(v, IF json[v] = NoInfo THEN "addbr" ELSE "stop")
  /\ ret' = [ret EXCEPT ![v] = "addbr"]
  /\ UNCHANGED <<cmd, seen, mode, rule, running, net, tables>>

AddBridge(v) ==
  /\ At(v, "addbr")
  /\ ~bridge[v]
  /\ bridge' = [bridge EXCEPT ![v] = TRUE]
  /\ Goto(v, "add")
  /\ rule' = [rule EXCEPT ![v] = "dhcp"]
  /\ UNCHANGED <<ret, cmd, seen, mode, running, json, rules, dnsmasq, tables>>

(* "Failed to create bridge": it is there already.                          *)
BridgeExists(v) ==
  /\ At(v, "addbr")
  /\ bridge[v]
  /\ Raise(v)

AddIptableRule(v) ==
  /\ At(v, "add")
  /\ ChainOf(rule[v]) \in chains
  /\ rules' = [rules EXCEPT ![v] = @ \cup {rule[v]}]
  /\ LET k == AfterAdding(rule[v], mode[v])
     IN IF k = "done"
        THEN Goto(v, "dnsmasq") /\ rule' = [rule EXCEPT ![v] = "dhcp"]
        ELSE rule' = [rule EXCEPT ![v] = k] /\ UNCHANGED pc
  /\ UNCHANGED <<ret, cmd, seen, mode, running, json, bridge, dnsmasq, tables>>

(* iptables -A: no chain by that name.                                      *)
ChainMissing(v) ==
  /\ At(v, "add")
  /\ ChainOf(rule[v]) \notin chains
  /\ Raise(v)

(* A daemon whose pidfile exists is stopped first; the new one is started,  *)
(* and nothing waits for it or looks at its exit.  Beside one that could    *)
(* not be stopped it may fail, and the old one stays.                       *)
StartDnsmasq(v) ==
  /\ At(v, "dnsmasq")
  /\ \E d \in {"booting"} \cup (StoppedDnsmasq(dnsmasq[v]) \cap {"up"}) :
       dnsmasq' = [dnsmasq EXCEPT ![v] = d]
  /\ Goto(v, "record")
  /\ UNCHANGED <<ret, cmd, seen, mode, rule, running, json, bridge, rules, tables>>

(* dnsmasq writes its pidfile some time after it was started.               *)
DnsmasqBoots(v) ==
  /\ dnsmasq[v] = "booting"
  /\ dnsmasq' = [dnsmasq EXCEPT ![v] = "up"]
  /\ UNCHANGED <<local, running, json, bridge, rules, tables>>

(* It may give up before that (a daemon missed by stop_dnsmasq holds the    *)
(* port), or end at any time; its pidfile then stays.                       *)
DnsmasqExits(v) ==
  /\ Faulty
  /\ dnsmasq[v] \in {"booting", "up"}
  /\ dnsmasq' = [dnsmasq EXCEPT ![v] = IF @ = "up" THEN "dead" ELSE "none"]
  /\ UNCHANGED <<local, running, json, bridge, rules, tables>>

SaveInfo(v) ==
  /\ At(v, "record")
  /\ json' = [json EXCEPT ![v] = mode[v]]
  /\ Goto(v, "xl")
  /\ UNCHANGED <<ret, cmd, seen, mode, rule, running, bridge, rules, dnsmasq, tables>>

(* xl restore or xl create.  vm-start and the installation leave the VM     *)
(* running; run_vm hands it to the analysis.                                *)
StartDomain(v) ==
  /\ At(v, "xl")
  /\ running' = [running EXCEPT ![v] = TRUE]
  /\ \/ Rest(v, "idle")
     \/ Goto(v, "analyzing") /\ UNCHANGED <<ret, cmd, seen, mode, rule>>
  /\ UNCHANGED <<net, tables>>

(* Mutant of EndAnalysis: the network is stopped and the domain is not.     *)
EndWithoutDestroy(v) ==
  /\ At(v, "analyzing")
  /\ Goto(v, "stop")
  /\ ret' = [ret EXCEPT ![v] = "down"]
  /\ UNCHANGED <<cmd, seen, mode, rule, running, net, tables>>

(* However the analysis ends, run_vm destroys the VM.                       *)
EndAnalysis(v) ==
  /\ At(v, "analyzing")
  /\ Goto(v, "destroy")
  /\ ret' = [ret EXCEPT ![v] = "down"]
  /\ UNCHANGED <<cmd, seen, mode, rule, running, net, tables>>

(* A command that raises, or the end of the process: what was done stays.   *)
(* vm.restore() stands outside the try of run_vm, so a start that fails is  *)
(* not followed by a destroy.                                               *)
Abandon(v) ==
  /\ Faulty
  /\ pc[v] \in Busy
  /\ Raise(v)

----------------------------------------------------------------------------
Step(v) ==
  \/ DestroyDomain(v) \/ StopVmNetwork(v) \/ DeleteVmBridge(v)
  \/ DelIptableRule(v) \/ UnlinkInfo(v) \/ RollbackStorage(v)
  \/ CheckJump(v) \/ SetupChain(v) \/ SetupFails(v) \/ DeleteChain(v)
  \/ EnterNetwork(v) \/ AddBridge(v) \/ BridgeExists(v)
  \/ AddIptableRule(v) \/ ChainMissing(v) \/ StartDnsmasq(v)
  \/ SaveInfo(v) \/ StartDomain(v) \/ EndAnalysis(v)

Begin(v) == (\E m \in Modes : BeginRestore(v, m)) \/ BeginDestroy(v) \/ Save(v)

Next == \E v \in Vms : Begin(v) \/ Step(v) \/ Abandon(v)
                     \/ DnsmasqBoots(v) \/ DnsmasqExits(v)

Spec == Init /\ [][Next]_vars

(* A process that has begun goes on: no step waits for another process.     *)
(* drakvuf's own time limit ends every analysis.                            *)
FairSpec == Spec /\ \A v \in Vms : WF_vars(Step(v))

----------------------------------------------------------------------------
(* Properties                                                               *)

TypeOK ==
  /\ pc \in [Vms -> Resting \cup Busy]
  /\ ret \in [Vms -> {"down", "rollback", "addbr"}]
  /\ cmd \in [Vms -> 1..6]
  /\ seen \in [Vms -> SUBSET Chains]
  /\ mode \in [Vms -> AllModes \cup {NoInfo}]
  /\ rule \in [Vms -> Rules]
  /\ running \in [Vms -> BOOLEAN]
  /\ json \in [Vms -> AllModes \cup {NoInfo}]
  /\ bridge \in [Vms -> BOOLEAN]
  /\ rules \in [Vms -> SUBSET Rules]
  /\ dnsmasq \in [Vms -> {"none", "booting", "up", "dead"}]
  /\ chains \subseteq Chains
  /\ jumps \in [Chains -> Nat]

(* A VM that runs has the bridge and exactly the rules of the mode its      *)
(* record names.  No failure, kill or interleaving takes part of that away  *)
(* while the VM runs.  Its DHCP server is another matter: start_dnsmasq     *)
(* (networking.py:191) never learns whether it came up.                     *)
RunningVmIsConfigured ==
  \A v \in Vms : running[v] =>
    /\ json[v] # NoInfo
    /\ bridge[v]
    /\ rules[v] = RulesOf(json[v])

(* "drakrun will drop any INPUT traffic originating from drak<vm_id> bridge *)
(* except DHCP traffic" (docs/usage/optional_features.rst:203): while a VM  *)
(* runs, its DROP rule is in place and packets reach it.                    *)
RunningVmIsFiltered ==
  \A v \in Vms : running[v] => "drop" \in rules[v] /\ jumps["INP"] > 0

(* A VM without a bridge and without a record has no rule left, whatever    *)
(* was interrupted before: nothing that stop_vm_network will not see        *)
(* outlives the bridge.                                                     *)
NoRuleOutlivesBridge ==
  \A v \in Vms : ~bridge[v] /\ json[v] = NoInfo => rules[v] = {}

(* The rules of a chain apply in the order they were appended: a rule of    *)
(* DRAKRUN_INP is never appended behind the DROP that would shadow it, so   *)
(* no DROP is left over from an earlier start.                              *)
NothingAddedBehindDrop ==
  [][\A v \in Vms : \A k \in rules'[v] \ rules[v] :
       ChainOf(k) = "INP" => "drop" \notin rules[v]]_vars

(* A destroy or save that returned has ended the domain and left no record. *)
DownMeansForgotten ==
  \A v \in Vms : pc[v] = "down" => ~running[v] /\ json[v] = NoInfo

(* Without failures, an analysis that got its VM gives back the domain, the *)
(* bridge and the rules, whatever the other processes do to the chains      *)
(* meanwhile.  (Not the DHCP server: one that has no pidfile yet is missed.)*)
AnalysisGivesBack ==
  \A v \in Vms : pc[v] = "analyzing" ~>
    /\ pc[v] = "down"
    /\ ~running[v]
    /\ ~bridge[v]
    /\ rules[v] = {}
============================================================================
