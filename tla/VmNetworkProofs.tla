-------------------------- MODULE VmNetworkProofs --------------------------
(***************************************************************************)
(* Theorems about VmNetwork, for every set of VMs, every set of modes, and *)
(* with or without failures.                                               *)
(*                                                                         *)
(* The safety properties follow from an inductive invariant that says, for *)
(* each VM and each place its process can be at, how far the network is    *)
(* built or taken down.  It speaks of one VM at a time: the other          *)
(* processes share only the chains, and a chain with a rule in it cannot   *)
(* be deleted.                                                             *)
(***************************************************************************)
EXTENDS VmNetwork, TLAPS

(* The rules that come at or after k in the order both lists use.           *)
From(k) ==
  CASE k = "dhcp" -> Rules
    [] k = "dns"  -> Rules \ {"dhcp"}
    [] k = "drop" -> {"drop", "masq", "out", "in"}
    [] k = "masq" -> {"masq", "out", "in"}
    [] k = "out"  -> {"out", "in"}
    [] OTHER      -> {"in"}

(* Where stop_vm_network and the destroy around it may be, and where the    *)
(* start may be before its record is written.                               *)
Stopping == {"destroy", "stop", "delbr", "del", "unlink"}
Starting == {"rollback", "check", "setup", "undo", "net", "addbr", "add",
             "dnsmasq", "record", "xl"}

(* A start knows the mode it was asked for, also while it stops the remains *)
(* of an earlier one.                                                       *)
ModeKnown(v) ==
  pc[v] \in Starting \/ (pc[v] \in Stopping /\ ret[v] # "down") => mode[v] \in AllModes

(* What the files and the host hold of the network, place by place.         *)
Recorded(v) ==
  /\ pc[v] \in {"delbr", "del", "unlink", "xl"} => json[v] # NoInfo
  /\ pc[v] \in {"addbr", "add", "dnsmasq", "record", "down"} => json[v] = NoInfo

RulesInPlace(v) ==
  /\ json[v] # NoInfo => rules[v] \subseteq RulesOf(json[v])
  /\ ~bridge[v] /\ json[v] = NoInfo => rules[v] = {}
  /\ pc[v] = "del" => rules[v] \subseteq RulesOf(json[v]) \cap From(rule[v])
  /\ pc[v] = "unlink" => rules[v] = {}
  /\ pc[v] = "add" =>
       /\ bridge[v]
       /\ rule[v] \in RulesOf(mode[v])
       /\ rules[v] = RulesOf(mode[v]) \ From(rule[v])
  /\ pc[v] \in {"dnsmasq", "record"} => bridge[v] /\ rules[v] = RulesOf(mode[v])

(* The network of a VM that runs or is about to run.                        *)
Configured(v) ==
  /\ json[v] # NoInfo
  /\ bridge[v]
  /\ rules[v] = RulesOf(json[v])

Complete(v) ==
  /\ running[v] => pc[v] \in {"idle", "destroy", "analyzing"}
  /\ running[v] \/ pc[v] = "xl" => Configured(v)

Sound(v) == ModeKnown(v) /\ Recorded(v) /\ RulesInPlace(v) /\ Complete(v)

IInv == TypeOK /\ \A v \in Vms : Sound(v)

----------------------------------------------------------------------------
(* The types of what start and stop of a network keep: the place each is at,*)
(* vmnet-<id>.json, the bridge, dnsmasq and the rules (lib/networking.py).  *)
THEOREM Typing == Spec => []TypeOK
<1>1. Init => TypeOK
  BY NoInfoAssumption DEF Init, TypeOK, Resting, Busy, Chains, Rules
<1>2. TypeOK /\ [Next]_vars => TypeOK'
  <2> SUFFICES ASSUME TypeOK, [Next]_vars PROVE TypeOK'
    OBVIOUS
  <2> USE ModesAssumption, NoInfoAssumption
      DEF TypeOK, local, net, tables, Goto, Rest, At, Raise, Return, Resting, Busy
  <2>1. ASSUME NEW v \in Vms, Begin(v) PROVE TypeOK'
    <3>1. ASSUME NEW m \in Modes, BeginRestore(v, m) PROVE TypeOK'
      <4>1. m \in AllModes
        BY DEF ModesAssumption
      <4> QED  BY <3>1, <4>1 DEF BeginRestore
    <3>2. CASE BeginDestroy(v)
      BY <3>2 DEF BeginDestroy
    <3>3. CASE Save(v)
      BY <3>3 DEF Save
    <3> QED  BY <2>1, <3>1, <3>2, <3>3 DEF Begin
  <2>2. ASSUME NEW v \in Vms, Step(v) PROVE TypeOK'
    <3>1. CASE DestroyDomain(v)
      BY <3>1 DEF DestroyDomain
    <3>2. CASE StopVmNetwork(v)
      <4>1. CASE json[v] = NoInfo
        BY <3>2, <4>1 DEF StopVmNetwork, Rules
      <4>2. CASE json[v] # NoInfo
        <5>1. PICK d \in StoppedDnsmasq(dnsmasq[v]) : dnsmasq' = [dnsmasq EXCEPT ![v] = d]
          BY <3>2, <4>2 DEF StopVmNetwork
        <5>2. d \in {"none", "booting", "up", "dead"}
          BY <5>1 DEF StoppedDnsmasq
        <5> QED  BY <3>2, <4>2, <5>1, <5>2 DEF StopVmNetwork
      <4> QED  BY <4>1, <4>2
    <3>3. CASE DeleteVmBridge(v)
      <4>1. PICK left \in BOOLEAN : bridge' = [bridge EXCEPT ![v] = left]
        BY <3>3 DEF DeleteVmBridge
      <4>2. "dhcp" \in Rules
        BY DEF Rules
      <4> QED  BY <3>3, <4>1, <4>2 DEF DeleteVmBridge
    <3>4. CASE DelIptableRule(v)
      BY <3>4 DEF DelIptableRule, AfterDeleting, Rules
    <3>5. CASE UnlinkInfo(v)
      BY <3>5 DEF UnlinkInfo, Rules
    <3>6. CASE RollbackStorage(v)
      BY <3>6 DEF RollbackStorage
    <3>7. CASE CheckJump(v)
      BY <3>7 DEF CheckJump, ChainAt, Chains, Rules
    <3>8. CASE SetupChain(v)
      <4>1. (chains \subseteq Chains /\ jumps \in [Chains -> Nat])'
        <5>1. SetupCommands[cmd[v]].chain \in Chains
          BY DEF SetupCommands, Create, Jump, Unjump, Drop, Chains
        <5>2. CASE Iptables(SetupCommands[cmd[v]])
          BY <5>1, <5>2 DEF Iptables, Accepted
        <5>3. CASE UNCHANGED tables
          BY <5>3
        <5> QED  BY <3>8, <5>2, <5>3 DEF SetupChain, Refused
      <4>2. QED  BY <4>1, <3>8 DEF SetupChain, Following
    <3>9. CASE SetupFails(v)
      BY <3>9 DEF SetupFails, Refused
    <3>10. CASE DeleteChain(v)
      <4>1. (chains \subseteq Chains /\ jumps \in [Chains -> Nat])'
        <5>1. DeleteCommands[cmd[v]].chain \in Chains
          BY DEF DeleteCommands, Create, Jump, Unjump, Drop, Chains
        <5>2. CASE Iptables(DeleteCommands[cmd[v]])
          BY <5>1, <5>2 DEF Iptables, Accepted
        <5>3. CASE UNCHANGED tables
          BY <5>3
        <5> QED  BY <3>10, <5>2, <5>3 DEF DeleteChain, Refused
      <4>2. QED  BY <4>1, <3>10 DEF DeleteChain, Following
    <3>11. CASE EnterNetwork(v)
      BY <3>11 DEF EnterNetwork
    <3>12. CASE AddBridge(v)
      BY <3>12 DEF AddBridge, Rules
    <3>13. CASE BridgeExists(v)
      BY <3>13 DEF BridgeExists, Rules
    <3>14. CASE AddIptableRule(v)
      BY <3>14 DEF AddIptableRule, AfterAdding, Rules, ChainOf
    <3>15. CASE ChainMissing(v)
      BY <3>15 DEF ChainMissing, Rules
    <3>16. CASE StartDnsmasq(v)
      <4>1. PICK d \in {"booting", "up"} : dnsmasq' = [dnsmasq EXCEPT ![v] = d]
        BY <3>16 DEF StartDnsmasq
      <4> QED  BY <3>16, <4>1 DEF StartDnsmasq
    <3>17. CASE SaveInfo(v)
      BY <3>17 DEF SaveInfo
    <3>18. CASE StartDomain(v)
      BY <3>18 DEF StartDomain, Rules
    <3>19. CASE EndAnalysis(v)
      BY <3>19 DEF EndAnalysis
    <3> QED
      BY <2>2, <3>1, <3>2, <3>3, <3>4, <3>5, <3>6, <3>7, <3>8, <3>9, <3>10,
         <3>11, <3>12, <3>13, <3>14, <3>15, <3>16, <3>17, <3>18, <3>19 DEF Step
  <2>3. ASSUME NEW v \in Vms, DnsmasqBoots(v) PROVE TypeOK'
    BY <2>3 DEF DnsmasqBoots
  <2>4. ASSUME NEW v \in Vms, DnsmasqExits(v) PROVE TypeOK'
    BY <2>4 DEF DnsmasqExits
  <2>5. ASSUME NEW v \in Vms, Abandon(v) PROVE TypeOK'
    BY <2>5 DEF Abandon, Rules
  <2>6. CASE UNCHANGED vars
    BY <2>6 DEF vars
  <2> QED
    BY <2>1, <2>2, <2>3, <2>4, <2>5, <2>6 DEF Next
<1> QED
  BY <1>1, <1>2, PTL DEF Spec

----------------------------------------------------------------------------
(* IInv holds initially and after every step: each action is examined for   *)
(* the VM w whose process takes it; the state of every other VM is as       *)
(* before.                                                                  *)
LEMMA Inductive == Spec => []IInv
<1>1. Init => \A v \in Vms : Sound(v)
  BY DEF Init, Sound, ModeKnown, Recorded, RulesInPlace, Complete, Starting, Stopping
<1>2. IInv /\ TypeOK' /\ [Next]_vars => (\A v \in Vms : Sound(v))'
  <2> SUFFICES ASSUME IInv, TypeOK', [Next]_vars, NEW w \in Vms
               PROVE  Sound(w)'
    BY DEF Sound, ModeKnown, Recorded, RulesInPlace, Complete, Configured
  <2>0. TypeOK /\ Sound(w)
    BY DEF IInv
  <2> USE <2>0, NoInfoAssumption
      DEF TypeOK, local, net, tables, Goto, Rest, At, Sound, ModeKnown, Recorded,
          RulesInPlace, Complete, Configured, Resting, Starting, Stopping
  <2>1. ASSUME NEW v \in Vms, Begin(v) PROVE Sound(w)'
    <3>1. ASSUME NEW m \in Modes, BeginRestore(v, m) PROVE Sound(w)'
      <4>1. m \in AllModes
        BY ModesAssumption
      <4> QED  BY <3>1, <4>1 DEF BeginRestore
    <3>2. CASE BeginDestroy(v)
      BY <3>2 DEF BeginDestroy
    <3>3. CASE Save(v)
      BY <3>3 DEF Save
    <3> QED  BY <2>1, <3>1, <3>2, <3>3 DEF Begin
  <2>2. ASSUME NEW v \in Vms, Step(v) PROVE Sound(w)'
    <3>1. CASE DestroyDomain(v)
      BY <3>1 DEF DestroyDomain
    <3>2. CASE StopVmNetwork(v)
      BY <3>2 DEF StopVmNetwork, StoppedDnsmasq, Return
    <3>3. CASE DeleteVmBridge(v)
      BY <3>3 DEF DeleteVmBridge, From, RulesOf, Rules
    <3>4. CASE DelIptableRule(v)
      BY <3>4 DEF DelIptableRule, From, RulesOf, Rules, AfterDeleting, AllModes
    <3>5. CASE UnlinkInfo(v)
      BY <3>5 DEF UnlinkInfo, Return
    <3>6. CASE RollbackStorage(v)
      BY <3>6 DEF RollbackStorage
    <3>7. CASE CheckJump(v)
      BY <3>7 DEF CheckJump
    <3>8. CASE SetupChain(v)
      BY <3>8 DEF SetupChain, Following
    <3>9. CASE SetupFails(v)
      BY <3>9 DEF SetupFails
    <3>10. CASE DeleteChain(v)
      BY <3>10 DEF DeleteChain, Following
    <3>11. CASE EnterNetwork(v)
      BY <3>11 DEF EnterNetwork
    <3>12. CASE AddBridge(v)
      BY <3>12 DEF AddBridge, From, RulesOf, Rules
    <3>13. CASE BridgeExists(v)
      BY <3>13 DEF BridgeExists, Raise
    <3>14. CASE AddIptableRule(v)
      BY <3>14 DEF AddIptableRule, From, RulesOf, Rules, AfterAdding, AllModes
    <3>15. CASE ChainMissing(v)
      BY <3>15 DEF ChainMissing, Raise
    <3>16. CASE StartDnsmasq(v)
      BY <3>16 DEF StartDnsmasq
    <3>17. CASE SaveInfo(v)
      BY <3>17 DEF SaveInfo
    <3>18. CASE StartDomain(v)
      BY <3>18 DEF StartDomain
    <3>19. CASE EndAnalysis(v)
      BY <3>19 DEF EndAnalysis
    <3> QED
      BY <2>2, <3>1, <3>2, <3>3, <3>4, <3>5, <3>6, <3>7, <3>8, <3>9, <3>10,
         <3>11, <3>12, <3>13, <3>14, <3>15, <3>16, <3>17, <3>18, <3>19 DEF Step
  <2>3. ASSUME NEW v \in Vms, DnsmasqBoots(v) PROVE Sound(w)'
    BY <2>3 DEF DnsmasqBoots
  <2>4. ASSUME NEW v \in Vms, DnsmasqExits(v) PROVE Sound(w)'
    BY <2>4 DEF DnsmasqExits
  <2>5. ASSUME NEW v \in Vms, Abandon(v) PROVE Sound(w)'
    BY <2>5 DEF Abandon, Raise, Busy
  <2>6. CASE UNCHANGED vars
    BY <2>6 DEF vars
  <2> QED
    BY <2>1, <2>2, <2>3, <2>4, <2>5, <2>6 DEF Next
<1> QED
  BY <1>1, <1>2, Typing, PTL DEF Spec, IInv

----------------------------------------------------------------------------
(* A VM that runs has its bridge and the rules of its mode, however the     *)
(* processes interleave, fail and die.                                      *)
THEOREM RunningIsConfigured == Spec => []RunningVmIsConfigured
<1>1. IInv => RunningVmIsConfigured
  BY DEF IInv, Sound, Complete, Configured, RunningVmIsConfigured
<1> QED
  BY <1>1, Inductive, PTL

(* No rule is left over when bridge and record are gone.                    *)
THEOREM RulesGoWithBridge == Spec => []NoRuleOutlivesBridge
<1>1. IInv => NoRuleOutlivesBridge
  BY DEF IInv, Sound, RulesInPlace, NoRuleOutlivesBridge
<1> QED
  BY <1>1, Inductive, PTL

(* A destroy or a save that returned has ended the domain and its record.   *)
THEOREM DownForgets == Spec => []DownMeansForgotten
<1>1. IInv => DownMeansForgotten
  BY DEF IInv, Sound, Recorded, Complete, DownMeansForgotten
<1> QED
  BY <1>1, Inductive, PTL

(* A rule of DRAKRUN_INP is never appended behind a DROP: the only step     *)
(* that adds rules finds those before it in the list, and no other.         *)
THEOREM DropComesLast == Spec => NothingAddedBehindDrop
<1> DEFINE Behind == \A v \in Vms : \A k \in rules'[v] \ rules[v] :
                       ChainOf(k) = "INP" => "drop" \notin rules[v]
<1>1. IInv /\ [Next]_vars => [Behind]_vars
  <2> SUFFICES ASSUME IInv, [Next]_vars, NEW w \in Vms,
                      NEW k \in rules'[w] \ rules[w], ChainOf(k) = "INP"
               PROVE  "drop" \notin rules[w]
    OBVIOUS
  <2>0. TypeOK /\ Sound(w)
    BY DEF IInv
  <2>1. rules' # rules
    OBVIOUS
  <2>2. PICK v \in Vms : Step(v)
    BY <2>1 DEF Next, Begin, BeginRestore, BeginDestroy, Save, DnsmasqBoots,
       DnsmasqExits, Abandon, Raise, net, vars
  <2>3. CASE AddIptableRule(v)
    <3>1. v = w /\ k = rule[w] /\ pc[w] = "add"
      BY <2>0, <2>3 DEF AddIptableRule, At, TypeOK
    <3>2. rules[w] = RulesOf(mode[w]) \ From(rule[w])
      BY <2>0, <3>1 DEF Sound, RulesInPlace
    <3>3. rule[w] \in {"dhcp", "dns", "drop"}
      BY <2>0, <3>1 DEF TypeOK, ChainOf, Rules
    <3> QED  BY <3>2, <3>3 DEF From, Rules
  <2>4. CASE DelIptableRule(v)
    BY <2>0, <2>4 DEF DelIptableRule, TypeOK
  <2>5. AddIptableRule(v) \/ DelIptableRule(v)
    BY <2>1, <2>2 DEF Step, DestroyDomain, StopVmNetwork, DeleteVmBridge, UnlinkInfo,
       RollbackStorage, CheckJump, SetupChain, SetupFails, DeleteChain, EnterNetwork,
       AddBridge, BridgeExists, ChainMissing, StartDnsmasq, SaveInfo, StartDomain,
       EndAnalysis, Raise, net
  <2> QED  BY <2>3, <2>4, <2>5
<1> QED
  BY <1>1, Inductive, PTL DEF NothingAddedBehindDrop, Spec

----------------------------------------------------------------------------
(* When the chains are set up before the processes start, every one of them *)
(* finds the three jumps, none enters the setup or its rollback, and the    *)
(* jumps stay.                                                              *)
Undisturbed(v) ==
  /\ pc[v] \notin {"setup", "undo"}
  /\ cmd[v] \in 1..3
  /\ \A i \in 1..2 : i < cmd[v] => ChainAt(i) \in seen[v]
  /\ pc[v] # "check" => cmd[v] = 1

WarmInv == jumps = [c \in Chains |-> 1] /\ \A v \in Vms : Undisturbed(v)

LEMMA WarmInductive == Warm /\ Spec => []WarmInv
<1>1. Warm /\ Init => WarmInv
  BY DEF Init, WarmInv, Undisturbed
<1>2. WarmInv /\ TypeOK /\ [Next]_vars => WarmInv'
  <2> SUFFICES ASSUME WarmInv, TypeOK, [Next]_vars PROVE WarmInv'
    OBVIOUS
  <2> USE DEF WarmInv, Undisturbed, TypeOK, local, net, tables, Goto, Rest, At, Resting
  <2>1. ASSUME NEW v \in Vms, Begin(v) PROVE WarmInv'
    BY <2>1 DEF Begin, BeginRestore, BeginDestroy, Save
  <2>2. ASSUME NEW v \in Vms, Step(v) PROVE WarmInv'
    <3>1. CASE DestroyDomain(v)
      BY <3>1 DEF DestroyDomain
    <3>2. CASE StopVmNetwork(v)
      BY <3>2 DEF StopVmNetwork, Return
    <3>3. CASE DeleteVmBridge(v)
      BY <3>3 DEF DeleteVmBridge
    <3>4. CASE DelIptableRule(v)
      BY <3>4 DEF DelIptableRule
    <3>5. CASE UnlinkInfo(v)
      BY <3>5 DEF UnlinkInfo, Return
    <3>6. CASE RollbackStorage(v)
      BY <3>6 DEF RollbackStorage
    <3>7. CASE CheckJump(v)
      BY <3>7 DEF CheckJump, ChainAt, Chains
    <3>8. CASE SetupChain(v)
      BY <3>8 DEF SetupChain
    <3>9. CASE SetupFails(v)
      BY <3>9 DEF SetupFails
    <3>10. CASE DeleteChain(v)
      BY <3>10 DEF DeleteChain
    <3>11. CASE EnterNetwork(v)
      BY <3>11 DEF EnterNetwork
    <3>12. CASE AddBridge(v)
      BY <3>12 DEF AddBridge
    <3>13. CASE BridgeExists(v)
      BY <3>13 DEF BridgeExists, Raise
    <3>14. CASE AddIptableRule(v)
      BY <3>14 DEF AddIptableRule
    <3>15. CASE ChainMissing(v)
      BY <3>15 DEF ChainMissing, Raise
    <3>16. CASE StartDnsmasq(v)
      BY <3>16 DEF StartDnsmasq
    <3>17. CASE SaveInfo(v)
      BY <3>17 DEF SaveInfo
    <3>18. CASE StartDomain(v)
      BY <3>18 DEF StartDomain
    <3>19. CASE EndAnalysis(v)
      BY <3>19 DEF EndAnalysis
    <3> QED
      BY <2>2, <3>1, <3>2, <3>3, <3>4, <3>5, <3>6, <3>7, <3>8, <3>9, <3>10,
         <3>11, <3>12, <3>13, <3>14, <3>15, <3>16, <3>17, <3>18, <3>19 DEF Step
  <2>3. ASSUME NEW v \in Vms, DnsmasqBoots(v) PROVE WarmInv'
    BY <2>3 DEF DnsmasqBoots
  <2>4. ASSUME NEW v \in Vms, DnsmasqExits(v) PROVE WarmInv'
    BY <2>4 DEF DnsmasqExits
  <2>5. ASSUME NEW v \in Vms, Abandon(v) PROVE WarmInv'
    BY <2>5 DEF Abandon, Raise, Busy
  <2>6. CASE UNCHANGED vars
    BY <2>6 DEF vars
  <2> QED
    BY <2>1, <2>2, <2>3, <2>4, <2>5, <2>6 DEF Next
<1> QED
  BY <1>1, <1>2, Typing, PTL DEF Spec

(* Once the chains are set up, a VM that runs is filtered: its DROP rule is *)
(* in DRAKRUN_INP and INPUT jumps there.                                    *)
THEOREM RunningIsFiltered == Warm /\ Spec => []RunningVmIsFiltered
<1>1. WarmInv /\ IInv => RunningVmIsFiltered
  <2> SUFFICES ASSUME WarmInv, IInv, NEW v \in Vms, running[v]
               PROVE  "drop" \in rules[v] /\ jumps["INP"] > 0
    BY DEF RunningVmIsFiltered
  <2>1. Configured(v)
    BY DEF IInv, Sound, Complete
  <2> QED  BY <2>1 DEF Configured, RulesOf, WarmInv, Chains
<1> QED
  BY <1>1, Inductive, WarmInductive, PTL
============================================================================
