---------------------------- MODULE Vm0Snapshot ----------------------------
(***************************************************************************)
(* vm-0 and the VMs that start from it: the commands install, postinstall, *)
(* modify-vm0 and snapshot import (drakrun/cli), VirtualMachine.restore    *)
(* and save (drakrun/lib/vm.py) and the three storage backends             *)
(* (drakrun/lib/storage.py).                                               *)
(*                                                                         *)
(* A guest is a memory and a disk.  Both carry the version of the guest    *)
(* they were last written by, and a guest works only while they agree.     *)
(*                                                                         *)
(* One operator enters commands, in the order the documentation gives      *)
(* (docs/usage/managing_snapshots.rst): the workers rest and their VMs are *)
(* destroyed from the begin of a modification until a commit or rollback   *)
(* has returned normally.  Every step of a command and of a restore is     *)
(* one tool called; a call takes effect as a whole or fails.               *)
(***************************************************************************)
EXTENDS Naturals

CONSTANTS
  Vms,          (* vm-1, vm-2, ...                                          *)
  Vm1,          (* the VM in which profiles are generated                   *)
  Backends,     (* the storage backends considered                          *)
  MaxVersion,   (* how many versions of a guest are told apart              *)
  Used,         (* what a worker VM holds after it ran                      *)
  Garbage,      (* memory and disk of different guests, mixed               *)
  Absent,       (* no such volume, file or domain                           *)
  Failing       (* the steps at which a call may fail or be killed          *)

ASSUME Vm1Assumption == Vm1 \in Vms
ASSUME BackendsAssumption == Backends \subseteq {"zfs", "qcow2", "lvm"}
ASSUME VersionAssumption == MaxVersion \in Nat
Versions == 1..MaxVersion
ASSUME ContentAssumption ==
  /\ {Used, Garbage, Absent} \cap Versions = {}
  /\ Used # Garbage /\ Used # Absent /\ Garbage # Absent

Vm0 == "vm-0"
Modify == "vm-0-modify"
ASSUME NamesAssumption == {Vm0, Modify} \cap Vms = {}

Content == Versions \cup {Used, Garbage, Absent}

VARIABLES
  backend,   (* the backend chosen at the installation                      *)
  stage,     (* what the operator is at: nothing, installing, modifying     *)
  op,        (* the step of the operator's command                          *)
  cold,      (* the modification cold-boots vm-0                            *)
  vpc,       (* the step of each VM's restore, or running                   *)
  vol,       (* the volumes vm-0, vm-0-modify and vm-<i>                    *)
  booted,    (* the ZFS snapshots vm-<i>@booted                             *)
  attached,  (* the volume vm-0 runs on                                     *)
  mem,       (* the memory of each domain                                   *)
  sav,       (* snapshot.sav                                                *)
  tmp,       (* the snapshot.sav in the temporary directory                 *)
  before     (* history: the image before the modification                  *)

control == <<stage, op, cold, vpc>>
disks   == <<vol, booted>>
memory  == <<mem, sav, tmp>>
vars    == <<backend, control, disks, attached, memory, before>>

Running(v) == mem[v] # Absent
DiskOf(v)  == IF v = Vm0 THEN attached ELSE v

(* Memory and disk belong to the same guest.                                *)
Sound(v) == mem[v] = vol[DiskOf(v)] /\ mem[v] # Garbage

(* A version that nothing carries any more, the least one.                  *)
Unused == {c \in Versions : /\ \A d \in DOMAIN vol : vol[d] # c
                            /\ \A d \in DOMAIN booted : booted[d] # c
                            /\ \A v \in DOMAIN mem : mem[v] # c
                            /\ c \notin {sav, tmp, before[1], before[2]}}
New(c) == c \in Unused /\ \A d \in Unused : c <= d

(* The disk from which the VMs are cloned, and the image it is part of.     *)
BaseDisk == IF backend = "zfs" THEN booted[Vm0] ELSE vol[Vm0]
Image == <<sav, BaseDisk>>

Init ==
  /\ backend \in Backends
  /\ stage = "none" /\ op = "idle" /\ cold = FALSE
  /\ vpc = [v \in Vms |-> "idle"]
  /\ vol = [d \in Vms \cup {Vm0, Modify} |-> Absent]
  /\ booted = [d \in Vms \cup {Vm0} |-> Absent]
  /\ attached = Vm0
  /\ mem = [v \in Vms \cup {Vm0} |-> Absent]
  /\ sav = Absent /\ tmp = Absent
  /\ before = <<Absent, Absent>>

----------------------------------------------------------------------------
(* What the tools do to the volumes                                         *)

(* A QCOW2 overlay is void when its backing file changes, unless what is    *)
(* written there is the overlay itself; ZFS clones and LVM snapshots keep   *)
(* what they held.                                                          *)
BaseRewritten(c) ==
  vol' = [d \in DOMAIN vol |->
            IF d = Vm0 THEN c
            ELSE IF backend = "qcow2" /\ vol[d] \notin {Absent, c} THEN Garbage
            ELSE vol[d]]

(* zfs destroy -R and lvremove take along everything made from vm-0.        *)
BaseDestroyed ==
  /\ vol' = [d \in DOMAIN vol |-> Absent]
  /\ booted' = [d \in DOMAIN booted |-> Absent]

DomainEnds(v) == mem' = [mem EXCEPT ![v] = Absent]

----------------------------------------------------------------------------
(* The operator                                                             *)

Quiet == \A v \in Vms : vpc[v] = "idle" /\ ~Running(v)

Step(l) == op' = l /\ UNCHANGED <<stage, cold, vpc>>

(* The command returns normally.                                            *)
Complete == op' = "idle" /\ stage' = "rest" /\ UNCHANGED <<cold, vpc>>

(* install, up to vm0.destroy                                               *)
Install ==
  /\ op = "idle" /\ Quiet
  /\ stage \in {"none", "rest", "installing"}
  /\ DomainEnds(Vm0)
  /\ stage' = "installing"
  /\ op' = IF backend # "qcow2" /\ vol[Vm0] # Absent THEN "delete" ELSE "create"
  /\ UNCHANGED <<backend, cold, vpc, disks, attached, sav, tmp, before>>

DeleteVm0Volume ==
  /\ op = "delete"
  /\ BaseDestroyed
  /\ Step("create")
  /\ UNCHANGED <<backend, attached, memory, before>>

(* initialize_vm0_volume: an empty disk, whose content is never run.        *)
CreateVm0Volume ==
  /\ op = "create"
  /\ BaseRewritten(Garbage)
  /\ Step("boot")
  /\ UNCHANGED <<backend, booted, attached, memory, before>>

(* vm0.create boots the installation medium, which writes the disk.         *)
CreateVm0 ==
  /\ op = "boot"
  /\ \E c \in Versions :
       /\ New(c)
       /\ mem' = [mem EXCEPT ![Vm0] = c]
       /\ vol' = [vol EXCEPT ![Vm0] = c]
  /\ attached' = Vm0
  /\ Step("idle")
  /\ UNCHANGED <<backend, booted, sav, tmp, before>>

(* The guest in vm-0 works: memory and disk move on together, or apart if   *)
(* they never belonged together.                                            *)
GuestWorks ==
  /\ op = "idle" /\ Running(Vm0)
  /\ \E c \in Content :
       /\ IF Sound(Vm0) THEN New(c) ELSE c = Garbage
       /\ mem' = [mem EXCEPT ![Vm0] = c]
       /\ vol' = [vol EXCEPT ![attached] = c]
  /\ UNCHANGED <<backend, control, booted, attached, sav, tmp, before>>

(* postinstall: vm0.save                                                    *)
PostInstall ==
  /\ op = "idle" /\ stage = "installing" /\ Quiet /\ Running(Vm0)
  /\ sav' = mem[Vm0]
  /\ DomainEnds(Vm0)
  /\ Step("snapshot")
  /\ UNCHANGED <<backend, disks, attached, tmp, before>>

(* snapshot_vm0_volume; also the second half of a ZFS commit. zfs snapshot  *)
(* refuses a name that exists.                                              *)
CanSnapshot == backend = "zfs" => booted[Vm0] = Absent

SnapshotVm0Volume ==
  /\ op \in {"snapshot", "resnapshot"}
  /\ CanSnapshot
  /\ booted' = IF backend = "zfs" THEN [booted EXCEPT ![Vm0] = vol[Vm0]] ELSE booted
  /\ Step(IF op = "snapshot" THEN "profile" ELSE "move")
  /\ UNCHANGED <<backend, vol, attached, memory, before>>

(* snapshot import: the former image and, on QCOW2, every volume are removed*)
(* with the directories they are in.                                        *)
ImportSnapshot ==
  /\ op = "idle" /\ Quiet /\ ~Running(Vm0)
  /\ stage \in {"none", "rest", "installing"}
  /\ sav' = Absent
  /\ vol' = [d \in DOMAIN vol |-> IF backend = "qcow2" THEN Absent ELSE vol[d]]
  /\ op' = IF backend = "zfs" THEN "tank" ELSE "receive"
  /\ stage' = IF backend = "zfs" /\ stage = "none" THEN "none" ELSE "installing"
  /\ UNCHANGED <<backend, cold, vpc, booted, attached, mem, tmp, before>>

(* zfs create refuses a tank that exists, and one does after any other      *)
(* installation or import.                                                  *)
CanCreateTank == stage = "none"

CreateTank ==
  /\ op = "tank"
  /\ CanCreateTank
  /\ op' = "receive" /\ stage' = "installing" /\ UNCHANGED <<cold, vpc>>
  /\ UNCHANGED <<backend, disks, attached, memory, before>>

(* import_vm0: the disk of an image that was made here or elsewhere.  zfs   *)
(* receives vm-0@booted; dd writes to a logical volume that has to be there *)
(* (the volume group is taken to have none but those of drakrun).           *)
CanReceive == backend = "lvm" => vol[Vm0] # Absent

ImportVm0 ==
  /\ op = "receive"
  /\ CanReceive
  /\ \E c \in Versions :
       /\ New(c)
       /\ BaseRewritten(c)
       /\ booted' = IF backend = "zfs" THEN [booted EXCEPT ![Vm0] = c] ELSE booted
  /\ Step("unpack")
  /\ UNCHANGED <<backend, attached, memory, before>>

(* snapshot.sav, of the same image.                                         *)
ImportMemory ==
  /\ op = "unpack"
  /\ sav' = vol[Vm0]
  /\ Complete
  /\ UNCHANGED <<backend, disks, attached, mem, tmp, before>>

(* modify-vm0 begin: restore destroys vm-0 first                            *)
BeginModify(c) ==
  /\ op = "idle"
  /\ stage \in {"rest", "modifying"} /\ Quiet
  /\ DomainEnds(Vm0)
  /\ stage' = "modifying" /\ op' = "initialize" /\ cold' = c /\ UNCHANGED vpc
  /\ before' = IF stage = "rest" THEN Image ELSE before
  /\ UNCHANGED <<backend, disks, attached, sav, tmp>>

(* Mutant of InitializeVm0Modify: the backend names no disk for vm-0.       *)
InitializeNoDisk ==
  /\ op = "initialize"
  /\ vol' = [vol EXCEPT ![IF backend = "zfs" THEN Vm0 ELSE Modify] = BaseDisk]
  /\ attached' = Absent
  /\ Step("launch")
  /\ UNCHANGED <<backend, booted, memory, before>>

(* initialize_vm0_modify_storage: back to vm-0@booted, or a new volume on   *)
(* top of vm-0 when the one of a former modification is deleted.            *)
CanInitialize == BaseDisk # Absent

DeleteOldModify ==
  /\ op = "initialize"
  /\ backend # "zfs" /\ vol[Modify] # Absent
  /\ vol' = [vol EXCEPT ![Modify] = Absent]
  /\ UNCHANGED <<backend, control, booted, attached, memory, before>>

InitializeVm0Modify ==
  /\ op = "initialize"
  /\ backend = "zfs" \/ vol[Modify] = Absent
  /\ CanInitialize
  /\ vol' = [vol EXCEPT ![IF backend = "zfs" THEN Vm0 ELSE Modify] = BaseDisk]
  /\ attached' = IF backend = "zfs" THEN Vm0 ELSE Modify
  /\ Step("launch")
  /\ UNCHANGED <<backend, booted, memory, before>>

(* xl restore from snapshot.sav, or xl create, which boots from the disk.   *)
CanLaunch == cold \/ sav # Absent

LaunchVm0 ==
  /\ op = "launch"
  /\ CanLaunch
  /\ mem' = [mem EXCEPT ![Vm0] = IF cold THEN vol[attached] ELSE sav]
  /\ Step("idle")
  /\ UNCHANGED <<backend, disks, attached, sav, tmp, before>>

(* modify-vm0 commit: create_vmi_info needs a running vm-0                  *)
CommitSave ==
  /\ op = "idle" /\ stage = "modifying" /\ Quiet /\ Running(Vm0)
  /\ tmp' = mem[Vm0]
  /\ DomainEnds(Vm0)
  /\ Step("commit")
  /\ UNCHANGED <<backend, disks, attached, sav, before>>

(* Mutant of CommitStorage: the clones of the old vm-0@booted survive.      *)
CommitBesideClones ==
  /\ op = "commit"
  /\ CASE backend = "zfs"   -> /\ booted' = [booted EXCEPT ![Vm0] = Absent]
                               /\ UNCHANGED vol
                               /\ Step("resnapshot")
       [] backend = "qcow2" -> BaseRewritten(vol[Modify]) /\ UNCHANGED booted /\ Step("drop")
       [] OTHER             -> BaseRewritten(vol[Modify]) /\ UNCHANGED booted /\ Step("move")
  /\ UNCHANGED <<backend, attached, memory, before>>

(* commit_vm0_modify_storage: ZFS destroys vm-0@booted with its clones and  *)
(* snapshots again; QCOW2 commits the overlay and then unlinks it; LVM      *)
(* merges, which ends vm-0-modify.                                          *)
CommitStorage ==
  /\ op = "commit"
  /\ CASE backend = "zfs" ->
            /\ vol' = [d \in DOMAIN vol |-> IF d = Vm0 THEN vol[d] ELSE Absent]
            /\ booted' = [d \in DOMAIN booted |-> Absent]
            /\ Step("resnapshot")
       [] backend = "qcow2" ->
            BaseRewritten(vol[Modify]) /\ UNCHANGED booted /\ Step("drop")
       [] OTHER ->
            /\ vol' = [vol EXCEPT ![Vm0] = vol[Modify], ![Modify] = Absent]
            /\ UNCHANGED booted /\ Step("move")
  /\ UNCHANGED <<backend, attached, memory, before>>

DropOverlay ==
  /\ op = "drop"
  /\ vol' = [vol EXCEPT ![Modify] = Absent]
  /\ Step("move")
  /\ UNCHANGED <<backend, booted, attached, memory, before>>

(* Mutant of MoveSnapshot: the saved memory stays where it was saved.       *)
ForgetToMove ==
  /\ op = "move"
  /\ tmp' = Absent
  /\ Step("profile")
  /\ UNCHANGED <<backend, disks, attached, mem, sav, before>>

MoveSnapshot ==
  /\ op = "move"
  /\ sav' = tmp /\ tmp' = Absent
  /\ Step("profile")
  /\ UNCHANGED <<backend, disks, attached, mem, before>>

(* postinstall and commit end with a run of vm-1 for the profiles.          *)
Profiled ==
  /\ op = "profiling"
  /\ vpc[Vm1] = "idle" /\ ~Running(Vm1)
  /\ Complete
  /\ UNCHANGED <<backend, disks, attached, memory, before>>

(* modify-vm0 rollback                                                      *)
Rollback ==
  /\ op = "idle" /\ stage = "modifying"
  /\ DomainEnds(Vm0)
  /\ Step("discard")
  /\ UNCHANGED <<backend, disks, attached, sav, tmp, before>>

(* delete_vm0_modify_storage: lvremove wants the volume to be there.        *)
CanDiscard == CASE backend = "zfs" -> booted[Vm0] # Absent
                [] backend = "lvm" -> vol[Modify] # Absent
                [] OTHER           -> TRUE

DeleteVm0Modify ==
  /\ op = "discard"
  /\ CanDiscard
  /\ vol' = IF backend = "zfs" THEN [vol EXCEPT ![Vm0] = booted[Vm0]]
            ELSE [vol EXCEPT ![Modify] = Absent]
  /\ Complete
  /\ UNCHANGED <<backend, booted, attached, memory, before>>

(* A tool refuses what the step asks of it.                                 *)
Refused ==
  \/ op \in {"snapshot", "resnapshot"} /\ ~CanSnapshot
  \/ op = "tank" /\ ~CanCreateTank
  \/ op = "receive" /\ ~CanReceive
  \/ op = "initialize" /\ ~CanInitialize
  \/ op = "launch" /\ ~CanLaunch
  \/ op = "discard" /\ ~CanDiscard

(* The command raises, and commit's finally block unlinks the temporary     *)
(* file, or it is killed, and the file stays.                               *)
CommandFails ==
  /\ op \in Failing \/ Refused
  /\ op \notin {"idle", "profiling"}
  /\ tmp' \in {tmp, Absent}
  /\ Step("idle")
  /\ UNCHANGED <<backend, disks, attached, mem, sav, before>>

----------------------------------------------------------------------------
(* The VMs: a worker or vm-start restores one from snapshot.sav             *)

GoVm(v, l) == vpc' = [vpc EXCEPT ![v] = l] /\ UNCHANGED <<stage, op, cold>>

(* VirtualMachine.restore destroys what runs, then rollback_vm_storage: a   *)
(* ZFS clone is made once and reverted from then on, the others are made    *)
(* anew.                                                                    *)
Restore(v) ==
  /\ vpc[v] = "idle"
  /\ \/ stage = "rest" /\ op = "idle" /\ UNCHANGED op
     \/ op = "profile" /\ v = Vm1 /\ op' = "profiling"
  /\ DomainEnds(v)
  /\ vpc' = [vpc EXCEPT ![v] = CASE backend # "zfs"    -> "remove"
                                 [] vol[v] = Absent     -> "clone"
                                 [] OTHER               -> "revert"]
  /\ UNCHANGED <<backend, stage, cold, disks, attached, sav, tmp, before>>

RemoveVolume(v) ==
  /\ vpc[v] = "remove"
  /\ vol' = [vol EXCEPT ![v] = Absent]
  /\ GoVm(v, "clone")
  /\ UNCHANGED <<backend, booted, attached, memory, before>>

CloneVolume(v) ==
  /\ vpc[v] = "clone"
  /\ BaseDisk # Absent
  /\ vol' = [vol EXCEPT ![v] = BaseDisk]
  /\ GoVm(v, IF backend = "zfs" THEN "mark" ELSE "start")
  /\ UNCHANGED <<backend, booted, attached, memory, before>>

SnapshotVolume(v) ==
  /\ vpc[v] = "mark"
  /\ booted' = [booted EXCEPT ![v] = vol[v]]
  /\ GoVm(v, "revert")
  /\ UNCHANGED <<backend, vol, attached, memory, before>>

(* Mutant of RevertVolume: the clone is used as the last run left it.       *)
KeepVolume(v) ==
  /\ vpc[v] = "revert"
  /\ booted[v] # Absent
  /\ GoVm(v, "start")
  /\ UNCHANGED <<backend, disks, attached, memory, before>>

RevertVolume(v) ==
  /\ vpc[v] = "revert"
  /\ booted[v] # Absent
  /\ vol' = [vol EXCEPT ![v] = booted[v]]
  /\ GoVm(v, "start")
  /\ UNCHANGED <<backend, booted, attached, memory, before>>

StartVm(v) ==
  /\ vpc[v] = "start"
  /\ sav # Absent
  /\ mem' = [mem EXCEPT ![v] = sav]
  /\ GoVm(v, "run")
  /\ UNCHANGED <<backend, disks, attached, sav, tmp, before>>

VmWorks(v) ==
  /\ vpc[v] = "run"
  /\ LET c == IF Sound(v) THEN Used ELSE Garbage
     IN vol' = [vol EXCEPT ![v] = c] /\ mem' = [mem EXCEPT ![v] = c]
  /\ UNCHANGED <<backend, control, booted, attached, sav, tmp, before>>

DestroyVm(v) ==
  /\ vpc[v] = "run"
  /\ DomainEnds(v)
  /\ GoVm(v, "idle")
  /\ UNCHANGED <<backend, disks, attached, sav, tmp, before>>

(* A tool refuses, or the worker is killed: its domain stays.  A failure    *)
(* under postinstall or commit is theirs as well.                           *)
RestoreFails(v) ==
  /\ \/ vpc[v] \in Failing
     \/ vpc[v] = "clone" /\ BaseDisk = Absent
     \/ vpc[v] = "revert" /\ booted[v] = Absent
     \/ vpc[v] = "start" /\ sav = Absent
  /\ vpc[v] # "idle"
  /\ vpc' = [vpc EXCEPT ![v] = "idle"]
  /\ op' = IF op = "profiling" THEN "idle" ELSE op
  /\ UNCHANGED <<backend, stage, cold, disks, attached, memory, before>>

(* vm-stop ends a domain whose worker died.                                 *)
StopVm(v) ==
  /\ vpc[v] = "idle" /\ Running(v)
  /\ DomainEnds(v)
  /\ UNCHANGED <<backend, control, disks, attached, sav, tmp, before>>

----------------------------------------------------------------------------
Operate ==
  \/ Install \/ DeleteVm0Volume \/ CreateVm0Volume \/ CreateVm0 \/ GuestWorks
  \/ PostInstall \/ SnapshotVm0Volume
  \/ ImportSnapshot \/ CreateTank \/ ImportVm0 \/ ImportMemory
  \/ \E c \in BOOLEAN : BeginModify(c)
  \/ DeleteOldModify \/ InitializeVm0Modify \/ LaunchVm0
  \/ CommitSave \/ CommitStorage \/ DropOverlay \/ MoveSnapshot \/ Profiled
  \/ Rollback \/ DeleteVm0Modify \/ CommandFails

Analyse(v) ==
  \/ Restore(v) \/ RemoveVolume(v) \/ CloneVolume(v) \/ SnapshotVolume(v)
  \/ RevertVolume(v) \/ StartVm(v) \/ VmWorks(v) \/ DestroyVm(v)
  \/ RestoreFails(v) \/ StopVm(v)

Next == Operate \/ \E v \in Vms : Analyse(v)

Spec == Init /\ [][Next]_vars

----------------------------------------------------------------------------
(* Properties                                                               *)

TypeOK ==
  /\ backend \in Backends
  /\ stage \in {"none", "installing", "modifying", "rest"}
  /\ op \in {"idle", "delete", "create", "boot", "snapshot", "resnapshot", "initialize",
             "tank", "receive", "unpack", "launch", "commit", "drop", "move",
              "profile", "profiling", "discard"}
  /\ cold \in BOOLEAN
  /\ vpc \in [Vms -> {"idle", "remove", "clone", "mark", "revert", "start", "run"}]
  /\ vol \in [Vms \cup {Vm0, Modify} -> Content]
  /\ booted \in [Vms \cup {Vm0} -> Content]
  /\ attached \in {Vm0, Modify}
  /\ mem \in [Vms \cup {Vm0} -> Content]
  /\ sav \in Content /\ tmp \in Content
  /\ before \in Content \X Content

(* "vm-0 is a base for other virtual machines": every guest that runs, vm-0 *)
(* included, has the disk its memory was saved with, on every backend and   *)
(* after every failure but one inside the storage part of a commit.         *)
RunningGuestIsSound == \A v \in Vms \cup {Vm0} : Running(v) => Sound(v)

(* Every VM starts from the image as published last, whole, and with no     *)
(* trace of an earlier run or an earlier image.                             *)
Guest(v) == IF mem[v] = Absent \/ Sound(v) THEN mem[v] ELSE Garbage

Promise == INSTANCE BaseImage WITH
  image <- sav,
  draft <- CASE op \in {"commit", "resnapshot", "drop", "move"} -> tmp
             [] op = "unpack" -> vol[Vm0]
             [] OTHER -> mem[Vm0],
  guest <- [v \in Vms |-> Guest(v)]

ImplementsBaseImage == Promise!Spec

(* When nothing is being changed, there is no image at all or one whose     *)
(* disk and memory belong together.                                         *)
ImageIsWhole == stage = "rest" => sav = BaseDisk

(* "run draksetup modify-vm0 rollback" to get "vm-0 to the state before     *)
(* modifications" (docs/usage/managing_snapshots.rst:21-22): a rollback     *)
(* that returns normally leaves the image as it was.                        *)
RollbackRestoresBase ==
  [][op = "discard" /\ stage' = "rest" => Image' = before]_vars
============================================================================
