-------------------------- MODULE Vm0SnapshotProofs --------------------------
(***************************************************************************)
(* Proofs about Vm0Snapshot: for any number of VMs and versions, on each of *)
(* the storage backends, and whatever step of a command or of a restore     *)
(* fails, but for those between the storage's commit and the move of the    *)
(* saved memory, during which disk and memory of the image are apart.       *)
(***************************************************************************)
EXTENDS Vm0Snapshot, TLAPS

CommitSteps == {"resnapshot", "drop", "move"}

Zfs == backend = "zfs"
ModifyDisk == IF Zfs THEN Vm0 ELSE Modify
Prepared == Versions \cup {Absent}

(* The stage of the operator, and what vm-0 is there.                       *)
OperatorInv ==
  /\ stage = "rest" => op = "idle"
  /\ stage = "none" => op \in {"idle", "tank"}
  /\ op \in {"delete", "create", "boot", "snapshot", "receive", "unpack"} => stage = "installing"
  /\ op \in {"initialize", "launch", "commit", "discard"} \cup CommitSteps => stage = "modifying"
  /\ stage \in {"rest", "none"} \/ op # "idle" => mem[Vm0] = Absent
  /\ Running(Vm0) => attached = IF stage = "modifying" THEN ModifyDisk ELSE Vm0
  /\ mem[Vm0] \in Prepared

(* A VM is restored only while nothing is changed, or for the profiles, and *)
(* nothing runs while the operator writes what it may run on.               *)
VmInv ==
  \A v \in Vms :
    /\ vpc[v] # "idle" => (stage = "rest" /\ op = "idle") \/ (op = "profiling" /\ v = Vm1)
    /\ vpc[v] \notin {"idle", "run"} => mem[v] = Absent
    /\ vpc[v] = "run" => mem[v] # Absent
    /\ vpc[v] \in {"mark", "revert"} => Zfs
    /\ vpc[v] \in {"mark", "start"} => vol[v] = BaseDisk
    /\ op \notin {"idle", "profiling", "discard"} => mem[v] = Absent

(* Disk and memory of the image, and of the one that is to replace it.      *)
ImageInv ==
  /\ sav \in Prepared
  /\ stage \in {"rest", "modifying"} /\ op \notin CommitSteps => sav = BaseDisk
  /\ op \in {"profile", "profiling"} => sav = BaseDisk
  /\ op = "snapshot" => sav = vol[Vm0]
  /\ op = "unpack" => vol[Vm0] \in Versions /\ vol[Vm0] = BaseDisk
  /\ op = "launch" => attached = ModifyDisk /\ vol[attached] = BaseDisk
  /\ op \in {"commit"} \cup CommitSteps => tmp \in Versions
  /\ op = "commit" => tmp = vol[ModifyDisk]
  /\ op = "resnapshot" => Zfs /\ booted[Vm0] = Absent /\ tmp = vol[Vm0]
  /\ op = "drop" => ~Zfs /\ tmp = vol[Vm0]
  /\ op = "move" => tmp = BaseDisk

(* A ZFS clone goes back to the image, or it was never completed.           *)
CloneInv ==
  Zfs => /\ \A v \in Vms : booted[v] \in {Absent, booted[Vm0]}
         /\ stage = "none" \/ op = "receive" => booted[Vm0] = Absent

IInv ==
  /\ TypeOK
  /\ OperatorInv
  /\ VmInv
  /\ ImageInv
  /\ CloneInv
  /\ RunningGuestIsSound

----------------------------------------------------------------------------
LEMMA InitInv == Init => IInv
<1> USE NamesAssumption, ContentAssumption DEF Init, Vm0, Modify, Content, Prepared
<1>1. Init => TypeOK
  <2> SUFFICES ASSUME Init PROVE TypeOK
    OBVIOUS
  <2>1. Absent \in Content
    OBVIOUS
  <2>2. /\ vol \in [Vms \cup {Vm0, Modify} -> Content]
        /\ booted \in [Vms \cup {Vm0} -> Content] /\ mem \in [Vms \cup {Vm0} -> Content]
    BY <2>1
  <2>3. cold \in BOOLEAN /\ before \in Content \X Content
    BY <2>1
  <2> HIDE DEF Content
  <2> QED  BY <2>1, <2>2, <2>3 DEF TypeOK
<1>2. Init => OperatorInv /\ VmInv /\ RunningGuestIsSound
  BY DEF OperatorInv, VmInv, RunningGuestIsSound, Running, CommitSteps
<1>3. Init => ImageInv /\ CloneInv
  BY DEF ImageInv, CloneInv, CommitSteps
<1> QED  BY <1>1, <1>2, <1>3 DEF IInv

(* Every step keeps the types, whatever fails.                              *)
LEMMA StepTypes ==
  ASSUME TypeOK, [Next]_vars PROVE TypeOK'
<1> USE NamesAssumption, VersionAssumption, ContentAssumption, Vm1Assumption, BackendsAssumption
    DEF Step, DomainEnds, Quiet, GoVm, control, disks, memory, Vm0, Modify, Running, DiskOf, Sound,
        BaseDisk, Image, CommitSteps, Zfs, ModifyDisk, Prepared, Content, Versions
<1> USE DEF TypeOK
<1>1. CASE Install
  BY <1>1 DEF Install
<1>2. CASE DeleteVm0Volume
  BY <1>2 DEF DeleteVm0Volume, BaseDestroyed
<1>3. CASE CreateVm0Volume
  BY <1>3 DEF CreateVm0Volume, BaseRewritten
<1>4. CASE CreateVm0
  BY <1>4 DEF CreateVm0, New, Unused
<1>5. CASE GuestWorks
  BY <1>5 DEF GuestWorks, New, Unused
<1>6. CASE PostInstall
  BY <1>6 DEF PostInstall
<1>7. CASE SnapshotVm0Volume
  BY <1>7 DEF SnapshotVm0Volume, CanSnapshot
<1>8. CASE ImportSnapshot
  BY <1>8 DEF ImportSnapshot
<1>9. CASE CreateTank
  BY <1>9 DEF CreateTank, CanCreateTank
<1>10. CASE ImportVm0
  BY <1>10 DEF ImportVm0, BaseRewritten, New, Unused
<1>11. CASE ImportMemory
  BY <1>11 DEF ImportMemory, Complete
<1>12. ASSUME NEW c \in BOOLEAN, BeginModify(c) PROVE TypeOK'
  BY <1>12 DEF BeginModify
<1>12a. CASE DeleteOldModify
  BY <1>12a DEF DeleteOldModify
<1>13. CASE InitializeVm0Modify
  BY <1>13 DEF InitializeVm0Modify, CanInitialize
<1>14. CASE LaunchVm0
  BY <1>14 DEF LaunchVm0, CanLaunch
<1>15. CASE CommitSave
  BY <1>15 DEF CommitSave
<1>16. CASE CommitStorage
  BY <1>16 DEF CommitStorage, BaseRewritten
<1>17. CASE DropOverlay
  BY <1>17 DEF DropOverlay
<1>18. CASE MoveSnapshot
  BY <1>18 DEF MoveSnapshot
<1>19. CASE Profiled
  BY <1>19 DEF Profiled, Complete
<1>20. CASE Rollback
  BY <1>20 DEF Rollback
<1>21. CASE DeleteVm0Modify
  BY <1>21 DEF DeleteVm0Modify, Complete
<1>22. CASE CommandFails
  BY <1>22 DEF CommandFails, Refused, CanSnapshot
<1>23. ASSUME NEW v \in Vms, Restore(v) PROVE TypeOK'
  BY <1>23 DEF Restore
<1>24. ASSUME NEW v \in Vms, RemoveVolume(v) PROVE TypeOK'
  BY <1>24 DEF RemoveVolume
<1>25. ASSUME NEW v \in Vms, CloneVolume(v) PROVE TypeOK'
  BY <1>25 DEF CloneVolume
<1>26. ASSUME NEW v \in Vms, SnapshotVolume(v) PROVE TypeOK'
  BY <1>26 DEF SnapshotVolume
<1>27. ASSUME NEW v \in Vms, RevertVolume(v) PROVE TypeOK'
  BY <1>27 DEF RevertVolume
<1>28. ASSUME NEW v \in Vms, StartVm(v) PROVE TypeOK'
  BY <1>28 DEF StartVm
<1>29. ASSUME NEW v \in Vms, VmWorks(v) PROVE TypeOK'
  BY <1>29 DEF VmWorks
<1>30. ASSUME NEW v \in Vms, DestroyVm(v) PROVE TypeOK'
  BY <1>30 DEF DestroyVm
<1>31. ASSUME NEW v \in Vms, RestoreFails(v) PROVE TypeOK'
  BY <1>31 DEF RestoreFails
<1>32. ASSUME NEW v \in Vms, StopVm(v) PROVE TypeOK'
  BY <1>32 DEF StopVm
<1>33. CASE UNCHANGED vars
  BY <1>33 DEF vars
<1> QED
  BY <1>1, <1>2, <1>3, <1>4, <1>5, <1>6, <1>7, <1>8, <1>9, <1>10, <1>11, <1>12, <1>12a, <1>13,
     <1>14, <1>15, <1>16, <1>17, <1>18, <1>19, <1>20, <1>21, <1>22, <1>23, <1>24, <1>25,
     <1>26, <1>27, <1>28, <1>29, <1>30, <1>31, <1>32, <1>33 DEF Next, Operate, Analyse

(* Every step of a command and of a restore keeps the invariant, if none    *)
(* fails between the storage's commit and the move of the saved memory.     *)
LEMMA StepInv ==
  ASSUME Failing \cap CommitSteps = {}, IInv, Next PROVE IInv'
<1> USE NamesAssumption, VersionAssumption, ContentAssumption, Vm1Assumption, BackendsAssumption
    DEF Step, DomainEnds, Quiet, GoVm, control, disks, memory, Vm0, Modify, Running, DiskOf, Sound,
        BaseDisk, Image, CommitSteps, Zfs, ModifyDisk, Prepared, Content, Versions
<1> USE DEF IInv, TypeOK, OperatorInv, VmInv, ImageInv, CloneInv, RunningGuestIsSound
<1>1. CASE Install
  BY <1>1 DEF Install
<1>2. CASE DeleteVm0Volume
  BY <1>2 DEF DeleteVm0Volume, BaseDestroyed
<1>3. CASE CreateVm0Volume
  BY <1>3 DEF CreateVm0Volume, BaseRewritten
<1>4. CASE CreateVm0
  BY <1>4 DEF CreateVm0, New, Unused
<1>5. CASE GuestWorks
  BY <1>5 DEF GuestWorks, New, Unused
<1>6. CASE PostInstall
  BY <1>6 DEF PostInstall
<1>7. CASE SnapshotVm0Volume
  BY <1>7 DEF SnapshotVm0Volume, CanSnapshot
<1>8. CASE ImportSnapshot
  BY <1>8 DEF ImportSnapshot
<1>9. CASE CreateTank
  BY <1>9 DEF CreateTank, CanCreateTank
<1>10. CASE ImportVm0
  BY <1>10 DEF ImportVm0, BaseRewritten, New, Unused
<1>11. CASE ImportMemory
  BY <1>11 DEF ImportMemory, Complete
<1>12. ASSUME NEW c \in BOOLEAN, BeginModify(c) PROVE IInv'
  BY <1>12 DEF BeginModify
<1>12a. CASE DeleteOldModify
  BY <1>12a DEF DeleteOldModify
<1>13. CASE InitializeVm0Modify
  BY <1>13 DEF InitializeVm0Modify, CanInitialize
<1>14. CASE LaunchVm0
  BY <1>14 DEF LaunchVm0, CanLaunch
<1>15. CASE CommitSave
  BY <1>15 DEF CommitSave
<1>16. CASE CommitStorage
  BY <1>16 DEF CommitStorage, BaseRewritten
<1>17. CASE DropOverlay
  BY <1>17 DEF DropOverlay
<1>18. CASE MoveSnapshot
  BY <1>18 DEF MoveSnapshot
<1>19. CASE Profiled
  BY <1>19 DEF Profiled, Complete
<1>20. CASE Rollback
  BY <1>20 DEF Rollback
<1>21. CASE DeleteVm0Modify
  BY <1>21 DEF DeleteVm0Modify, Complete
<1>22. CASE CommandFails
  BY <1>22 DEF CommandFails, Refused, CanSnapshot
<1>23. ASSUME NEW v \in Vms, Restore(v) PROVE IInv'
  BY <1>23 DEF Restore
<1>24. ASSUME NEW v \in Vms, RemoveVolume(v) PROVE IInv'
  BY <1>24 DEF RemoveVolume
<1>25. ASSUME NEW v \in Vms, CloneVolume(v) PROVE IInv'
  BY <1>25 DEF CloneVolume
<1>26. ASSUME NEW v \in Vms, SnapshotVolume(v) PROVE IInv'
  BY <1>26 DEF SnapshotVolume
<1>27. ASSUME NEW v \in Vms, RevertVolume(v) PROVE IInv'
  BY <1>27 DEF RevertVolume
<1>28. ASSUME NEW v \in Vms, StartVm(v) PROVE IInv'
  BY <1>28 DEF StartVm
<1>29. ASSUME NEW v \in Vms, VmWorks(v) PROVE IInv'
  BY <1>29 DEF VmWorks
<1>30. ASSUME NEW v \in Vms, DestroyVm(v) PROVE IInv'
  BY <1>30 DEF DestroyVm
<1>31. ASSUME NEW v \in Vms, RestoreFails(v) PROVE IInv'
  BY <1>31 DEF RestoreFails
<1>32. ASSUME NEW v \in Vms, StopVm(v) PROVE IInv'
  BY <1>32 DEF StopVm
<1> QED
  BY <1>1, <1>2, <1>3, <1>4, <1>5, <1>6, <1>7, <1>8, <1>9, <1>10, <1>11, <1>12, <1>12a, <1>13,
     <1>14, <1>15, <1>16, <1>17, <1>18, <1>19, <1>20, <1>21, <1>22, <1>23, <1>24, <1>25,
     <1>26, <1>27, <1>28, <1>29, <1>30, <1>31, <1>32 DEF Next, Operate, Analyse

LEMMA Inductive ==
  ASSUME Failing \cap CommitSteps = {} PROVE Spec => []IInv
<1>1. IInv /\ [Next]_vars => IInv'
  <2>1. ASSUME IInv, UNCHANGED vars PROVE IInv'
    BY <2>1
       DEF vars, control, disks, memory, IInv, TypeOK, OperatorInv, VmInv, ImageInv, CloneInv,
           RunningGuestIsSound, Running, DiskOf, Sound, BaseDisk, Zfs, ModifyDisk
  <2> QED  BY <2>1, StepInv
<1> QED  BY InitInv, <1>1, PTL DEF Spec

----------------------------------------------------------------------------
(* Type correctness: what volumes, domains and snapshot files hold, and the *)
(* steps the commands and the restores are at, whatever fails.              *)
THEOREM Types == Spec => []TypeOK
<1>1. Init => TypeOK
  BY InitInv DEF IInv
<1> QED  BY <1>1, StepTypes, PTL DEF Spec

(* Every guest that runs has the disk its memory was saved with, on every   *)
(* backend and after every failure outside the storage part of a commit.    *)
THEOREM GuestsAreSound ==
  ASSUME Failing \cap CommitSteps = {} PROVE Spec => []RunningGuestIsSound
<1>1. IInv => RunningGuestIsSound
  BY DEF IInv
<1> QED  BY Inductive, <1>1, PTL

(* While nothing is changed the image is whole: snapshot.sav was saved with *)
(* the disk that the VMs are cloned from.                                   *)
THEOREM WholeImage ==
  ASSUME Failing \cap CommitSteps = {} PROVE Spec => []ImageIsWhole
<1>1. IInv => ImageIsWhole
  BY DEF IInv, OperatorInv, ImageInv, ImageIsWhole, CommitSteps
<1> QED  BY Inductive, <1>1, PTL

----------------------------------------------------------------------------
(* Refinement: what the draft of BaseImage is at each step of a command.    *)
Draft == CASE op \in {"commit", "resnapshot", "drop", "move"} -> tmp
           [] op = "unpack" -> vol[Vm0]
           [] OTHER -> mem[Vm0]

Guests == [v \in Vms |-> Guest(v)]

LEMMA DraftIs ==
  /\ op \in {"commit", "resnapshot", "drop", "move"} => Draft = tmp
  /\ op = "unpack" => Draft = vol[Vm0]
  /\ op \notin {"commit", "resnapshot", "drop", "move", "unpack"} => Draft = mem[Vm0]
  BY DEF Draft

(* Each step of the detailed specification is a step of BaseImage or none.  *)
LEMMA StepImplements ==
  ASSUME Failing \cap CommitSteps = {}, IInv, IInv', Next
  PROVE  [Promise!Next]_(Promise!vars)
<1>a. /\ Guests = [v \in Vms |-> mem[v]]
      /\ Guests' = [v \in Vms |-> mem'[v]]
  BY DEF IInv, Guests, Guest, RunningGuestIsSound, Running
<1>b. /\ (op \in {"commit", "resnapshot", "drop", "move"} => Draft = tmp)'
      /\ (op = "unpack" => Draft = vol[Vm0])'
      /\ (op \notin {"commit", "resnapshot", "drop", "move", "unpack"} => Draft = mem[Vm0])'
  BY DEF Draft
<1>c. /\ \A v \in Vms : Running(v) => Sound(v)
      /\ \A v \in Vms : (Running(v) => Sound(v))'
  BY DEF IInv, RunningGuestIsSound
<1> DEFINE Stutter  == UNCHANGED <<sav, Draft, Guests>>
           Edit     == Draft' \in Versions /\ UNCHANGED <<sav, Guests>>
           Discard  == Draft' = Absent /\ UNCHANGED <<sav, Guests>>
           Publish  == Draft # Absent /\ sav' = Draft /\ Draft' = Absent /\ UNCHANGED Guests
           Withdraw == /\ \A v \in Vms : Guests[v] = Absent
                       /\ sav' = Absent /\ UNCHANGED <<Draft, Guests>>
           Start(v) == /\ Guests[v] = Absent /\ sav # Absent
                       /\ Guests' = [Guests EXCEPT ![v] = sav] /\ UNCHANGED <<sav, Draft>>
           Use(v)   == /\ Guests[v] # Absent
                       /\ Guests' = [Guests EXCEPT ![v] = Used] /\ UNCHANGED <<sav, Draft>>
           Stop(v)  == Guests' = [Guests EXCEPT ![v] = Absent] /\ UNCHANGED <<sav, Draft>>
           Promised == \/ Stutter \/ Edit \/ Discard \/ Publish \/ Withdraw
                       \/ \E v \in Vms : Start(v) \/ Use(v) \/ Stop(v)
<1>d. Promised => [Promise!Next]_(Promise!vars)
  BY DEF Promise!Next, Promise!vars, Promise!Edit, Promise!Discard, Promise!Publish,
         Promise!Withdraw, Promise!Start, Promise!Use, Promise!Stop, Draft, Guests
<1> SUFFICES Promised
  BY <1>d
<1> USE <1>a, <1>b, <1>c, DraftIs, NamesAssumption, ContentAssumption, BackendsAssumption
    DEF Step, DomainEnds, Quiet, GoVm, control, disks, memory, Vm0, Modify, Running, DiskOf, Sound,
        BaseDisk, CommitSteps, Zfs, ModifyDisk, Prepared
<1> USE DEF IInv, TypeOK, OperatorInv, VmInv, ImageInv
<1>1. ASSUME Install PROVE Discard
  BY <1>1 DEF Install
<1>2. ASSUME DeleteVm0Volume PROVE Stutter
  BY <1>2 DEF DeleteVm0Volume
<1>3. ASSUME CreateVm0Volume PROVE Stutter
  BY <1>3 DEF CreateVm0Volume
<1>4. ASSUME CreateVm0 PROVE Edit
  BY <1>4 DEF CreateVm0, New, Unused
<1>5. ASSUME GuestWorks PROVE Edit
  BY <1>5 DEF GuestWorks, New, Unused
<1>6. ASSUME PostInstall PROVE Publish
  BY <1>6 DEF PostInstall
<1>7. ASSUME SnapshotVm0Volume PROVE Stutter
  BY <1>7 DEF SnapshotVm0Volume, CanSnapshot
<1>8. ASSUME ImportSnapshot PROVE Withdraw
  BY <1>8 DEF ImportSnapshot
<1>9. ASSUME CreateTank PROVE Stutter
  BY <1>9 DEF CreateTank, CanCreateTank
<1>10. ASSUME ImportVm0 PROVE Edit
  BY <1>10 DEF ImportVm0, BaseRewritten, New, Unused
<1>11. ASSUME ImportMemory PROVE Publish
  BY <1>11 DEF ImportMemory, Complete
<1>12. ASSUME NEW c \in BOOLEAN, BeginModify(c) PROVE Discard
  BY <1>12 DEF BeginModify
<1>12a. ASSUME DeleteOldModify PROVE Stutter
  BY <1>12a DEF DeleteOldModify
<1>13. ASSUME InitializeVm0Modify PROVE Stutter
  BY <1>13 DEF InitializeVm0Modify, CanInitialize
<1>14. ASSUME LaunchVm0 PROVE Edit \/ Discard
  BY <1>14 DEF LaunchVm0, CanLaunch
<1>15. ASSUME CommitSave PROVE Stutter
  BY <1>15 DEF CommitSave
<1>16. ASSUME CommitStorage PROVE Stutter
  BY <1>16 DEF CommitStorage
<1>17. ASSUME DropOverlay PROVE Stutter
  BY <1>17 DEF DropOverlay
<1>18. ASSUME MoveSnapshot PROVE Publish
  BY <1>18 DEF MoveSnapshot
<1>19. ASSUME Profiled PROVE Stutter
  BY <1>19 DEF Profiled, Complete
<1>20. ASSUME Rollback PROVE Discard
  BY <1>20 DEF Rollback
<1>21. ASSUME DeleteVm0Modify PROVE Stutter
  BY <1>21 DEF DeleteVm0Modify, Complete
<1>22. ASSUME CommandFails PROVE Discard \/ Stutter
  BY <1>22 DEF CommandFails, Refused, CanSnapshot
<1>23. ASSUME NEW v \in Vms, Restore(v) PROVE Stop(v)
  BY <1>23 DEF Restore
<1>24. ASSUME NEW v \in Vms, RemoveVolume(v) PROVE Stutter
  BY <1>24 DEF RemoveVolume
<1>25. ASSUME NEW v \in Vms, CloneVolume(v) PROVE Stutter
  BY <1>25 DEF CloneVolume
<1>26. ASSUME NEW v \in Vms, SnapshotVolume(v) PROVE Stutter
  BY <1>26 DEF SnapshotVolume
<1>27. ASSUME NEW v \in Vms, RevertVolume(v) PROVE Stutter
  BY <1>27 DEF RevertVolume
<1>28. ASSUME NEW v \in Vms, StartVm(v) PROVE Start(v)
  BY <1>28 DEF StartVm
<1>29. ASSUME NEW v \in Vms, VmWorks(v) PROVE Use(v)
  BY <1>29 DEF VmWorks
<1>30. ASSUME NEW v \in Vms, DestroyVm(v) PROVE Stop(v)
  BY <1>30 DEF DestroyVm
<1>31. ASSUME NEW v \in Vms, RestoreFails(v) PROVE Stutter
  BY <1>31 DEF RestoreFails
<1>32. ASSUME NEW v \in Vms, StopVm(v) PROVE Stop(v)
  BY <1>32 DEF StopVm
<1> QED
  BY <1>1, <1>2, <1>3, <1>4, <1>5, <1>6, <1>7, <1>8, <1>9, <1>10, <1>11, <1>12, <1>12a, <1>13,
     <1>14, <1>15, <1>16, <1>17, <1>18, <1>19, <1>20, <1>21, <1>22, <1>23, <1>24, <1>25,
     <1>26, <1>27, <1>28, <1>29, <1>30, <1>31, <1>32 DEF Next, Operate, Analyse

(* On every backend, installing, modifying, committing, rolling back and    *)
(* restoring implement BaseImage: one image, replaced as a whole or not at  *)
(* all, from which every VM starts afresh.                                  *)
THEOREM Refinement ==
  ASSUME Failing \cap CommitSteps = {} PROVE Spec => ImplementsBaseImage
<1>1. Init => Promise!Init
  BY DEF Init, Promise!Init, Guest
<1>2. IInv /\ IInv' /\ [Next]_vars => [Promise!Next]_(Promise!vars)
  <2>1. ASSUME UNCHANGED vars PROVE UNCHANGED Promise!vars
    BY <2>1 DEF vars, control, disks, memory, Promise!vars, Guest, Sound, DiskOf
  <2> QED  BY <2>1, StepImplements
<1> QED  BY Inductive, <1>1, <1>2, PTL DEF Spec, ImplementsBaseImage, Promise!Spec
=============================================================================
