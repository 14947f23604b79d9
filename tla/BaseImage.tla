----------------------------- MODULE BaseImage -----------------------------
(***************************************************************************)
(* What vm-0 is for: one image from which every other VM starts, and a     *)
(* draft that becomes the image as a whole or not at all.                  *)
(***************************************************************************)
CONSTANTS
  Vms,        (* the VMs that run analyses                                 *)
  Versions,   (* the states a guest can be prepared in                     *)
  Used,       (* the state of a guest that ran a sample                    *)
  Absent      (* no image, no draft, no guest                              *)

VARIABLES
  image,      (* the image, memory and disk                                *)
  draft,      (* vm-0 while it is installed or modified                    *)
  guest       (* what runs in each VM                                      *)

vars == <<image, draft, guest>>

Init ==
  /\ image = Absent
  /\ draft = Absent
  /\ guest = [v \in Vms |-> Absent]

(* A draft starts from scratch, from the image or from one that was         *)
(* exported, and is worked on.                                              *)
Edit ==
  /\ draft' \in Versions
  /\ UNCHANGED <<image, guest>>

(* The draft is given up; it stops running.                                 *)
Discard ==
  /\ draft' = Absent
  /\ UNCHANGED <<image, guest>>

Publish ==
  /\ draft # Absent
  /\ image' = draft
  /\ draft' = Absent
  /\ UNCHANGED guest

(* The image is taken away, before another is brought, while nothing runs.  *)
Withdraw ==
  /\ \A v \in Vms : guest[v] = Absent
  /\ image' = Absent
  /\ UNCHANGED <<draft, guest>>

(* Every guest starts as the image is now, whatever ran there before.       *)
Start(v) ==
  /\ guest[v] = Absent
  /\ image # Absent
  /\ guest' = [guest EXCEPT ![v] = image]
  /\ UNCHANGED <<image, draft>>

Use(v) ==
  /\ guest[v] # Absent
  /\ guest' = [guest EXCEPT ![v] = Used]
  /\ UNCHANGED <<image, draft>>

Stop(v) ==
  /\ guest' = [guest EXCEPT ![v] = Absent]
  /\ UNCHANGED <<image, draft>>

Next ==
  \/ Edit \/ Discard \/ Publish \/ Withdraw
  \/ \E v \in Vms : Start(v) \/ Use(v) \/ Stop(v)

Spec == Init /\ [][Next]_vars
============================================================================
