---------------------------- MODULE JobRegistry ----------------------------
(***************************************************************************)
(* The jobs of the analysis queue as Redis keeps them: rq's queue, its     *)
(* three registries and the moves between them.  This is rq, seen from     *)
(* drakrun/analyzer/worker.py, which enqueues, lists and deletes jobs.     *)
(***************************************************************************)
EXTENDS Naturals, FiniteSets, Sequences

CONSTANT Jobs   (* the ids of the jobs                                      *)

ASSUME JobsAssumption == IsFiniteSet(Jobs)

VARIABLES
  rq,      (* where each job is in Redis                                    *)
  order    (* the jobs by the time they were enqueued                       *)

registry == <<rq, order>>

(* "popped": taken off the queue and not yet in the started registry.       *)
Pending  == {"queued", "popped", "started"}
Terminal == {"finished", "failed"}
Places   == Pending \cup Terminal \cup {"absent"}

InitRegistry == rq = [j \in Jobs |-> "absent"] /\ order = <<>>

Position(i) == CHOOSE n \in 1..Len(order) : order[n] = i
Enqueued    == {j \in Jobs : \E n \in 1..Len(order) : order[n] = j}
InQueue     == {j \in Jobs : rq[j] = "queued"}
Oldest(j)   == j \in InQueue /\ \A i \in InQueue : Position(j) <= Position(i)

Move(j, from, to) ==
  /\ rq[j] \in from
  /\ rq' = [rq EXCEPT ![j] = to]

Enqueue(j) ==
  /\ j \notin Enqueued
  /\ Move(j, {"absent"}, "queued")
  /\ order' = Append(order, j)

(* A worker takes the oldest job off the queue, then registers it as        *)
(* started.                                                                 *)
Pop(j)   == Oldest(j) /\ Move(j, {"queued"}, "popped") /\ UNCHANGED order
Start(j) == Move(j, {"popped"}, "started") /\ UNCHANGED order
Finish(j) == Move(j, {"started"}, "finished") /\ UNCHANGED order

(* The job raised or was lost with its worker: rq's maintenance fails jobs  *)
(* that nobody runs any more.                                               *)
Fail(j) == Move(j, {"popped", "started"}, "failed") /\ UNCHANGED order

(* Jobs that have ended are deleted, some at a time.                        *)
Delete(J) ==
  /\ \A j \in J : rq[j] \in Terminal
  /\ rq' = [j \in Jobs |-> IF j \in J THEN "absent" ELSE rq[j]]
  /\ UNCHANGED order

Advance(j) == Enqueue(j) \/ Pop(j) \/ Start(j) \/ Finish(j) \/ Fail(j)

NextRegistry == (\E j \in Jobs : Advance(j)) \/ (\E J \in SUBSET Jobs : Delete(J))

SpecRegistry == InitRegistry /\ [][NextRegistry]_registry
============================================================================
