---------------------------- MODULE AnalysisList ----------------------------
(***************************************************************************)
(* The list of recent analyses (get_analyses_list, truncate_analysis_list  *)
(* in drakrun/analyzer/worker.py).  Every upload and every GET /list reads *)
(* it, in calls to Redis between which jobs go on moving; an upload then   *)
(* deletes what is beyond the limit.                                       *)
(***************************************************************************)
EXTENDS JobRegistry

CONSTANTS
  Listers,  (* the requests that read the list, one listing after the other *)
  Limits    (* the values of ANALYSES_LIST_MAX_LENGTH considered            *)

ASSUME LimitsAssumption == Limits \subseteq Nat

VARIABLES
  Limit,    (* ANALYSES_LIST_MAX_LENGTH, the same for ever                  *)
  lister,   (* what each request reads next                                 *)
  seen,     (* how often each job has been read by the listing; of these    *)
            (* entries, those a truncation has still to look at             *)
  before    (* ghost: the jobs that could be read when the listing began;   *)
            (* of these, those that had ended when the truncation began     *)

listing == <<lister, seen, before>>
vars    == <<Limit, registry, listing>>

Init ==
  /\ InitRegistry
  /\ Limit \in Limits
  /\ lister = [l \in Listers |-> "idle"]
  /\ seen = [l \in Listers |-> [j \in Jobs |-> 0]]
  /\ before = [l \in Listers |-> {}]

(* Mutant of ReadOrder: the registries are read against the jobs' way.      *)
BackwardOrder == [l \in {"idle", "started", "finished", "failed"} |->
  CASE l = "idle"     -> [place |-> "failed",   next |-> "started"]
    [] l = "started"  -> [place |-> "finished", next |-> "finished"]
    [] l = "finished" -> [place |-> "started",  next |-> "failed"]
    [] OTHER          -> [place |-> "queued",   next |-> "listed"]]

(* Mutant of ReadOrder: the listing begins again after the failed jobs.     *)
EndlessOrder == [l \in {"idle", "started", "finished", "failed"} |->
  CASE l = "idle"     -> [place |-> "queued",   next |-> "started"]
    [] l = "started"  -> [place |-> "started",  next |-> "finished"]
    [] l = "finished" -> [place |-> "finished", next |-> "failed"]
    [] OTHER          -> [place |-> "failed",   next |-> "started"]]

(* get_analyses_list reads the queue and then the three registries, each at *)
(* a time of its own.                                                       *)
ReadOrder == [l \in {"idle", "started", "finished", "failed"} |->
  CASE l = "idle"     -> [place |-> "queued",   next |-> "started"]
    [] l = "started"  -> [place |-> "started",  next |-> "finished"]
    [] l = "finished" -> [place |-> "finished", next |-> "failed"]
    [] OTHER          -> [place |-> "failed",   next |-> "listed"]]

ReadRegistry(l) ==
  /\ lister[l] \in DOMAIN ReadOrder
  /\ LET r == ReadOrder[lister[l]] IN
     /\ seen' = [seen EXCEPT ![l] =
                   [j \in Jobs |-> IF rq[j] = r.place THEN @[j] + 1 ELSE @[j]]]
     /\ lister' = [lister EXCEPT ![l] = r.next]
  /\ before' = IF lister[l] = "idle"
               THEN [before EXCEPT ![l] = {j \in Jobs : rq[j] \notin {"absent", "popped"}}]
               ELSE before
  /\ UNCHANGED <<Limit, registry>>

(* The entries of a listing: the first, second and third time a job is read. *)
Entries(s) == UNION {{j} \X (1..s[j]) : j \in Jobs}

(* Mutant of EntriesDownTo: the list is sorted oldest first.                *)
OldestFirst(s, j) == Cardinality({e \in Entries(s) : Position(e[1]) <= Position(j)})

(* The entries as new as j or newer: a job read twice counts twice.         *)
EntriesDownTo(s, j) == Cardinality({e \in Entries(s) : Position(e[1]) >= Position(j)})

(* Mutant of BeyondLimit: one entry too many is kept.                       *)
KeepOneMore(s) == [j \in Jobs |->
  LET n == EntriesDownTo(s, j) - (Limit + 1)
  IN IF s[j] = 0 \/ n <= 0 THEN 0
     ELSE IF n > s[j] THEN s[j]
     ELSE n]

(* How many of a job's entries come after the first Limit, newest first.    *)
BeyondLimit(s) == [j \in Jobs |->
  LET n == EntriesDownTo(s, j) - Limit
  IN IF s[j] = 0 \/ n <= 0 THEN 0
     ELSE IF n > s[j] THEN s[j]
     ELSE n]

(* The jobs with an entry the truncation has still to look at.              *)
Left(l) == {j \in Jobs : seen[l][j] > 0}

Ended == {j \in Jobs : rq[j] \in Terminal}

Forget(l) ==
  /\ lister' = [lister EXCEPT ![l] = "idle"]
  /\ seen' = [seen EXCEPT ![l] = [j \in Jobs |-> 0]]
  /\ before' = [before EXCEPT ![l] = {}]
  /\ UNCHANGED <<Limit, registry>>

(* GET /list answers with what was read.                                    *)
ListAnalyses(l) == lister[l] = "listed" /\ Forget(l)

(* truncate_analysis_list keeps the entries after the first Limit.          *)
BeginTruncation(l) ==
  /\ lister[l] = "listed"
  /\ lister' = [lister EXCEPT ![l] = "truncating"]
  /\ seen' = [seen EXCEPT ![l] = BeyondLimit(seen[l])]
  /\ before' = [before EXCEPT ![l] = @ \cap Ended]
  /\ UNCHANGED <<Limit, registry>>

(* It asks Redis for the status of one after the other, newest first, and   *)
(* deletes the job if it has ended.  What has ended stays so until it is    *)
(* deleted: the question and the deletion are one step.                     *)
TruncateNext(l) ==
  /\ lister[l] = "truncating"
  /\ \E j \in Left(l) :
       /\ \A i \in Left(l) : Position(i) <= Position(j)
       /\ seen' = [seen EXCEPT ![l][j] = @ - 1]
       /\ Delete({j} \cap Ended)
  /\ UNCHANGED <<Limit, lister, before>>

EndTruncation(l) ==
  /\ lister[l] = "truncating"
  /\ Left(l) = {}
  /\ Forget(l)

Next ==
  \/ \E j \in Jobs : Advance(j) /\ UNCHANGED <<Limit, listing>>
  \/ \E l \in Listers : ReadRegistry(l) \/ ListAnalyses(l)
                        \/ BeginTruncation(l) \/ TruncateNext(l) \/ EndTruncation(l)

Spec == Init /\ [][Next]_vars

----------------------------------------------------------------------------
(* Properties                                                               *)

(* A listing reads a job three times at most: in the queue, as started, and *)
(* once it has ended.                                                       *)
TypeOK ==
  /\ Limit \in Limits
  /\ rq \in [Jobs -> Places]
  /\ order \in Seq(Jobs)
  /\ lister \in [Listers -> {"idle", "started", "finished", "failed", "listed",
                          "truncating"}]
  /\ seen \in [Listers -> [Jobs -> 0..3]]
  /\ before \in [Listers -> SUBSET Jobs]

(* A listing misses no job that could be read when it began and is still    *)
(* there when it ends, wherever the job has moved meanwhile: the registries *)
(* are read in the order jobs pass through them.                            *)
ListMissesNothing ==
  \A l \in Listers : lister[l] = "listed" =>
    \A j \in before[l] : rq[j] # "absent" => seen[l][j] > 0

(* Truncation bounds the list: of the jobs that had ended when it had read  *)
(* the list, no more than Limit are left when it is through, whatever other *)
(* requests delete and wherever the rest moves meanwhile.  (A job that ends *)
(* after it was looked at stays until the next upload.)                     *)
TruncationBounds ==
  \A l \in Listers : lister[l] = "truncating" /\ Left(l) = {} =>
    Cardinality(before[l] \cap Ended) <= Limit

(* A job deleted by truncation had so many newer ones that, each read three *)
(* times, they exceed the limit: whatever the races, the newest third of    *)
(* the list is safe.                                                        *)
NewestThirdKept ==
  [][\A j \in Jobs : rq[j] # "absent" /\ rq'[j] = "absent" =>
       3 * Cardinality({i \in Enqueued : Position(i) >= Position(j)}) > Limit]_vars
============================================================================
