------------------------- MODULE AnalysisListProofs -------------------------
(***************************************************************************)
(* Proofs about AnalysisList: for any number of jobs and of requests that  *)
(* read the list at the same time, and any limit.                          *)
(***************************************************************************)
EXTENDS AnalysisList, FiniteSetTheorems, WellFoundedInduction, TLAPS

(* A job that left Redis does not come back.                                *)
OnceEnqueued == \A j \in Jobs : rq[j] # "absent" => j \in Enqueued

(* How often a job can have been read when the next registry is read.       *)
ReadAtMost ==
  \A l \in Listers, j \in Jobs :
    /\ lister[l] = "idle" => seen[l][j] = 0
    /\ lister[l] = "started" => seen[l][j] <= 1
    /\ lister[l] = "finished" => seen[l][j] <= 2
    /\ lister[l] = "failed" /\ seen[l][j] = 3 => rq[j] \in {"finished", "absent"}
    /\ seen[l][j] > 0 => j \in Enqueued

(* While the list is truncated, each job with entries left to be looked at  *)
(* has so many newer ones that, each read three times, they exceed the      *)
(* limit; and of the jobs that had ended when the truncation began, no more *)
(* than Limit are still there without an entry ahead.                       *)
NewerThan(j) == {i \in Enqueued : Position(i) >= Position(j)}
Spared(l) == {j \in before[l] \cap Ended : seen[l][j] = 0}

Truncating(l) ==
  lister[l] = "truncating" =>
    /\ \A j \in Left(l) : 3 * Cardinality(NewerThan(j)) > Limit
    /\ Cardinality(Spared(l)) <= Limit
    /\ \A j \in before[l] : rq[j] \in Terminal \cup {"absent"}

AllTruncating == \A l \in Listers : Truncating(l)

(* A job not read so far has gone ahead of the listing, or it is gone.      *)
UnreadIsAhead ==
  \A l \in Listers : \A j \in before[l] :
    /\ lister[l] # "idle" /\ j \in Enqueued
    /\ seen[l][j] = 0 =>
         /\ lister[l] = "started"  => rq[j] \in {"started", "finished", "failed", "absent"}
         /\ lister[l] = "finished" => rq[j] \in {"finished", "failed", "absent"}
         /\ lister[l] = "failed"   => rq[j] \in {"failed", "absent"}
         /\ lister[l] = "listed"   => rq[j] = "absent"

(* No job is enqueued twice.                                                *)
Distinct == \A m, n \in 1..Len(order) : order[m] = order[n] => m = n

IInv == /\ TypeOK /\ OnceEnqueued /\ Distinct
        /\ ReadAtMost /\ UnreadIsAhead /\ AllTruncating

----------------------------------------------------------------------------
(* What any step does to the registries, job by job.                        *)
OneMove(j) ==
  \/ rq'[j] = rq[j]
  \/ rq[j] = "absent" /\ rq'[j] = "queued" /\ j \notin Enqueued /\ j \in Enqueued'
  \/ rq[j] = "queued" /\ rq'[j] = "popped"
  \/ rq[j] = "popped" /\ rq'[j] \in {"started", "failed"}
  \/ rq[j] = "started" /\ rq'[j] \in {"finished", "failed"}
  \/ rq[j] \in {"finished", "failed"} /\ rq'[j] = "absent"

Moved ==
  /\ rq' \in [Jobs -> Places] /\ order' \in Seq(Jobs) /\ Distinct'
  /\ Enqueued \subseteq Enqueued'
  /\ \A j \in Enqueued : Position(j)' = Position(j)
  /\ \A j \in Jobs : OneMove(j)

(* Each job has its place in the order of the uploads.                      *)
LEMMA PositionIs ==
  ASSUME order \in Seq(Jobs), NEW j \in Enqueued
  PROVE  /\ Position(j) \in 1..Len(order) /\ Position(j) \in Nat
         /\ order[Position(j)] = j
<1>1. \E n \in 1..Len(order) : order[n] = j
  BY DEF Enqueued
<1>2. Position(j) \in 1..Len(order) /\ order[Position(j)] = j
  BY <1>1 DEF Position
<1>3. Len(order) \in Nat
  OBVIOUS
<1> QED  BY <1>2, <1>3

(* Enqueueing adds one job behind those that were ever enqueued.            *)
LEMMA EnqueuedAppend ==
  ASSUME order \in Seq(Jobs), Distinct, NEW j \in Jobs, j \notin Enqueued,
         order' = Append(order, j)
  PROVE  /\ Enqueued' = Enqueued \cup {j} /\ Distinct'
         /\ \A i \in Enqueued : Position(i)' = Position(i)
<1>1. Len(order') = Len(order) + 1 /\ Len(order) \in Nat
  OBVIOUS
<1>2. order'[Len(order) + 1] = j /\ \A n \in 1..Len(order) : order'[n] = order[n]
  OBVIOUS
<1>3. Enqueued' = Enqueued \cup {j}
  BY <1>1, <1>2 DEF Enqueued
<1>4. \A n \in 1..Len(order) : order[n] # j
  BY DEF Enqueued
<1>5. Distinct'
  <2> SUFFICES ASSUME NEW m \in 1..Len(order'), NEW n \in 1..Len(order'),
                      order'[m] = order'[n]
               PROVE  m = n
    BY DEF Distinct
  <2>1. /\ m \in 1..Len(order) \/ m = Len(order) + 1
        /\ n \in 1..Len(order) \/ n = Len(order) + 1
    BY <1>1
  <2> QED  BY <1>2, <1>4, <2>1 DEF Distinct
<1>6. ASSUME NEW i \in Enqueued PROVE Position(i)' = Position(i)
  <2>1. Position(i) \in 1..Len(order) /\ order[Position(i)] = i
    BY PositionIs
  <2>2. Position(i) \in 1..Len(order') /\ order'[Position(i)] = i
    BY <1>1, <1>2, <2>1
  <2>3. Position(i)' \in 1..Len(order') /\ order'[Position(i)'] = i
    BY <2>2 DEF Position
  <2> QED  BY <1>5, <2>2, <2>3 DEF Distinct
<1> QED  BY <1>3, <1>5, <1>6

LEMMA AdvanceMoves ==
  ASSUME TypeOK, Distinct, NEW j \in Jobs, Advance(j) PROVE Moved
<1>1. CASE Enqueue(j)
  <2>1. /\ order \in Seq(Jobs) /\ j \notin Enqueued /\ order' = Append(order, j)
        /\ rq[j] = "absent" /\ rq' = [rq EXCEPT ![j] = "queued"]
    BY <1>1 DEF Enqueue, Move, TypeOK
  <2>2. /\ Enqueued' = Enqueued \cup {j} /\ Distinct'
        /\ \A i \in Enqueued : Position(i)' = Position(i)
    BY <2>1, EnqueuedAppend
  <2>3. rq' \in [Jobs -> Places] /\ order' \in Seq(Jobs)
    BY <2>1 DEF TypeOK, Places, Pending
  <2>4. \A i \in Jobs : OneMove(i)
    BY <2>1, <2>2 DEF TypeOK, OneMove
  <2> QED  BY <2>2, <2>3, <2>4 DEF Moved
<1>2. CASE Pop(j) \/ Start(j) \/ Finish(j) \/ Fail(j)
  <2>1. UNCHANGED order
    BY <1>2 DEF Pop, Start, Finish, Fail
  <2>2. Enqueued' = Enqueued /\ Distinct' /\ \A i \in Enqueued : Position(i)' = Position(i)
    BY <2>1 DEF Enqueued, Distinct, Position
  <2> QED  BY <1>2, <2>1, <2>2 DEF Pop, Start, Finish, Fail, TypeOK, Moved, OneMove,
             Move, Places, Pending, Terminal
<1> QED  BY <1>1, <1>2 DEF Advance

LEMMA DeleteMoves ==
  ASSUME TypeOK, Distinct, NEW J, Delete(J) PROVE Moved /\ Enqueued' = Enqueued
<1>1. UNCHANGED order
  BY DEF Delete
<1>2. Enqueued' = Enqueued /\ Distinct' /\ \A i \in Enqueued : Position(i)' = Position(i)
  BY <1>1 DEF Enqueued, Distinct, Position
<1> QED  BY <1>1, <1>2 DEF Delete, TypeOK, Moved, OneMove, Places, Pending, Terminal

LEMMA StayMoves ==
  ASSUME TypeOK, Distinct, UNCHANGED registry
  PROVE  Moved /\ Enqueued' = Enqueued /\ Ended' = Ended
<1>1. Enqueued' = Enqueued /\ Distinct' /\ \A i \in Enqueued : Position(i)' = Position(i)
  BY DEF registry, Enqueued, Distinct, Position
<1> QED  BY <1>1 DEF registry, Ended, TypeOK, Moved, OneMove

(* The jobs enqueued after a job only become more.                          *)
LEMMA NewerGrow ==
  ASSUME Moved, NEW j \in Enqueued
  PROVE  /\ Cardinality(NewerThan(j)) \in Nat
         /\ Cardinality(NewerThan(j)') \in Nat
         /\ Cardinality(NewerThan(j)) <= Cardinality(NewerThan(j)')
<1>1. NewerThan(j)' = {i \in Enqueued' : Position(i)' >= Position(j)'}
  BY DEF NewerThan
<1>2. NewerThan(j) \in SUBSET NewerThan(j)'
  BY <1>1 DEF Moved, NewerThan
<1>3. NewerThan(j)' \in SUBSET Jobs
  BY <1>1 DEF Enqueued
<1> HIDE DEF NewerThan
<1> QED  BY <1>2, <1>3, JobsAssumption, FS_Subset, FS_CardinalityType

----------------------------------------------------------------------------
LEMMA InitInv == Init => IInv
<1> SUFFICES ASSUME Init PROVE IInv
  OBVIOUS
<1>1. TypeOK
  BY DEF Init, InitRegistry, TypeOK, Places
<1>2. OnceEnqueued /\ Distinct /\ ReadAtMost /\ UnreadIsAhead /\ AllTruncating
  BY DEF Init, InitRegistry, OnceEnqueued, Distinct, ReadAtMost, UnreadIsAhead,
     AllTruncating, Truncating
<1> QED  BY <1>1, <1>2 DEF IInv

(* What a truncation under way can rely on survives every move of the jobs, *)
(* as long as the entries it has looked at are of jobs that are gone.       *)
LEMMA TruncatingKeeps ==
  ASSUME IInv, Moved, NEW l \in Listers, lister[l] = "truncating",
         Limit' = Limit, before'[l] = before[l],
         \A j \in Jobs : seen'[l][j] > 0 => seen[l][j] > 0,
         \A j \in Jobs : seen'[l][j] = 0 => seen[l][j] = 0 \/ rq'[j] \notin Terminal
  PROVE  Truncating(l)'
<1>1. /\ Limit \in Nat /\ before[l] \subseteq Jobs /\ Truncating(l)
      /\ \A j \in before[l] : j \in Enqueued
  BY LimitsAssumption DEF IInv, TypeOK, AllTruncating, UnreadIsAhead
<1>2. ASSUME NEW j \in Jobs, seen'[l][j] > 0
      PROVE  3 * Cardinality(NewerThan(j)') > Limit
  <2>1. seen[l][j] > 0
    BY <1>2
  <2>2. j \in Enqueued /\ 3 * Cardinality(NewerThan(j)) > Limit
    BY <1>1, <2>1 DEF IInv, ReadAtMost, Truncating, Left
  <2>3. /\ Cardinality(NewerThan(j)) \in Nat /\ Cardinality(NewerThan(j)') \in Nat
        /\ Cardinality(NewerThan(j)) <= Cardinality(NewerThan(j)')
    BY <2>2, NewerGrow
  <2> QED  BY <1>1, <2>2, <2>3
<1>3. ASSUME NEW j \in before[l]
      PROVE  /\ rq'[j] \in Terminal \cup {"absent"}
             /\ rq'[j] \in Terminal => rq[j] \in Terminal
  <2>1. j \in Jobs /\ j \in Enqueued /\ rq[j] \in Terminal \cup {"absent"}
    BY <1>1 DEF Truncating
  <2>2. OneMove(j)
    BY <2>1 DEF Moved
  <2> QED  BY <2>1, <2>2 DEF OneMove, Terminal
<1>4. Cardinality(Spared(l)') <= Limit
  <2>1. Spared(l)' \in SUBSET Spared(l)
    BY <1>1, <1>3 DEF Spared, Ended
  <2>2. Spared(l) \in SUBSET Jobs /\ Cardinality(Spared(l)) <= Limit
    BY <1>1 DEF Spared, Truncating
  <2> HIDE DEF Spared
  <2>3. IsFiniteSet(Spared(l))
    BY <2>2, JobsAssumption, FS_Subset
  <2>4. /\ Cardinality(Spared(l)') \in Nat /\ Cardinality(Spared(l)) \in Nat
        /\ Cardinality(Spared(l)') <= Cardinality(Spared(l))
    BY <2>1, <2>3, FS_Subset, FS_CardinalityType
  <2> QED  BY <1>1, <2>2, <2>4
<1>5. \A j \in Left(l)' : j \in Jobs /\ seen'[l][j] > 0
  BY DEF Left
<1> HIDE DEF Left
<1> QED  BY <1>2, <1>3, <1>4, <1>5 DEF Truncating

(* The jobs move on, and nothing is read.                                   *)
LEMMA MovesKeep ==
  ASSUME IInv, Moved, UNCHANGED <<Limit, listing>> PROVE IInv'
<1> USE DEF IInv, Moved, OneMove, listing
<1>1. TypeOK'
  BY DEF TypeOK
<1>2. OnceEnqueued'
  BY DEF OnceEnqueued
<1>3. ReadAtMost'
  <2> SUFFICES ASSUME NEW l \in Listers, NEW j \in Jobs
               PROVE  /\ seen[l][j] > 0 => j \in Enqueued'
                      /\ lister[l] = "failed" /\ seen[l][j] = 3 => rq'[j] \in {"finished", "absent"}
    BY DEF ReadAtMost
  <2>1. seen[l][j] \in 0..3
    BY DEF TypeOK
  <2> QED  BY <2>1 DEF ReadAtMost
<1>4. UnreadIsAhead'
  BY DEF UnreadIsAhead, TypeOK
<1>5. AllTruncating'
  <2> SUFFICES ASSUME NEW l \in Listers, lister[l] = "truncating" PROVE Truncating(l)'
    BY DEF AllTruncating, Truncating
  <2> QED  BY TruncatingKeeps
<1> QED  BY <1>1, <1>2, <1>3, <1>4, <1>5

(* A step of one request that is not a deletion leaves the truncations of   *)
(* the others as they are.                                                  *)
LEMMA OthersKeep ==
  ASSUME IInv, Moved, NEW l \in Listers, NEW i \in Listers, i # l, Limit' = Limit,
         lister'[i] = lister[i], seen'[i] = seen[i], before'[i] = before[i]
  PROVE  Truncating(i)'
<1>1. CASE lister[i] = "truncating"
  BY <1>1, TruncatingKeeps
<1>2. CASE lister[i] # "truncating"
  BY <1>2 DEF Truncating
<1> QED  BY <1>1, <1>2

(* One registry is read.                                                    *)
LEMMA ReadKeeps ==
  ASSUME IInv, NEW l \in Listers, ReadRegistry(l) PROVE IInv'
<1> DEFINE place == ReadOrder[lister[l]].place
           next  == ReadOrder[lister[l]].next
<1>1. /\ lister[l] = "idle"     => place = "queued"   /\ next = "started"
      /\ lister[l] = "started"  => place = "started"  /\ next = "finished"
      /\ lister[l] = "finished" => place = "finished" /\ next = "failed"
      /\ lister[l] = "failed"   => place = "failed"   /\ next = "listed"
      /\ lister[l] \in {"idle", "started", "finished", "failed"}
  BY DEF ReadRegistry, ReadOrder
<1>2. /\ UNCHANGED <<Limit, rq, order>>
      /\ lister' = [lister EXCEPT ![l] = next]
      /\ seen' = [seen EXCEPT ![l] =
                    [j \in Jobs |-> IF rq[j] = place THEN seen[l][j] + 1 ELSE seen[l][j]]]
      /\ before' = IF lister[l] = "idle"
                   THEN [before EXCEPT ![l] = {j \in Jobs : rq[j] \notin {"absent", "popped"}}]
                   ELSE before
  BY DEF ReadRegistry, registry, IInv, TypeOK
<1> HIDE DEF place, next
<1>m. Moved /\ Enqueued' = Enqueued
  BY <1>2, StayMoves DEF IInv, registry
<1>3. ReadAtMost'
  BY <1>1, <1>2, <1>m DEF IInv, TypeOK, ReadAtMost, OnceEnqueued
<1>4. TypeOK'
  <2>1. \A j \in Jobs : seen'[l][j] \in 0..3
    BY <1>1, <1>2 DEF IInv, TypeOK, ReadAtMost
  <2>2. seen' \in [Listers -> [Jobs -> 0..3]]
    BY <1>2, <2>1 DEF IInv, TypeOK
  <2> QED  BY <1>1, <1>2, <2>2 DEF IInv, TypeOK
<1>5. UnreadIsAhead'
  <2> SUFFICES ASSUME NEW i \in Listers, NEW j \in before'[i]
               PROVE  /\ lister'[i] # "idle" /\ j \in Enqueued
                      /\ seen'[i][j] = 0 =>
                           /\ lister'[i] = "started"  => rq[j] \in {"started", "finished", "failed", "absent"}
                           /\ lister'[i] = "finished" => rq[j] \in {"finished", "failed", "absent"}
                           /\ lister'[i] = "failed"   => rq[j] \in {"failed", "absent"}
                           /\ lister'[i] = "listed"   => rq[j] = "absent"
    BY <1>2, <1>m DEF UnreadIsAhead
  <2>1. CASE i # l
    BY <1>2, <2>1 DEF IInv, TypeOK, UnreadIsAhead
  <2>2. CASE i = l
    <3>1. j \in Jobs /\ rq[j] \in Places /\ seen[l][j] \in 0..3 /\ lister'[l] = next
      BY <1>2, <2>2 DEF IInv, TypeOK
    <3>2. seen'[l][j] = IF rq[j] = place THEN seen[l][j] + 1 ELSE seen[l][j]
      BY <1>2, <3>1 DEF IInv, TypeOK
    <3>3. seen'[l][j] = 0 => rq[j] # place /\ seen[l][j] = 0
      BY <3>1, <3>2
    <3>4. CASE lister[l] = "idle"
      <4>1. rq[j] \notin {"absent", "popped"}
        BY <1>2, <2>2, <3>4 DEF IInv, TypeOK
      <4> QED  BY <1>1, <2>2, <3>1, <3>3, <3>4, <4>1
                DEF IInv, OnceEnqueued, Places, Pending, Terminal
    <3>5. CASE lister[l] # "idle"
      <4>1. j \in before[l]
        BY <1>2, <2>2, <3>5
      <4> QED  BY <1>1, <2>2, <3>1, <3>3, <3>5, <4>1 DEF IInv, UnreadIsAhead
    <3> QED  BY <3>4, <3>5
  <2> QED  BY <2>1, <2>2
<1>6. OnceEnqueued' /\ Distinct'
  BY <1>2, <1>m DEF IInv, OnceEnqueued, Moved
<1>7. AllTruncating'
  <2>1. ASSUME NEW i \in Listers, i # l PROVE Truncating(i)'
    <3>1. Limit' = Limit /\ lister'[i] = lister[i] /\ seen'[i] = seen[i] /\ before'[i] = before[i]
      BY <1>2, <2>1 DEF IInv, TypeOK
    <3> QED  BY <1>m, <2>1, <3>1, OthersKeep
  <2>2. Truncating(l)'
    BY <1>1, <1>2 DEF IInv, TypeOK, Truncating
  <2> QED  BY <2>1, <2>2 DEF AllTruncating
<1> QED  BY <1>3, <1>4, <1>5, <1>6, <1>7 DEF IInv

(* The request is answered.                                                 *)
LEMMA ForgetKeeps ==
  ASSUME IInv, NEW l \in Listers, Forget(l) PROVE IInv'
<1>1. /\ UNCHANGED <<Limit, registry>>
      /\ lister' = [lister EXCEPT ![l] = "idle"]
      /\ seen' = [seen EXCEPT ![l] = [j \in Jobs |-> 0]]
      /\ before' = [before EXCEPT ![l] = {}]
  BY DEF Forget
<1>2. Moved /\ Enqueued' = Enqueued
  BY <1>1, StayMoves DEF IInv
<1>3. TypeOK' /\ OnceEnqueued' /\ Distinct'
  BY <1>1, <1>2 DEF IInv, TypeOK, OnceEnqueued, registry, Moved
<1>4. ReadAtMost'
  BY <1>1, <1>2 DEF IInv, TypeOK, ReadAtMost, registry
<1>5. UnreadIsAhead'
  BY <1>1, <1>2 DEF IInv, TypeOK, UnreadIsAhead, registry
<1>6. AllTruncating'
  <2>1. ASSUME NEW i \in Listers, i # l PROVE Truncating(i)'
    <3>1. Limit' = Limit /\ lister'[i] = lister[i] /\ seen'[i] = seen[i] /\ before'[i] = before[i]
      BY <1>1, <2>1 DEF IInv, TypeOK
    <3> QED  BY <1>2, <2>1, <3>1, OthersKeep
  <2>2. Truncating(l)'
    BY <1>1 DEF IInv, TypeOK, Truncating
  <2> QED  BY <2>1, <2>2 DEF AllTruncating
<1> QED  BY <1>3, <1>4, <1>5, <1>6 DEF IInv

----------------------------------------------------------------------------
(* Truncation                                                               *)

(* A set of naturals has a least element.                                   *)
LEMMA LeastIs ==
  ASSUME NEW S \in SUBSET Nat, S # {}
  PROVE  \E m \in S : \A k \in S : m <= k
<1> DEFINE R == {ss \in Nat \X Nat : ss[1] < ss[2]}
<1>1. OpToRel(<, Nat) = R
  BY DEF OpToRel
<1>2. IsWellFoundedOn(R, Nat)
  BY <1>1, NatLessThanWellFounded
<1>3. PICK x \in S : \A y \in S : ~ (<<y, x>> \in R)
  <2> HIDE DEF R
  <2> QED BY <1>2, WFMin
<1>4. ASSUME NEW y \in S PROVE x <= y
  <2>1. <<y, x>> \in Nat \X Nat /\ <<y, x>>[1] = y /\ <<y, x>>[2] = x
    OBVIOUS
  <2>2. ~ (y < x)
    BY <1>3, <2>1
  <2> QED  BY <2>2
<1> QED  BY <1>4

LEMMA OneToThree == IsFiniteSet(1..3) /\ Cardinality(1..3) = 3
<1>1. 1 \in Int /\ 3 \in Int /\ ~(1 > 3) /\ 3 - 1 + 1 = 3
  OBVIOUS
<1>2. Cardinality(1..3) = IF 1 > 3 THEN 0 ELSE 3 - 1 + 1
  BY <1>1, FS_Interval
<1>3. IsFiniteSet(1..3)
  BY <1>1, FS_Interval
<1> QED  BY <1>1, <1>2, <1>3

(* A job has an entry for every time it was read, which is three at most.   *)
LEMMA EntriesAre ==
  ASSUME NEW s \in [Jobs -> 0..3]
  PROVE  /\ IsFiniteSet(Entries(s)) /\ Entries(s) \subseteq Jobs \X (1..3)
         /\ \A e \in Entries(s) : s[e[1]] > 0
         /\ \A j \in Jobs : s[j] > 0 => <<j, 1>> \in Entries(s)
<1>1. ASSUME NEW e \in Entries(s) PROVE e \in Jobs \X (1..3) /\ s[e[1]] > 0
  <2>1. PICK j \in Jobs : e \in {j} \X (1..s[j])
    BY DEF Entries
  <2>2. s[j] \in 0..3
    OBVIOUS
  <2>3. e[1] = j /\ e[2] \in 1..s[j] /\ e = <<e[1], e[2]>>
    BY <2>1
  <2> QED  BY <2>2, <2>3
<1>2. ASSUME NEW j \in Jobs, s[j] > 0 PROVE <<j, 1>> \in Entries(s)
  <2>1. s[j] \in 0..3
    OBVIOUS
  <2>2. <<j, 1>> \in {j} \X (1..s[j])
    BY <1>2, <2>1
  <2> QED  BY <2>2 DEF Entries
<1>3. IsFiniteSet(Jobs \X (1..3))
  BY JobsAssumption, OneToThree, FS_Product
<1>4. IsFiniteSet(Entries(s))
  BY <1>1, <1>3, FS_Subset
<1> QED  BY <1>1, <1>2, <1>4

(* What is beyond the limit: no more entries than were read, and none only  *)
(* if there are no more than Limit down to that job.                        *)
LEMMA BeyondIs ==
  ASSUME NEW s \in [Jobs -> 0..3], NEW j \in Jobs, s[j] > 0 => j \in Enqueued,
         Limit \in Nat
  PROVE  /\ BeyondLimit(s)[j] \in 0..3
         /\ BeyondLimit(s)[j] > 0 => s[j] > 0 /\ EntriesDownTo(s, j) > Limit
         /\ BeyondLimit(s)[j] = 0 => s[j] = 0 \/ ~(EntriesDownTo(s, j) > Limit)
<1> DEFINE c == EntriesDownTo(s, j)
           n == c - Limit
<1>1. c \in Nat
  <2>1. IsFiniteSet(Entries(s))
    BY EntriesAre
  <2> DEFINE D == {e \in Entries(s) : Position(e[1]) >= Position(j)}
  <2>2. IsFiniteSet(D)
    BY <2>1, FS_Subset
  <2>3. c = Cardinality(D)
    BY DEF EntriesDownTo
  <2> QED  BY <2>2, <2>3, FS_CardinalityType
<1>2. BeyondLimit(s)[j] = IF s[j] = 0 \/ n <= 0 THEN 0 ELSE IF n > s[j] THEN s[j] ELSE n
  BY DEF BeyondLimit
<1> HIDE DEF c
<1>3. s[j] \in 0..3 /\ n \in Int
  BY <1>1
<1> QED  BY <1>1, <1>2, <1>3 DEF c

(* A job with an entry beyond the limit has so many newer ones that, read   *)
(* three times each, they exceed it.                                        *)
LEMMA BeyondIsOld ==
  ASSUME IInv, NEW l \in Listers, NEW j \in Jobs, EntriesDownTo(seen[l], j) > Limit
  PROVE  3 * Cardinality(NewerThan(j)) > Limit
<1> DEFINE s == seen[l]
           D == {e \in Entries(s) : Position(e[1]) >= Position(j)}
           N == NewerThan(j)
<1>1. s \in [Jobs -> 0..3] /\ Limit \in Nat
  BY LimitsAssumption DEF IInv, TypeOK
<1>2. IsFiniteSet(N) /\ Cardinality(N) \in Nat
  <2>1. N \in SUBSET Jobs
    BY DEF Enqueued, NewerThan
  <2> QED  BY <2>1, JobsAssumption, FS_Subset, FS_CardinalityType
<1>3. IsFiniteSet(N \X (1..3)) /\ Cardinality(N \X (1..3)) = Cardinality(N) * 3
  <2> HIDE DEF N
  <2> QED  BY <1>2, OneToThree, FS_Product
<1>4. ASSUME NEW e \in D PROVE e \in N \X (1..3)
  <2>1. e \in Jobs \X (1..3) /\ s[e[1]] > 0 /\ Position(e[1]) >= Position(j)
    BY <1>1, EntriesAre
  <2>2. e[1] \in Jobs /\ e[2] \in 1..3 /\ e = <<e[1], e[2]>>
    BY <2>1
  <2>3. e[1] \in Enqueued
    BY <2>1, <2>2 DEF IInv, ReadAtMost
  <2> QED  BY <2>1, <2>2, <2>3 DEF NewerThan
<1>5. Cardinality(D) <= Cardinality(N) * 3 /\ Cardinality(D) \in Nat
  <2>1. D \in SUBSET (N \X (1..3))
    <3> HIDE DEF D, N
    <3> QED  BY <1>4
  <2> HIDE DEF D, N
  <2> QED  BY <1>3, <2>1, FS_Subset, FS_CardinalityType
<1>6. Cardinality(D) > Limit
  BY DEF EntriesDownTo
<1> HIDE DEF D, N
<1>7. 3 * Cardinality(N) > Limit
  BY <1>1, <1>2, <1>5, <1>6
<1> QED  BY <1>7 DEF N

(* Jobs that were all read, none of them beyond the limit, are no more than *)
(* Limit: the oldest of them has an entry of each down to it.               *)
LEMMA WithinLimit ==
  ASSUME order \in Seq(Jobs), Limit \in Nat, NEW s \in [Jobs -> 0..3],
         NEW K \in SUBSET Jobs,
         \A j \in K : j \in Enqueued /\ s[j] > 0 /\ ~(EntriesDownTo(s, j) > Limit)
  PROVE  Cardinality(K) <= Limit
<1>1. IsFiniteSet(K) /\ Cardinality(K) \in Nat
  BY JobsAssumption, FS_Subset, FS_CardinalityType
<1>2. ASSUME K = {} PROVE Cardinality(K) <= Limit
  <2>1. Cardinality(K) = 0
    BY <1>2, FS_EmptySet
  <2> QED  BY <2>1
<1>3. ASSUME K # {} PROVE Cardinality(K) <= Limit
  <2> DEFINE P == {Position(k) : k \in K}
  <2>1. P \in SUBSET Nat /\ P # {}
    BY <1>3, PositionIs
  <2>2. PICK m \in P : \A n \in P : m <= n
    <3> HIDE DEF P
    <3> QED  BY <2>1, LeastIs
  <2>3. PICK j \in K : \A k \in K : Position(j) <= Position(k)
    BY <2>2
  <2> HIDE DEF P
  <2> DEFINE D == {e \in Entries(s) : Position(e[1]) >= Position(j)}
  <2>4. ASSUME NEW e \in K \X {1} PROVE e \in D
    <3>1. PICK k \in K : e = <<k, 1>>
      OBVIOUS
    <3>2. k \in Jobs /\ s[k] > 0 /\ k \in Enqueued /\ j \in Enqueued
      OBVIOUS
    <3>3. Position(k) >= Position(j)
      <4>1. Position(k) \in Nat /\ Position(j) \in Nat /\ Position(j) <= Position(k)
        BY <2>3, <3>2, PositionIs
      <4> QED  BY <4>1
    <3>4. e \in Entries(s) /\ e[1] = k
      BY <3>1, <3>2, EntriesAre
    <3> QED  BY <3>3, <3>4
  <2>5. IsFiniteSet(D) /\ Cardinality(D) \in Nat
    <3>1. IsFiniteSet(Entries(s))
      BY EntriesAre
    <3> QED  BY <3>1, FS_Subset, FS_CardinalityType
  <2>6. Cardinality(K \X {1}) = Cardinality(K)
    <3>1. IsFiniteSet({1}) /\ Cardinality({1}) = 1
      BY FS_Singleton
    <3>2. Cardinality(K \X {1}) = Cardinality(K) * 1
      BY <1>1, <3>1, FS_Product
    <3> QED  BY <1>1, <3>2
  <2>7. Cardinality(K \X {1}) <= Cardinality(D)
    <3> HIDE DEF D
    <3>1. K \X {1} \in SUBSET D
      BY <2>4
    <3> QED  BY <2>5, <3>1, FS_Subset
  <2>8. ~(Cardinality(D) > Limit)
    BY DEF EntriesDownTo
  <2> HIDE DEF D
  <2>9. Cardinality(K) <= Cardinality(D)
    BY <2>6, <2>7
  <2> QED  BY <1>1, <2>5, <2>8, <2>9
<1> QED  BY <1>2, <1>3

(* The entries beyond the limit are put aside.                              *)
LEMMA BeginKeeps ==
  ASSUME IInv, NEW l \in Listers, BeginTruncation(l) PROVE IInv'
<1> DEFINE s == seen[l]
<1>1. /\ lister[l] = "listed" /\ UNCHANGED <<Limit, registry>>
      /\ lister' = [lister EXCEPT ![l] = "truncating"]
      /\ seen' = [seen EXCEPT ![l] = BeyondLimit(s)]
      /\ before' = [before EXCEPT ![l] = before[l] \cap Ended]
  BY DEF BeginTruncation
<1>2. Moved /\ Enqueued' = Enqueued /\ Ended' = Ended
  BY <1>1, StayMoves DEF IInv
<1>3. /\ s \in [Jobs -> 0..3] /\ order \in Seq(Jobs) /\ Limit \in Nat
      /\ before[l] \subseteq Jobs
      /\ \A j \in Jobs : s[j] > 0 => j \in Enqueued
  BY LimitsAssumption DEF IInv, TypeOK, ReadAtMost
<1>4. ASSUME NEW j \in Jobs
      PROVE  /\ BeyondLimit(s)[j] \in 0..3
             /\ BeyondLimit(s)[j] > 0 => s[j] > 0 /\ EntriesDownTo(s, j) > Limit
             /\ BeyondLimit(s)[j] = 0 => s[j] = 0 \/ ~(EntriesDownTo(s, j) > Limit)
  BY <1>3, BeyondIs
<1>5. BeyondLimit(s) \in [Jobs -> 0..3]
  <2>1. BeyondLimit(s) = [j \in Jobs |-> BeyondLimit(s)[j]]
    BY DEF BeyondLimit
  <2> QED  BY <1>4, <2>1
<1>6. /\ seen'[l] = BeyondLimit(s) /\ lister'[l] = "truncating"
      /\ before'[l] = before[l] \cap Ended
      /\ seen' \in [Listers -> [Jobs -> 0..3]]
  BY <1>1, <1>5 DEF IInv, TypeOK
<1> HIDE DEF s
<1>7. TypeOK' /\ OnceEnqueued' /\ Distinct'
  BY <1>1, <1>2, <1>6 DEF IInv, TypeOK, OnceEnqueued, registry, Moved
<1>8. ReadAtMost'
  BY <1>1, <1>2, <1>3, <1>4, <1>6 DEF IInv, TypeOK, ReadAtMost, registry
<1>9. UnreadIsAhead'
  BY <1>1, <1>2, <1>6 DEF IInv, TypeOK, UnreadIsAhead, registry
<1>10. ASSUME NEW j \in Jobs, seen'[l][j] > 0 PROVE 3 * Cardinality(NewerThan(j)') > Limit
  <2>1. EntriesDownTo(seen[l], j) > Limit
    BY <1>4, <1>6, <1>10 DEF s
  <2>2. 3 * Cardinality(NewerThan(j)) > Limit
    BY <2>1, BeyondIsOld
  <2>3. NewerThan(j)' = NewerThan(j)
    BY <1>1 DEF NewerThan, Enqueued, Position, registry
  <2> QED  BY <2>2, <2>3
<1>11. Cardinality(Spared(l)') <= Limit
  <2> DEFINE K == Spared(l)'
  <2>1. K = {j \in before[l] \cap Ended : BeyondLimit(s)[j] = 0}
    BY <1>2, <1>6 DEF Spared
  <2>2. ASSUME NEW j \in K
        PROVE  j \in Jobs /\ j \in Enqueued /\ s[j] > 0 /\ ~(EntriesDownTo(s, j) > Limit)
    <3>1. /\ j \in before[l] /\ j \in Jobs /\ rq[j] \in Terminal
          /\ BeyondLimit(s)[j] = 0
      BY <1>3, <2>1 DEF Ended
    <3>2. j \in Enqueued /\ (s[j] = 0 => rq[j] = "absent")
      BY <1>1, <3>1 DEF IInv, UnreadIsAhead, s
    <3>3. s[j] # 0 /\ s[j] \in 0..3
      BY <1>3, <3>1, <3>2 DEF Terminal
    <3>4. s[j] > 0
      BY <3>3
    <3> QED  BY <1>4, <3>1, <3>2, <3>3, <3>4
  <2> HIDE DEF K
  <2>3. K \in SUBSET Jobs
    BY <2>2
  <2>4. Cardinality(K) <= Limit
    BY <1>3, <2>2, <2>3, WithinLimit
  <2> QED  BY <2>4 DEF K
<1>12. \A j \in before'[l] : rq'[j] \in Terminal \cup {"absent"}
  BY <1>1, <1>6 DEF Ended, registry
<1>13. AllTruncating'
  <2>1. ASSUME NEW i \in Listers, i # l PROVE Truncating(i)'
    <3>1. Limit' = Limit /\ lister'[i] = lister[i] /\ seen'[i] = seen[i] /\ before'[i] = before[i]
      BY <1>1, <2>1 DEF IInv, TypeOK
    <3> QED  BY <1>2, <2>1, <3>1, OthersKeep
  <2>2. Truncating(l)'
    <3>1. \A j \in Left(l)' : j \in Jobs /\ seen'[l][j] > 0
      BY DEF Left
    <3> HIDE DEF Left
    <3> QED  BY <1>1, <1>10, <1>11, <1>12, <3>1 DEF Truncating
  <2> QED  BY <2>1, <2>2 DEF AllTruncating
<1> QED  BY <1>7, <1>8, <1>9, <1>13 DEF IInv

(* One entry is looked at, and its job deleted if it has ended.             *)
LEMMA NextKeeps ==
  ASSUME IInv, NEW l \in Listers, TruncateNext(l) PROVE IInv'
<1>1. PICK j \in Left(l) : /\ seen' = [seen EXCEPT ![l][j] = seen[l][j] - 1]
                           /\ Delete({j} \cap Ended)
  BY DEF TruncateNext
<1>2. /\ lister[l] = "truncating" /\ UNCHANGED <<Limit, lister, before>>
      /\ j \in Jobs /\ seen[l][j] \in 1..3
  <2>1. j \in Jobs /\ seen[l][j] > 0
    BY <1>1 DEF Left
  <2>2. seen[l][j] \in 0..3
    BY <2>1 DEF IInv, TypeOK
  <2> QED  BY <2>1, <2>2 DEF TruncateNext
<1>3. Moved /\ Enqueued' = Enqueued
  BY <1>1, DeleteMoves DEF IInv
<1>4. /\ \A i \in Listers : i # l => seen'[i] = seen[i]
      /\ \A i \in Jobs : i # j => seen'[l][i] = seen[l][i]
      /\ seen'[l][j] = seen[l][j] - 1
      /\ seen' \in [Listers -> [Jobs -> 0..3]]
  BY <1>1, <1>2 DEF IInv, TypeOK
<1>5. rq'[j] \notin Terminal
  <2>1. rq'[j] = IF j \in {j} \cap Ended THEN "absent" ELSE rq[j]
    BY <1>1, <1>2 DEF Delete
  <2>2. j \in Ended <=> rq[j] \in Terminal
    BY <1>2 DEF Ended
  <2> QED  BY <2>1, <2>2 DEF Terminal
<1>6. TypeOK' /\ OnceEnqueued' /\ Distinct'
  BY <1>2, <1>3, <1>4 DEF IInv, TypeOK, OnceEnqueued, Moved, OneMove
<1>7. ReadAtMost'
  <2> SUFFICES ASSUME NEW m \in Listers, NEW i \in Jobs
               PROVE  /\ lister[m] = "idle" => seen'[m][i] = 0
                      /\ lister[m] = "started" => seen'[m][i] <= 1
                      /\ lister[m] = "finished" => seen'[m][i] <= 2
                      /\ lister[m] = "failed" /\ seen'[m][i] = 3 => rq'[i] \in {"finished", "absent"}
                      /\ seen'[m][i] > 0 => i \in Enqueued
    BY <1>2, <1>3 DEF ReadAtMost
  <2>1. OneMove(i)
    BY <1>3 DEF Moved
  <2>2. seen[m][i] \in 0..3
    BY DEF IInv, TypeOK
  <2>3. CASE m = l
    <3>1. seen'[m][i] \in 0..3 /\ (seen'[m][i] > 0 => seen[m][i] > 0)
      BY <1>2, <1>4, <2>2, <2>3
    <3> QED  BY <1>2, <2>3, <3>1 DEF IInv, ReadAtMost
  <2>4. CASE m # l
    <3>1. seen'[m][i] = seen[m][i]
      BY <1>4, <2>4
    <3> QED  BY <2>1, <2>2, <3>1 DEF IInv, ReadAtMost, OneMove
  <2> QED  BY <2>3, <2>4
<1>8. UnreadIsAhead'
  <2> SUFFICES ASSUME NEW m \in Listers, NEW i \in before[m]
               PROVE  /\ lister[m] # "idle" /\ i \in Enqueued
                      /\ seen'[m][i] = 0 =>
                           /\ lister[m] = "started"  => rq'[i] \in {"started", "finished", "failed", "absent"}
                           /\ lister[m] = "finished" => rq'[i] \in {"finished", "failed", "absent"}
                           /\ lister[m] = "failed"   => rq'[i] \in {"failed", "absent"}
                           /\ lister[m] = "listed"   => rq'[i] = "absent"
    BY <1>2, <1>3 DEF UnreadIsAhead
  <2>1. i \in Jobs /\ i \in Enqueued
    BY DEF IInv, TypeOK, UnreadIsAhead
  <2>2. OneMove(i)
    BY <1>3, <2>1 DEF Moved
  <2> QED  BY <1>2, <1>4, <2>1, <2>2 DEF IInv, UnreadIsAhead, OneMove
<1>9. AllTruncating'
  <2>1. ASSUME NEW i \in Listers, i # l PROVE Truncating(i)'
    BY <1>2, <1>3, <1>4, <2>1, OthersKeep
  <2>2. Truncating(l)'
    <3>1. \A i \in Jobs : seen'[l][i] > 0 => seen[l][i] > 0
      BY <1>2, <1>4
    <3>2. \A i \in Jobs : seen'[l][i] = 0 => seen[l][i] = 0 \/ rq'[i] \notin Terminal
      BY <1>4, <1>5
    <3> QED  BY <1>2, <1>3, <3>1, <3>2, TruncatingKeeps
  <2> QED  BY <2>1, <2>2 DEF AllTruncating
<1> QED  BY <1>3, <1>6, <1>7, <1>8, <1>9 DEF IInv

LEMMA Inductive == Spec => []IInv
<1>1. ASSUME IInv, [Next]_vars PROVE IInv'
  <2> USE <1>1
  <2>a. TypeOK /\ Distinct
    BY DEF IInv
  <2>1. ASSUME NEW j \in Jobs, Advance(j), UNCHANGED <<Limit, listing>> PROVE IInv'
    BY <2>a, <2>1, AdvanceMoves, MovesKeep
  <2>2. ASSUME NEW l \in Listers, ListAnalyses(l) \/ EndTruncation(l) PROVE IInv'
    BY <2>2, ForgetKeeps DEF ListAnalyses, EndTruncation
  <2>3. CASE UNCHANGED vars
    BY <2>a, <2>3, StayMoves, MovesKeep DEF vars
  <2> QED  BY <1>1, <2>1, <2>2, <2>3, ReadKeeps, BeginKeeps, NextKeeps DEF Next
<1> QED  BY InitInv, <1>1, PTL DEF Spec

----------------------------------------------------------------------------
(* Type correctness, and in it that a listing reads a job three times at    *)
(* most, however the job moves between the calls to Redis: what the reader  *)
(* of the newest third of the list relies on.                               *)
THEOREM Types == Spec => []TypeOK
<1>1. IInv => TypeOK
  BY DEF IInv
<1> QED  BY Inductive, <1>1, PTL

(* A listing misses no job that was there when it began and still is when   *)
(* it ends: get_analyses_list reads the registries in the jobs' own order.  *)
THEOREM NothingIsMissed == Spec => []ListMissesNothing
<1>1. IInv => ListMissesNothing
  BY DEF IInv, TypeOK, UnreadIsAhead, ListMissesNothing
<1> QED  BY Inductive, <1>1, PTL

(* A truncation leaves no more than Limit of the jobs that had ended when   *)
(* it began, wherever the others go while it asks for one status after the  *)
(* other, for any number of jobs and requests.                              *)
THEOREM TruncationIsBounded == Spec => []TruncationBounds
<1>1. IInv => TruncationBounds
  <2> SUFFICES ASSUME IInv, NEW l \in Listers, lister[l] = "truncating", Left(l) = {}
               PROVE  Cardinality(before[l] \cap Ended) <= Limit
    BY DEF TruncationBounds
  <2>1. \A j \in Jobs : seen[l][j] = 0
    <3> SUFFICES ASSUME NEW j \in Jobs PROVE seen[l][j] = 0
      OBVIOUS
    <3>1. ~(seen[l][j] > 0) /\ seen[l][j] \in 0..3
      BY DEF Left, IInv, TypeOK
    <3> QED  BY <3>1
  <2>2. Spared(l) = before[l] \cap Ended
    BY <2>1 DEF Spared, Ended
  <2> QED  BY <2>2 DEF IInv, AllTruncating, Truncating
<1> QED  BY Inductive, <1>1, PTL

(* A job that truncation deletes was among so many newer ones that, read    *)
(* three times each, they exceed the limit: however the listings race with  *)
(* the jobs and with each other, the newest third of the list is safe.      *)
THEOREM NewestAreKept == Spec => NewestThirdKept
<1>1. ASSUME IInv, [Next]_vars, NEW j \in Jobs, rq[j] # "absent", rq'[j] = "absent"
      PROVE  3 * Cardinality({i \in Enqueued : Position(i) >= Position(j)}) > Limit
  <2>1. \A i \in Jobs : ~Advance(i)
    BY <1>1 DEF IInv, TypeOK, Advance, Enqueue, Pop, Start, Finish, Fail, Move
  <2>2. PICK l \in Listers : TruncateNext(l)
    BY <1>1, <2>1 DEF Next, ListAnalyses, BeginTruncation, EndTruncation, Forget,
       ReadRegistry, registry, vars
  <2>3. lister[l] = "truncating" /\ j \in Left(l)
    BY <1>1, <2>2 DEF TruncateNext, Delete
  <2>4. 3 * Cardinality(NewerThan(j)) > Limit
    BY <1>1, <2>3 DEF IInv, AllTruncating, Truncating
  <2> QED  BY <2>4 DEF NewerThan
<1>2. IInv /\ [Next]_vars =>
        [\A j \in Jobs : rq[j] # "absent" /\ rq'[j] = "absent" =>
           3 * Cardinality({i \in Enqueued : Position(i) >= Position(j)}) > Limit]_vars
  BY <1>1
<1> QED  BY Inductive, <1>2, PTL DEF Spec, NewestThirdKept
=============================================================================
